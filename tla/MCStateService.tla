--------------------------- MODULE MCStateService ---------------------------
(* Constants of the model-checked instance of StateService: two callers of *)
(* Redis, and two publishers: a worker and a pump that outlives it.        *)
EXTENDS StateService, TLC

CONSTANTS u1, u2, p1, p2, c1, c2, c3
=============================================================================
