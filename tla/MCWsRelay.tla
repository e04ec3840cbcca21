------------------------------ MODULE MCWsRelay ------------------------------
(* Constants of the model-checked instances of WsRelay.                    *)
EXTENDS WsRelay, TLC

CONSTANTS c1, c2, w1, w2

OneConnection  == {c1}
TwoConnections == {c1, c2}
OneWorker  == {w1}
TwoWorkers == {w1, w2}

Symmetry == Permutations(Conn) \cup Permutations(Worker)
=============================================================================
