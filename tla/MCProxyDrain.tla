---------------------------- MODULE MCProxyDrain ----------------------------
(* Constants of the model-checked instance of ProxyDrain.                  *)
EXTENDS ProxyDrain, TLC

CONSTANTS c1, c2, c3

Symmetry == Permutations(Conn)
=============================================================================
