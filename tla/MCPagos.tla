------------------------------- MODULE MCPagos -------------------------------
(* Small instances of Pagos: payments p1, p2 of 1 and 2 cents.             *)
EXTENDS Pagos, TLC

CONSTANTS p1, p2, s1, s2, w1, w2

UnoYDos  == [p \in Pagos |-> IF p = p1 THEN 1 ELSE 2]
Ajustes  == {<<0, 1>>, <<2, 0>>, <<1, 1>>, <<0, 0>>}
Ninguno  == {}
Symmetry == Permutations(Workers)
=============================================================================
