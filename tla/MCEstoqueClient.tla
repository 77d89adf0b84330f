-------------------------- MODULE MCEstoqueClient --------------------------
(* Three handlers share the breaker.                                        *)
EXTENDS EstoqueClient

CONSTANTS c1, c2, c3

MCCalls == {c1, c2, c3}
=============================================================================
