----------------------------- MODULE MCWebPages -----------------------------
(* Two units: enough for a second deduction of i1, too few for both.        *)
(* Two codes to type, so that an answer can meet the other one.             *)
EXTENDS WebPages, TLC

CONSTANTS i1, i2, k1, k2, p1, p2, product, a, b

MCCodes == {product}
MCInvoices == {i1, i2}
MCKeys == {k1, k2}
MCPrints == {p1, p2}
MCNeed == [i \in Invoices |-> [c \in MCCodes |-> IF i = i1 THEN 1 ELSE 2]]
MCStock == [c \in MCCodes |-> 2]
MCRequests == [inv : Invoices, key : Keys]
MCFaults == {"net"}
MCTyped == {a, b}
MCSymmetry == Permutations(Prints) \cup Permutations(Keys) \cup Permutations(TypedCodes)
=============================================================================
