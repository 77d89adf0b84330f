---------------------------- MODULE MCPrintFlow ----------------------------
(* PrintFlow over one product.  Two units are enough for a second deduction  *)
(* of i1, and too few for both invoices.                                    *)
EXTENDS PrintFlow, TLC

CONSTANTS i1, i2, k1, k2, p1, p2, product

MCCodes == {product}
MCTwoInvoices == {i1, i2}
MCOneInvoice == {i1}
MCKeys == {k1, k2}
MCTwoPrints == {p1, p2}
MCNeed == [i \in Invoices |-> [c \in MCCodes |-> IF i = i1 THEN 1 ELSE 2]]
MCStockOne == [c \in MCCodes |-> 1]
MCStockTwo == [c \in MCCodes |-> 2]

\* One key per invoice, a print without a key, and an unknown id.
MCRequests == { [inv |-> i1, key |-> k1],
                [inv |-> i2, key |-> k2],
                [inv |-> i1, key |-> NoKey],
                [inv |-> UnknownId, key |-> NoKey] }
MCSameKey == { [inv |-> i1, key |-> k1] }

MCNoFaults == {}
MCNetOnly == {"net"}
MCNetAndTimeout == {"net", "timeout"}
MCAllFaults == AllFaults
MCSymmetry == Permutations(Prints)
=============================================================================
