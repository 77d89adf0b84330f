----------------------------- MODULE MCStockTx -----------------------------
(* StockTx over two products: opposite lock orders, a repeated product, a   *)
(* bad quantity behind a valid item, of another product and of the same     *)
(* one, an unknown product and an empty body.                               *)
EXTENDS StockTx

CONSTANTS a, b, r1, r2

One(c) == [code |-> c, qty |-> 1]

MCCodes == {a, b}
MCReqs == {r1, r2}
MCLists == { <<>>,
             <<One(a), One(b)>>,
             <<One(b), One(a)>>,
             <<One(a), One(a)>>,
             <<One(a), [code |-> b, qty |-> 0]>>,
             <<One(a), [code |-> b, qty |-> -1]>>,
             <<One(a), [code |-> a, qty |-> -1]>> }
=============================================================================
