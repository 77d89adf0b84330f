--------------------------- MODULE MCInvoiceReset ---------------------------
(* Three creations next to the reset scripts.                               *)
EXTENDS InvoiceReset

CONSTANTS r1, r2, r3

MCCreates == {r1, r2, r3}
=============================================================================
