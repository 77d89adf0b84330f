------------------------ MODULE MCInvoiceNumbering ------------------------
(* Four creations compete for the counter row.                             *)
EXTENDS InvoiceNumbering

CONSTANTS r1, r2, r3, r4

MCCreates == {r1, r2, r3, r4}
=============================================================================
