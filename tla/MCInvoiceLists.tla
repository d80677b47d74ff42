--------------------------- MODULE MCInvoiceLists ---------------------------
(* Instances of InvoiceLists for TLC.                                      *)
EXTENDS InvoiceLists

CONSTANTS c1, c2, p1, r1
=============================================================================
