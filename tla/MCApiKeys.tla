----------------------------- MODULE MCApiKeys -----------------------------
(* Instances of ApiKeys for TLC.                                           *)
EXTENDS ApiKeys

CONSTANTS k1, k2, n1, d1, h1, h2
=============================================================================
