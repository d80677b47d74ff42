--------------------------- MODULE MCAuthSessions ---------------------------
(* Instances of AuthSessions for TLC.                                      *)
EXTENDS AuthSessions, TLC

CONSTANTS u1, u2, e1, e2, n1, h1, h2

\* Two spellings of one e-mail.
Spellings == [e \in Emails |-> e1]

\* Row ids and request slots are interchangeable.
Symmetry == Permutations(Users) \cup Permutations(Tenants) \cup Permutations(Handlers)
=============================================================================
