-------------------------- MODULE MCVersionedCache --------------------------
(* Instances of VersionedCache for TLC.                                    *)
EXTENDS VersionedCache, TLC

CONSTANTS h1, h2

\* Request slots are interchangeable.
Symmetry == Permutations(Handlers)
=============================================================================
