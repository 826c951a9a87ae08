---------------------------- MODULE MCTokenBucket ----------------------------
(* Instances of TokenBucket for TLC.                                        *)
EXTENDS TokenBucket, TLC

\* Callers are interchangeable.
Symmetry == Permutations(Callers)
=============================================================================
