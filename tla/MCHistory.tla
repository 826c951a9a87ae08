------------------------------ MODULE MCHistory -------------------------------
(* History for TLC. *)
EXTENDS History

\* Requests are alike, and so are users.
Symmetry == Permutations(Requests) \cup Permutations(Users)
=============================================================================
