---------------------------- MODULE MCSupervisor ----------------------------
(* Instances of Supervisor for TLC.                                         *)
EXTENDS Supervisor, TLC

\* Handlers, sandbox ids and pids are interchangeable (safety runs only).
Symmetry == Permutations(Clients) \cup Permutations(Ids) \cup Permutations(Pids)
=============================================================================
