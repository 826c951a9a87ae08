---------------------------- MODULE MCTranscripts -----------------------------
(* Transcripts for TLC. *)
EXTENDS Transcripts, TLC

\* Sessions are alike.
Symmetry == Permutations(Sessions)
=============================================================================
