----------------------------- MODULE MCManager -----------------------------
(* Small instances of Manager for TLC. *)
EXTENDS Manager, TLC

\* Apps, handlers and sessions are interchangeable (safety runs only).
Symmetry == Permutations(Apps) \cup Permutations(Handlers) \cup Permutations(Sessions)
=============================================================================
