------------------------------ MODULE MCCache ------------------------------
(* Small instances of Cache for TLC. *)
EXTENDS Cache, TLC

\* Threads of one kind are interchangeable.
Symmetry ==
  Permutations(Readers) \cup Permutations(Writers) \cup Permutations(Tasks)
=============================================================================
