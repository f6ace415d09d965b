----------------------------- MODULE MCPayments -----------------------------
(* Small instances of Payments for TLC. *)
EXTENDS Payments, TLC

\* Attempts, browsers and invoices are interchangeable: Init and Next treat the
\* members of each set alike.  Used by the safety runs only.
Symmetry ==
  Permutations(Attempts) \cup Permutations(Browsers) \cup Permutations(Invoices)
=============================================================================
