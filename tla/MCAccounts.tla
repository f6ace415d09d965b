------------------------------ MODULE MCAccounts ------------------------------
(* Small instances of Accounts for TLC. *)
EXTENDS Accounts, TLC

\* Nothing tells two requests, two clients or two passwords apart.
Symmetry ==
  Permutations(Requests) \cup Permutations(Clients) \cup Permutations(Passwords)
=============================================================================
