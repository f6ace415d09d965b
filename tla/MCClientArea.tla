---------------------------- MODULE MCClientArea ----------------------------
(* A small instance of ClientArea for TLC. *)
EXTENDS ClientArea, TLC

\* Two products of one group, and one of another.
CONSTANTS small, large, server

OnSale == [p \in {small, large, server} |-> IF p = server THEN "servers" ELSE "hosting"]

\* The two products of the one group are interchangeable, and so are requests.
Symmetry == Permutations(Requests) \cup Permutations({small, large})
=============================================================================
