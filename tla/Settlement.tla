----------------------------- MODULE Settlement -----------------------------
(***************************************************************************)
(* What the checkout promises about one payment attempt, without sessions, *)
(* answers, locks or retries: the customer's money is taken once, WHMCS is *)
(* credited once and only with money taken in the amount asked for, and an *)
(* attempt is closed only when WHMCS has been credited (ARCHITECTURE.md,   *)
(* section 5b-2) - or has given an answer that the checkout presumes to    *)
(* mean so.                                                                *)
(***************************************************************************)
EXTENDS Naturals

CONSTANT Attempts

VARIABLES
  taken,     \* what the gateway took: nothing, the amount asked, another one
  credited,  \* how often WHMCS was credited
  presumed,  \* attempts presumed to be credited
  closed     \* attempts nobody will look at again

vars == <<taken, credited, presumed, closed>>

Init ==
  /\ taken = [a \in Attempts |-> "nothing"]
  /\ credited = [a \in Attempts |-> 0]
  /\ presumed = {}
  /\ closed = {}

Take(a) ==
  /\ taken[a] = "nothing"
  /\ \E how \in {"asked", "other"} : taken' = [taken EXCEPT ![a] = how]
  /\ UNCHANGED <<credited, presumed, closed>>

Credit(a) ==
  /\ taken[a] = "asked"
  /\ credited[a] = 0
  /\ credited' = [credited EXCEPT ![a] = 1]
  /\ UNCHANGED <<taken, presumed, closed>>

\* Never for an attempt whose money was not taken as asked; Credit may follow.
Presume(a) ==
  /\ taken[a] = "asked"
  /\ presumed' = presumed \cup {a}
  /\ UNCHANGED <<taken, credited, closed>>

Close(a) ==
  /\ credited[a] = 1 \/ a \in presumed
  /\ closed' = closed \cup {a}
  /\ UNCHANGED <<taken, credited, presumed>>

Next == \E a \in Attempts : Take(a) \/ Credit(a) \/ Presume(a) \/ Close(a)

Spec == Init /\ [][Next]_vars
=============================================================================
