---------------------------- MODULE CachedReads ----------------------------
(***************************************************************************)
(* What apps/core/cache.py promises to the views, without versions,        *)
(* entries, locks or background refreshes: a read is answered with data as *)
(* it was at some moment, and while the cache keeps the namespace's        *)
(* counter that moment is not before the last invalidation that had        *)
(* returned when the read began.                                           *)
(***************************************************************************)
EXTENDS Naturals

CONSTANT Readers

VARIABLES
  data,      \* how often the data has changed
  settled,   \* the latest change that everybody must see from now on
  kept,      \* the cache has not lost its counter
  read       \* each reader: outside, reading since when, or answered with what

vars == <<data, settled, kept, read>>

Outside == [at |-> "out", since |-> 0, value |-> 0]

Init ==
  /\ data = 0
  /\ settled = 0
  /\ kept \in BOOLEAN
  /\ read = [r \in Readers |-> Outside]

Change ==
  /\ data' = data + 1
  /\ UNCHANGED <<settled, kept, read>>

\* An invalidation returns; it concerns a change that has happened.
Settle ==
  /\ settled' \in settled .. data
  /\ UNCHANGED <<data, kept, read>>

Lose ==
  /\ kept' = FALSE
  /\ UNCHANGED <<data, settled, read>>

Begin(r) ==
  /\ read[r].at # "reading"
  /\ read' = [read EXCEPT ![r] = [at |-> "reading", since |-> settled, value |-> 0]]
  /\ UNCHANGED <<data, settled, kept>>

\* The moments that an answer may show, if the read began at `since`.
Answers(since) == (IF kept THEN since ELSE 0) .. data

Answer(r) ==
  /\ read[r].at = "reading"
  /\ \E v \in Answers(read[r].since) :
       read' = [read EXCEPT ![r] = [at |-> "answered", since |-> @.since, value |-> v]]
  /\ UNCHANGED <<data, settled, kept>>

Fail(r) ==
  /\ read[r].at = "reading"
  /\ read' = [read EXCEPT ![r] = Outside]
  /\ UNCHANGED <<data, settled, kept>>

Next ==
  \/ Change \/ Settle \/ Lose
  \/ \E r \in Readers : Begin(r) \/ Answer(r) \/ Fail(r)

Spec == Init /\ [][Next]_vars
=============================================================================
