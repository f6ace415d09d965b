---------------------------- MODULE WorkerProofs ----------------------------
(* Proofs about Worker, for any number of threads, sections and refreshers. *)
EXTENDS Worker, FiniteSetTheorems, TLAPS

USE WorkerAssumption

Inv == TypeOK /\ CallInv /\ PageInv

\* The three kinds of callers are different ones.
LEMMA JobsDiffer ==
  /\ \A t \in Threads, u \in Threads : Own(t) = Own(u) => t = u
  /\ \A t \in Threads, u \in Threads, s \in Sections : Own(t) # OfSection(u, s)
  /\ \A t \in Threads, r \in Refreshers : Own(t) # OfRefresher(r)
  /\ \A t \in Threads, s \in Sections, r \in Refreshers : OfSection(t, s) # OfRefresher(r)
  /\ \A t \in Threads, u \in Threads, s \in Sections, z \in Sections :
       OfSection(t, s) = OfSection(u, z) => t = u /\ s = z
  BY DEF Own, OfSection, OfRefresher

LEMMA JobsType ==
  /\ \A t \in Threads : Own(t) \in Jobs
  /\ \A t \in Threads, s \in Sections :
       /\ OfSection(t, s) \in Jobs /\ OfSection(t, s) \in SectionJobs
       /\ OfSection(t, s).by = t /\ OfSection(t, s).for = s
  /\ \A r \in Refreshers : OfRefresher(r) \in Jobs
  /\ \A t \in Threads : Own(t) \notin SectionJobs
  /\ \A r \in Refreshers : OfRefresher(r) \notin SectionJobs
<1>1. \A t \in Threads, s \in Sections : OfSection(t, s) \in SectionJobs
  BY DEF SectionJobs
<1>2. \A t \in Threads, s \in Sections : OfSection(t, s).by = t /\ OfSection(t, s).for = s
  BY DEF OfSection
<1>3. \A t \in Threads : Own(t) \in OwnJobs
  BY DEF OwnJobs
<1>4. \A r \in Refreshers : OfRefresher(r) \in RefreshJobs
  BY DEF RefreshJobs
<1>5. \A t \in Threads : Own(t) \notin SectionJobs
  BY JobsDiffer DEF SectionJobs
<1>6. \A r \in Refreshers : OfRefresher(r) \notin SectionJobs
  BY JobsDiffer DEF SectionJobs
<1> QED BY <1>1, <1>2, <1>3, <1>4, <1>5, <1>6 DEF Jobs

\* The calls that the requests begin, and forget, have the right type.
LEMMA CallsType ==
  {Idle, Begun, Hit} \subseteq
    [at : {"idle", "connect", "wait", "data", "failed"}, attempt : 0 .. MaxRetries]
<1>1. 0 \in 0 .. MaxRetries
  OBVIOUS
<1> QED BY <1>1 DEF Idle, Begun, Hit

\* A thread about to serve has a record of the right type.
LEMMA ServeType ==
  \A kind, at : /\ Serve(kind, at).at = at /\ Serve(kind, at).kind = kind
                /\ Serve(kind, at).late = FALSE
                /\ Serve(kind, at).results \in [Sections -> {"none", "data", "failed"}]
<1>1. \A kind, at : /\ Serve(kind, at).at = at /\ Serve(kind, at).kind = kind
                    /\ Serve(kind, at).late = FALSE
                    /\ Serve(kind, at).results = [s \in Sections |-> "none"]
  BY Zenon DEF Serve
<1>2. [s \in Sections |-> "none"] \in [Sections -> {"none", "data", "failed"}]
  OBVIOUS
<1> QED BY <1>1, <1>2

LEMMA InitInv == Init => Inv
<1> SUFFICES ASSUME Init PROVE Inv
  OBVIOUS
<1>1. Free.at = "answered" /\ Free.kind = "call"
  BY ServeType DEF Free
<1>2. TypeOK
  BY DEF Init, TypeOK, Free, Serve, Idle
<1>3. CallInv
  BY <1>1, JobsType DEF Init, CallInv, Active, Idle
<1>4. PageInv
  BY <1>1 DEF Init, PageInv
<1> QED BY <1>2, <1>3, <1>4 DEF Inv

-----------------------------------------------------------------------------

\* What a step of a call does: one active call moves, and it stays or ends.
LEMMA ProgressStep ==
  ASSUME TypeOK, NEW j \in Jobs, Progress(j)
  PROVE  /\ Active(j)
         /\ thread' = thread
         /\ \E new \in [at : {"idle", "connect", "wait", "data", "failed"}, attempt : 0 .. MaxRetries] :
              job' = [job EXCEPT ![j] = new]
<1>1. /\ job[j] \in [at : {"idle", "connect", "wait", "data", "failed"}, attempt : 0 .. MaxRetries]
      /\ job \in [Jobs -> [at : {"idle", "connect", "wait", "data", "failed"}, attempt : 0 .. MaxRetries]]
  BY DEF TypeOK
<1>2. Active(j) /\ thread' = thread
  BY DEF Progress, Connect, PoolTimeout, Returns, Fails, Active
<1>3. \A at \in {"data", "failed"} :
        Ended(j, at) \in [at : {"idle", "connect", "wait", "data", "failed"}, attempt : 0 .. MaxRetries]
  BY DEF Ended, Idle
<1>4. Fail(j) => \E new \in [at : {"idle", "connect", "wait", "data", "failed"}, attempt : 0 .. MaxRetries] :
                   job' = [job EXCEPT ![j] = new]
  BY <1>1, <1>3 DEF Fail
<1>5. CASE Connect(j)
  <2>1. job' = [job EXCEPT ![j] = [job[j] EXCEPT !.at = "wait"]]
    BY <1>5 DEF Connect
  <2> QED BY <1>1, <1>2, <2>1
<1>6. CASE PoolTimeout(j)
  BY <1>2, <1>4, <1>6 DEF PoolTimeout
<1>7. CASE Returns(j)
  BY <1>2, <1>3, <1>7 DEF Returns
<1>8. CASE Fails(j)
  BY <1>2, <1>4, <1>8 DEF Fails
<1> QED BY <1>5, <1>6, <1>7, <1>8 DEF Progress

LEMMA ProgressInv == ASSUME Inv, NEW j \in Jobs, Progress(j) PROVE Inv'
<1>1. PICK new \in [at : {"idle", "connect", "wait", "data", "failed"}, attempt : 0 .. MaxRetries] :
        job' = [job EXCEPT ![j] = new]
  BY ProgressStep DEF Inv
<1>2. Active(j) /\ thread' = thread
  BY ProgressStep DEF Inv
<1>3. TypeOK'
  BY <1>1, <1>2 DEF Inv, TypeOK
<1>4. \A i \in Jobs : ~Active(i) => ~Active(i)'
  BY <1>1, <1>2 DEF Inv, TypeOK, Active
<1>5. CallInv'
  BY <1>2, <1>4, JobsType DEF Inv, CallInv
<1>6. PageInv'
  BY <1>2 DEF Inv, PageInv, Collected
<1> QED BY <1>3, <1>5, <1>6 DEF Inv

LEMMA PageStart == ASSUME Inv, NEW t \in Threads, Page(t) PROVE Inv'
<1>1. /\ thread' = [thread EXCEPT ![t] = Serve("page", "collect")]
      /\ thread \in [Threads -> [kind : {"page", "call"}, at : {"collect", "leave", "call", "answered"},
                                 results : [Sections -> {"none", "data", "failed"}], late : BOOLEAN]]
  BY DEF Page, Inv, TypeOK
<1>2. Serve("page", "collect") \in [kind : {"page", "call"}, at : {"collect", "leave", "call", "answered"},
                                    results : [Sections -> {"none", "data", "failed"}], late : BOOLEAN]
  BY DEF Serve
<1>3. PICK hits \in SUBSET Sections :
        job' = [j \in Jobs |-> IF j \in SectionJobs /\ j.by = t
                                 THEN IF j.for \in hits THEN Hit ELSE Begun
                                 ELSE job[j]]
  BY DEF Page
<1>4. TypeOK'
  BY <1>1, <1>2, <1>3 DEF Inv, TypeOK, Hit, Begun
<1>5. /\ thread'[t].at = "collect"
      /\ \A u \in Threads \ {t} : thread'[u] = thread[u]
  BY <1>1, ServeType
<1>6. /\ \A u \in Threads : Active(Own(u))' <=> Active(Own(u))
      /\ \A u \in Threads \ {t}, s \in Sections : Active(OfSection(u, s))' <=> Active(OfSection(u, s))
  BY <1>3, JobsType DEF Active
<1>7. thread[t].at = "answered"
  BY DEF Page
<1>8. CallInv'
  BY <1>5, <1>6, <1>7 DEF Inv, CallInv
<1>9. PageInv'
  BY <1>5 DEF Inv, PageInv, Collected
<1> QED BY <1>4, <1>8, <1>9 DEF Inv

LEMMA CollectInv ==
  ASSUME Inv, NEW t \in Threads, NEW s \in Sections, Collect(t, s) PROVE Inv'
<1> DEFINE results == [thread[t].results EXCEPT ![s] = job[OfSection(t, s)].at]
           new == [thread[t] EXCEPT !.results = results,
                                    !.at = IF Collected(results) THEN "leave" ELSE @]
<1>1. /\ thread[t].at = "collect"
      /\ thread' = [thread EXCEPT ![t] = new]
      /\ job' = [job EXCEPT ![OfSection(t, s)] = Idle]
      /\ job[OfSection(t, s)].at \in {"data", "failed"}
  BY DEF Collect
<1>2. results \in [Sections -> {"none", "data", "failed"}]
  BY <1>1 DEF Inv, TypeOK
<1>3. /\ new \in [kind : {"page", "call"}, at : {"collect", "leave", "call", "answered"},
                  results : [Sections -> {"none", "data", "failed"}], late : BOOLEAN]
      /\ new.results = results
      /\ new.at \in {"collect", "leave"}
      /\ new.at = "leave" => Collected(results)
  <2> HIDE DEF results
  <2> QED BY <1>1, <1>2 DEF Inv, TypeOK
<1> HIDE DEF results, new
<1>4. TypeOK'
  BY <1>1, <1>3, CallsType, JobsType DEF Inv, TypeOK
<1>5. \A i \in Jobs : ~Active(i) => ~Active(i)'
  BY <1>1, JobsType DEF Inv, TypeOK, Active, Idle
<1>6. thread'[t] = new /\ \A u \in Threads \ {t} : thread'[u] = thread[u]
  BY <1>1 DEF Inv, TypeOK
<1>7. CallInv'
  BY <1>1, <1>3, <1>5, <1>6, JobsType DEF Inv, CallInv
<1>8. PageInv'
  BY <1>3, <1>6 DEF Inv, PageInv
<1> QED BY <1>4, <1>7, <1>8 DEF Inv

LEMMA GiveUpInv == ASSUME Inv, NEW t \in Threads, GiveUp(t) PROVE Inv'
<1> DEFINE new == [thread[t] EXCEPT !.at = "leave", !.late = TRUE]
<1>1. /\ thread[t].at = "collect"
      /\ thread' = [thread EXCEPT ![t] = new]
      /\ job' = job
  BY DEF GiveUp
<1>2. /\ new \in [kind : {"page", "call"}, at : {"collect", "leave", "call", "answered"},
                  results : [Sections -> {"none", "data", "failed"}], late : BOOLEAN]
      /\ new.at = "leave" /\ new.late
  BY <1>1 DEF Inv, TypeOK
<1> HIDE DEF new
<1>3. TypeOK'
  BY <1>1, <1>2 DEF Inv, TypeOK
<1>4. thread'[t] = new /\ \A u \in Threads \ {t} : thread'[u] = thread[u]
  BY <1>1 DEF Inv, TypeOK
<1>5. CallInv'
  BY <1>1, <1>2, <1>4 DEF Inv, CallInv, Active
<1>6. PageInv'
  BY <1>2, <1>4 DEF Inv, PageInv
<1> QED BY <1>3, <1>5, <1>6 DEF Inv

LEMMA LeaveInv == ASSUME Inv, NEW t \in Threads, Leave(t) PROVE Inv'
<1> DEFINE new == [thread[t] EXCEPT !.at = "answered"]
<1>1. /\ thread[t].at = "leave"
      /\ \A s \in Sections : ~Active(OfSection(t, s))
      /\ thread' = [thread EXCEPT ![t] = new]
      /\ job' = [j \in Jobs |-> IF j \in SectionJobs /\ j.by = t THEN Idle ELSE job[j]]
  BY DEF Leave
<1>2. /\ new \in [kind : {"page", "call"}, at : {"collect", "leave", "call", "answered"},
                  results : [Sections -> {"none", "data", "failed"}], late : BOOLEAN]
      /\ new.at = "answered" /\ new.late = thread[t].late /\ new.results = thread[t].results
  BY <1>1 DEF Inv, TypeOK
<1> HIDE DEF new
<1>3. TypeOK'
  BY <1>1, <1>2, CallsType, JobsType DEF Inv, TypeOK
<1>4. thread'[t] = new /\ \A u \in Threads \ {t} : thread'[u] = thread[u]
  BY <1>1 DEF Inv, TypeOK
<1>5. \A i \in Jobs : ~Active(i) => ~Active(i)'
  BY <1>1 DEF Active, Idle
<1>6. CallInv'
  BY <1>1, <1>2, <1>4, <1>5, JobsType DEF Inv, CallInv
<1>7. PageInv'
  BY <1>1, <1>2, <1>4 DEF Inv, PageInv
<1> QED BY <1>3, <1>6, <1>7 DEF Inv

LEMMA CallStart == ASSUME Inv, NEW t \in Threads, Call(t) PROVE Inv'
<1> DEFINE new == Serve("call", "call")
<1>1. /\ thread[t].at = "answered"
      /\ thread' = [thread EXCEPT ![t] = new]
      /\ job' = [job EXCEPT ![Own(t)] = Begun]
  BY DEF Call
<1>2. /\ new \in [kind : {"page", "call"}, at : {"collect", "leave", "call", "answered"},
                  results : [Sections -> {"none", "data", "failed"}], late : BOOLEAN]
      /\ new.at = "call"
  BY DEF Serve
<1> HIDE DEF new
<1>3. TypeOK'
  BY <1>1, <1>2, CallsType, JobsType DEF Inv, TypeOK
<1>4. thread'[t] = new /\ \A u \in Threads \ {t} : thread'[u] = thread[u]
  BY <1>1 DEF Inv, TypeOK
<1>5. \A i \in Jobs : i # Own(t) => (Active(i)' <=> Active(i))
  BY <1>1, JobsType DEF Inv, TypeOK, Active
<1>6. CallInv'
  <2> SUFFICES ASSUME NEW u \in Threads
               PROVE  /\ thread'[u].at # "call" => ~Active(Own(u))'
                      /\ thread'[u].at \in {"call", "answered"} =>
                           \A s \in Sections : ~Active(OfSection(u, s))'
    BY DEF CallInv
  <2>1. \A s \in Sections : Active(OfSection(u, s))' <=> Active(OfSection(u, s))
    BY <1>5, JobsType, JobsDiffer
  <2>2. CASE u = t
    BY <1>1, <1>2, <1>4, <2>1, <2>2 DEF Inv, CallInv
  <2>3. CASE u # t
    BY <1>4, <1>5, <2>1, <2>3, JobsType, JobsDiffer DEF Inv, CallInv
  <2> QED BY <2>2, <2>3
<1>7. PageInv'
  BY <1>2, <1>4 DEF Inv, PageInv
<1> QED BY <1>3, <1>6, <1>7 DEF Inv

LEMMA AnswerInv == ASSUME Inv, NEW t \in Threads, Answer(t) PROVE Inv'
<1>1. /\ thread[t].at = "call"
      /\ thread' = [thread EXCEPT ![t] = Free]
      /\ job' = [job EXCEPT ![Own(t)] = Idle]
      /\ job[Own(t)].at \in {"data", "failed"}
  BY DEF Answer
<1>2. /\ Free \in [kind : {"page", "call"}, at : {"collect", "leave", "call", "answered"},
                   results : [Sections -> {"none", "data", "failed"}], late : BOOLEAN]
      /\ Free.at = "answered" /\ Free.kind = "call"
  BY DEF Free, Serve
<1>3. TypeOK'
  BY <1>1, <1>2, CallsType, JobsType DEF Inv, TypeOK
<1>4. thread'[t] = Free /\ \A u \in Threads \ {t} : thread'[u] = thread[u]
  BY <1>1 DEF Inv, TypeOK
<1>5. \A i \in Jobs : ~Active(i) => ~Active(i)'
  BY <1>1, JobsType DEF Inv, TypeOK, Active, Idle
<1>6. ~Active(Own(t))
  BY <1>1 DEF Active
<1>7. CallInv'
  BY <1>1, <1>2, <1>4, <1>5, <1>6, JobsType DEF Inv, CallInv
<1>8. PageInv'
  BY <1>2, <1>4 DEF Inv, PageInv
<1> QED BY <1>3, <1>7, <1>8 DEF Inv

LEMMA RefreshInv == ASSUME Inv, NEW r \in Refreshers, Refresh(r) PROVE Inv'
<1>1. thread' = thread /\ job' = [job EXCEPT ![OfRefresher(r)] = Begun]
  BY DEF Refresh
<1>2. TypeOK'
  BY <1>1, CallsType, JobsType DEF Inv, TypeOK
<1>3. \A i \in Jobs : i # OfRefresher(r) => (Active(i)' <=> Active(i))
  BY <1>1, JobsType DEF Inv, TypeOK, Active
<1>4. CallInv'
  BY <1>1, <1>3, JobsType, JobsDiffer DEF Inv, CallInv
<1>5. PageInv'
  BY <1>1 DEF Inv, PageInv, Collected
<1> QED BY <1>2, <1>4, <1>5 DEF Inv

LEMMA StepInv == Inv /\ [Next]_vars => Inv'
<1> SUFFICES ASSUME Inv, [Next]_vars PROVE Inv'
  OBVIOUS
<1>1. ASSUME NEW j \in Jobs, Progress(j) PROVE Inv'
  BY <1>1, ProgressInv
<1>2. ASSUME NEW t \in Threads, Serves(t) PROVE Inv'
  BY <1>2, LeaveInv, AnswerInv, CollectInv DEF Serves
<1>3. ASSUME NEW t \in Threads, GiveUp(t) \/ Page(t) \/ Call(t) PROVE Inv'
  BY <1>3, GiveUpInv, PageStart, CallStart
<1>4. ASSUME NEW r \in Refreshers, Refresh(r) PROVE Inv'
  BY <1>4, RefreshInv
<1>5. CASE UNCHANGED vars
  BY <1>5 DEF vars, Inv, TypeOK, CallInv, PageInv, Active, Collected
<1> QED BY <1>1, <1>2, <1>3, <1>4, <1>5 DEF Next

\* The inductive invariant.
THEOREM WorkerInvariance == Spec => []Inv
  BY InitInv, StepInv, PTL DEF Spec

\* Threads, sections and calls keep their shape.
THEOREM WorkerTypeCorrect == Spec => []TypeOK
<1>1. Inv => TypeOK
  BY DEF Inv
<1> QED BY <1>1, WorkerInvariance, PTL

\* gather: a page lacks a section that failed or that its deadline cut off.
THEOREM GapsAreExplained == Spec => []UnavailableIsExplained
<1>1. Inv => UnavailableIsExplained
  <2> SUFFICES ASSUME Inv, NEW t \in Threads, thread[t].kind = "page", thread[t].at = "answered",
                      NEW s \in Unavailable(t), ~thread[t].late
               PROVE  thread[t].results[s] = "failed"
    BY DEF UnavailableIsExplained
  <2>1. s \in Sections /\ thread[t].results[s] # "data"
    BY DEF Unavailable
  <2>2. thread[t].results[s] # "none"
    BY <2>1 DEF Inv, PageInv, Collected
  <2>3. thread[t].results \in [Sections -> {"none", "data", "failed"}]
    BY DEF Inv, TypeOK
  <2> QED BY <2>1, <2>2, <2>3
<1> QED BY <1>1, WorkerInvariance, PTL

-----------------------------------------------------------------------------

\* Refreshes have at most as many connections as there are refreshers.
LEMMA RefreshesAreFew ==
  /\ IsFiniteSet(Connected \cap RefreshJobs)
  /\ Cardinality(Connected \cap RefreshJobs) <= Cardinality(Refreshers)
<1> DEFINE f == [j \in Connected \cap RefreshJobs |-> j.by]
<1>1. \A r \in Refreshers : OfRefresher(r).by = r
  BY DEF OfRefresher
<1>2. \A j \in RefreshJobs : j.by \in Refreshers /\ j = OfRefresher(j.by)
  BY <1>1 DEF RefreshJobs
<1>3. f \in [Connected \cap RefreshJobs -> Refreshers]
  BY <1>2
<1>4. IsInjective(f)
  BY <1>2 DEF IsInjective
<1>5. f \in Injection(Connected \cap RefreshJobs, Refreshers)
  BY <1>3, <1>4 DEF Injection
<1> QED BY <1>5, FS_Injection

\* While one thread waits for a connection of its own, each of the others has at
\* most one per section: either its page's calls or its own call are under way.
LEMMA OthersAreFew ==
  ASSUME Inv, NEW t \in Threads, job[Own(t)].at = "connect"
  PROVE  /\ IsFiniteSet(Connected \ RefreshJobs)
         /\ Cardinality(Connected \ RefreshJobs) <=
              Cardinality((Threads \ {t}) \X Sections)
<1> DEFINE Others == Threads \ {t}
<1>1. PICK s0 \in Sections : TRUE
  OBVIOUS
<1> DEFINE f == [j \in Connected \ RefreshJobs |->
                   IF j \in OwnJobs THEN <<j.by, s0>> ELSE <<j.by, j.for>>]
<1>2. /\ \A u \in Threads : Own(u).by = u
      /\ \A u \in Threads, s \in Sections : OfSection(u, s).by = u /\ OfSection(u, s).for = s
  BY DEF Own, OfSection
<1>3. \A j \in OwnJobs : j.by \in Threads /\ j = Own(j.by)
  BY <1>2 DEF OwnJobs
<1>4. \A j \in SectionJobs : j.by \in Threads /\ j.for \in Sections /\ j = OfSection(j.by, j.for)
  BY <1>2 DEF SectionJobs
<1>5. \A j \in Connected : Active(j) /\ j # Own(t) /\ j \in Jobs
  BY DEF Connected, Active
<1>6. \A u \in Threads, s \in Sections :
        Active(Own(u)) => ~Active(OfSection(u, s))
  BY DEF Inv, CallInv
<1>7. Active(Own(t))
  BY DEF Active
<1>8. \A j \in Connected \ RefreshJobs : j \in OwnJobs \/ j \in SectionJobs
  BY <1>5 DEF Jobs
<1>9. \A j \in Connected \ RefreshJobs : j.by \in Others
  BY <1>3, <1>4, <1>5, <1>6, <1>7, <1>8
<1>10. f \in [Connected \ RefreshJobs -> Others \X Sections]
  BY <1>1, <1>4, <1>8, <1>9
<1>11. ASSUME NEW i \in Connected \ RefreshJobs, NEW j \in Connected \ RefreshJobs, f[i] = f[j]
       PROVE  i = j
  <2>1. i.by = j.by
    BY <1>11
  <2>2. CASE i \in OwnJobs /\ j \in OwnJobs
    BY <1>3, <2>1, <2>2
  <2>3. CASE i \in OwnJobs /\ j \notin OwnJobs
    BY <1>3, <1>4, <1>5, <1>6, <1>8, <2>1, <2>3
  <2>4. CASE i \notin OwnJobs /\ j \in OwnJobs
    BY <1>3, <1>4, <1>5, <1>6, <1>8, <2>1, <2>4
  <2>5. CASE i \notin OwnJobs /\ j \notin OwnJobs
    <3>1. i.for = j.for
      BY <1>11, <2>5
    <3> QED BY <1>4, <1>8, <2>1, <2>5, <3>1
  <2> QED BY <2>2, <2>3, <2>4, <2>5
<1>12. f \in Injection(Connected \ RefreshJobs, Others \X Sections)
  BY <1>10, <1>11 DEF Injection, IsInjective
<1>13. IsFiniteSet(Others \X Sections)
  BY FS_RemoveElement, FS_Product
<1> QED BY <1>12, <1>13, FS_Injection

\* With as many connections as the other threads' dashboards, the refreshers and one
\* call more can use, that call gets one.
THEOREM EnoughConnections == Spec => []CallsAreNotStarved
<1>1. Inv => CallsAreNotStarved
  <2> SUFFICES ASSUME Inv, Roomy, NEW t \in Threads, job[Own(t)].at = "connect"
               PROVE  Cardinality(Connected) < MaxConnections
    BY DEF CallsAreNotStarved
  <2> DEFINE R == Connected \cap RefreshJobs
             Q == Connected \ RefreshJobs
  <2>1. IsFiniteSet(R) /\ Cardinality(R) <= Cardinality(Refreshers) /\ Cardinality(R) \in Nat
    BY RefreshesAreFew, FS_CardinalityType
  <2>2. /\ IsFiniteSet(Q) /\ Cardinality(Q) \in Nat
        /\ Cardinality(Q) <= Cardinality((Threads \ {t}) \X Sections)
    BY OthersAreFew, FS_CardinalityType
  <2>3. Cardinality(Threads \ {t}) = Cardinality(Threads) - 1 /\ IsFiniteSet(Threads \ {t})
    BY FS_RemoveElement
  <2>4. Cardinality((Threads \ {t}) \X Sections) = (Cardinality(Threads) - 1) * Cardinality(Sections)
    BY <2>3, FS_Product
  <2>5. /\ Cardinality(Refreshers) \in Nat
        /\ Cardinality((Threads \ {t}) \X Sections) \in Nat
    BY <2>3, FS_CardinalityType, FS_Product
  <2>6. Connected = R \cup Q /\ R \cap Q = {}
    OBVIOUS
  <2>7. Cardinality(Connected) = Cardinality(R) + Cardinality(Q) - Cardinality(R \cap Q)
    <3> HIDE DEF R, Q
    <3> QED BY <2>1, <2>2, <2>6, FS_Union
  <2>8. Cardinality(R \cap Q) = 0
    BY <2>6, FS_EmptySet
  <2>9. Cardinality((Threads \ {t}) \X Sections) + Cardinality(Refreshers) < MaxConnections
    BY <2>4 DEF Roomy
  <2> HIDE DEF R, Q
  <2> QED BY <2>1, <2>2, <2>5, <2>7, <2>8, <2>9
<1> QED BY <1>1, WorkerInvariance, PTL
-----------------------------------------------------------------------------
(* Requests end *)

\* What a request that is not answered waits for: a page, for a section that it
\* has not handed out and whose job has begun; any other request, for its call.
Waiting(t) ==
  /\ thread[t].at = "collect" =>
       /\ ~Collected(thread[t].results)
       /\ \A s \in Sections :
            thread[t].results[s] = "none" => job[OfSection(t, s)].at # "idle"
  /\ thread[t].at = "call" => job[Own(t)].at # "idle"

WaitInv == \A t \in Threads : Waiting(t)

\* A step that leaves the other threads alone, and their calls.
LEMMA OthersWait ==
  ASSUME WaitInv, NEW t \in Threads, Waiting(t)',
         \A u \in Threads \ {t} : thread'[u] = thread[u],
         \A u \in Threads \ {t} : job'[Own(u)] = job[Own(u)],
         \A u \in Threads \ {t}, s \in Sections :
           job'[OfSection(u, s)] = job[OfSection(u, s)]
  PROVE  WaitInv'
<1> SUFFICES ASSUME NEW u \in Threads, u # t PROVE Waiting(u)'
  BY DEF WaitInv
<1>1. Waiting(u)
  BY DEF WaitInv
<1> QED BY <1>1 DEF Waiting, Collected

\* A call of a request that moves has not been forgotten.
LEMMA ProgressWaits ==
  ASSUME Inv, WaitInv, NEW j \in Jobs, Progress(j)
  PROVE  WaitInv'
<1>1. thread' = thread
  BY ProgressStep DEF Inv
<1>2. job \in [Jobs -> [at : {"idle", "connect", "wait", "data", "failed"}, attempt : 0 .. MaxRetries]]
  BY DEF Inv, TypeOK
<1>3. j \notin RefreshJobs => job'[j].at # "idle"
  BY <1>2 DEF Progress, Connect, PoolTimeout, Returns, Fails, Fail, Ended
<1>4. \A i \in Jobs : i # j => job'[i] = job[i]
  BY <1>2 DEF Progress, Connect, PoolTimeout, Returns, Fails, Fail
<1>5. \A i \in Jobs : i \notin RefreshJobs /\ job[i].at # "idle" => job'[i].at # "idle"
  BY <1>3, <1>4
<1>6. /\ \A t \in Threads : Own(t) \in Jobs /\ Own(t) \notin RefreshJobs
      /\ \A t \in Threads, s \in Sections :
           OfSection(t, s) \in Jobs /\ OfSection(t, s) \notin RefreshJobs
  BY JobsType, JobsDiffer DEF RefreshJobs
<1> QED BY <1>1, <1>5, <1>6 DEF WaitInv, Waiting, Collected

LEMMA PageWaits ==
  ASSUME Inv, WaitInv, NEW t \in Threads, Page(t)
  PROVE  WaitInv'
<1>1. PICK hits \in SUBSET Sections :
        job' = [j \in Jobs |-> IF j \in SectionJobs /\ j.by = t
                                 THEN IF j.for \in hits THEN Hit ELSE Begun
                                 ELSE job[j]]
  BY DEF Page
<1>2. /\ thread'[t].at = "collect"
      /\ thread'[t].results = [s \in Sections |-> "none"]
      /\ \A u \in Threads \ {t} : thread'[u] = thread[u]
  BY DEF Page, Serve, Inv, TypeOK
<1>3. ~Collected(thread'[t].results)
  BY <1>2 DEF Collected
<1>4. \A s \in Sections : job'[OfSection(t, s)].at # "idle"
  BY <1>1, JobsType DEF Hit, Begun
<1>5. /\ \A u \in Threads : job'[Own(u)] = job[Own(u)]
      /\ \A u \in Threads \ {t}, s \in Sections : job'[OfSection(u, s)] = job[OfSection(u, s)]
  BY <1>1, JobsType
<1>6. Waiting(t)'
  BY <1>2, <1>3, <1>4 DEF Waiting
<1> QED BY <1>2, <1>5, <1>6, OthersWait

LEMMA CollectWaits ==
  ASSUME Inv, WaitInv, NEW t \in Threads, NEW s \in Sections, Collect(t, s)
  PROVE  WaitInv'
<1> DEFINE results == [thread[t].results EXCEPT ![s] = job[OfSection(t, s)].at]
           new == [thread[t] EXCEPT !.results = results,
                                    !.at = IF Collected(results) THEN "leave" ELSE @]
<1>1. /\ thread[t].at = "collect"
      /\ thread' = [thread EXCEPT ![t] = new]
      /\ job' = [job EXCEPT ![OfSection(t, s)] = Idle]
      /\ job[OfSection(t, s)].at \in {"data", "failed"}
  BY DEF Collect
<1>2. thread[t].results \in [Sections -> {"none", "data", "failed"}]
  BY DEF Inv, TypeOK
<1>3. /\ results[s] # "none"
      /\ \A z \in Sections : z # s => results[z] = thread[t].results[z]
  BY <1>1, <1>2
<1> HIDE DEF results
<1>4. new.results = results /\ new.at = IF Collected(results) THEN "leave" ELSE "collect"
  BY <1>1 DEF Inv, TypeOK
<1> HIDE DEF new
<1>5. thread'[t] = new /\ \A u \in Threads \ {t} : thread'[u] = thread[u]
  BY <1>1 DEF Inv, TypeOK
<1>6. \A i \in Jobs : i # OfSection(t, s) => job'[i] = job[i]
  BY <1>1 DEF Inv, TypeOK
<1>7. \A z \in Sections : results[z] = "none" => job'[OfSection(t, z)].at # "idle"
  <2> SUFFICES ASSUME NEW z \in Sections, results[z] = "none"
               PROVE  job'[OfSection(t, z)].at # "idle"
    OBVIOUS
  <2>1. z # s /\ thread[t].results[z] = "none"
    BY <1>3
  <2>2. OfSection(t, z) \in Jobs /\ OfSection(t, z) # OfSection(t, s)
    BY <2>1, JobsType, JobsDiffer
  <2>3. job'[OfSection(t, z)] = job[OfSection(t, z)]
    BY <1>6, <2>2
  <2> QED BY <1>1, <2>1, <2>3 DEF WaitInv, Waiting
<1>8. /\ \A u \in Threads : job'[Own(u)] = job[Own(u)]
      /\ \A u \in Threads \ {t}, z \in Sections : job'[OfSection(u, z)] = job[OfSection(u, z)]
  BY <1>6, JobsType, JobsDiffer
<1>9. Waiting(t)'
  BY <1>4, <1>5, <1>7 DEF Waiting, Collected
<1> QED BY <1>5, <1>8, <1>9, OthersWait

LEMMA LeaveWaits ==
  ASSUME Inv, WaitInv, NEW t \in Threads, Leave(t)
  PROVE  WaitInv'
<1>1. /\ thread' = [thread EXCEPT ![t].at = "answered"]
      /\ job' = [j \in Jobs |-> IF j \in SectionJobs /\ j.by = t THEN Idle ELSE job[j]]
  BY DEF Leave
<1>2. thread'[t].at = "answered" /\ \A u \in Threads \ {t} : thread'[u] = thread[u]
  BY <1>1 DEF Inv, TypeOK
<1>3. /\ \A u \in Threads : job'[Own(u)] = job[Own(u)]
      /\ \A u \in Threads \ {t}, s \in Sections : job'[OfSection(u, s)] = job[OfSection(u, s)]
  BY <1>1, JobsType
<1>4. Waiting(t)'
  BY <1>2 DEF Waiting
<1> QED BY <1>2, <1>3, <1>4, OthersWait

\* Every other step of a thread: it gives up, begins a call, or answers with it.
LEMMA OwnWaits ==
  ASSUME Inv, WaitInv, NEW t \in Threads, GiveUp(t) \/ Call(t) \/ Answer(t)
  PROVE  WaitInv'
<1>1. /\ \A u \in Threads \ {t} : thread'[u] = thread[u]
      /\ \/ thread'[t].at \in {"leave", "answered"}
         \/ thread'[t].at = "call" /\ job'[Own(t)].at # "idle"
  BY JobsType DEF GiveUp, Call, Answer, Inv, TypeOK, Serve, Free, Begun
<1>2. \A i \in Jobs : i # Own(t) => job'[i] = job[i]
  BY DEF GiveUp, Call, Answer, Inv, TypeOK
<1>3. /\ \A u \in Threads \ {t} : job'[Own(u)] = job[Own(u)]
      /\ \A u \in Threads, s \in Sections : job'[OfSection(u, s)] = job[OfSection(u, s)]
  BY <1>2, JobsType, JobsDiffer
<1>4. Waiting(t)'
  BY <1>1 DEF Waiting
<1> QED BY <1>1, <1>3, <1>4, OthersWait

LEMMA StepWaits ==
  ASSUME Inv, WaitInv, [Next]_vars
  PROVE  WaitInv'
<1>1. ASSUME NEW t \in Threads, Serves(t) \/ GiveUp(t) \/ Page(t) \/ Call(t)
      PROVE  WaitInv'
  BY <1>1, LeaveWaits, CollectWaits, OwnWaits, PageWaits DEF Serves
<1>2. ASSUME NEW r \in Refreshers, Refresh(r) PROVE WaitInv'
  <2>1. thread' = thread /\ \A i \in Jobs : i # OfRefresher(r) => job'[i] = job[i]
    BY <1>2 DEF Refresh, Inv, TypeOK
  <2>2. /\ \A t \in Threads : job'[Own(t)] = job[Own(t)]
        /\ \A t \in Threads, s \in Sections : job'[OfSection(t, s)] = job[OfSection(t, s)]
    BY <2>1, JobsType, JobsDiffer
  <2> QED BY <2>1, <2>2 DEF WaitInv, Waiting, Collected
<1>3. CASE UNCHANGED vars
  BY <1>3 DEF vars, WaitInv, Waiting, Collected
<1> QED BY <1>1, <1>2, <1>3, ProgressWaits DEF Next

\* No request is left waiting for nothing: while a page is being collected there is a
\* section to hand out, whose call is under way or over, and while a request waits for
\* its call there is that call (gather, SyncTransport.request).
THEOREM NobodyWaitsInVain ==
  Spec => []\A t \in Threads :
              /\ thread[t].at = "collect" =>
                   \E s \in Sections : /\ thread[t].results[s] = "none"
                                       /\ job[OfSection(t, s)].at # "idle"
              /\ thread[t].at = "call" => job[Own(t)].at # "idle"
<1>1. Init => WaitInv
  <2>1. Init => \A t \in Threads : thread[t].at = "answered"
    BY ServeType DEF Init, Free
  <2> QED BY <2>1 DEF WaitInv, Waiting
<1>2. Inv /\ WaitInv /\ [Next]_vars => WaitInv'
  BY StepWaits
<1>3. WaitInv => \A t \in Threads :
                   /\ thread[t].at = "collect" =>
                        \E s \in Sections : /\ thread[t].results[s] = "none"
                                            /\ job[OfSection(t, s)].at # "idle"
                   /\ thread[t].at = "call" => job[Own(t)].at # "idle"
  BY DEF WaitInv, Waiting, Collected
<1> QED BY <1>1, <1>2, <1>3, WorkerInvariance, PTL DEF Spec

\* How many steps a call has left, at most.
StepsLeft(j) ==
  LET retries == MaxRetries - job[j].attempt IN
    IF job[j].at = "connect"   THEN 2 * retries + 2
    ELSE IF job[j].at = "wait" THEN 2 * retries + 1
    ELSE 0

\* The sections that a page has not handed out.
Missing(t) == {s \in Sections : thread[t].results[s] = "none"}

\* A call gets nearer to its end with each step that it takes.
LEMMA ProgressCounts ==
  ASSUME Inv, NEW j \in Jobs, Progress(j)
  PROVE  /\ StepsLeft(j) \in 1 .. 2 * MaxRetries + 2
         /\ StepsLeft(j)' \in 0 .. StepsLeft(j) - 1
<1>1. job \in [Jobs -> [at : {"idle", "connect", "wait", "data", "failed"}, attempt : 0 .. MaxRetries]]
  BY DEF Inv, TypeOK
<1>2. /\ job[j].at \in {"connect", "wait"}
      /\ \/ job[j].at = "connect" /\ job'[j].at = "wait" /\ job'[j].attempt = job[j].attempt
         \/ /\ job[j].attempt < MaxRetries
            /\ job'[j].at = "connect" /\ job'[j].attempt = job[j].attempt + 1
         \/ job'[j].at \in {"idle", "data", "failed"}
  BY <1>1 DEF Progress, Connect, PoolTimeout, Returns, Fails, Fail, Ended, Idle
<1>3. job[j].attempt \in 0 .. MaxRetries
  BY <1>1
<1>4. StepsLeft(j) \in 1 .. 2 * MaxRetries + 2
  BY <1>2, <1>3 DEF StepsLeft
<1>5. StepsLeft(j)' \in 0 .. StepsLeft(j) - 1
  BY <1>2, <1>3 DEF StepsLeft
<1> QED BY <1>4, <1>5

\* No step but its own touches a call that is under way.
LEMMA ActiveAreLeftAlone ==
  ASSUME Inv, [Next]_vars, NEW j \in Jobs, Active(j), job'[j] # job[j]
  PROVE  Progress(j)
<1>0. job \in [Jobs -> [at : {"idle", "connect", "wait", "data", "failed"}, attempt : 0 .. MaxRetries]]
  BY DEF Inv, TypeOK
<1>1. ASSUME NEW i \in Jobs, Progress(i) PROVE Progress(j)
  <2>1. i # j => job'[j] = job[j]
    BY <1>0, <1>1 DEF Progress, Connect, PoolTimeout, Returns, Fails, Fail
  <2> QED BY <1>1, <2>1
<1>2. ASSUME NEW t \in Threads, Leave(t) \/ Page(t) PROVE FALSE
  <2>1. \A s \in Sections : ~Active(OfSection(t, s))
    BY <1>2 DEF Leave, Page, Inv, CallInv
  <2>2. j \in SectionJobs /\ j.by = t
    BY <1>2 DEF Leave, Page
  <2>3. PICK u \in Threads, s \in Sections : j = OfSection(u, s)
    BY <2>2 DEF SectionJobs
  <2>4. u = t
    BY <2>2, <2>3, JobsType
  <2> QED BY <2>1, <2>3, <2>4
<1>3. ASSUME NEW t \in Threads, Call(t) \/ Answer(t) PROVE FALSE
  <2>1. ~Active(Own(t))
    BY <1>3 DEF Call, Answer, Inv, CallInv, Active
  <2>2. j = Own(t)
    BY <1>0, <1>3 DEF Call, Answer
  <2> QED BY <2>1, <2>2
<1>4. ASSUME NEW t \in Threads, NEW s \in Sections, Collect(t, s) PROVE FALSE
  <2>1. ~Active(OfSection(t, s))
    BY <1>4 DEF Collect, Active
  <2>2. j = OfSection(t, s)
    BY <1>0, <1>4 DEF Collect
  <2> QED BY <2>1, <2>2
<1>5. ASSUME NEW r \in Refreshers, Refresh(r) PROVE FALSE
  <2>1. j = OfRefresher(r)
    BY <1>0, <1>5 DEF Refresh
  <2> QED BY <1>5, <2>1 DEF Refresh
<1>6. ASSUME NEW t \in Threads, GiveUp(t) PROVE FALSE
  BY <1>6 DEF GiveUp
<1>7. ~UNCHANGED vars
  BY DEF vars
<1> QED BY <1>1, <1>2, <1>3, <1>4, <1>5, <1>6, <1>7 DEF Next, Serves

\* Whatever the other threads, the pages and the refreshers do, a call that is under
\* way is neither begun again nor forgotten, and has 2 * MaxRetries + 2 steps at most.
THEOREM CallsCountDown ==
  Spec => [][\A j \in Jobs :
               Active(j) /\ job'[j] # job[j] =>
                 /\ StepsLeft(j) \in 1 .. 2 * MaxRetries + 2
                 /\ StepsLeft(j)' \in 0 .. StepsLeft(j) - 1]_vars
<1> DEFINE Down == \A j \in Jobs :
                     Active(j) /\ job'[j] # job[j] =>
                       /\ StepsLeft(j) \in 1 .. 2 * MaxRetries + 2
                       /\ StepsLeft(j)' \in 0 .. StepsLeft(j) - 1
<1>1. Inv /\ [Next]_vars => [Down]_vars
  BY ActiveAreLeftAlone, ProgressCounts
<1> QED BY <1>1, WorkerInvariance, PTL DEF Spec

\* A request that is not answered never goes back: a page loses a section that it
\* waited for, or leaves its collecting, and then only waits for its sections.
THEOREM RequestsMoveOn ==
  Spec => [][\A t \in Threads :
               thread[t].at # "answered" /\ thread'[t] # thread[t] =>
                 \/ thread'[t].at = "answered"
                 \/ thread[t].at = "collect" /\ thread'[t].at = "leave"
                 \/ /\ thread'[t].at = thread[t].at
                    /\ Missing(t)' \subseteq Missing(t) /\ Missing(t)' # Missing(t)]_vars
<1> DEFINE On(t) == thread[t].at # "answered" /\ thread'[t] # thread[t] =>
                      \/ thread'[t].at = "answered"
                      \/ thread[t].at = "collect" /\ thread'[t].at = "leave"
                      \/ /\ thread'[t].at = thread[t].at
                         /\ Missing(t)' \subseteq Missing(t) /\ Missing(t)' # Missing(t)
<1>1. ASSUME Inv, [Next]_vars, NEW t \in Threads PROVE On(t)
  <2> SUFFICES ASSUME thread[t].at # "answered", thread'[t] # thread[t]
               PROVE  \/ thread'[t].at = "answered"
                      \/ thread[t].at = "collect" /\ thread'[t].at = "leave"
                      \/ /\ thread'[t].at = thread[t].at
                         /\ Missing(t)' \subseteq Missing(t) /\ Missing(t)' # Missing(t)
    OBVIOUS
  <2>0. thread \in [Threads -> [kind : {"page", "call"}, at : {"collect", "leave", "call", "answered"},
                                results : [Sections -> {"none", "data", "failed"}], late : BOOLEAN]]
    BY <1>1 DEF Inv, TypeOK
  <2>1. PICK u \in Threads : Serves(u) \/ GiveUp(u) \/ Page(u) \/ Call(u)
    BY <1>1 DEF Next, Progress, Connect, PoolTimeout, Returns, Fails, Refresh, vars
  <2>2. u = t
    BY <2>0, <2>1 DEF Serves, Leave, Answer, Collect, GiveUp, Page, Call
  <2>3. CASE Leave(t) \/ Answer(t) \/ GiveUp(t)
    BY <2>0, <2>3 DEF Leave, Answer, GiveUp, Free, Serve
  <2>4. ASSUME NEW s \in Sections, Collect(t, s)
        PROVE  \/ thread[t].at = "collect" /\ thread'[t].at = "leave"
               \/ /\ thread'[t].at = thread[t].at
                  /\ Missing(t)' \subseteq Missing(t) /\ Missing(t)' # Missing(t)
    <3> DEFINE results == [thread[t].results EXCEPT ![s] = job[OfSection(t, s)].at]
    <3>1. /\ thread[t].at = "collect" /\ thread[t].results[s] = "none"
          /\ job[OfSection(t, s)].at \in {"data", "failed"}
          /\ thread' = [thread EXCEPT ![t].results = results,
                                      ![t].at = IF Collected(results) THEN "leave" ELSE @]
      BY <2>4 DEF Collect
    <3>2. /\ results[s] # "none"
          /\ \A z \in Sections : z # s => results[z] = thread[t].results[z]
      BY <2>0, <3>1
    <3> HIDE DEF results
    <3>3. thread'[t].results = results /\ thread'[t].at \in {"leave", "collect"}
      BY <2>0, <3>1
    <3>4. s \in Missing(t) /\ Missing(t)' \subseteq Missing(t) \ {s}
      BY <3>1, <3>2, <3>3 DEF Missing
    <3> QED BY <3>1, <3>3, <3>4
  <2>5. ~Page(t) /\ ~Call(t)
    BY DEF Page, Call
  <2> QED BY <2>1, <2>2, <2>3, <2>4, <2>5 DEF Serves
<1>2. Inv /\ [Next]_vars => [\A t \in Threads : On(t)]_vars
  BY <1>1
<1> QED BY <1>2, WorkerInvariance, PTL DEF Spec
=============================================================================
