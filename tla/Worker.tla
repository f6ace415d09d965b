------------------------------- MODULE Worker -------------------------------
(***************************************************************************)
(* One gunicorn worker (deploy/gunicorn.conf.py: gthread), whose request   *)
(* threads, whose dashboard sections (core/dashboard.py, core/aggregate.py)*)
(* and whose cache refreshers (core/cache.py) call WHMCS through one pool  *)
(* of connections.                                                         *)
(*                                                                         *)
(* A call is what Transport makes of it, told from outside: attempts that  *)
(* need a connection, with sleeps that need none.  The reads of a section, *)
(* like the calls of any other request, come one after another, and are    *)
(* taken for one.                                                          *)
(***************************************************************************)
EXTENDS Naturals, FiniteSets

CONSTANTS
  Threads,         \* request threads of the worker: GUNICORN_THREADS
  Sections,        \* the five sections of the dashboard
  Refreshers,      \* threads of cache._refresher
  MaxConnections,  \* WHMCS.MAX_CONNECTIONS
  MaxRetries       \* WHMCS.MAX_RETRIES

ASSUME WorkerAssumption ==
  /\ IsFiniteSet(Threads) /\ IsFiniteSet(Sections) /\ IsFiniteSet(Refreshers)
  /\ Sections # {} /\ Sections \cap {"itself", "cache"} = {}
  /\ MaxConnections \in Nat /\ MaxRetries \in Nat

VARIABLES
  thread,   \* what each thread serves, where it is, and the results of its page
  job       \* who may call WHMCS, and how far the call is

vars == <<thread, job>>

\* The call of a section, of a request that makes its own, of a refresh.
OfSection(t, s) == [by |-> t, for |-> s]
Own(t)          == [by |-> t, for |-> "itself"]
OfRefresher(r)  == [by |-> r, for |-> "cache"]

SectionJobs  == {OfSection(t, s) : t \in Threads, s \in Sections}
OwnJobs      == {Own(t) : t \in Threads}
RefreshJobs  == {OfRefresher(r) : r \in Refreshers}
Jobs         == SectionJobs \cup OwnJobs \cup RefreshJobs

Idle   == [at |-> "idle", attempt |-> 0]
Begun  == [at |-> "connect", attempt |-> 0]
Hit    == [at |-> "data", attempt |-> 0]

Connected == {j \in Jobs : job[j].at = "wait"}

Active(j) == job[j].at \in {"connect", "wait"}

Serve(kind, at) ==
  [kind |-> kind, at |-> at, results |-> [s \in Sections |-> "none"], late |-> FALSE]

Free == Serve("call", "answered")

TypeOK ==
  /\ thread \in [Threads -> [kind : {"page", "call"},
                             at : {"collect", "leave", "call", "answered"},
                             results : [Sections -> {"none", "data", "failed"}],
                             late : BOOLEAN]]
  /\ job \in [Jobs -> [at : {"idle", "connect", "wait", "data", "failed"},
                       attempt : 0 .. MaxRetries]]

Init ==
  /\ thread = [t \in Threads |-> Free]
  /\ job = [j \in Jobs |-> Idle]

-----------------------------------------------------------------------------
(* Calls: httpx' pool and the loop of SyncTransport.request *)

\* The pool hands out a connection when one is free.
Connect(j) ==
  /\ job[j].at = "connect"
  /\ Cardinality(Connected) < MaxConnections
  /\ job' = [job EXCEPT ![j].at = "wait"]
  /\ UNCHANGED thread

\* Nobody waits for the end of a refresh.
Ended(j, at) == IF j \in RefreshJobs THEN Idle ELSE [at |-> at, attempt |-> 0]

\* Fault: the attempt is not counted.
Fail_NotCounted(j) == job' = [job EXCEPT ![j].at = "connect"]

\* Fault: one attempt too many.
Fail_OneTooMany(j) ==
  \/ /\ job[j].attempt <= MaxRetries
     /\ job' = [job EXCEPT ![j] = [at |-> "connect", attempt |-> job[j].attempt + 1]]
  \/ job' = [job EXCEPT ![j] = Ended(j, "failed")]

\* The attempt is over.  There is another one after a sleep, or there is none left:
\* writes never have one.
Fail(j) ==
  \/ /\ job[j].attempt < MaxRetries
     /\ job' = [job EXCEPT ![j] = [at |-> "connect", attempt |-> job[j].attempt + 1]]
  \/ job' = [job EXCEPT ![j] = Ended(j, "failed")]

\* httpx.PoolTimeout, a TransportError like any other: all connections were busy,
\* for the whole timeout.
PoolTimeout(j) ==
  /\ job[j].at = "connect"
  /\ Cardinality(Connected) >= MaxConnections
  /\ Fail(j)
  /\ UNCHANGED thread

\* A call with a connection ends well, or does not.
Returns(j) ==
  /\ job[j].at = "wait"
  /\ job' = [job EXCEPT ![j] = Ended(j, "data")]
  /\ UNCHANGED thread

Fails(j) ==
  /\ job[j].at = "wait"
  /\ Fail(j)
  /\ UNCHANGED thread

-----------------------------------------------------------------------------
(* Requests *)

\* DashboardView.get, up to the collecting: every section has a thread of its own,
\* and is served from the cache or calls WHMCS.
Page(t) ==
  /\ thread[t].at = "answered"
  /\ thread' = [thread EXCEPT ![t] = Serve("page", "collect")]
  /\ \E hits \in SUBSET Sections :
       job' = [j \in Jobs |-> IF j \in SectionJobs /\ j.by = t
                                THEN IF j.for \in hits THEN Hit ELSE Begun
                                ELSE job[j]]

Collected(results) == \A s \in Sections : results[s] # "none"

\* Fault: the try stands around the loop, and the first failure ends it.
Collect_StopsAtFailure(t, s) ==
  /\ thread[t].at = "collect" /\ thread[t].results[s] = "none"
  /\ job[OfSection(t, s)].at \in {"data", "failed"}
  /\ LET results == [thread[t].results EXCEPT ![s] = job[OfSection(t, s)].at] IN
       thread' = [thread EXCEPT
         ![t].results = results,
         ![t].at = IF Collected(results) \/ results[s] = "failed" THEN "leave" ELSE @]
  /\ job' = [job EXCEPT ![OfSection(t, s)] = Idle]

\* as_completed hands out a section that is done; a failed one is logged, and
\* its slot stays None.
Collect(t, s) ==
  /\ thread[t].at = "collect" /\ thread[t].results[s] = "none"
  /\ job[OfSection(t, s)].at \in {"data", "failed"}
  /\ LET results == [thread[t].results EXCEPT ![s] = job[OfSection(t, s)].at] IN
       thread' = [thread EXCEPT ![t].results = results,
                                ![t].at = IF Collected(results) THEN "leave" ELSE @]
  /\ job' = [job EXCEPT ![OfSection(t, s)] = Idle]

\* TimeoutError: the deadline has passed when the collector comes back to wait, and
\* what it has not handed out, finished or not, is lost to the page.
GiveUp(t) ==
  /\ thread[t].at = "collect"
  /\ thread' = [thread EXCEPT ![t].at = "leave", ![t].late = TRUE]
  /\ UNCHANGED job

\* Fault: the pool is shut down without waiting.
Leave_WithoutWaiting(t) ==
  /\ thread[t].at = "leave"
  /\ thread' = [thread EXCEPT ![t].at = "answered"]
  /\ UNCHANGED job

\* Leaving the `with` waits for every section; then the page is answered.
Leave(t) ==
  /\ thread[t].at = "leave"
  /\ \A s \in Sections : ~Active(OfSection(t, s))
  /\ thread' = [thread EXCEPT ![t].at = "answered"]
  /\ job' = [j \in Jobs |-> IF j \in SectionJobs /\ j.by = t THEN Idle ELSE job[j]]

\* The slots that are None, and that the answer lists as unavailable.
Unavailable(t) == {s \in Sections : thread[t].results[s] # "data"}

\* Any other request calls by itself.
Call(t) ==
  /\ thread[t].at = "answered"
  /\ thread' = [thread EXCEPT ![t] = Serve("call", "call")]
  /\ job' = [job EXCEPT ![Own(t)] = Begun]

\* The call is over, and with it the request.
Answer(t) ==
  /\ thread[t].at = "call"
  /\ job[Own(t)].at \in {"data", "failed"}
  /\ thread' = [thread EXCEPT ![t] = Free]
  /\ job' = [job EXCEPT ![Own(t)] = Idle]

\* A stale hit, anybody's, is refreshed as soon as a refresher is free.
Refresh(r) ==
  /\ ~Active(OfRefresher(r))
  /\ job' = [job EXCEPT ![OfRefresher(r)] = Begun]
  /\ UNCHANGED thread

-----------------------------------------------------------------------------

Progress(j) == Connect(j) \/ PoolTimeout(j) \/ Returns(j) \/ Fails(j)

Serves(t) == Leave(t) \/ Answer(t) \/ \E s \in Sections : Collect(t, s)

Next ==
  \/ \E j \in Jobs : Progress(j)
  \/ \E t \in Threads : Serves(t) \/ GiveUp(t) \/ Page(t) \/ Call(t)
  \/ \E r \in Refreshers : Refresh(r)

Spec == Init /\ [][Next]_vars

\* Every attempt has a timeout, waiting for a connection included, and threads run.
\* Nothing says that requests ever come.
FairSpec ==
  /\ Spec
  /\ \A j \in Jobs : WF_vars(Progress(j))
  /\ \A t \in Threads : WF_vars(Serves(t))

-----------------------------------------------------------------------------
(* Properties *)

\* What bounds the calls of a worker: a thread's own call and those of its page
\* exclude one another, and none outlives its request.
CallInv ==
  \A t \in Threads :
    /\ thread[t].at # "call" => ~Active(Own(t))
    /\ thread[t].at \in {"call", "answered"} => \A s \in Sections : ~Active(OfSection(t, s))

PageInv ==
  \A t \in Threads :
    /\ thread[t].at = "leave" => thread[t].late \/ Collected(thread[t].results)
    /\ thread[t].at = "answered" /\ thread[t].kind = "page" =>
         thread[t].late \/ Collected(thread[t].results)

\* aggregate.py: "a section that fails does not take the page down with it", nor
\* another section: a page lacks a section that failed, or that its deadline cut
\* off, and no other.
UnavailableIsExplained ==
  \A t \in Threads : thread[t].kind = "page" /\ thread[t].at = "answered" =>
    \A s \in Unavailable(t) : thread[t].late \/ thread[t].results[s] = "failed"

\* There are connections for every other thread's dashboard, for every refresh, and
\* for one call more: as configured, 3 * 5 + 4 + 1 = 20 of 20.
Roomy ==
  (Cardinality(Threads) - 1) * Cardinality(Sections) + Cardinality(Refreshers) < MaxConnections

\* A request other than a dashboard never fails for want of a connection, whatever
\* dashboards and refreshes are under way, and however their deadlines have gone:
\* what it says of WHMCS ("unreachable", the unknown outcome of an order) is about
\* WHMCS.
CallsAreNotStarved ==
  Roomy =>
    \A t \in Threads : job[Own(t)].at = "connect" => Cardinality(Connected) < MaxConnections

\* Every request is answered.
RequestsReturn ==
  \A t \in Threads : thread[t].at # "answered" ~> thread[t].at = "answered"
=============================================================================
