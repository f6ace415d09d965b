-------------------------------- MODULE Cache --------------------------------
(***************************************************************************)
(* apps/core/cache.py: cache-aside reads that are served stale while a     *)
(* background thread refreshes them, and invalidation by bumping the       *)
(* version counter of a namespace.  Modelled is one namespace and one key  *)
(* of it, whose entry exists once per version.  A value is named by the    *)
(* number of changes WHMCS had made to the data when it was read.          *)
(*                                                                         *)
(* Every cache call is atomic, every two of them may be interleaved: the   *)
(* cache is shared by all threads of all workers.                          *)
(***************************************************************************)
EXTENDS Integers

CONSTANTS
  Readers,         \* requests inside get_or_set
  Writers,         \* requests that change the data and then invalidate
  Tasks,           \* refreshes submitted to the thread pool (bound)
  MaxVersion,      \* bound: how far the counter goes
  MaxChanges       \* bound: how often the data changes

ASSUME BoundAssumption ==
  /\ MaxVersion \in Nat /\ MaxVersion >= 2
  /\ MaxChanges \in Nat

VARIABLES
  data,       \* WHMCS: how often the data has changed
  counter,    \* cache: the namespace version, or Absent
  entry,      \* cache: the entry of each version
  lock,       \* cache: the versions whose entry is being refreshed
  reader,     \* where each read is
  task,       \* where each refresh is
  writer,     \* where each write is
  settled,    \* history: the latest change whose invalidation has returned
  base,       \* history: `settled` when a version became the current one
  counted     \* history: there has been a counter all along

vars == <<data, counter, entry, lock, reader, task, writer, settled, base, counted>>

world   == <<data, settled, base, counted>>
threads == <<reader, task, writer>>

-----------------------------------------------------------------------------

Absent == 0

Versions == 1 .. MaxVersion

Values == 0 .. MaxChanges

NoEntry == [state |-> "absent", value |-> 0]

Entry == [state : {"absent", "fresh", "stale"}, value : Values]

\* `since` is the history variable `settled` at the moment the read began.
Read ==
  [at : {"idle", "start", "restart", "get", "produce", "store", "served"},
   version : Versions \cup {Absent}, value : Values, since : Values]

Refresh ==
  [at : {"idle", "queued", "store", "unlock"},
   version : Versions \cup {Absent}, value : Values]

Write == [at : {"idle", "invalidate", "restart"}, change : Values]

TypeOK ==
  /\ data \in Values
  /\ counter \in Versions \cup {Absent}
  /\ entry \in [Versions -> Entry]
  /\ lock \subseteq Versions
  /\ reader \in [Readers -> Read]
  /\ task \in [Tasks -> Refresh]
  /\ writer \in [Writers -> Write]
  /\ settled \in Values
  /\ base \in [Versions -> Values]
  /\ counted \in BOOLEAN
  /\ \A r \in Readers :
       reader[r].at \in {"get", "produce", "store"} => reader[r].version # Absent
  /\ \A t \in Tasks : task[t].at # "idle" => task[t].version # Absent

NoRead == [at |-> "idle", version |-> Absent, value |-> 0, since |-> 0]

NoRefresh == [at |-> "idle", version |-> Absent, value |-> 0]

Init ==
  /\ data = 0
  /\ counter \in {1, Absent}
  /\ counted = (counter # Absent)
  /\ entry = [v \in Versions |-> NoEntry]
  /\ lock = {}
  /\ reader = [r \in Readers |-> NoRead]
  /\ task = [t \in Tasks |-> NoRefresh]
  /\ writer = [w \in Writers |-> [at |-> "idle", change |-> 0]]
  /\ settled = 0
  /\ base = [v \in Versions |-> 0]

-----------------------------------------------------------------------------
(* get_or_set *)

\* A read begins; what it answered before is forgotten.
Begin(r) ==
  /\ reader[r].at \in {"idle", "served"}
  /\ reader' = [reader EXCEPT ![r] = [NoRead EXCEPT !.at = "start", !.since = settled]]
  /\ UNCHANGED <<counter, entry, lock, task, writer, world>>

\* namespace_version: cache.get of the counter ...
namespace_version(r) ==
  /\ reader[r].at = "start"
  /\ reader' = [reader EXCEPT ![r].at = IF counter = Absent THEN "restart" ELSE "get",
                              ![r].version = counter]
  /\ UNCHANGED <<counter, entry, lock, task, writer, world>>

\* ... and, if there is none, cache.set of 1, whatever it has become by now.
VersionOne(r) ==
  /\ reader[r].at = "restart"
  /\ counter' = 1
  /\ reader' = [reader EXCEPT ![r].at = "get", ![r].version = 1]
  /\ UNCHANGED <<entry, lock, task, writer, world>>

Serve(r, value) ==
  reader' = [reader EXCEPT ![r].at = "served", ![r].value = value]

\* cache.get of the entry: fresh.
HitFresh(r) ==
  /\ reader[r].at = "get"
  /\ entry[reader[r].version].state = "fresh"
  /\ Serve(r, entry[reader[r].version].value)
  /\ UNCHANGED <<counter, entry, lock, task, writer, world>>

\* Stale, and stale_ok: served.  cache.add finds the refresh lock taken, or the
\* pool is shutting down, and nothing else happens ...
HitStale(r) ==
  /\ reader[r].at = "get"
  /\ entry[reader[r].version].state = "stale"
  /\ Serve(r, entry[reader[r].version].value)
  /\ UNCHANGED <<counter, entry, lock, task, writer, world>>

\* ... or it takes the lock, and a refresh is submitted.
_schedule_refresh(r) ==
  LET v == reader[r].version IN
    /\ reader[r].at = "get"
    /\ entry[v].state = "stale"
    /\ v \notin lock
    /\ Serve(r, entry[v].value)
    /\ lock' = lock \cup {v}
    /\ \E t \in Tasks :
         /\ task[t].at = "idle"
         /\ task' = [task EXCEPT ![t] = [NoRefresh EXCEPT !.at = "queued", !.version = v]]
    /\ UNCHANGED <<counter, entry, writer, world>>

\* Fault: rather than wait, the entry of an earlier version is served.
Miss_EarlierVersion(r) ==
  /\ reader[r].at = "get"
  /\ entry[reader[r].version].state # "fresh"
  /\ \/ reader' = [reader EXCEPT ![r].at = "produce"]
     \/ \E v \in 1 .. reader[r].version :
          entry[v].state # "absent" /\ Serve(r, entry[v].value)
  /\ UNCHANGED <<counter, entry, lock, task, writer, world>>

\* Missing, or stale where the caller does not accept that.
Miss(r) ==
  /\ reader[r].at = "get"
  /\ entry[reader[r].version].state # "fresh"
  /\ reader' = [reader EXCEPT ![r].at = "produce"]
  /\ UNCHANGED <<counter, entry, lock, task, writer, world>>

\* producer(): the answer of WHMCS ...
Produce(r) ==
  /\ reader[r].at = "produce"
  /\ reader' = [reader EXCEPT ![r].at = "store", ![r].value = data]
  /\ UNCHANGED <<counter, entry, lock, task, writer, world>>

\* ... or its exception; a request may also die anywhere.
ReadFails(r) ==
  /\ reader[r].at \notin {"idle", "served"}
  /\ reader' = [reader EXCEPT ![r] = NoRead]
  /\ UNCHANGED <<counter, entry, lock, task, writer, world>>

StoreEntry(v, value) == entry' = [entry EXCEPT ![v] = [state |-> "fresh", value |-> value]]

\* Fault: the key is built again when the value is there.
_store_NewKey(r) ==
  /\ reader[r].at = "store"
  /\ StoreEntry(counter, reader[r].value)
  /\ Serve(r, reader[r].value)
  /\ UNCHANGED <<counter, lock, task, writer, world>>

_store(r) ==
  /\ reader[r].at = "store"
  /\ StoreEntry(reader[r].version, reader[r].value)
  /\ Serve(r, reader[r].value)
  /\ UNCHANGED <<counter, lock, task, writer, world>>

-----------------------------------------------------------------------------
(* _schedule_refresh's run, in the thread pool *)

\* However long it was queued, however often its call to WHMCS was retried.
RefreshProduce(t) ==
  /\ task[t].at = "queued"
  /\ task' = [task EXCEPT ![t].at = "store", ![t].value = data]
  /\ UNCHANGED <<counter, entry, lock, reader, writer, world>>

\* Fault: the exception is swallowed, and its nothing stored as the value.
RefreshFails_Swallowed(t) ==
  /\ task[t].at = "queued"
  /\ task' = [task EXCEPT ![t].at = "store", ![t].value = -1]
  /\ UNCHANGED <<counter, entry, lock, reader, writer, world>>

RefreshFails(t) ==
  /\ task[t].at = "queued"
  /\ task' = [task EXCEPT ![t].at = "unlock"]
  /\ UNCHANGED <<counter, entry, lock, reader, writer, world>>

\* Fault: the key is built again when the value is there.
RefreshStore_NewKey(t) ==
  /\ task[t].at = "store"
  /\ StoreEntry(counter, task[t].value)
  /\ task' = [task EXCEPT ![t].at = "unlock"]
  /\ UNCHANGED <<counter, lock, reader, writer, world>>

RefreshStore(t) ==
  /\ task[t].at = "store"
  /\ StoreEntry(task[t].version, task[t].value)
  /\ task' = [task EXCEPT ![t].at = "unlock"]
  /\ UNCHANGED <<counter, lock, reader, writer, world>>

\* finally: cache.delete of the lock, whoever holds it by now.
RefreshUnlock(t) ==
  /\ task[t].at = "unlock"
  /\ lock' = lock \ {task[t].version}
  /\ task' = [task EXCEPT ![t] = NoRefresh]
  /\ UNCHANGED <<counter, entry, reader, writer, world>>

\* The worker process stops, and its pool with it.
RefreshDies(t) ==
  /\ task[t].at # "idle"
  /\ task' = [task EXCEPT ![t] = NoRefresh]
  /\ UNCHANGED <<counter, entry, lock, reader, writer, world>>

-----------------------------------------------------------------------------
(* A write, and invalidate *)

\* WHMCS has answered the write with success.
WriteDone(w) ==
  /\ writer[w].at = "idle"
  /\ data < MaxChanges
  /\ data' = data + 1
  /\ writer' = [writer EXCEPT ![w] = [at |-> "invalidate", change |-> data + 1]]
  /\ UNCHANGED <<counter, entry, lock, reader, task, settled, base, counted>>

Max2(a, b) == IF a > b THEN a ELSE b

\* The invalidation returns: the current version is `v` from now on.
Invalidated(w, v) ==
  /\ counter' = v
  /\ writer' = [writer EXCEPT ![w].at = "idle"]
  /\ settled' = Max2(settled, writer[w].change)
  /\ base' = [base EXCEPT ![v] = settled']
  /\ UNCHANGED <<data, entry, lock, reader, task, counted>>

\* Fault: the counter is set to what it was.
invalidate_NoBump(w) ==
  /\ writer[w].at = "invalidate"
  /\ counter # Absent
  /\ Invalidated(w, counter)

\* cache.incr, which is atomic.
invalidate(w) ==
  /\ writer[w].at = "invalidate"
  /\ counter \in 1 .. MaxVersion - 1
  /\ Invalidated(w, counter + 1)

\* cache.incr raises ValueError: there is no counter ...
NoCounter(w) ==
  /\ writer[w].at = "invalidate"
  /\ counter = Absent
  /\ writer' = [writer EXCEPT ![w].at = "restart"]
  /\ UNCHANGED <<counter, entry, lock, reader, task, world>>

\* ... and cache.set starts again at 2.
RestartAtTwo(w) ==
  /\ writer[w].at = "restart"
  /\ Invalidated(w, 2)

\* The request dies between its call to WHMCS and its invalidation.
WriterDies(w) ==
  /\ writer[w].at # "idle"
  /\ writer' = [writer EXCEPT ![w].at = "idle"]
  /\ UNCHANGED <<counter, entry, lock, reader, task, world>>

-----------------------------------------------------------------------------
(* Time, the cache and WHMCS *)

\* fresh_until passes, a tenth of the way to the entry's own expiry.
GoesStale(v) ==
  /\ entry[v].state = "fresh"
  /\ entry' = [entry EXCEPT ![v].state = "stale"]
  /\ UNCHANGED <<counter, lock, threads, world>>

\* An entry expires, or is evicted.
EntryLapses(v) ==
  /\ entry[v].state # "absent"
  /\ entry' = [entry EXCEPT ![v] = NoEntry]
  /\ UNCHANGED <<counter, lock, threads, world>>

\* Fault: cache.add without a timeout.
LockLapses_Never(v) ==
  /\ v \in {}
  /\ lock' = lock \ {v}
  /\ UNCHANGED <<counter, entry, threads, world>>

\* min(ttl, 60) seconds after cache.add; a call to WHMCS with its retries may
\* take 45, and may have waited for a thread before.
LockLapses(v) ==
  /\ v \in lock
  /\ lock' = lock \ {v}
  /\ UNCHANGED <<counter, entry, threads, world>>

\* _VERSION_TTL: a week after it was set; incr does not prolong it.
CounterLapses ==
  /\ counter # Absent
  /\ counter' = Absent
  /\ counted' = FALSE
  /\ UNCHANGED <<data, entry, lock, threads, settled, base>>

\* The data changes without the bridge knowing: staff, WHMCS itself, or a write
\* whose answer was lost.
OutsideChange ==
  /\ data < MaxChanges
  /\ data' = data + 1
  /\ UNCHANGED <<counter, entry, lock, threads, settled, base, counted>>

ReaderStep(r) ==
  \/ namespace_version(r) \/ VersionOne(r) \/ HitFresh(r) \/ HitStale(r)
  \/ _schedule_refresh(r) \/ Miss(r) \/ Produce(r) \/ _store(r)

TaskStep(t) ==
  RefreshProduce(t) \/ RefreshFails(t) \/ RefreshStore(t) \/ RefreshUnlock(t)

WriterStep(w) ==
  WriteDone(w) \/ invalidate(w) \/ NoCounter(w) \/ RestartAtTwo(w)

Next ==
  \/ \E r \in Readers : Begin(r) \/ ReaderStep(r) \/ ReadFails(r)
  \/ \E t \in Tasks : TaskStep(t) \/ RefreshDies(t)
  \/ \E w \in Writers : WriterStep(w) \/ WriterDies(w)
  \/ \E v \in Versions : GoesStale(v) \/ EntryLapses(v) \/ LockLapses(v)
  \/ CounterLapses
  \/ OutsideChange

Spec == Init /\ [][Next]_vars

(***************************************************************************)
(* Reads keep coming, threads make progress, a refresh lock expires, and    *)
(* neither a request nor a refresh fails at the same step for ever.         *)
(***************************************************************************)
Fairness ==
  /\ \A r \in Readers :
       /\ WF_vars(Begin(r)) /\ WF_vars(ReaderStep(r))
       /\ SF_vars(namespace_version(r)) /\ SF_vars(_schedule_refresh(r))
  /\ \A t \in Tasks :
       /\ WF_vars(TaskStep(t))
       /\ SF_vars(RefreshProduce(t)) /\ SF_vars(RefreshStore(t))
  /\ \A v \in Versions : WF_vars(LockLapses(v))

FairSpec == Spec /\ Fairness

-----------------------------------------------------------------------------
(* Safety *)

\* A read that begins after an invalidation has returned is not answered with
\* data from before the change: neither by an entry that a slow reader or a
\* slow refresh stores after the invalidation, nor by its own old answer.  This
\* holds while the namespace has its counter.
ReadYourWrites ==
  counted =>
    \A r \in Readers : reader[r].at = "served" => reader[r].value >= reader[r].since

\* cache.py:64: "the whole point of this call is that nothing older survives".
NothingOlderSurvives ==
  counter # Absent /\ entry[counter].state # "absent" => entry[counter].value >= settled

\* It does what its comment says while the namespace has its counter.
InvalidationRetires == counted => NothingOlderSurvives

\* Why: a version never holds anything older than the invalidation that made
\* it the current one, and whoever still fills an old version fills only that.
VersionInv ==
  /\ counter # Absent
  /\ settled <= data
  /\ base[counter] = settled
  /\ \A v \in 1 .. counter : base[v] <= settled

EntryInv(v) ==
  entry[v].state # "absent" => v <= counter /\ entry[v].value >= base[v]

ReaderInv(r) ==
  LET read == reader[r] IN
    /\ read.at # "restart"
    /\ read.since <= settled
    /\ read.at \in {"get", "produce", "store"} =>
         read.version \in 1 .. counter /\ read.since <= base[read.version]
    /\ read.at = "store" => read.value >= base[read.version]
    /\ read.at = "served" => read.value >= read.since

TaskInv(t) ==
  /\ task[t].at # "idle" => task[t].version \in 1 .. counter
  /\ task[t].at = "store" => task[t].value >= base[task[t].version]

WriterInv(w) == writer[w].at # "restart" /\ writer[w].change <= data

Warm ==
  /\ VersionInv
  /\ \A v \in Versions : EntryInv(v)
  /\ \A r \in Readers : ReaderInv(r)
  /\ \A t \in Tasks : TaskInv(t)
  /\ \A w \in Writers : WriterInv(w)

WarmInv == counted => Warm

-----------------------------------------------------------------------------
(* What the cache promises *)

\* A read inside get_or_set, whatever its step, is just reading.
Seen(r) ==
  CASE reader[r].at = "idle"   -> [at |-> "out", since |-> 0, value |-> 0]
    [] reader[r].at = "served" ->
         [at |-> "answered", since |-> reader[r].since, value |-> reader[r].value]
    [] OTHER -> [at |-> "reading", since |-> reader[r].since, value |-> 0]

Promise == INSTANCE CachedReads WITH
             kept <- counted,
             read <- [r \in Readers |-> Seen(r)]

\* The cache implements CachedReads: no interleaving of reads, refreshes,
\* invalidations and lapses shows more than an answer as of some moment since
\* the last invalidation (get_or_set and invalidate together).
KeepsPromise == Promise!Spec

-----------------------------------------------------------------------------
(* Liveness *)

\* A stale entry that is still read is replaced in the end: a refresh that
\* fails, or dies with its lock, does not leave it stale for ever.
StaleIsRefreshed ==
  \A v \in Versions :
    counter = v /\ entry[v].state = "stale" ~>
      counter # v \/ entry[v].state # "stale"
=============================================================================
