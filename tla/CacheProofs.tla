----------------------------- MODULE CacheProofs -----------------------------
(***************************************************************************)
(* Theorems of Cache, for every number of readers, writers and refreshes:  *)
(* as long as the namespace has had its counter, an invalidation does what *)
(* its callers rely on.  First the types, which every step keeps, with a   *)
(* counter or without; then the steps of a namespace that has it.          *)
(***************************************************************************)
EXTENDS Cache, TLAPS

\* Without the counter only the types are left.
CacheInv == TypeOK /\ WarmInv

\* What a namespace with a counter satisfies.
Inv == TypeOK /\ Warm

LEMMA Bounds == 1 \in Versions /\ 2 \in Versions /\ 0 \in Values /\ Absent \notin Versions
  BY BoundAssumption DEF Versions, Values, Absent

LEMMA InitInv ==
  ASSUME Init
  PROVE  CacheInv
<1>1. TypeOK
  BY Bounds DEF Init, TypeOK, NoRead, NoRefresh, NoEntry, Read, Refresh, Write, Entry
<1>2. WarmInv
  <2> SUFFICES ASSUME counted PROVE Warm
    BY DEF WarmInv
  <2>1. counter = 1
    BY DEF Init
  <2> QED BY <2>1, Bounds DEF Init, Warm, VersionInv, EntryInv, ReaderInv, TaskInv, WriterInv,
     NoRead, NoRefresh, NoEntry, Absent
<1> QED BY <1>1, <1>2 DEF CacheInv

-----------------------------------------------------------------------------
(* Types *)

\* A read that looks at its entry has a version, so the entry exists.
LEMMA ReaderEntry ==
  ASSUME TypeOK, NEW r \in Readers, reader[r].at \in {"get", "produce", "store"}
  PROVE  /\ reader[r].version \in Versions
         /\ entry[reader[r].version] \in Entry
  BY DEF TypeOK, Read

LEMMA ReadType ==
  ASSUME TypeOK, NEW r \in Readers, Begin(r) \/ ReaderStep(r) \/ ReadFails(r)
  PROVE  TypeOK'
<1> USE DEF world, Serve, StoreEntry
<1>1. reader[r] \in Read /\ data \in Values /\ settled \in Values
  BY DEF TypeOK
<1>2. CASE Begin(r)
  <2>1. [NoRead EXCEPT !.at = "start", !.since = settled] \in Read
    BY <1>1, Bounds DEF NoRead, Read
  <2> QED BY <1>2, <2>1 DEF TypeOK, Begin, NoRead
<1>3. CASE ReadFails(r)
  <2>1. NoRead \in Read
    BY Bounds DEF NoRead, Read
  <2> QED BY <1>3, <2>1 DEF TypeOK, ReadFails, NoRead
<1>4. CASE namespace_version(r)
  <2>1. counter \in Versions \cup {Absent}
    BY DEF TypeOK
  <2>2. reader' \in [Readers -> Read]
    BY <1>1, <1>4, <2>1 DEF TypeOK, namespace_version, Read
  <2>3. reader'[r] = [reader[r] EXCEPT !.at = IF counter = Absent THEN "restart" ELSE "get",
                                       !.version = counter]
    BY <1>4 DEF TypeOK, namespace_version
  <2>4. reader'[r].at \in {"get", "produce", "store"} => reader'[r].version # Absent
    BY <1>1, <2>3 DEF Read
  <2> QED BY <1>4, <2>2, <2>4 DEF TypeOK, namespace_version
<1>5. CASE VersionOne(r)
  <2>1. reader' \in [Readers -> Read]
    BY <1>1, <1>5, Bounds DEF TypeOK, VersionOne, Read
  <2>2. counter' \in Versions
    BY <1>5, Bounds DEF VersionOne
  <2> QED BY <1>5, <2>1, <2>2 DEF TypeOK, VersionOne, Absent
<1>6. CASE HitFresh(r) \/ HitStale(r) \/ _schedule_refresh(r)
  <2>1. /\ entry[reader[r].version].value \in Values
        /\ reader[r].version \in Versions
        /\ reader[r].version # Absent
    BY <1>6, ReaderEntry DEF TypeOK, HitFresh, HitStale, _schedule_refresh, Entry
  <2>2. reader' \in [Readers -> Read]
    BY <1>1, <1>6, <2>1 DEF TypeOK, HitFresh, HitStale, _schedule_refresh, Read
  <2>3. lock' \subseteq Versions
    BY <1>6, <2>1 DEF TypeOK, HitFresh, HitStale, _schedule_refresh
  <2>4. [NoRefresh EXCEPT !.at = "queued", !.version = reader[r].version] \in Refresh
    BY <2>1, Bounds DEF NoRefresh, Refresh
  <2>5. /\ task' \in [Tasks -> Refresh]
        /\ \A t \in Tasks : task'[t].at # "idle" => task'[t].version # Absent
    BY <1>6, <2>1, <2>4 DEF TypeOK, HitFresh, HitStale, _schedule_refresh, NoRefresh
  <2>6. \A q \in Readers :
          reader'[q].at \in {"get", "produce", "store"} => reader'[q].version # Absent
    BY <1>1, <1>6 DEF TypeOK, HitFresh, HitStale, _schedule_refresh, Read
  <2> QED BY <1>6, <2>2, <2>3, <2>5, <2>6 DEF TypeOK, HitFresh, HitStale, _schedule_refresh
<1>7. CASE Miss(r) \/ Produce(r)
  <2>1. reader' \in [Readers -> Read]
    BY <1>1, <1>7 DEF TypeOK, Miss, Produce, Read
  <2>2. \A q \in Readers :
          reader'[q].at \in {"get", "produce", "store"} => reader'[q].version # Absent
    BY <1>1, <1>7 DEF TypeOK, Miss, Produce, Read
  <2> QED BY <1>7, <2>1, <2>2 DEF TypeOK, Miss, Produce
<1>8. CASE _store(r)
  <2>1. [state |-> "fresh", value |-> reader[r].value] \in Entry
    BY <1>1 DEF Read, Entry
  <2>2. reader' \in [Readers -> Read]
    BY <1>1, <1>8 DEF TypeOK, _store, Read
  <2>3. \A q \in Readers :
          reader'[q].at \in {"get", "produce", "store"} => reader'[q].version # Absent
    BY <1>8 DEF TypeOK, _store
  <2> QED BY <1>8, <2>1, <2>2, <2>3 DEF TypeOK, _store
<1> QED BY <1>2, <1>3, <1>4, <1>5, <1>6, <1>7, <1>8 DEF ReaderStep

LEMMA RefreshType ==
  ASSUME TypeOK, NEW t \in Tasks, TaskStep(t) \/ RefreshDies(t)
  PROVE  TypeOK'
<1> USE DEF world, StoreEntry
<1>1. task[t] \in Refresh /\ data \in Values
  BY DEF TypeOK
<1>2. CASE RefreshProduce(t)
  <2>1. task' \in [Tasks -> Refresh]
    BY <1>1, <1>2 DEF TypeOK, RefreshProduce, Refresh
  <2>2. \A u \in Tasks : task'[u].at # "idle" => task'[u].version # Absent
    BY <1>1, <1>2 DEF TypeOK, RefreshProduce, Refresh
  <2> QED BY <1>2, <2>1, <2>2 DEF TypeOK, RefreshProduce
<1>3. CASE RefreshFails(t) \/ RefreshStore(t)
  <2>1. task' \in [Tasks -> Refresh]
    BY <1>1, <1>3 DEF TypeOK, RefreshFails, RefreshStore, Refresh
  <2>2. \A u \in Tasks : task'[u].at # "idle" => task'[u].version # Absent
    BY <1>1, <1>3 DEF TypeOK, RefreshFails, RefreshStore, Refresh
  <2>3. [state |-> "fresh", value |-> task[t].value] \in Entry
    BY <1>1 DEF Refresh, Entry
  <2> QED BY <1>3, <2>1, <2>2, <2>3 DEF TypeOK, RefreshFails, RefreshStore
<1>4. CASE RefreshUnlock(t) \/ RefreshDies(t)
  <2>1. NoRefresh \in Refresh /\ NoRefresh.at = "idle"
    BY Bounds DEF NoRefresh, Refresh
  <2> QED BY <1>4, <2>1 DEF TypeOK, RefreshUnlock, RefreshDies
<1> QED BY <1>2, <1>3, <1>4 DEF TaskStep

LEMMA WriteType ==
  ASSUME TypeOK, NEW w \in Writers, WriterStep(w) \/ WriterDies(w)
  PROVE  TypeOK'
<1> USE DEF world
<1>1. writer[w] \in Write /\ data \in Values /\ settled \in Values
  BY DEF TypeOK
<1>2. CASE WriteDone(w)
  <2>1. data + 1 \in Values
    BY <1>1, <1>2, BoundAssumption DEF WriteDone, Values
  <2> QED BY <1>2, <2>1 DEF TypeOK, WriteDone, Write
<1>3. CASE invalidate(w) \/ RestartAtTwo(w)
  <2>1. PICK v \in Versions : Invalidated(w, v)
    <3>1. counter \in 1 .. MaxVersion - 1 => counter + 1 \in Versions
      BY BoundAssumption DEF Versions
    <3> QED BY <1>3, <3>1, Bounds DEF invalidate, RestartAtTwo
  <2>2. Max2(settled, writer[w].change) \in Values
    BY <1>1 DEF Max2, Write
  <2>3. writer' \in [Writers -> Write]
    BY <1>1, <2>1 DEF TypeOK, Invalidated, Write
  <2> QED BY <2>1, <2>2, <2>3 DEF TypeOK, Invalidated
<1>4. CASE NoCounter(w) \/ WriterDies(w)
  <2>1. writer' \in [Writers -> Write]
    BY <1>1, <1>4 DEF TypeOK, NoCounter, WriterDies, Write
  <2> QED BY <1>4, <2>1 DEF TypeOK, NoCounter, WriterDies
<1> QED BY <1>2, <1>3, <1>4 DEF WriterStep

LEMMA LapseType ==
  ASSUME TypeOK,
         \/ \E v \in Versions : GoesStale(v) \/ EntryLapses(v) \/ LockLapses(v)
         \/ CounterLapses
         \/ OutsideChange
         \/ UNCHANGED vars
  PROVE  TypeOK'
<1> USE DEF world, threads
<1>1. ASSUME NEW v \in Versions, GoesStale(v) \/ EntryLapses(v) \/ LockLapses(v)
      PROVE  TypeOK'
  <2>1. entry[v] \in Entry
    BY DEF TypeOK
  <2>2. entry' \in [Versions -> Entry] /\ lock' \subseteq Versions
    BY <1>1, <2>1, Bounds DEF TypeOK, GoesStale, EntryLapses, LockLapses, Entry, NoEntry
  <2> QED BY <1>1, <2>2 DEF TypeOK, GoesStale, EntryLapses, LockLapses
<1>2. CASE CounterLapses
  BY <1>2 DEF TypeOK, CounterLapses
<1>3. CASE OutsideChange
  <2>1. data + 1 \in Values
    BY <1>3, BoundAssumption DEF TypeOK, OutsideChange, Values
  <2> QED BY <1>3, <2>1 DEF TypeOK, OutsideChange
<1>4. CASE UNCHANGED vars
  BY <1>4 DEF TypeOK, vars
<1> QED BY <1>1, <1>2, <1>3, <1>4

\* The types need no other invariant.
LEMMA StepType ==
  ASSUME TypeOK, [Next]_vars
  PROVE  TypeOK'
  BY ReadType, RefreshType, WriteType, LapseType DEF Next

-----------------------------------------------------------------------------
(* Reads *)

\* A read that looks at its entry has a version, so the entry exists.
LEMMA ReaderVersion ==
  ASSUME Inv, NEW r \in Readers, reader[r].at \in {"get", "produce", "store"}
  PROVE  /\ reader[r].version \in Versions
         /\ reader[r].version <= counter
         /\ entry[reader[r].version] \in Entry
         /\ base[reader[r].version] \in Values
<1>1. reader[r].version \in 1 .. counter /\ counter \in Versions
  BY DEF Inv, TypeOK, Warm, VersionInv, ReaderInv
<1>2. reader[r].version \in Versions /\ reader[r].version <= counter
  BY <1>1, BoundAssumption DEF Versions
<1> QED BY <1>2 DEF Inv, TypeOK

\* What a read sees of its version is not older than the version; what it sees
\* of WHMCS is not older than anything.
LEMMA ReadWarm ==
  ASSUME Inv, NEW r \in Readers, Begin(r) \/ ReaderStep(r) \/ ReadFails(r)
  PROVE  Warm'
<1> USE DEF world, Serve, StoreEntry
<1>1. ReaderInv(r) /\ reader[r] \in Read
  BY DEF Inv, TypeOK, Warm
<1>2. UNCHANGED <<data, settled, base, counter, writer>>
  BY <1>1 DEF ReaderInv, Begin, ReadFails, ReaderStep, namespace_version, VersionOne,
     HitFresh, HitStale, _schedule_refresh, Miss, Produce, _store
<1>3. \A q \in Readers \ {r} : reader'[q] = reader[q]
  BY DEF Inv, TypeOK, Begin, ReadFails, ReaderStep, namespace_version, VersionOne,
     HitFresh, HitStale, _schedule_refresh, Miss, Produce, _store
<1>4. VersionInv /\ counter \in Versions /\ data \in Values /\ settled \in Values
  BY DEF Inv, TypeOK, Warm, VersionInv
<1>5. ReaderInv(r)'
  <2>1. CASE Begin(r) \/ ReadFails(r)
    <3>1. CASE reader'[r] = [NoRead EXCEPT !.at = "start", !.since = settled]
      <4>1. reader'[r].at = "start" /\ reader'[r].since = settled
        BY <3>1 DEF NoRead
      <4> QED BY <1>2, <1>4, <4>1 DEF ReaderInv, Values
    <3>2. CASE reader'[r] = NoRead
      <4>1. reader'[r].at = "idle" /\ reader'[r].since = 0
        BY <3>2 DEF NoRead
      <4> QED BY <1>2, <1>4, <4>1 DEF ReaderInv, Values
    <3> QED BY <2>1, <3>1, <3>2 DEF Inv, TypeOK, Begin, ReadFails
  <2>2. CASE namespace_version(r)
    BY <1>1, <1>2, <1>4, <2>2
       DEF Inv, TypeOK, namespace_version, ReaderInv, VersionInv, Versions, Absent
  <2>3. CASE VersionOne(r)
    BY <1>1, <2>3 DEF VersionOne, ReaderInv
  <2>4. CASE HitFresh(r) \/ HitStale(r) \/ _schedule_refresh(r)
    <3> DEFINE v == reader[r].version
    <3>1. v \in Versions /\ entry[v].state # "absent" /\ reader[r].since <= base[v]
      BY <1>1, <2>4, ReaderVersion DEF HitFresh, HitStale, _schedule_refresh, ReaderInv
    <3>2. entry[v].value >= base[v] /\ entry[v].value \in Values /\ base[v] \in Values
      BY <2>4, <3>1, ReaderVersion
         DEF Inv, Warm, EntryInv, HitFresh, HitStale, _schedule_refresh, Entry
    <3>3. reader'[r] = [reader[r] EXCEPT !.at = "served", !.value = entry[v].value]
      BY <2>4 DEF Inv, TypeOK, HitFresh, HitStale, _schedule_refresh
    <3>4. entry[v].value >= reader[r].since
      BY <1>1, <3>1, <3>2 DEF Read, Values
    <3> QED BY <1>1, <1>2, <3>3, <3>4 DEF ReaderInv, Read
  <2>5. CASE Miss(r)
    BY <1>1, <1>2, <2>5 DEF Inv, TypeOK, Miss, ReaderInv
  <2>6. CASE Produce(r)
    <3>1. reader[r].version \in 1 .. counter /\ base[reader[r].version] \in Values
      BY <1>1, <2>6, ReaderVersion DEF Produce, ReaderInv
    <3>2. data >= base[reader[r].version]
      BY <1>4, <3>1 DEF VersionInv, Values
    <3> QED BY <1>1, <1>2, <2>6, <3>2 DEF Inv, TypeOK, Produce, ReaderInv
  <2>7. CASE _store(r)
    <3>1. reader[r].value >= reader[r].since
      BY <1>1, <2>7, ReaderVersion DEF _store, ReaderInv, Read, Values
    <3> QED BY <1>1, <1>2, <2>7, <3>1 DEF Inv, TypeOK, _store, ReaderInv
  <2> QED BY <2>1, <2>2, <2>3, <2>4, <2>5, <2>6, <2>7 DEF ReaderStep
<1>6. \A q \in Readers : ReaderInv(q)'
  BY <1>2, <1>3, <1>5 DEF Inv, Warm, ReaderInv
<1>7. \A v \in Versions : EntryInv(v)'
  <2>1. CASE _store(r)
    <3>1. /\ reader[r].version <= counter
          /\ reader[r].value >= base[reader[r].version]
      BY <1>1, <2>1, ReaderVersion DEF _store, ReaderInv
    <3> QED BY <1>2, <2>1, <3>1 DEF Inv, TypeOK, Warm, EntryInv, _store
  <2>2. CASE ~_store(r)
    <3>1. UNCHANGED entry
      BY <1>1, <2>2 DEF Begin, ReadFails, ReaderStep, namespace_version, VersionOne,
         HitFresh, HitStale, _schedule_refresh, Miss, Produce
    <3> QED BY <1>2, <3>1 DEF Inv, Warm, EntryInv
  <2> QED BY <2>1, <2>2
<1>8. \A t \in Tasks : TaskInv(t)'
  <2>1. CASE _schedule_refresh(r)
    <3>1. reader[r].version \in 1 .. counter
      BY <1>1, <2>1 DEF _schedule_refresh, ReaderInv
    <3> QED BY <1>2, <2>1, <3>1
            DEF Inv, TypeOK, Warm, TaskInv, _schedule_refresh, NoRefresh
  <2>2. CASE ~_schedule_refresh(r)
    <3>1. UNCHANGED task
      BY <1>1, <2>2 DEF Begin, ReadFails, ReaderStep, namespace_version, VersionOne,
         HitFresh, HitStale, Miss, Produce, _store
    <3> QED BY <1>2, <3>1 DEF Inv, Warm, TaskInv
  <2> QED BY <2>1, <2>2
<1> QED BY <1>2, <1>4, <1>6, <1>7, <1>8 DEF Inv, Warm, VersionInv, WriterInv

-----------------------------------------------------------------------------
(* Refreshes *)

LEMMA RefreshInv ==
  ASSUME Inv, NEW t \in Tasks, TaskStep(t) \/ RefreshDies(t)
  PROVE  Warm'
<1> USE DEF world, StoreEntry, TaskStep
<1>1. task[t] \in Refresh /\ TaskInv(t) /\ VersionInv
  BY DEF Inv, TypeOK, Warm
<1>2. counter \in Versions /\ data \in Values /\ settled \in Values
  BY <1>1 DEF Inv, TypeOK, VersionInv
<1>3. /\ UNCHANGED <<data, settled, base, counter, reader, writer>>
      /\ \A u \in Tasks \ {t} : task'[u] = task[u]
  BY DEF Inv, TypeOK, RefreshProduce, RefreshFails, RefreshStore, RefreshUnlock, RefreshDies
<1>4. task[t].at # "idle"
  BY DEF RefreshProduce, RefreshFails, RefreshStore, RefreshUnlock, RefreshDies
<1>5. /\ task[t].version \in 1 .. counter
      /\ task[t].version \in Versions
      /\ base[task[t].version] \in Values
  <2>1. task[t].version \in 1 .. counter
    BY <1>1, <1>4 DEF TaskInv
  <2>2. task[t].version \in Versions
    BY <1>2, <2>1, BoundAssumption DEF Versions
  <2> QED BY <2>1, <2>2 DEF Inv, TypeOK
<1>6. TaskInv(t)'
  <2>1. CASE RefreshProduce(t)
    <3>1. data >= base[task[t].version]
      BY <1>1, <1>2, <1>5 DEF VersionInv, Values
    <3> QED BY <1>1, <1>3, <1>5, <2>1, <3>1 DEF Inv, TypeOK, RefreshProduce, TaskInv
  <2>2. CASE RefreshFails(t) \/ RefreshStore(t)
    <3>1. task'[t] = [task[t] EXCEPT !.at = "unlock"]
      BY <2>2 DEF Inv, TypeOK, RefreshFails, RefreshStore
    <3>2. task'[t].at = "unlock" /\ task'[t].version = task[t].version
      BY <1>1, <3>1 DEF Refresh
    <3> QED BY <1>3, <1>5, <3>2 DEF TaskInv
  <2>3. CASE RefreshUnlock(t) \/ RefreshDies(t)
    BY <2>3 DEF Inv, TypeOK, RefreshUnlock, RefreshDies, TaskInv, NoRefresh
  <2> QED BY <2>1, <2>2, <2>3
<1>7. \A v \in Versions : EntryInv(v)'
  <2>1. CASE RefreshStore(t)
    <3>1. task[t].version <= counter /\ task[t].value >= base[task[t].version]
      BY <1>1, <1>5, <2>1 DEF RefreshStore, TaskInv
    <3> QED BY <1>3, <2>1, <3>1 DEF Inv, TypeOK, Warm, EntryInv, RefreshStore
  <2>2. CASE ~RefreshStore(t)
    BY <1>3, <2>2 DEF Inv, Warm, EntryInv, RefreshProduce, RefreshFails,
       RefreshUnlock, RefreshDies
  <2> QED BY <2>1, <2>2
<1>8. \A u \in Tasks : TaskInv(u)'
  BY <1>3, <1>6 DEF Inv, Warm, TaskInv
<1>9. VersionInv' /\ (\A r \in Readers : ReaderInv(r)') /\ \A w \in Writers : WriterInv(w)'
  BY <1>3 DEF Inv, Warm, VersionInv, ReaderInv, WriterInv
<1> QED BY <1>7, <1>8, <1>9 DEF Warm

-----------------------------------------------------------------------------
(* Writes *)

\* The next version is empty, and nobody fills it yet: it may promise more.
LEMMA InvalidateInv ==
  ASSUME Inv, NEW w \in Writers, invalidate(w)
  PROVE  Warm'
<1> DEFINE top == Max2(settled, writer[w].change)
<1>1. /\ counter \in 1 .. MaxVersion - 1
      /\ counter' = counter + 1
      /\ writer' = [writer EXCEPT ![w].at = "idle"]
      /\ settled' = top
      /\ base' = [base EXCEPT ![counter + 1] = top]
      /\ UNCHANGED <<data, entry, lock, reader, task>>
  BY DEF invalidate, Invalidated
<1>2. /\ writer[w] \in Write
      /\ writer[w].change <= data
      /\ settled \in Values
      /\ settled <= data
      /\ data \in Values
  BY DEF Inv, TypeOK, Warm, WriterInv, VersionInv
<1>3. top \in Values /\ settled <= top /\ top <= data
  BY <1>2 DEF Max2, Write, Values
<1>4. counter + 1 \in Versions /\ counter \in Versions
  BY <1>1, BoundAssumption DEF Versions
<1>5. \A v \in 1 .. counter : v \in Versions /\ v # counter + 1 /\ base'[v] = base[v]
  BY <1>1, <1>4, BoundAssumption DEF Inv, TypeOK, Versions
<1>6. base'[counter + 1] = top
  BY <1>1, <1>4 DEF Inv, TypeOK
<1>8. VersionInv'
  <2>1. counter' # Absent
    BY <1>1 DEF Absent
  <2>2. \A v \in 1 .. counter : base'[v] <= settled'
    BY <1>1, <1>2, <1>3, <1>5 DEF Inv, TypeOK, Warm, VersionInv, Values
  <2>3. \A v \in 1 .. counter' : v \in 1 .. counter \/ v = counter + 1
    BY <1>1
  <2> QED BY <1>1, <1>3, <1>6, <2>1, <2>2, <2>3 DEF VersionInv, Values
<1>9. \A v \in Versions : EntryInv(v)'
  <2> SUFFICES ASSUME NEW v \in Versions, entry[v].state # "absent"
               PROVE  v <= counter + 1 /\ entry[v].value >= base'[v]
    BY <1>1 DEF EntryInv
  <2>1. v <= counter /\ entry[v].value >= base[v]
    BY DEF Inv, Warm, EntryInv
  <2>2. v \in 1 .. counter
    BY <1>1, <2>1 DEF Versions
  <2> QED BY <1>1, <1>5, <2>1, <2>2
<1>10. \A r \in Readers : ReaderInv(r)'
  <2> SUFFICES ASSUME NEW r \in Readers PROVE ReaderInv(r)'
    OBVIOUS
  <2>1. ReaderInv(r) /\ reader[r].since \in Values
    BY DEF Inv, TypeOK, Warm, Read
  <2>2. reader[r].since <= settled'
    BY <1>1, <1>2, <1>3, <2>1 DEF ReaderInv, Values
  <2>3. \A v \in 1 .. counter : v \in 1 .. counter'
    BY <1>1
  <2> QED BY <1>1, <1>5, <2>1, <2>2, <2>3 DEF ReaderInv
<1>11. \A t \in Tasks : TaskInv(t)'
  <2>1. \A v \in 1 .. counter : v \in 1 .. counter'
    BY <1>1
  <2> QED BY <1>1, <1>5, <2>1 DEF Inv, Warm, TaskInv
<1>12. \A u \in Writers : WriterInv(u)'
  BY <1>1 DEF Inv, TypeOK, Warm, WriterInv, Write
<1> QED BY <1>8, <1>9, <1>10, <1>11, <1>12 DEF Warm

\* The other steps of a write; those without a counter never happen.
LEMMA WriteInv ==
  ASSUME Inv, NEW w \in Writers,
         WriteDone(w) \/ NoCounter(w) \/ RestartAtTwo(w) \/ WriterDies(w)
  PROVE  Warm'
<1> USE DEF world
<1>1. writer[w] \in Write /\ WriterInv(w) /\ VersionInv /\ data \in Values /\ settled \in Values
  BY DEF Inv, TypeOK, Warm
<1>2. CASE WriteDone(w)
  <2>1. VersionInv'
    BY <1>1, <1>2 DEF VersionInv, WriteDone, Values
  <2>2. \A u \in Writers : WriterInv(u)'
    <3> SUFFICES ASSUME NEW u \in Writers PROVE WriterInv(u)'
      OBVIOUS
    <3>1. writer[u] \in Write /\ WriterInv(u)
      BY DEF Inv, TypeOK, Warm
    <3> QED BY <1>1, <1>2, <3>1 DEF Inv, TypeOK, WriterInv, WriteDone, Write, Values
  <2> QED BY <1>2, <2>1, <2>2
          DEF Inv, Warm, EntryInv, ReaderInv, TaskInv, WriteDone
<1>3. CASE WriterDies(w)
  <2>1. \A u \in Writers : WriterInv(u)'
    BY <1>3 DEF Inv, TypeOK, Warm, WriterInv, WriterDies, Write
  <2> QED BY <1>3, <2>1
          DEF Inv, Warm, VersionInv, EntryInv, ReaderInv, TaskInv, WriterDies
<1>4. CASE NoCounter(w) \/ RestartAtTwo(w)
  BY <1>1, <1>4 DEF NoCounter, RestartAtTwo, VersionInv, WriterInv
<1> QED BY <1>2, <1>3, <1>4

-----------------------------------------------------------------------------
(* The cache and WHMCS *)

LEMMA LapseInv ==
  ASSUME Inv, NEW v \in Versions, GoesStale(v) \/ EntryLapses(v) \/ LockLapses(v)
  PROVE  Warm'
<1> USE DEF world, threads
<1>1. UNCHANGED <<data, counter, reader, task, writer, settled, base>>
  BY DEF GoesStale, EntryLapses, LockLapses
<1>2. \A u \in Versions : EntryInv(u)'
  BY <1>1 DEF Inv, TypeOK, Warm, EntryInv, GoesStale, EntryLapses, LockLapses, Entry, NoEntry
<1> QED BY <1>1, <1>2 DEF Inv, Warm, VersionInv, ReaderInv, TaskInv, WriterInv

LEMMA OutsideInv ==
  ASSUME Inv, OutsideChange
  PROVE  Warm'
<1> USE DEF threads
<1>1. settled \in Values /\ data \in Values /\ settled <= data
  BY DEF Inv, TypeOK, Warm, VersionInv
<1>2. \A w \in Writers : writer[w] \in Write /\ writer[w].change <= data
  BY DEF Inv, TypeOK, Warm, WriterInv
<1>3. settled <= data + 1 /\ \A w \in Writers : writer[w].change <= data + 1
  BY <1>1, <1>2 DEF Values, Write
<1> QED BY <1>3
        DEF Inv, Warm, VersionInv, EntryInv, ReaderInv, TaskInv, WriterInv, OutsideChange

-----------------------------------------------------------------------------

\* The counter that is lost is not found again.
LEMMA CountedBefore ==
  ASSUME TypeOK, [Next]_vars, counted'
  PROVE  counted /\ ~CounterLapses
<1> USE DEF world, threads
<1>1. ~CounterLapses
  BY DEF CounterLapses
<1>2. ASSUME NEW r \in Readers, Begin(r) \/ ReaderStep(r) \/ ReadFails(r) PROVE counted
  BY <1>2 DEF Begin, ReadFails, ReaderStep, namespace_version, VersionOne, HitFresh,
     HitStale, _schedule_refresh, Miss, Produce, _store
<1>3. ASSUME NEW t \in Tasks, TaskStep(t) \/ RefreshDies(t) PROVE counted
  BY <1>3 DEF TaskStep, RefreshProduce, RefreshFails, RefreshStore, RefreshUnlock, RefreshDies
<1>4. ASSUME NEW w \in Writers, WriterStep(w) \/ WriterDies(w) PROVE counted
  BY <1>4 DEF WriterStep, WriteDone, invalidate, NoCounter, RestartAtTwo, Invalidated, WriterDies
<1>5. CASE OutsideChange
  BY <1>1, <1>5 DEF OutsideChange
<1>6. ASSUME NEW v \in Versions, GoesStale(v) \/ EntryLapses(v) \/ LockLapses(v)
      PROVE  counted
  BY <1>6 DEF GoesStale, EntryLapses, LockLapses
<1>7. CASE UNCHANGED vars
  BY <1>1, <1>7 DEF vars
<1> QED BY <1>1, <1>2, <1>3, <1>4, <1>5, <1>6, <1>7 DEF Next

\* The versioned cache: a version never holds anything older than the
\* invalidation that made it current (apps/core/cache.py, get_or_set and
\* invalidate).  This is the inductive invariant.
THEOREM WarmInvariance ==
  Spec => [](TypeOK /\ WarmInv)
<1>1. Init => CacheInv
  BY InitInv
<1>2. CacheInv /\ [Next]_vars => CacheInv'
  <2> SUFFICES ASSUME CacheInv, [Next]_vars PROVE CacheInv'
    OBVIOUS
  <2>1. TypeOK'
    BY StepType DEF CacheInv
  <2>2. ASSUME counted' PROVE Warm'
    <3>1. counted /\ ~CounterLapses
      BY <2>2, CountedBefore DEF CacheInv
    <3>2. Inv
      BY <3>1 DEF CacheInv, WarmInv, Inv
    <3>3. CASE UNCHANGED vars
      BY <3>2, <3>3
         DEF vars, Inv, Warm, VersionInv, EntryInv, ReaderInv, TaskInv, WriterInv
    <3>4. ASSUME NEW w \in Writers, WriterStep(w) \/ WriterDies(w) PROVE Warm'
      BY <3>2, <3>4, InvalidateInv, WriteInv DEF WriterStep
    <3> QED BY <3>1, <3>2, <3>3, <3>4, ReadWarm, RefreshInv, LapseInv, OutsideInv DEF Next
  <2> QED BY <2>1, <2>2 DEF CacheInv, WarmInv
<1>3. CacheInv <=> (TypeOK /\ WarmInv)
  BY DEF CacheInv
<1> QED BY <1>1, <1>2, <1>3, PTL DEF Spec

\* The cache and its threads stay well formed, with a counter or without: a
\* read that looks at its entry has a version to look under (build_key).
THEOREM CacheTypeCorrect ==
  Spec => []TypeOK
  BY WarmInvariance, PTL

\* A read that begins after an invalidation has returned never sees data from
\* before the change (get_or_set after invalidate), while there is a counter.
THEOREM ReadsFollowInvalidations ==
  Spec => []ReadYourWrites
<1>1. WarmInv => ReadYourWrites
  BY DEF WarmInv, Warm, ReaderInv, ReadYourWrites
<1> QED BY <1>1, WarmInvariance, PTL

\* "Nothing older survives" an invalidation (cache.py:64), while there is a
\* counter.
THEOREM InvalidationRetiresAll ==
  Spec => []InvalidationRetires
<1>1. TypeOK /\ WarmInv => InvalidationRetires
  <2> SUFFICES ASSUME TypeOK, WarmInv, counted,
                      counter # Absent, entry[counter].state # "absent"
               PROVE  entry[counter].value >= settled
    BY DEF InvalidationRetires, NothingOlderSurvives
  <2>1. counter \in Versions
    BY DEF TypeOK
  <2> QED BY <2>1 DEF WarmInv, Warm, VersionInv, EntryInv
<1> QED BY <1>1, WarmInvariance, PTL

-----------------------------------------------------------------------------
(* Cache implements CachedReads *)

\* Nothing comes from the future: whatever has been read, stored or settled was
\* WHMCS' data at some time.
Known ==
  /\ settled <= data
  /\ \A v \in Versions : entry[v].value <= data
  /\ \A r \in Readers : reader[r].value <= data
  /\ \A t \in Tasks : task[t].value <= data
  /\ \A w \in Writers : writer[w].change <= data

LEMMA KnownInit ==
  ASSUME Init
  PROVE  Known
  BY DEF Init, Known, NoEntry, NoRead, NoRefresh

LEMMA KnownRead ==
  ASSUME TypeOK, Known, NEW r \in Readers, Begin(r) \/ ReaderStep(r) \/ ReadFails(r)
  PROVE  Known'
<1> USE DEF world, Serve, StoreEntry, ReaderStep
<1>1. reader[r] \in Read /\ data \in Values
  BY DEF TypeOK
<1>2. UNCHANGED <<data, settled, writer>>
  BY DEF Begin, ReadFails, ReaderStep, namespace_version, VersionOne, HitFresh, HitStale,
     _schedule_refresh, Miss, Produce, _store
<1>3. \A q \in Readers : reader'[q].value <= data
  <2>1. CASE Begin(r) \/ ReadFails(r)
    <3>1. reader'[r].value = 0 /\ 0 <= data
      <4>1. 0 <= data
        BY <1>1 DEF Values
      <4>2. CASE Begin(r)
        <5>1. reader'[r] = [NoRead EXCEPT !.at = "start", !.since = settled]
          BY <4>2 DEF TypeOK, Begin
        <5> QED BY <4>1, <5>1 DEF NoRead
      <4>3. CASE ReadFails(r)
        BY <4>1, <4>3 DEF TypeOK, ReadFails, NoRead
      <4> QED BY <2>1, <4>2, <4>3
    <3> QED BY <2>1, <3>1 DEF TypeOK, Known, Begin, ReadFails
  <2>2. CASE HitFresh(r) \/ HitStale(r) \/ _schedule_refresh(r)
    BY <1>1, <2>2, ReaderEntry DEF TypeOK, Known, HitFresh, HitStale, _schedule_refresh, Read
  <2>3. CASE namespace_version(r) \/ VersionOne(r) \/ Miss(r) \/ Produce(r) \/ _store(r)
    BY <1>1, <2>3
       DEF TypeOK, Known, namespace_version, VersionOne, Miss, Produce, _store, Read, Values
  <2> QED BY <2>1, <2>2, <2>3
<1>4. \A v \in Versions : entry'[v].value <= data
  BY <1>1 DEF TypeOK, Known, Begin, ReadFails, namespace_version, VersionOne,
     HitFresh, HitStale, _schedule_refresh, Miss, Produce, _store
<1>5. \A t \in Tasks : task'[t].value <= data
  <2>1. CASE _schedule_refresh(r)
    <3>1. PICK t \in Tasks :
            task' = [task EXCEPT ![t] = [NoRefresh EXCEPT !.at = "queued",
                                                          !.version = reader[r].version]]
      BY <2>1 DEF _schedule_refresh
    <3>2. task'[t].value = 0 /\ 0 <= data
      BY <1>1, <3>1 DEF TypeOK, NoRefresh, Values
    <3> QED BY <3>1, <3>2 DEF TypeOK, Known
  <2>2. CASE ~_schedule_refresh(r)
    BY <2>2 DEF Known, Begin, ReadFails, namespace_version, VersionOne, HitFresh, HitStale,
       Miss, Produce, _store
  <2> QED BY <2>1, <2>2
<1> QED BY <1>2, <1>3, <1>4, <1>5 DEF Known

LEMMA KnownStep ==
  ASSUME TypeOK, Known, [Next]_vars
  PROVE  Known'
<1> USE DEF world, threads
<1>1. /\ data \in Values
      /\ settled \in Values
      /\ \A v \in Versions : entry[v] \in Entry
      /\ \A r \in Readers : reader[r] \in Read
      /\ \A t \in Tasks : task[t] \in Refresh
      /\ \A w \in Writers : writer[w] \in Write
  BY DEF TypeOK
<1>2. ASSUME NEW t \in Tasks, TaskStep(t) \/ RefreshDies(t) PROVE Known'
  <2>1. UNCHANGED <<data, settled, reader, writer>>
    BY <1>2 DEF TaskStep, RefreshProduce, RefreshFails, RefreshStore, RefreshUnlock, RefreshDies
  <2>2. \A u \in Tasks : task'[u].value <= data
    BY <1>1, <1>2 DEF TypeOK, Known, TaskStep, RefreshProduce, RefreshFails, RefreshStore,
       RefreshUnlock, RefreshDies, NoRefresh, Refresh, Values
  <2>3. \A v \in Versions : entry'[v].value <= data
    BY <1>1, <1>2 DEF TypeOK, Known, TaskStep, RefreshProduce, RefreshFails, RefreshStore,
       RefreshUnlock, RefreshDies, StoreEntry
  <2> QED BY <2>1, <2>2, <2>3 DEF Known
<1>3. ASSUME NEW w \in Writers, WriterStep(w) \/ WriterDies(w) PROVE Known'
  <2>1. CASE WriteDone(w)
    <3>1. \A n \in Values : n <= data => n <= data + 1
      BY <1>1 DEF Values
    <3>2. \A u \in Writers : writer'[u].change <= data + 1
      BY <1>1, <2>1, <3>1 DEF TypeOK, Known, WriteDone, Write, Values
    <3> QED BY <1>1, <2>1, <3>1, <3>2
            DEF Known, WriteDone, Entry, Read, Refresh
  <2>2. CASE NoCounter(w) \/ WriterDies(w)
    BY <1>1, <2>2 DEF TypeOK, Known, NoCounter, WriterDies, Write
  <2>3. CASE invalidate(w) \/ RestartAtTwo(w)
    <3>1. settled' = Max2(settled, writer[w].change)
      BY <2>3 DEF invalidate, RestartAtTwo, Invalidated
    <3>2. settled' <= data
      BY <3>1 DEF Known, Max2
    <3>3. /\ UNCHANGED <<data, entry, reader, task>>
          /\ writer' = [writer EXCEPT ![w].at = "idle"]
      BY <2>3 DEF invalidate, RestartAtTwo, Invalidated
    <3>4. \A u \in Writers : writer'[u].change <= data
      BY <1>1, <3>3 DEF TypeOK, Known, Write
    <3> QED BY <3>2, <3>3, <3>4 DEF Known
  <2> QED BY <1>3, <2>1, <2>2, <2>3 DEF WriterStep
<1>4. ASSUME NEW v \in Versions, GoesStale(v) \/ EntryLapses(v) \/ LockLapses(v) PROVE Known'
  BY <1>1, <1>4 DEF TypeOK, Known, GoesStale, EntryLapses, LockLapses, NoEntry, Entry, Values
<1>5. CASE CounterLapses
  BY <1>5 DEF Known, CounterLapses
<1>6. CASE OutsideChange
  <2>1. \A n \in Values : n <= data => n <= data + 1
    BY <1>1 DEF Values
  <2> QED BY <1>1, <1>6, <2>1 DEF Known, OutsideChange, Entry, Read, Refresh, Write
<1>7. CASE UNCHANGED vars
  BY <1>7 DEF vars, Known
<1> QED BY <1>2, <1>3, <1>4, <1>5, <1>6, <1>7, KnownRead DEF Next

LEMMA PromiseInit ==
  ASSUME Init
  PROVE  Promise!Init
<1>1. \A r \in Readers : Seen(r) = [at |-> "out", since |-> 0, value |-> 0]
  BY DEF Init, Seen, NoRead
<1> QED BY <1>1 DEF Init, Promise!Init, Promise!Outside

\* A step that no view can tell from nothing.
LEMMA PromiseStutter ==
  ASSUME UNCHANGED <<data, settled, counted, reader>>
  PROVE  UNCHANGED Promise!vars
  BY DEF Promise!vars, Seen

\* A read of the cache is a step of the read that the view sees.
LEMMA PromiseRead ==
  ASSUME TypeOK, WarmInv, Known, TypeOK', WarmInv', Known',
         NEW r \in Readers, Begin(r) \/ ReaderStep(r) \/ ReadFails(r)
  PROVE  [Promise!Next]_(Promise!vars)
<1> USE DEF world, Serve, ReaderStep
<1> DEFINE seen == [q \in Readers |-> Seen(q)]
<1>1. UNCHANGED <<data, settled, counted>>
  BY DEF Begin, ReadFails, ReaderStep, namespace_version, VersionOne, HitFresh, HitStale,
     _schedule_refresh, Miss, Produce, _store
<1>2. \A q \in Readers \ {r} : reader'[q] = reader[q]
  BY DEF TypeOK, Begin, ReadFails, ReaderStep, namespace_version, VersionOne, HitFresh,
     HitStale, _schedule_refresh, Miss, Produce, _store
<1>3. seen' = [seen EXCEPT ![r] = Seen(r)']
  BY <1>2 DEF Seen
<1>4. reader[r] \in Read /\ reader'[r] \in Read /\ data \in Values
  BY DEF TypeOK
<1>5. CASE Begin(r)
  <2>1. reader'[r].at = "start" /\ reader'[r].since = settled
    BY <1>5 DEF TypeOK, Begin, NoRead
  <2>2. Seen(r)' = [at |-> "reading", since |-> settled, value |-> 0]
    BY <2>1 DEF Seen
  <2>3. seen[r].at # "reading"
    BY <1>5 DEF Begin, Seen
  <2> QED BY <1>1, <1>3, <2>2, <2>3 DEF Promise!Next, Promise!Begin
<1>6. CASE ReadFails(r)
  <2>1. Seen(r)' = Promise!Outside
    BY <1>6 DEF TypeOK, ReadFails, NoRead, Seen, Promise!Outside
  <2>2. seen[r].at = "reading"
    BY <1>6 DEF ReadFails, Seen
  <2> QED BY <1>1, <1>3, <2>1, <2>2 DEF Promise!Next, Promise!Fail
<1>7. CASE namespace_version(r) \/ VersionOne(r) \/ Miss(r) \/ Produce(r)
  <2>1. /\ reader[r].at \notin {"idle", "served"}
        /\ reader'[r].at \notin {"idle", "served"}
        /\ reader'[r].since = reader[r].since
    BY <1>4, <1>7 DEF TypeOK, namespace_version, VersionOne, Miss, Produce, Read
  <2>2. Seen(r)' = Seen(r)
    BY <2>1 DEF Seen
  <2>3. seen' = seen
    BY <1>3, <2>2
  <2> QED BY <1>1, <2>3 DEF Promise!vars
<1>8. CASE HitFresh(r) \/ HitStale(r) \/ _schedule_refresh(r) \/ _store(r)
  <2>1. /\ reader[r].at \in {"get", "store"}
        /\ reader'[r].at = "served"
        /\ reader'[r].since = reader[r].since
    BY <1>4, <1>8 DEF TypeOK, HitFresh, HitStale, _schedule_refresh, _store, Read
  <2>2. /\ seen[r] = [at |-> "reading", since |-> reader[r].since, value |-> 0]
        /\ Seen(r)' = [at |-> "answered", since |-> reader[r].since,
                       value |-> reader'[r].value]
    BY <2>1 DEF Seen
  <2>3. reader'[r].value \in (IF counted THEN reader[r].since ELSE 0) .. data
    <3>1. reader'[r].value \in Values /\ reader'[r].value <= data
      BY <1>1, <1>4 DEF Known, Read
    <3>2. counted => reader'[r].value >= reader[r].since
      BY <1>1, <2>1 DEF WarmInv, Warm, ReaderInv
    <3> QED BY <1>4, <3>1, <3>2 DEF Read, Values
  <2>4. seen[r].at = "reading" /\ seen[r].since = reader[r].since
    BY <2>2
  <2>5. seen' = [seen EXCEPT ![r] = [at |-> "answered", since |-> reader[r].since,
                                     value |-> reader'[r].value]]
    BY <1>3, <2>2
  <2> QED BY <1>1, <2>3, <2>4, <2>5 DEF Promise!Next, Promise!Answer, Promise!Answers
<1> QED BY <1>5, <1>6, <1>7, <1>8

\* Every step of the cache is a step of its promise, or no step at all.
LEMMA PromiseStep ==
  ASSUME TypeOK, WarmInv, Known, TypeOK', WarmInv', Known', [Next]_vars
  PROVE  [Promise!Next]_(Promise!vars)
<1> USE DEF world, threads
<1>1. UNCHANGED reader => UNCHANGED [r \in Readers |-> Seen(r)]
  BY DEF Seen
<1>2. ASSUME NEW t \in Tasks, TaskStep(t) \/ RefreshDies(t)
      PROVE  [Promise!Next]_(Promise!vars)
  BY <1>2, PromiseStutter DEF TaskStep, RefreshProduce, RefreshFails, RefreshStore,
     RefreshUnlock, RefreshDies
<1>3. ASSUME NEW w \in Writers, WriterStep(w) \/ WriterDies(w)
      PROVE  [Promise!Next]_(Promise!vars)
  <2>1. CASE WriteDone(w)
    BY <1>1, <2>1 DEF WriteDone, Promise!Next, Promise!Change
  <2>2. CASE NoCounter(w) \/ WriterDies(w)
    BY <2>2, PromiseStutter DEF NoCounter, WriterDies
  <2>3. CASE invalidate(w) \/ RestartAtTwo(w)
    <3>1. /\ settled' = Max2(settled, writer[w].change)
          /\ UNCHANGED <<data, reader, counted>>
      BY <2>3 DEF invalidate, RestartAtTwo, Invalidated
    <3>2. settled' \in settled .. data
      BY <3>1 DEF TypeOK, Known, Write, Max2, Values
    <3> QED BY <1>1, <3>1, <3>2 DEF Promise!Next, Promise!Settle
  <2> QED BY <1>3, <2>1, <2>2, <2>3 DEF WriterStep
<1>4. ASSUME NEW v \in Versions, GoesStale(v) \/ EntryLapses(v) \/ LockLapses(v)
      PROVE  [Promise!Next]_(Promise!vars)
  BY <1>4, PromiseStutter DEF GoesStale, EntryLapses, LockLapses
<1>5. CASE CounterLapses
  BY <1>1, <1>5 DEF CounterLapses, Promise!Next, Promise!Lose
<1>6. CASE OutsideChange
  BY <1>1, <1>6 DEF OutsideChange, Promise!Next, Promise!Change
<1>7. CASE UNCHANGED vars
  BY <1>7, PromiseStutter DEF vars
<1> QED BY <1>2, <1>3, <1>4, <1>5, <1>6, <1>7, PromiseRead DEF Next

\* The cache implements CachedReads (get_or_set, _schedule_refresh and
\* invalidate together): for any number of readers, refreshes and writers, a view
\* sees data as of some moment since the last invalidation that had returned.
THEOREM PromiseKept ==
  Spec => KeepsPromise
<1>1. Init => Known
  BY KnownInit
<1>2. TypeOK /\ Known /\ [Next]_vars => Known'
  BY KnownStep
<1>3. Init => Promise!Init
  BY PromiseInit
<1>4. TypeOK /\ WarmInv /\ Known /\ TypeOK' /\ WarmInv' /\ Known' /\ [Next]_vars
        => [Promise!Next]_(Promise!vars)
  BY PromiseStep
<1> QED BY <1>1, <1>2, <1>3, <1>4, WarmInvariance, PTL DEF Spec, KeepsPromise, Promise!Spec
\* What the promise is worth: CachedReads alone, without versions, entries or
\* locks, implies what a view relies on.
PromisedRead(r) ==
  LET read == Seen(r) IN
    /\ read.since \in 0 .. settled
    /\ counted /\ read.at = "answered" => read.value >= read.since

PromisedInv ==
  /\ data \in Nat /\ settled \in 0 .. data
  /\ \A r \in Readers : PromisedRead(r)

LEMMA PromisedInit ==
  ASSUME Promise!Init
  PROVE  PromisedInv
<1> DEFINE seen == [r \in Readers |-> Seen(r)]
<1>1. seen = [r \in Readers |-> [at |-> "out", since |-> 0, value |-> 0]]
  BY DEF Promise!Init, Promise!Outside
<1>2. ASSUME NEW r \in Readers PROVE Seen(r) = [at |-> "out", since |-> 0, value |-> 0]
  <2>1. seen[r] = Seen(r)
    OBVIOUS
  <2> QED BY <1>1, <2>1
<1>3. data = 0 /\ settled = 0
  BY DEF Promise!Init
<1> QED BY <1>2, <1>3 DEF PromisedInv, PromisedRead

LEMMA PromisedStep ==
  ASSUME PromisedInv, [Promise!Next]_(Promise!vars)
  PROVE  PromisedInv'
<1> DEFINE seen == [r \in Readers |-> Seen(r)]
<1>1. \A r \in Readers : seen[r] = Seen(r) /\ seen'[r] = Seen(r)'
  OBVIOUS
<1>2. DOMAIN seen = Readers
  OBVIOUS
<1> HIDE DEF seen
<1>3. CASE Promise!Change \/ Promise!Settle \/ Promise!Lose \/ UNCHANGED Promise!vars
  <2>1. seen' = seen
    BY <1>3 DEF Promise!Change, Promise!Settle, Promise!Lose, Promise!vars, seen
  <2>2. /\ data' \in Nat /\ settled' \in settled .. data'
        /\ counted' => counted
    BY <1>3 DEF PromisedInv, Promise!Change, Promise!Settle, Promise!Lose, Promise!vars
  <2>3. \A r \in Readers : Seen(r)' = Seen(r)
    BY <1>1, <2>1
  <2> QED BY <2>2, <2>3 DEF PromisedInv, PromisedRead
<1>4. ASSUME NEW r \in Readers, Promise!Begin(r) \/ Promise!Answer(r) \/ Promise!Fail(r)
      PROVE  PromisedInv'
  <2>1. UNCHANGED <<data, settled, counted>>
    BY <1>4 DEF Promise!Begin, Promise!Answer, Promise!Fail
  <2>2. \E new : seen' = [seen EXCEPT ![r] = new]
    BY <1>4 DEF Promise!Begin, Promise!Answer, Promise!Fail, seen
  <2>3. \A q \in Readers \ {r} : Seen(q)' = Seen(q)
    BY <1>1, <1>2, <2>2
  <2>4. PromisedRead(r)'
    <3>1. CASE Promise!Begin(r)
      <4>1. seen' = [seen EXCEPT ![r] = [at |-> "reading", since |-> settled, value |-> 0]]
        BY <3>1 DEF Promise!Begin, seen
      <4>2. Seen(r)' = [at |-> "reading", since |-> settled, value |-> 0]
        BY <1>1, <1>2, <4>1
      <4> QED BY <2>1, <4>2 DEF PromisedInv, PromisedRead
    <3>2. CASE Promise!Fail(r)
      <4>1. seen' = [seen EXCEPT ![r] = [at |-> "out", since |-> 0, value |-> 0]]
        BY <3>2 DEF Promise!Fail, Promise!Outside, seen
      <4>2. Seen(r)' = [at |-> "out", since |-> 0, value |-> 0]
        BY <1>1, <1>2, <4>1
      <4> QED BY <2>1, <4>2 DEF PromisedInv, PromisedRead
    <3>3. CASE Promise!Answer(r)
      <4>1. PICK v \in Promise!Answers(seen[r].since) :
              seen' = [seen EXCEPT ![r] = [at |-> "answered", since |-> seen[r].since,
                                           value |-> v]]
        BY <3>3 DEF Promise!Answer, seen
      <4>2. Seen(r)' = [at |-> "answered", since |-> Seen(r).since, value |-> v]
        BY <1>1, <1>2, <4>1
      <4>3. v \in (IF counted THEN Seen(r).since ELSE 0) .. data
        BY <1>1, <4>1 DEF Promise!Answers
      <4> QED BY <2>1, <4>2, <4>3 DEF PromisedInv, PromisedRead
    <3> QED BY <1>4, <3>1, <3>2, <3>3
  <2> QED BY <2>1, <2>3, <2>4 DEF PromisedInv, PromisedRead
<1> QED BY <1>3, <1>4 DEF Promise!Next

\* A view that knows of CachedReads and nothing else reads its own writes: the
\* abstraction keeps what get_or_set and invalidate are for.
THEOREM PromiseSuffices ==
  KeepsPromise => []ReadYourWrites
<1>1. Promise!Init => PromisedInv
  BY PromisedInit
<1>2. PromisedInv /\ [Promise!Next]_(Promise!vars) => PromisedInv'
  BY PromisedStep
<1>3. PromisedInv => ReadYourWrites
  BY DEF PromisedInv, PromisedRead, ReadYourWrites, Seen
<1> QED BY <1>1, <1>2, <1>3, PTL DEF KeepsPromise, Promise!Spec
=============================================================================
