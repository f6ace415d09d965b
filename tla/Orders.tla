------------------------------- MODULE Orders -------------------------------
(***************************************************************************)
(* POST /orders/: OrderListCreateView.post, which guards                   *)
(* OrderService.create_order by an Idempotency-Key.  The key's result and  *)
(* its lock live in the cache, where both expire; the order lives in WHMCS.*)
(* place_order is the same create_order in a Celery task, without a key:   *)
(* its message is acknowledged only when the task has ended.               *)
(*                                                                         *)
(* Every POST, and every delivery of a message, is a process of its own;   *)
(* each tries AddOrder at most once, so an order is named by the process   *)
(* that created it, and so is the result of create_order: the id in it is  *)
(* 0 when the answer to AddOrder named none.  What the order says is left  *)
(* to Basket.                                                              *)
(***************************************************************************)
EXTENDS Naturals, Basket

CONSTANTS
  Posts,  \* POST requests, whoever sends them, and deliveries of messages
  Keys,   \* cache keys: client and Idempotency-Key together
  Tasks,  \* place_order messages
  None

ASSUME NoneAssumption == None \notin Posts \cup Keys \cup Tasks

VARIABLES
  post,      \* where each process is, its key or message, and how it ended
  lock,      \* the keys that are locked
  memo,      \* cache: the remembered result of a key
  placed,    \* WHMCS: the orders created
  late,      \* AddOrder calls whose effect at WHMCS is still to come
  queued,    \* broker: the messages to be delivered
  holder,    \* broker: the process a message is delivered to, not acknowledged
  failed,    \* history: POSTs in which something else than a WhmcsTransportError
             \* was raised when WHMCS had AddOrder
  unconfirmed,  \* history: POSTs whose AddOrder was answered without an order
  forgotten, \* history: keys whose lock or memo has gone while it was needed
  repeated   \* history: messages whose worker was lost after it called WHMCS

vars == <<post, lock, memo, placed, late, queued, holder,
          failed, unconfirmed, forgotten, repeated>>

-----------------------------------------------------------------------------

\* "holding" steps are those between a successful cache.add and the answer.
Holding == {"check", "call", "store", "release"}

InFlight == {"lookup", "lock"} \cup Holding

Calling == {q \in Posts : post[q].at = "call"}

Replies == {"none", "created", "replay", "in_progress", "unknown", "rejected", "error"}

TypeOK ==
  /\ post \in [Posts -> [at : InFlight \cup {"unsent", "done"},
                         key : Keys \cup {None},
                         task : Tasks \cup {None},
                         reply : Replies,
                         order : Posts \cup {None}]]
  /\ lock \subseteq Keys
  /\ memo \in [Keys -> Posts \cup {None}]
  /\ placed \subseteq Posts
  /\ late \subseteq Posts
  /\ queued \subseteq Tasks
  /\ holder \in [Tasks -> Posts \cup {None}]
  /\ failed \subseteq Posts
  /\ unconfirmed \subseteq Posts
  /\ forgotten \subseteq Keys
  /\ repeated \subseteq Tasks

Init ==
  /\ post = [q \in Posts |-> [at |-> "unsent", key |-> None, task |-> None,
                              reply |-> "none", order |-> None]]
  /\ lock = {}
  /\ memo = [k \in Keys |-> None]
  /\ placed = {}
  /\ late = {}
  /\ queued = Tasks
  /\ holder = [t \in Tasks |-> None]
  /\ failed = {}
  /\ unconfirmed = {}
  /\ forgotten = {}
  /\ repeated = {}

Key(q) == post[q].key

Goto(q, step) == post' = [post EXCEPT ![q].at = step]

Answer(q, reply, order) ==
  post' = [post EXCEPT ![q].at = "done", ![q].reply = reply, ![q].order = order]

\* An order of q exists, or WHMCS may still create it.
Committed(q) == q \in placed \cup late

Holds(q, k) == Key(q) = k /\ post[q].at \in Holding

Bought(q, k) == Key(q) = k /\ Committed(q)

whmcs   == <<placed, late>>
broker  == <<queued, holder, repeated>>
history == <<failed, unconfirmed, forgotten>>

-----------------------------------------------------------------------------
(* OrderListCreateView.post *)

\* Fault: requests without a key lock, all of them the same key.
Submit_LocksAnyway(q, k) ==
  /\ post[q].at = "unsent"
  /\ post' = [post EXCEPT ![q].key = k, ![q].at = IF k = None THEN "lock" ELSE "lookup"]
  /\ UNCHANGED <<lock, memo, whmcs, history, broker>>

\* A validated request, with a usable Idempotency-Key or without any.
Submit(q, k) ==
  /\ post[q].at = "unsent"
  /\ post' = [post EXCEPT ![q].key = k,
                          ![q].at = IF k = None THEN "check" ELSE "lookup"]
  /\ UNCHANGED <<lock, memo, whmcs, history, broker>>

\* cache.get(key): a remembered result is the answer.
Lookup(q) ==
  /\ post[q].at = "lookup"
  /\ IF memo[Key(q)] # None THEN Answer(q, "replay", memo[Key(q)]) ELSE Goto(q, "lock")
  /\ UNCHANGED <<lock, memo, whmcs, history, broker>>

\* Fault: cache.set instead of cache.add.
Acquire_Always(q) ==
  /\ post[q].at = "lock"
  /\ lock' = lock \cup {Key(q)}
  /\ Goto(q, "check")
  /\ UNCHANGED <<memo, whmcs, history, broker>>

\* Fault: the key's result is remembered before there is one.
Acquire_Remembers(q) ==
  /\ post[q].at = "lock"
  /\ Key(q) \notin lock
  /\ lock' = lock \cup {Key(q)}
  /\ memo' = [memo EXCEPT ![Key(q)] = q]
  /\ Goto(q, "check")
  /\ UNCHANGED <<whmcs, history, broker>>

\* cache.add of the lock, atomic in the cache.
Acquire(q) ==
  /\ post[q].at = "lock"
  /\ Key(q) \notin lock
  /\ lock' = lock \cup {Key(q)}
  /\ Goto(q, "check")
  /\ UNCHANGED <<memo, whmcs, history, broker>>

LockHeld(q) ==
  /\ post[q].at = "lock"
  /\ Key(q) \in lock
  /\ Answer(q, "in_progress", None)
  /\ UNCHANGED <<lock, memo, whmcs, history, broker>>

\* create_order checks the basket and the payment method, cached or listed from
\* WHMCS: that call may itself fail as a transport error.
CheckBasket(q) ==
  /\ post[q].at = "check"
  /\ \/ Goto(q, "call")
     \/ Goto(q, "release")
     \/ Answer(q, "unknown", None)
  /\ UNCHANGED <<lock, memo, whmcs, history, broker>>

\* AddOrder is answered with success, and the client's caches are invalidated.
AddOrder(q) ==
  /\ post[q].at = "call"
  /\ placed' = placed \cup {q}
  /\ Goto(q, "store")
  /\ UNCHANGED <<lock, memo, late, history, broker>>

\* A JSON object without an orderid (with a 4xx or 5xx status, of WHMCS or of what
\* stands before it) is returned as an answer: the order's id becomes 0, and all goes
\* on as after a confirmation.  WHMCS may have created the order, may yet, or never.
AddOrderUnconfirmed(q) ==
  /\ post[q].at = "call"
  /\ late' \in {late, late \cup {q}}
  /\ unconfirmed' = unconfirmed \cup {q}
  /\ Goto(q, "store")
  /\ UNCHANGED <<lock, memo, placed, failed, forgotten, broker>>

\* WHMCS answers with an error.
AddOrderRejected(q) ==
  /\ post[q].at = "call"
  /\ Goto(q, "release")
  /\ UNCHANGED <<lock, memo, whmcs, history, broker>>

\* Fault: the generic handler takes WhmcsTransportError too.
AddOrderUnanswered_Releases(q) ==
  /\ post[q].at = "call"
  /\ late' \in {late, late \cup {q}}
  /\ Goto(q, "release")
  /\ UNCHANGED <<lock, memo, placed, history, broker>>

\* WhmcsTransportError: WHMCS never got the call, or will still process it.
\* The lock is kept.
AddOrderUnanswered(q) ==
  /\ post[q].at = "call"
  /\ late' \in {late, late \cup {q}}
  /\ Answer(q, "unknown", None)
  /\ UNCHANGED <<lock, memo, placed, history, broker>>

\* WHMCS has created the order, and then an invalidation raises (the cache is
\* unreachable): the generic handler takes it for a rejected basket.
InvalidationRaises(q) ==
  /\ post[q].at = "call"
  /\ placed' = placed \cup {q}
  /\ failed' = failed \cup {q}
  /\ Goto(q, "release")
  /\ UNCHANGED <<lock, memo, late, unconfirmed, forgotten, broker>>

\* The answer cannot be decoded: httpx.DecodingError is not one of the errors that
\* become a WhmcsTransportError, so the generic handler takes it for a rejected
\* basket too, whatever WHMCS did.
AddOrderUndecodable(q) ==
  /\ post[q].at = "call"
  /\ late' \in {late, late \cup {q}}
  /\ failed' = failed \cup {q}
  /\ Goto(q, "release")
  /\ UNCHANGED <<lock, memo, placed, unconfirmed, forgotten, broker>>

\* The generic handler: the lock is deleted, whoever holds it by now.
Release(q) ==
  /\ post[q].at = "release"
  /\ lock' = lock \ {Key(q)}
  /\ forgotten' = forgotten \cup {k \in Keys : k = Key(q) /\ q \in failed}
  /\ Answer(q, "rejected", None)
  /\ UNCHANGED <<memo, whmcs, failed, unconfirmed, broker>>

\* cache.set(key, result); the lock is left to expire.
Store(q) ==
  /\ post[q].at = "store"
  /\ memo' = IF Key(q) = None THEN memo ELSE [memo EXCEPT ![Key(q)] = q]
  /\ Answer(q, "created", q)
  /\ UNCHANGED <<lock, whmcs, history, broker>>

\* cache.set or cache.delete raises: the lock is left to expire.
CacheRaises(q) ==
  /\ post[q].at \in {"store", "release"}
  /\ Key(q) # None
  /\ Answer(q, "error", None)
  /\ UNCHANGED <<lock, memo, whmcs, history, broker>>

\* The worker dies, or is killed by its timeout; WHMCS may have its call.
PostDies(q) ==
  /\ post[q].at \in InFlight
  /\ late' \in {late} \cup {late \cup {c} : c \in {q} \cap Calling}
  /\ Answer(q, "none", None)
  /\ UNCHANGED <<lock, memo, placed, history, broker>>

-----------------------------------------------------------------------------
(* place_order: create_order in a Celery worker *)

\* The broker delivers the message, and keeps it until it is acknowledged.
Deliver(q, t) ==
  /\ t \in queued
  /\ post[q].at = "unsent"
  /\ queued' = queued \ {t}
  /\ holder' = [holder EXCEPT ![t] = q]
  /\ post' = [post EXCEPT ![q].task = t, ![q].at = "check"]
  /\ UNCHANGED <<lock, memo, whmcs, history, repeated>>

\* Fault: RETRY_KWARGS, as the other tasks have it: a task that ended with a
\* WhmcsTransportError is sent again.
Acknowledge_Retries(t) ==
  /\ holder[t] # None
  /\ post[holder[t]].at = "done"
  /\ holder' = [holder EXCEPT ![t] = None]
  /\ queued' = IF post[holder[t]].reply = "unknown" THEN queued \cup {t} ELSE queued
  /\ UNCHANGED <<post, lock, memo, whmcs, history, repeated>>

\* ACKS_LATE: the message is acknowledged when the task has ended, be it by an
\* exception, by its time limit, or with its child process (max_retries = 0, and
\* task_reject_on_worker_lost is not set).
Acknowledge(t) ==
  /\ holder[t] # None
  /\ post[holder[t]].at = "done"
  /\ holder' = [holder EXCEPT ![t] = None]
  /\ UNCHANGED <<post, lock, memo, whmcs, history, queued, repeated>>

\* The worker itself is lost, at any moment before it has acknowledged (systemd
\* kills it 60 seconds after asking it to stop, and a task may take 120): the
\* broker delivers the message again.
WorkerLost(t) ==
  LET q == holder[t] IN
    /\ q # None
    /\ holder' = [holder EXCEPT ![t] = None]
    /\ queued' = queued \cup {t}
    /\ late' \in {late} \cup {late \cup {c} : c \in {q} \cap Calling}
    /\ repeated' = IF q \in Calling \/ Committed(q) THEN repeated \cup {t} ELSE repeated
    /\ IF post[q].at = "done" THEN UNCHANGED post ELSE Answer(q, "none", None)
    /\ UNCHANGED <<lock, memo, placed, history>>

-----------------------------------------------------------------------------
(* The cache and WHMCS *)

\* What the lock of k stands for at the moment: a request that places its order,
\* an order that is not remembered, or a request that has missed the memo.
Guards(k) ==
  \/ \E q \in Posts : Holds(q, k)
  \/ \E q \in Posts : /\ Bought(q, k)
                    /\ \/ memo[k] = None
                       \/ \E p \in Posts : Key(p) = k /\ post[p].at = "lock"

\* IDEMPOTENCY_LOCK_TTL: 120 seconds, whatever the request that holds the lock is
\* doing.  The timeouts of httpx are per phase of each attempt, and the payment
\* methods are asked for three times: nothing keeps a request below the TTL.
LockExpires(k) ==
  /\ k \in lock
  /\ lock' = lock \ {k}
  /\ forgotten' = IF Guards(k) THEN forgotten \cup {k} ELSE forgotten
  /\ UNCHANGED <<post, memo, whmcs, failed, unconfirmed, broker>>

\* IDEMPOTENCY_TTL: a day.
MemoExpires(k) ==
  /\ memo[k] # None
  /\ memo' = [memo EXCEPT ![k] = None]
  /\ forgotten' = forgotten \cup {k}
  /\ UNCHANGED <<post, lock, whmcs, failed, unconfirmed, broker>>

\* WHMCS processes a call whose caller has given up.
LateArrives(q) ==
  /\ q \in late
  /\ placed' = placed \cup {q}
  /\ late' = late \ {q}
  /\ UNCHANGED <<post, lock, memo, history, broker>>

PostStep(q) ==
  \/ Lookup(q) \/ Acquire(q) \/ LockHeld(q) \/ CheckBasket(q)
  \/ AddOrder(q) \/ AddOrderUnconfirmed(q) \/ AddOrderRejected(q) \/ AddOrderUnanswered(q)
  \/ InvalidationRaises(q) \/ AddOrderUndecodable(q)
  \/ Release(q) \/ Store(q) \/ CacheRaises(q)

Next ==
  \/ \E q \in Posts, k \in Keys \cup {None} : Submit(q, k)
  \/ \E q \in Posts : PostStep(q) \/ PostDies(q) \/ LateArrives(q)
  \/ \E k \in Keys : LockExpires(k) \/ MemoExpires(k)
  \/ \E t \in Tasks : Acknowledge(t) \/ WorkerLost(t) \/ \E q \in Posts : Deliver(q, t)

Spec == Init /\ [][Next]_vars

-----------------------------------------------------------------------------
(* Safety *)

SameKey(p, q) == Key(p) = Key(q) /\ Key(p) # None

\* A key buys once, unless its lock or its memo has gone while something was
\* bought or being bought with it: through double clicks, retries after unknown
\* outcomes, calls that WHMCS processes late, crashes, locks that expire, and
\* invalid baskets resubmitted with the same key.
OneOrderPerKey ==
  \A p, q \in placed : SameKey(p, q) /\ p # q => Key(p) \in forgotten

\* Whatever basket a process calls AddOrder with, WHMCS sells what was asked for,
\* line by line, and is given the address that the trusted proxies have seen.
OrderIsAsAsked == Calling # {} => BasketsAreKept /\ AddressesAreObserved

\* place_order: "Deliberately not retried".  One message buys once, through lost
\* and late answers, failures, time limits and children that die, unless its
\* worker was lost between AddOrder and the acknowledgement.
TaskBuysOnce ==
  \A p, q \in placed :
    post[p].task = post[q].task /\ post[p].task # None /\ p # q => post[p].task \in repeated

\* What keeps it so: an order bought or on its way with a remembered key is
\* guarded by the lock or by the memo at every step of every other request.
KeyInv(k) ==
  /\ \A q \in Posts : Bought(q, k) => k \in lock \/ memo[k] # None
  /\ \A q \in Posts : Holds(q, k) => k \in lock
  /\ \A p, q \in Posts : Holds(p, k) /\ Holds(q, k) => p = q
  /\ \A p, q \in Posts : Bought(p, k) /\ Bought(q, k) => p = q
  /\ \A p, q \in Posts : Bought(p, k) /\ Holds(q, k) => p = q
  /\ \A p, q \in Posts :
       Bought(p, k) /\ Key(q) = k /\ post[q].at = "lock" => k \in lock

RequestInv(q) ==
  /\ Committed(q) =>
       \/ post[q].at \in {"store", "done"}
       \/ post[q].at = "release" /\ q \in failed
  /\ post[q].at = "unsent" => Key(q) = None /\ post[q].task = None
  /\ post[q].at \in {"lookup", "lock"} => Key(q) # None
  /\ post[q].at = "store" => q \in placed \cup unconfirmed
  /\ post[q].reply = "rejected" =>
       post[q].at = "done" /\ (Committed(q) => q \in failed)
  /\ post[q].reply \in {"created", "replay"} => post[q].order \in placed \cup unconfirmed
  /\ post[q].reply = "created" => post[q].order = q
  /\ post[q].reply = "replay" => SameKey(q, post[q].order)

MemoInv(k) ==
  memo[k] # None => memo[k] \in placed \cup unconfirmed /\ Key(memo[k]) = k

\* A message that is not repeated and has bought is with the process that bought,
\* or acknowledged; a process that has not ended has its message.
TaskInv(t) ==
  /\ t \in queued => holder[t] = None
  /\ holder[t] # None => post[holder[t]].task = t
  /\ \A q \in Posts : post[q].task = t /\ post[q].at # "done" => holder[t] = q
  /\ t \notin repeated =>
       /\ \A q \in Posts : post[q].task = t /\ Committed(q) =>
            t \notin queued /\ holder[t] \in {q, None}
       /\ \A p, q \in Posts : /\ post[p].task = t /\ Committed(p)
                             /\ post[q].task = t /\ Committed(q) => p = q

OrderInv ==
  /\ \A q \in Posts : RequestInv(q)
  /\ \A k \in Keys : MemoInv(k)
  /\ \A k \in Keys \ forgotten : KeyInv(k)
  /\ \A t \in Tasks : TaskInv(t)

\* views.py: "a retried or double-clicked request with the same key returns the
\* original order".  A 201 is for the order that the request itself has placed, and
\* a replay for one that its key has bought - or for no order, id 0, when WHMCS'
\* answer named none.
ReplayIsOriginal ==
  \A q \in Posts :
    /\ post[q].reply \in {"created", "replay"} => post[q].order \in placed \cup unconfirmed
    /\ post[q].reply = "created" => post[q].order = q
    /\ post[q].reply = "replay" => SameKey(q, post[q].order)

\* views.py: "A rejected basket: nothing was created, so let them fix it and
\* resubmit with the same key."  That is so unless the invalidation raised, or the
\* answer could not be decoded.
RejectedIsNotPlaced ==
  \A q \in Posts \ failed : post[q].reply = "rejected" => q \notin placed \cup late
=============================================================================
