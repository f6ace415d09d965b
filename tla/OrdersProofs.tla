---------------------------- MODULE OrdersProofs ----------------------------
(***************************************************************************)
(* Theorems of Orders, for every number of requests and of keys.           *)
(***************************************************************************)
EXTENDS Orders, Integers, FiniteSetTheorems, TLAPS

PostRecord == [at : InFlight \cup {"unsent", "done"},
               key : Keys \cup {None},
               task : Tasks \cup {None},
               reply : Replies,
               order : Posts \cup {None}]

\* Every step of a request moves that request alone, and keeps its key and its
\* message.
Moves(q) ==
  /\ post' \in [Posts -> PostRecord]
  /\ post'[q].key = post[q].key
  /\ post'[q].task = post[q].task
  /\ \A r \in Posts \ {q} : post'[r] = post[r]

LEMMA AnswerMoves ==
  ASSUME TypeOK, NEW q \in Posts, NEW reply \in Replies, NEW o \in Posts \cup {None},
         Answer(q, reply, o)
  PROVE  Moves(q)
<1>1. post \in [Posts -> PostRecord]
  BY DEF TypeOK, PostRecord
<1>2. [post[q] EXCEPT !.at = "done", !.reply = reply, !.order = o] \in PostRecord
  BY <1>1 DEF PostRecord
<1>3. post' = [post EXCEPT ![q] = [post[q] EXCEPT !.at = "done", !.reply = reply, !.order = o]]
  BY <1>1 DEF Answer
<1>4. post'[q].key = post[q].key /\ post'[q].task = post[q].task
  BY <1>1, <1>3 DEF PostRecord
<1> QED BY <1>1, <1>2, <1>3, <1>4 DEF Moves

LEMMA GotoMoves ==
  ASSUME TypeOK, NEW q \in Posts, NEW step \in InFlight, Goto(q, step)
  PROVE  Moves(q)
  BY DEF TypeOK, Goto, PostRecord, Moves

LEMMA InitInv == Init => TypeOK /\ OrderInv
<1> SUFFICES ASSUME Init PROVE TypeOK /\ OrderInv
  OBVIOUS
<1>1. TypeOK
  BY DEF Init, TypeOK, Replies
<1>2. OrderInv
  BY NoneAssumption
     DEF Init, OrderInv, RequestInv, MemoInv, KeyInv, TaskInv, Holds, Bought, Committed, Key, Holding
<1> QED BY <1>1, <1>2

\* A lookup answers with what the memo vouches for.
LEMMA LookupInv ==
  ASSUME TypeOK, OrderInv, NEW q \in Posts, Lookup(q)
  PROVE  TypeOK' /\ OrderInv'
<1> USE NoneAssumption DEF Key, whmcs, history, broker, Answer, Goto, Calling
<1>1. Moves(q)
  <2>1. CASE memo[Key(q)] # None
    <3>1. Answer(q, "replay", memo[Key(q)]) /\ memo[Key(q)] \in Posts \cup {None}
      BY <2>1 DEF TypeOK, OrderInv, RequestInv, Lookup, Key
    <3> QED BY <3>1, AnswerMoves DEF Replies
  <2>2. CASE memo[Key(q)] = None
    BY <2>2, GotoMoves DEF Lookup, InFlight
  <2> QED BY <2>1, <2>2
<1>2. TypeOK'
  BY <1>1 DEF TypeOK, Moves, PostRecord, OrderInv, RequestInv, Lookup
<1>3. \A r \in Posts : RequestInv(r)'
  BY <1>1 DEF TypeOK, Moves, OrderInv, RequestInv, MemoInv, Committed, SameKey, Lookup
<1>4. \A k \in Keys : MemoInv(k)'
  BY <1>1 DEF TypeOK, Moves, OrderInv, RequestInv, MemoInv, Lookup
<1>5. \A k \in Keys \ forgotten' : KeyInv(k)'
  BY <1>1 DEF TypeOK, Moves, OrderInv, RequestInv, KeyInv, Holds, Bought, Committed, Holding, Lookup
<1>6. \A t \in Tasks : TaskInv(t)'
  BY <1>1 DEF TypeOK, Moves, OrderInv, RequestInv, TaskInv, Committed, InFlight, Holding, Lookup
<1> QED BY <1>2, <1>3, <1>4, <1>5, <1>6 DEF OrderInv

\* The lock admits one request at a time, and none once an order is bought.
LEMMA AcquireInv ==
  ASSUME TypeOK, OrderInv, NEW q \in Posts, Acquire(q)
  PROVE  TypeOK' /\ OrderInv'
<1> USE NoneAssumption DEF Key, whmcs, history, broker, Answer, Goto, Calling
<1>1. Moves(q)
  <2>1. "check" \in InFlight /\ Goto(q, "check")
    BY DEF Acquire, InFlight, Holding
  <2> QED BY <2>1, GotoMoves
<1>2. TypeOK'
  BY <1>1 DEF TypeOK, Moves, PostRecord, OrderInv, RequestInv, Acquire
<1>3. \A r \in Posts : RequestInv(r)'
  BY <1>1 DEF TypeOK, Moves, OrderInv, RequestInv, MemoInv, Committed, SameKey, Acquire
<1>4. \A k \in Keys : MemoInv(k)'
  BY <1>1 DEF TypeOK, Moves, OrderInv, RequestInv, MemoInv, Acquire
<1>5. \A k \in Keys \ forgotten' : KeyInv(k)'
  BY <1>1 DEF TypeOK, Moves, OrderInv, RequestInv, KeyInv, Holds, Bought, Committed, Holding, Acquire
<1>6. \A t \in Tasks : TaskInv(t)'
  BY <1>1 DEF TypeOK, Moves, OrderInv, RequestInv, TaskInv, Committed, InFlight, Holding, Acquire
<1> QED BY <1>2, <1>3, <1>4, <1>5, <1>6 DEF OrderInv

LEMMA LockHeldInv ==
  ASSUME TypeOK, OrderInv, NEW q \in Posts, LockHeld(q)
  PROVE  TypeOK' /\ OrderInv'
<1> USE NoneAssumption DEF Key, whmcs, history, broker, Answer, Goto, Calling
<1>1. Moves(q)
  <2>1. "in_progress" \in Replies /\ Answer(q, "in_progress", None)
    BY DEF LockHeld, Replies
  <2> QED BY <2>1, AnswerMoves
<1>2. TypeOK'
  BY <1>1 DEF TypeOK, Moves, PostRecord, OrderInv, RequestInv, LockHeld
<1>3. \A r \in Posts : RequestInv(r)'
  BY <1>1 DEF TypeOK, Moves, OrderInv, RequestInv, MemoInv, Committed, SameKey, LockHeld
<1>4. \A k \in Keys : MemoInv(k)'
  BY <1>1 DEF TypeOK, Moves, OrderInv, RequestInv, MemoInv, LockHeld
<1>5. \A k \in Keys \ forgotten' : KeyInv(k)'
  BY <1>1 DEF TypeOK, Moves, OrderInv, RequestInv, KeyInv, Holds, Bought, Committed, Holding, LockHeld
<1>6. \A t \in Tasks : TaskInv(t)'
  BY <1>1 DEF TypeOK, Moves, OrderInv, RequestInv, TaskInv, Committed, InFlight, Holding, LockHeld
<1> QED BY <1>2, <1>3, <1>4, <1>5, <1>6 DEF OrderInv

LEMMA CheckBasketInv ==
  ASSUME TypeOK, OrderInv, NEW q \in Posts, CheckBasket(q)
  PROVE  TypeOK' /\ OrderInv'
<1> USE NoneAssumption DEF Key, whmcs, history, broker, Answer, Goto, Calling
<1>1. Moves(q)
  BY AnswerMoves, GotoMoves DEF CheckBasket, InFlight, Holding, Replies
<1>2. TypeOK'
  BY <1>1 DEF TypeOK, Moves, PostRecord, OrderInv, RequestInv, CheckBasket
<1>3. \A r \in Posts : RequestInv(r)'
  BY <1>1 DEF TypeOK, Moves, OrderInv, RequestInv, MemoInv, Committed, SameKey, CheckBasket
<1>4. \A k \in Keys : MemoInv(k)'
  BY <1>1 DEF TypeOK, Moves, OrderInv, RequestInv, MemoInv, CheckBasket
<1>5. \A k \in Keys \ forgotten' : KeyInv(k)'
  <2>1. /\ UNCHANGED <<lock, memo, placed, late, forgotten>>
        /\ post[q].at = "check" /\ post'[q].at \in Holding \cup {"done"}
    BY DEF TypeOK, CheckBasket, Holding
  <2> QED BY <1>1, <2>1 DEF Moves, OrderInv, KeyInv, Holds, Bought, Committed, Holding
<1>6. \A t \in Tasks : TaskInv(t)'
  BY <1>1 DEF TypeOK, Moves, OrderInv, RequestInv, TaskInv, Committed, InFlight, Holding, CheckBasket
<1> QED BY <1>2, <1>3, <1>4, <1>5, <1>6 DEF OrderInv

\* The only request that holds the key buys.
LEMMA AddOrderInv ==
  ASSUME TypeOK, OrderInv, NEW q \in Posts, AddOrder(q)
  PROVE  TypeOK' /\ OrderInv'
<1> USE NoneAssumption DEF Key, whmcs, history, broker, Answer, Goto, Calling
<1>1. Moves(q)
  <2>1. "store" \in InFlight /\ Goto(q, "store")
    BY DEF AddOrder, InFlight, Holding
  <2> QED BY <2>1, GotoMoves
<1>2. TypeOK'
  BY <1>1 DEF TypeOK, Moves, PostRecord, OrderInv, RequestInv, AddOrder
<1>3. \A r \in Posts : RequestInv(r)'
  BY <1>1 DEF TypeOK, Moves, OrderInv, RequestInv, MemoInv, Committed, SameKey, AddOrder
<1>4. \A k \in Keys : MemoInv(k)'
  BY <1>1 DEF TypeOK, Moves, OrderInv, RequestInv, MemoInv, AddOrder
<1>5. \A k \in Keys \ forgotten' : KeyInv(k)'
  BY <1>1 DEF TypeOK, Moves, OrderInv, RequestInv, KeyInv, Holds, Bought, Committed, Holding, AddOrder
<1>6. \A t \in Tasks : TaskInv(t)'
  BY <1>1 DEF TypeOK, Moves, OrderInv, RequestInv, TaskInv, Committed, InFlight, Holding, AddOrder
<1> QED BY <1>2, <1>3, <1>4, <1>5, <1>6 DEF OrderInv

\* An answer without an order is remembered as one: what WHMCS may still create is
\* that request's.
LEMMA AddOrderUnconfirmedInv ==
  ASSUME TypeOK, OrderInv, NEW q \in Posts, AddOrderUnconfirmed(q)
  PROVE  TypeOK' /\ OrderInv'
<1> USE NoneAssumption DEF Key, whmcs, history, broker, Answer, Goto, Calling
<1>1. Moves(q)
  <2>1. "store" \in InFlight /\ Goto(q, "store")
    BY DEF AddOrderUnconfirmed, InFlight, Holding
  <2> QED BY <2>1, GotoMoves
<1>2. TypeOK'
  BY <1>1 DEF TypeOK, Moves, PostRecord, OrderInv, RequestInv, AddOrderUnconfirmed
<1>3. \A r \in Posts : RequestInv(r)'
  BY <1>1 DEF TypeOK, Moves, OrderInv, RequestInv, MemoInv, Committed, SameKey, AddOrderUnconfirmed
<1>4. \A k \in Keys : MemoInv(k)'
  BY <1>1 DEF TypeOK, Moves, OrderInv, RequestInv, MemoInv, AddOrderUnconfirmed
<1>5. \A k \in Keys \ forgotten' : KeyInv(k)'
  BY <1>1 DEF TypeOK, Moves, OrderInv, RequestInv, KeyInv, Holds, Bought, Committed, Holding, AddOrderUnconfirmed
<1>6. \A t \in Tasks : TaskInv(t)'
  BY <1>1 DEF TypeOK, Moves, OrderInv, RequestInv, TaskInv, Committed, InFlight, Holding, AddOrderUnconfirmed
<1> QED BY <1>2, <1>3, <1>4, <1>5, <1>6 DEF OrderInv

LEMMA AddOrderRejectedInv ==
  ASSUME TypeOK, OrderInv, NEW q \in Posts, AddOrderRejected(q)
  PROVE  TypeOK' /\ OrderInv'
<1> USE NoneAssumption DEF Key, whmcs, history, broker, Answer, Goto, Calling
<1>1. Moves(q)
  <2>1. "release" \in InFlight /\ Goto(q, "release")
    BY DEF AddOrderRejected, InFlight, Holding
  <2> QED BY <2>1, GotoMoves
<1>2. TypeOK'
  BY <1>1 DEF TypeOK, Moves, PostRecord, OrderInv, RequestInv, AddOrderRejected
<1>3. \A r \in Posts : RequestInv(r)'
  BY <1>1 DEF TypeOK, Moves, OrderInv, RequestInv, MemoInv, Committed, SameKey, AddOrderRejected
<1>4. \A k \in Keys : MemoInv(k)'
  BY <1>1 DEF TypeOK, Moves, OrderInv, RequestInv, MemoInv, AddOrderRejected
<1>5. \A k \in Keys \ forgotten' : KeyInv(k)'
  BY <1>1 DEF TypeOK, Moves, OrderInv, RequestInv, KeyInv, Holds, Bought, Committed, Holding, AddOrderRejected
<1>6. \A t \in Tasks : TaskInv(t)'
  BY <1>1 DEF TypeOK, Moves, OrderInv, RequestInv, TaskInv, Committed, InFlight, Holding, AddOrderRejected
<1> QED BY <1>2, <1>3, <1>4, <1>5, <1>6 DEF OrderInv

\* The lock stays while the call may still be processed.
LEMMA AddOrderUnansweredInv ==
  ASSUME TypeOK, OrderInv, NEW q \in Posts, AddOrderUnanswered(q)
  PROVE  TypeOK' /\ OrderInv'
<1> USE NoneAssumption DEF Key, whmcs, history, broker, Answer, Goto, Calling
<1>1. Moves(q)
  <2>1. "unknown" \in Replies /\ Answer(q, "unknown", None)
    BY DEF AddOrderUnanswered, Replies
  <2> QED BY <2>1, AnswerMoves
<1>2. TypeOK'
  BY <1>1 DEF TypeOK, Moves, PostRecord, OrderInv, RequestInv, AddOrderUnanswered
<1>3. \A r \in Posts : RequestInv(r)'
  BY <1>1 DEF TypeOK, Moves, OrderInv, RequestInv, MemoInv, Committed, SameKey, AddOrderUnanswered
<1>4. \A k \in Keys : MemoInv(k)'
  BY <1>1 DEF TypeOK, Moves, OrderInv, RequestInv, MemoInv, AddOrderUnanswered
<1>5. \A k \in Keys \ forgotten' : KeyInv(k)'
  BY <1>1 DEF TypeOK, Moves, OrderInv, RequestInv, KeyInv, Holds, Bought, Committed, Holding, AddOrderUnanswered
<1>6. \A t \in Tasks : TaskInv(t)'
  BY <1>1 DEF TypeOK, Moves, OrderInv, RequestInv, TaskInv, Committed, InFlight, Holding, AddOrderUnanswered
<1> QED BY <1>2, <1>3, <1>4, <1>5, <1>6 DEF OrderInv

LEMMA InvalidationRaisesInv ==
  ASSUME TypeOK, OrderInv, NEW q \in Posts, InvalidationRaises(q)
  PROVE  TypeOK' /\ OrderInv'
<1> USE NoneAssumption DEF Key, whmcs, history, broker, Answer, Goto, Calling
<1>1. Moves(q)
  <2>1. "release" \in InFlight /\ Goto(q, "release")
    BY DEF InvalidationRaises, InFlight, Holding
  <2> QED BY <2>1, GotoMoves
<1>2. TypeOK'
  BY <1>1 DEF TypeOK, Moves, PostRecord, OrderInv, RequestInv, InvalidationRaises
<1>3. \A r \in Posts : RequestInv(r)'
  BY <1>1 DEF TypeOK, Moves, OrderInv, RequestInv, MemoInv, Committed, SameKey, InvalidationRaises
<1>4. \A k \in Keys : MemoInv(k)'
  BY <1>1 DEF TypeOK, Moves, OrderInv, RequestInv, MemoInv, InvalidationRaises
<1>5. \A k \in Keys \ forgotten' : KeyInv(k)'
  BY <1>1 DEF TypeOK, Moves, OrderInv, RequestInv, KeyInv, Holds, Bought, Committed, Holding, InvalidationRaises
<1>6. \A t \in Tasks : TaskInv(t)'
  BY <1>1 DEF TypeOK, Moves, OrderInv, RequestInv, TaskInv, Committed, InFlight, Holding, InvalidationRaises
<1> QED BY <1>2, <1>3, <1>4, <1>5, <1>6 DEF OrderInv

LEMMA AddOrderUndecodableInv ==
  ASSUME TypeOK, OrderInv, NEW q \in Posts, AddOrderUndecodable(q)
  PROVE  TypeOK' /\ OrderInv'
<1> USE NoneAssumption DEF Key, whmcs, history, broker, Answer, Goto, Calling
<1>1. Moves(q)
  <2>1. "release" \in InFlight /\ Goto(q, "release")
    BY DEF AddOrderUndecodable, InFlight, Holding
  <2> QED BY <2>1, GotoMoves
<1>2. TypeOK'
  BY <1>1 DEF TypeOK, Moves, PostRecord, OrderInv, RequestInv, AddOrderUndecodable
<1>3. \A r \in Posts : RequestInv(r)'
  BY <1>1 DEF TypeOK, Moves, OrderInv, RequestInv, MemoInv, Committed, SameKey, AddOrderUndecodable
<1>4. \A k \in Keys : MemoInv(k)'
  BY <1>1 DEF TypeOK, Moves, OrderInv, RequestInv, MemoInv, AddOrderUndecodable
<1>5. \A k \in Keys \ forgotten' : KeyInv(k)'
  BY <1>1 DEF TypeOK, Moves, OrderInv, RequestInv, KeyInv, Holds, Bought, Committed, Holding, AddOrderUndecodable
<1>6. \A t \in Tasks : TaskInv(t)'
  BY <1>1 DEF TypeOK, Moves, OrderInv, RequestInv, TaskInv, Committed, InFlight, Holding, AddOrderUndecodable
<1> QED BY <1>2, <1>3, <1>4, <1>5, <1>6 DEF OrderInv

\* The lock that is deleted is the request's own, and it has bought nothing.
LEMMA ReleaseInv ==
  ASSUME TypeOK, OrderInv, NEW q \in Posts, Release(q)
  PROVE  TypeOK' /\ OrderInv'
<1> USE NoneAssumption DEF Key, whmcs, history, broker, Answer, Goto, Calling
<1>1. Moves(q)
  <2>1. "rejected" \in Replies /\ Answer(q, "rejected", None)
    BY DEF Release, Replies
  <2> QED BY <2>1, AnswerMoves
<1>2. TypeOK'
  BY <1>1 DEF TypeOK, Moves, PostRecord, OrderInv, RequestInv, Release
<1>3. \A r \in Posts : RequestInv(r)'
  BY <1>1 DEF TypeOK, Moves, OrderInv, RequestInv, MemoInv, Committed, SameKey, Release
<1>4. \A k \in Keys : MemoInv(k)'
  BY <1>1 DEF TypeOK, Moves, OrderInv, RequestInv, MemoInv, Release
<1>5. \A k \in Keys \ forgotten' : KeyInv(k)'
  BY <1>1 DEF TypeOK, Moves, OrderInv, RequestInv, KeyInv, Holds, Bought, Committed, Holding, Release
<1>6. \A t \in Tasks : TaskInv(t)'
  BY <1>1 DEF TypeOK, Moves, OrderInv, RequestInv, TaskInv, Committed, InFlight, Holding, Release
<1> QED BY <1>2, <1>3, <1>4, <1>5, <1>6 DEF OrderInv

\* The memo takes over from the lock.
LEMMA StoreInv ==
  ASSUME TypeOK, OrderInv, NEW q \in Posts, Store(q)
  PROVE  TypeOK' /\ OrderInv'
<1> USE NoneAssumption DEF Key, whmcs, history, broker, Answer, Goto, Calling
<1>1. Moves(q)
  <2>1. "created" \in Replies /\ Answer(q, "created", q)
    BY DEF Store, Replies
  <2> QED BY <2>1, AnswerMoves
<1>2. TypeOK'
  BY <1>1 DEF TypeOK, Moves, PostRecord, OrderInv, RequestInv, Store
<1>3. \A r \in Posts : RequestInv(r)'
  BY <1>1 DEF TypeOK, Moves, OrderInv, RequestInv, MemoInv, Committed, SameKey, Store
<1>4. \A k \in Keys : MemoInv(k)'
  BY <1>1 DEF TypeOK, Moves, OrderInv, RequestInv, MemoInv, Store
<1>5. \A k \in Keys \ forgotten' : KeyInv(k)'
  BY <1>1 DEF TypeOK, Moves, OrderInv, RequestInv, KeyInv, Holds, Bought, Committed, Holding, Store
<1>6. \A t \in Tasks : TaskInv(t)'
  BY <1>1 DEF TypeOK, Moves, OrderInv, RequestInv, TaskInv, Committed, InFlight, Holding, Store
<1> QED BY <1>2, <1>3, <1>4, <1>5, <1>6 DEF OrderInv

LEMMA CacheRaisesInv ==
  ASSUME TypeOK, OrderInv, NEW q \in Posts, CacheRaises(q)
  PROVE  TypeOK' /\ OrderInv'
<1> USE NoneAssumption DEF Key, whmcs, history, broker, Answer, Goto, Calling
<1>1. Moves(q)
  <2>1. "error" \in Replies /\ Answer(q, "error", None)
    BY DEF CacheRaises, Replies
  <2> QED BY <2>1, AnswerMoves
<1>2. TypeOK'
  BY <1>1 DEF TypeOK, Moves, PostRecord, OrderInv, RequestInv, CacheRaises
<1>3. \A r \in Posts : RequestInv(r)'
  BY <1>1 DEF TypeOK, Moves, OrderInv, RequestInv, MemoInv, Committed, SameKey, CacheRaises
<1>4. \A k \in Keys : MemoInv(k)'
  BY <1>1 DEF TypeOK, Moves, OrderInv, RequestInv, MemoInv, CacheRaises
<1>5. \A k \in Keys \ forgotten' : KeyInv(k)'
  BY <1>1 DEF TypeOK, Moves, OrderInv, RequestInv, KeyInv, Holds, Bought, Committed, Holding, CacheRaises
<1>6. \A t \in Tasks : TaskInv(t)'
  BY <1>1 DEF TypeOK, Moves, OrderInv, RequestInv, TaskInv, Committed, InFlight, Holding, CacheRaises
<1> QED BY <1>2, <1>3, <1>4, <1>5, <1>6 DEF OrderInv

\* A request that dies leaves its lock.
LEMMA PostDiesInv ==
  ASSUME TypeOK, OrderInv, NEW q \in Posts, PostDies(q)
  PROVE  TypeOK' /\ OrderInv'
<1> USE NoneAssumption DEF Key, whmcs, history, broker, Answer, Goto, Calling
<1>1. Moves(q)
  <2>1. "none" \in Replies /\ Answer(q, "none", None)
    BY DEF PostDies, Replies
  <2> QED BY <2>1, AnswerMoves
<1>2. TypeOK'
  BY <1>1 DEF TypeOK, Moves, PostRecord, OrderInv, RequestInv, PostDies
<1>3. \A r \in Posts : RequestInv(r)'
  BY <1>1 DEF TypeOK, Moves, OrderInv, RequestInv, MemoInv, Committed, SameKey, PostDies
<1>4. \A k \in Keys : MemoInv(k)'
  BY <1>1 DEF TypeOK, Moves, OrderInv, RequestInv, MemoInv, PostDies
<1>5. \A k \in Keys \ forgotten' : KeyInv(k)'
  BY <1>1 DEF TypeOK, Moves, OrderInv, RequestInv, KeyInv, Holds, Bought, Committed, Holding, PostDies
<1>6. \A t \in Tasks : TaskInv(t)'
  BY <1>1 DEF TypeOK, Moves, OrderInv, RequestInv, TaskInv, Committed, InFlight, Holding, PostDies
<1> QED BY <1>2, <1>3, <1>4, <1>5, <1>6 DEF OrderInv

\* A request that arrives has bought nothing yet.
LEMMA SubmitInv ==
  ASSUME TypeOK, OrderInv, NEW q \in Posts, NEW k \in Keys \cup {None}, Submit(q, k)
  PROVE  TypeOK' /\ OrderInv'
<1> USE NoneAssumption DEF Key, whmcs, history, broker
<1>1. /\ post' \in [Posts -> PostRecord]
      /\ post'[q].at = IF k = None THEN "check" ELSE "lookup"
      /\ post'[q].key = k
      /\ post'[q].task = post[q].task
      /\ post'[q].reply = post[q].reply
      /\ post'[q].order = post[q].order
      /\ \A r \in Posts \ {q} : post'[r] = post[r]
      /\ post[q].at = "unsent"
  BY DEF Submit, TypeOK, PostRecord, InFlight, Holding
<1>2. TypeOK'
  BY <1>1 DEF TypeOK, PostRecord, Submit
<1>3. ~Committed(q) /\ \A r \in Posts : post[r].reply = "replay" => post[r].order # q
  BY <1>1 DEF OrderInv, RequestInv, Committed, SameKey
<1>4. \A r \in Posts : RequestInv(r)'
  BY <1>1, <1>3 DEF TypeOK, OrderInv, RequestInv, Committed, SameKey, Submit
<1>5. \A m \in Keys : MemoInv(m)'
  BY <1>1, <1>3 DEF TypeOK, OrderInv, MemoInv, Committed, Submit
<1>6. \A m \in Keys \ forgotten' : KeyInv(m)'
  BY <1>1, <1>3 DEF TypeOK, OrderInv, KeyInv, Holds, Bought, Committed, Holding, Submit
<1>7. \A t \in Tasks : TaskInv(t)'
  BY <1>1, <1>3 DEF TypeOK, OrderInv, RequestInv, TaskInv, Committed, Submit
<1> QED BY <1>2, <1>4, <1>5, <1>6, <1>7 DEF OrderInv

\* Whatever is processed late was committed before.
LEMMA LateInv ==
  ASSUME TypeOK, OrderInv, NEW q \in Posts, LateArrives(q)
  PROVE  TypeOK' /\ OrderInv'
<1> USE DEF Key, history, broker
<1>1. TypeOK'
  BY DEF TypeOK, LateArrives
<1>2. \A r \in Posts : RequestInv(r)'
  BY DEF TypeOK, OrderInv, RequestInv, Committed, SameKey, LateArrives
<1>3. \A m \in Keys : MemoInv(m)'
  BY DEF TypeOK, OrderInv, MemoInv, LateArrives
<1>4. \A m \in Keys \ forgotten' : KeyInv(m)'
  BY DEF TypeOK, OrderInv, KeyInv, Holds, Bought, Committed, LateArrives
<1>5. \A t \in Tasks : TaskInv(t)'
  BY DEF TypeOK, OrderInv, TaskInv, Committed, LateArrives
<1> QED BY <1>1, <1>2, <1>3, <1>4, <1>5 DEF OrderInv

\* What expires without a trace is forgotten; a lock that expires under a memo
\* was not needed any more.
LEMMA ExpiryInv ==
  ASSUME TypeOK, OrderInv, NEW k \in Keys, LockExpires(k) \/ MemoExpires(k)
  PROVE  TypeOK' /\ OrderInv'
<1> USE DEF Key, whmcs, history, broker
<1>1. TypeOK'
  BY DEF TypeOK, LockExpires, MemoExpires
<1>2. \A r \in Posts : RequestInv(r)'
  BY DEF OrderInv, RequestInv, Committed, SameKey, LockExpires, MemoExpires
<1>3. \A m \in Keys : MemoInv(m)'
  BY DEF TypeOK, OrderInv, MemoInv, LockExpires, MemoExpires
<1>4. ASSUME LockExpires(k), NEW m \in Keys, m \notin forgotten' PROVE KeyInv(m)'
  <2>1. KeyInv(m) /\ (m = k => ~Guards(k))
    BY <1>4 DEF OrderInv, LockExpires
  <2>2. CASE m # k
    BY <1>4, <2>1, <2>2 DEF TypeOK, KeyInv, Holds, Bought, Committed, LockExpires
  <2>3. CASE m = k
    BY <1>4, <2>1, <2>3 DEF TypeOK, KeyInv, Guards, Holds, Bought, Committed, LockExpires
  <2> QED BY <2>2, <2>3
<1>5. ASSUME MemoExpires(k), NEW m \in Keys, m \notin forgotten' PROVE KeyInv(m)'
  BY <1>5 DEF TypeOK, OrderInv, KeyInv, Holds, Bought, Committed, MemoExpires
<1>6. \A t \in Tasks : TaskInv(t)'
  BY DEF OrderInv, TaskInv, Committed, LockExpires, MemoExpires
<1> QED BY <1>1, <1>2, <1>3, <1>4, <1>5, <1>6 DEF OrderInv

\* A stuttering step changes nothing.
LEMMA StutterInv ==
  ASSUME TypeOK, OrderInv, UNCHANGED vars
  PROVE  TypeOK' /\ OrderInv'
<1> USE DEF vars, Key
<1>1. TypeOK'
  BY DEF TypeOK
<1>2. \A r \in Posts : RequestInv(r)'
  BY DEF OrderInv, RequestInv, Committed, SameKey
<1>3. \A m \in Keys : MemoInv(m)'
  BY DEF OrderInv, MemoInv
<1>4. \A m \in Keys \ forgotten' : KeyInv(m)'
  BY DEF OrderInv, KeyInv, Holds, Bought, Committed
<1>5. \A t \in Tasks : TaskInv(t)'
  BY DEF OrderInv, TaskInv, Committed
<1> QED BY <1>1, <1>2, <1>3, <1>4, <1>5 DEF OrderInv

\* A message that is delivered has bought nothing, or is known to be repeated.
LEMMA DeliverInv ==
  ASSUME TypeOK, OrderInv, NEW q \in Posts, NEW t \in Tasks, Deliver(q, t)
  PROVE  TypeOK' /\ OrderInv'
<1> USE NoneAssumption DEF Key, whmcs, history
<1>1. /\ post' \in [Posts -> PostRecord]
      /\ post'[q].at = "check"
      /\ post'[q].task = t
      /\ post'[q].key = None
      /\ post'[q].reply = post[q].reply
      /\ post'[q].order = post[q].order
      /\ \A r \in Posts \ {q} : post'[r] = post[r]
      /\ post[q].at = "unsent" /\ post[q].task = None /\ post[q].key = None
  BY DEF Deliver, TypeOK, PostRecord, InFlight, Holding, OrderInv, RequestInv
<1>2. TypeOK'
  BY <1>1 DEF TypeOK, PostRecord, Deliver
<1>3. ~Committed(q) /\ \A r \in Posts : post[r].reply = "replay" => post[r].order # q
  BY <1>1 DEF OrderInv, RequestInv, Committed, SameKey
<1>4. \A r \in Posts : RequestInv(r)'
  BY <1>1, <1>3 DEF TypeOK, OrderInv, RequestInv, Committed, SameKey, Deliver
<1>5. \A m \in Keys : MemoInv(m)'
  BY <1>1, <1>3 DEF TypeOK, OrderInv, MemoInv, Committed, Deliver
<1>6. \A m \in Keys \ forgotten' : KeyInv(m)'
  BY <1>1, <1>3 DEF TypeOK, OrderInv, KeyInv, Holds, Bought, Committed, Holding, Deliver
<1>7. \A u \in Tasks : TaskInv(u)'
  BY <1>1, <1>3 DEF TypeOK, OrderInv, TaskInv, Committed, Deliver
<1> QED BY <1>2, <1>4, <1>5, <1>6, <1>7 DEF OrderInv

\* What is acknowledged has ended.
LEMMA AcknowledgeInv ==
  ASSUME TypeOK, OrderInv, NEW t \in Tasks, Acknowledge(t)
  PROVE  TypeOK' /\ OrderInv'
<1> USE DEF Key, whmcs, history
<1>1. TypeOK'
  BY DEF TypeOK, Acknowledge
<1>2. \A r \in Posts : RequestInv(r)'
  BY DEF OrderInv, RequestInv, Committed, SameKey, Acknowledge
<1>3. \A m \in Keys : MemoInv(m)'
  BY DEF OrderInv, MemoInv, Acknowledge
<1>4. \A m \in Keys \ forgotten' : KeyInv(m)'
  BY DEF OrderInv, KeyInv, Holds, Bought, Committed, Acknowledge
<1>5. \A u \in Tasks : TaskInv(u)'
  BY DEF TypeOK, OrderInv, TaskInv, Committed, Acknowledge
<1> QED BY <1>1, <1>2, <1>3, <1>4, <1>5 DEF OrderInv

\* A message that goes back to the queue has bought nothing, unless its worker
\* was lost after it called WHMCS.
LEMMA WorkerLostInv ==
  ASSUME TypeOK, OrderInv, NEW t \in Tasks, WorkerLost(t)
  PROVE  TypeOK' /\ OrderInv'
<1> USE NoneAssumption DEF Key, whmcs, history, Calling
<1> DEFINE q == holder[t]
<1>0. q \in Posts /\ post[q].task = t /\ post[q].at # "unsent"
  BY DEF TypeOK, OrderInv, TaskInv, RequestInv, WorkerLost
<1>1. /\ post' \in [Posts -> PostRecord]
      /\ post'[q].key = post[q].key /\ post'[q].task = t /\ post'[q].at = "done"
      /\ \/ post[q].at = "done" /\ post'[q] = post[q]
         \/ post[q].at # "done" /\ post'[q].reply = "none"
      /\ \A r \in Posts \ {q} : post'[r] = post[r]
  BY <1>0 DEF WorkerLost, Answer, TypeOK, PostRecord, InFlight, Holding, Replies
<1> HIDE DEF q
<1>2. /\ UNCHANGED <<lock, memo, placed, history>>
      /\ late' = late \/ (post[q].at = "call" /\ late' = late \cup {q})
      /\ late' \subseteq Posts
  BY <1>0 DEF WorkerLost, TypeOK, q
<1>3. TypeOK'
  BY <1>1, <1>2 DEF TypeOK, PostRecord, WorkerLost, q
<1>4. \A r \in Posts : RequestInv(r)'
  BY <1>0, <1>1, <1>2 DEF TypeOK, OrderInv, RequestInv, Committed, SameKey
<1>5. \A m \in Keys : MemoInv(m)'
  BY <1>0, <1>1, <1>2 DEF TypeOK, OrderInv, MemoInv
<1>6. \A m \in Keys \ forgotten' : KeyInv(m)'
  BY <1>0, <1>1, <1>2 DEF TypeOK, OrderInv, RequestInv, KeyInv, Holds, Bought, Committed, Holding
<1>7. ASSUME NEW u \in Tasks, u # t PROVE TaskInv(u)'
  <2>1. holder'[u] = holder[u] /\ (u \in queued' <=> u \in queued) /\ (u \in repeated' <=> u \in repeated)
    BY <1>7 DEF TypeOK, WorkerLost
  <2>2. TaskInv(u) /\ holder[u] # q
    BY <1>0, <1>7 DEF OrderInv, TaskInv
  <2> QED BY <1>0, <1>1, <1>2, <1>7, <2>1, <2>2 DEF TypeOK, TaskInv, Committed
<1>8. TaskInv(t)'
  <2>1. /\ holder'[t] = None /\ t \in queued'
        /\ repeated \subseteq repeated'
        /\ t \notin repeated' => post[q].at # "call" /\ ~Committed(q)
    BY <1>0 DEF TypeOK, WorkerLost, q
  <2>2. TaskInv(t) /\ holder[t] = q
    BY DEF OrderInv, q
  <2>3. ASSUME NEW r \in Posts, post'[r].task = t, post'[r].at # "done" PROVE FALSE
    BY <1>0, <1>1, <2>2, <2>3 DEF TaskInv
  <2>4. ASSUME t \notin repeated', NEW r \in Posts, post'[r].task = t, Committed(r)'
        PROVE FALSE
    BY <1>0, <1>1, <1>2, <2>1, <2>2, <2>4 DEF TaskInv, Committed
  <2> QED BY <2>1, <2>3, <2>4 DEF TaskInv
<1> QED BY <1>3, <1>4, <1>5, <1>6, <1>7, <1>8 DEF OrderInv

\* The inductive invariant.
THEOREM OrderInvariance == Spec => [](TypeOK /\ OrderInv)
<1>1. Init => TypeOK /\ OrderInv
  BY InitInv
<1>2. TypeOK /\ OrderInv /\ [Next]_vars => (TypeOK /\ OrderInv)'
  <2> SUFFICES ASSUME TypeOK, OrderInv, [Next]_vars PROVE TypeOK' /\ OrderInv'
    OBVIOUS
  <2>1. ASSUME NEW q \in Posts, PostStep(q) PROVE TypeOK' /\ OrderInv'
    BY <2>1, LookupInv, AcquireInv, LockHeldInv, CheckBasketInv, AddOrderInv,
       AddOrderUnconfirmedInv, AddOrderRejectedInv, AddOrderUnansweredInv,
       InvalidationRaisesInv, AddOrderUndecodableInv, ReleaseInv, StoreInv, CacheRaisesInv DEF PostStep
  <2> QED BY <2>1, PostDiesInv, SubmitInv, LateInv, ExpiryInv, DeliverInv, AcknowledgeInv,
           WorkerLostInv, StutterInv DEF Next
<1> QED BY <1>1, <1>2, PTL DEF Spec

\* The table of requests, the cache and the orders stay well formed.
THEOREM OrderTypeCorrect == Spec => []TypeOK
  BY OrderInvariance, PTL

\* A 201 is for the order of the request itself, and a replay for one that its own
\* key has bought, unless WHMCS' answer to that AddOrder named no order: the id is 0
\* then, and what WHMCS did is unknown.
THEOREM ReplaysAreOriginal == Spec => []ReplayIsOriginal
<1>1. TypeOK /\ OrderInv => ReplayIsOriginal
  BY DEF OrderInv, RequestInv, ReplayIsOriginal
<1> QED BY <1>1, OrderInvariance, PTL

\* A key that the cache has not forgotten has bought once at most.
THEOREM KeysBuyOnce == Spec => []OneOrderPerKey
<1>1. TypeOK /\ OrderInv => OneOrderPerKey
  BY DEF TypeOK, OrderInv, KeyInv, Bought, Committed, OneOrderPerKey, SameKey, Key
<1> QED BY <1>1, OrderInvariance, PTL

\* A message buys once, unless its worker was lost after it called WHMCS.
THEOREM TasksBuyOnce == Spec => []TaskBuysOnce
<1>1. TypeOK /\ OrderInv => TaskBuysOnce
  BY DEF TypeOK, OrderInv, TaskInv, Committed, TaskBuysOnce
<1> QED BY <1>1, OrderInvariance, PTL

\* A request answered as rejected has placed nothing and will place nothing,
\* unless an invalidation raised or the answer could not be decoded.
THEOREM RejectionsPlaceNothing == Spec => []RejectedIsNotPlaced
<1>1. TypeOK /\ OrderInv => RejectedIsNotPlaced
  BY DEF OrderInv, RequestInv, Committed, RejectedIsNotPlaced
<1> QED BY <1>1, OrderInvariance, PTL

\* create_order: what put has written, WHMCS reads back line by line, whatever the
\* basket: the fields of a line are those that were put for it, with its values.
THEOREM ArraysKeepLines ==
  ASSUME NEW items, NEW i \in DOMAIN items
  PROVE  LineOf(indexed(items), i) = [field \in Fields(items[i]) |-> Value(items[i], field)]
<1> DEFINE arrays == indexed(items)
           Having(field) == {j \in DOMAIN items : field \in Fields(items[j])}
<1>1. /\ DOMAIN arrays = AllFields(items)
      /\ \A field \in AllFields(items) :
           arrays[field] = [j \in Having(field) |-> Value(items[j], field)]
  BY DEF indexed
<1>2. \A field \in Fields(items[i]) : field \in AllFields(items) /\ i \in Having(field)
  BY DEF AllFields
<1>3. \A field \in AllFields(items) :
        /\ DOMAIN arrays[field] = Having(field)
        /\ i \in Having(field) => arrays[field][i] = Value(items[i], field)
  BY <1>1
<1> HIDE DEF arrays
<1>4. {f \in DOMAIN arrays : i \in DOMAIN arrays[f]} = Fields(items[i])
  BY <1>1, <1>2, <1>3
<1>5. \A field \in Fields(items[i]) : arrays[field][i] = Value(items[i], field)
  BY <1>2, <1>3
<1>6. LineOf(arrays, i) = [field \in Fields(items[i]) |-> Value(items[i], field)]
  BY <1>4, <1>5 DEF LineOf
<1> QED BY <1>6 DEF arrays
-----------------------------------------------------------------------------
(* client_ip *)

\* In a set of positions that contains the last n, the n-th from the right is
\* where the last n begin.
LEMMA NthFromTheRight ==
  ASSUME NEW n \in Nat \ {0}, NEW p \in Nat, NEW hops \in SUBSET (1 .. (p + n)),
         (p + 1) .. (p + n) \subseteq hops
  PROVE  /\ ~(Cardinality(hops) < n)
         /\ (CHOOSE i \in hops : Cardinality({j \in hops : j >= i}) = n) = p + 1
<1> DEFINE last     == (p + 1) .. (p + n)
           Right(i) == {j \in hops : j >= i}
<1> DEFINE all == 1 .. (p + n)
<1>1. IsFiniteSet(hops)
  <2>1. IsFiniteSet(all) /\ hops \in SUBSET all
    BY FS_Interval, p + n \in Int
  <2> HIDE DEF all
  <2> QED BY <2>1, FS_Subset
<1>2. Cardinality(last) = n
  <2>1. Cardinality(last) = IF p + 1 > p + n THEN 0 ELSE (p + n) - (p + 1) + 1
    BY FS_Interval, p + 1 \in Int, p + n \in Int
  <2> HIDE DEF last
  <2> QED BY <2>1
<1>3. Cardinality(hops) \in Nat /\ n <= Cardinality(hops)
  BY <1>1, <1>2, FS_Subset, FS_CardinalityType
<1>4. p + 1 \in hops /\ Right(p + 1) = last
  <2>1. \A j \in hops : j \in 1 .. (p + n)
    OBVIOUS
  <2>2. \A j \in last : j \in hops /\ j >= p + 1
    OBVIOUS
  <2>3. \A j \in hops : j >= p + 1 => j \in last
    BY <2>1
  <2>4. p + 1 \in last
    OBVIOUS
  <2> HIDE DEF last
  <2> QED BY <2>2, <2>3, <2>4
<1>5. ASSUME NEW i \in hops, Cardinality(Right(i)) = n PROVE i = p + 1
  <2>1. i \in Int /\ Right(i) \in SUBSET hops /\ last \in SUBSET hops
    OBVIOUS
  <2>2. IsFiniteSet(Right(i)) /\ IsFiniteSet(last)
    <3> HIDE DEF last, Right
    <3> QED BY <1>1, <2>1, FS_Subset
  <2>3. Right(i) \in SUBSET last \/ last \in SUBSET Right(i)
    <3>0. \A j \in hops : j \in 1 .. (p + n)
      OBVIOUS
    <3>1. CASE i >= p + 1
      <4>1. \A j \in Right(i) : j \in last
        BY <2>1, <3>0, <3>1
      <4> QED BY <4>1
    <3>2. CASE i < p + 1
      BY <2>1, <3>0, <3>2
    <3> QED BY <2>1, <3>1, <3>2
  <2>4. Right(i) = last
    <3> HIDE DEF last, Right
    <3> QED BY <1>2, <1>5, <2>2, <2>3, FS_Subset
  <2>5. i \in last /\ p + 1 \in Right(i)
    BY <1>4, <2>1, <2>4
  <2> QED BY <2>1, <2>5
<1>6. (CHOOSE i \in hops : Cardinality(Right(i)) = n) = p + 1
  <2> HIDE DEF Right
  <2> QED BY <1>2, <1>4, <1>5
<1> QED BY <1>3, <1>6

\* What the proxies append comes last, behind whatever was prepended.
LEMMA LastHops ==
  ASSUME NEW Text, NEW prepended \in Seq(Text), NEW seen \in Seq(Text),
         NEW n \in Nat, n <= Len(seen)
  PROVE  /\ DOMAIN (prepended \o SubSeq(seen, 1, n)) = 1 .. (Len(prepended) + n)
         /\ \A k \in 1 .. n :
              (prepended \o SubSeq(seen, 1, n))[Len(prepended) + k] = seen[k]
<1> DEFINE tail == SubSeq(seen, 1, n)
<1>1. tail \in Seq(Text) /\ Len(tail) = n /\ \A k \in 1 .. n : tail[k] = seen[k]
  OBVIOUS
<1> HIDE DEF tail
<1>2. DOMAIN (prepended \o tail) = 1 .. (Len(prepended) + n)
  BY <1>1
<1>3. ASSUME NEW k \in 1 .. n PROVE (prepended \o tail)[Len(prepended) + k] = tail[k]
  BY <1>1
<1> QED BY <1>1, <1>2, <1>3 DEF tail

LEMMA SeenHops ==
  ASSUME NEW Text, NEW Address, \A x \in Address : x \in Text,
         NEW client \in Address, NEW proxies \in Seq(Address), NEW prepended \in Seq(Text)
  PROVE  LET n    == Len(proxies)
             p    == Len(prepended)
             seen == <<client>> \o proxies
             f    == prepended \o SubSeq(seen, 1, n)
         IN  /\ n \in Nat /\ p \in Nat /\ seen[1] = client
             /\ DOMAIN f = 1 .. (p + n)
             /\ \A k \in (p + 1) .. (p + n) : f[k] \in Address
             /\ n # 0 => f[p + 1] = client
<1> DEFINE n    == Len(proxies)
           p    == Len(prepended)
           seen == <<client>> \o proxies
           f    == prepended \o SubSeq(seen, 1, n)
<1>1. n \in Nat /\ p \in Nat
  OBVIOUS
<1>2. proxies \in Seq(Text) /\ client \in Text
  OBVIOUS
<1>3. seen \in Seq(Text) /\ Len(seen) = n + 1
  BY <1>2
<1>4. seen[1] = client /\ \A k \in 1 .. n : seen[k] \in Address
  OBVIOUS
<1> HIDE DEF n, seen
<1>5. DOMAIN f = 1 .. (p + n) /\ \A k \in 1 .. n : f[p + k] = seen[k]
  <2>1. n <= Len(seen)
    BY <1>1, <1>3
  <2> QED BY <1>1, <1>3, <2>1, LastHops
<1> HIDE DEF f, p
<1>6. ASSUME NEW k \in (p + 1) .. (p + n) PROVE f[k] \in Address
  <2>1. k - p \in 1 .. n /\ p + (k - p) = k
    BY <1>1
  <2> QED BY <1>4, <1>5, <2>1
<1>7. n # 0 => f[p + 1] = client
  BY <1>1, <1>4, <1>5
<1> QED BY <1>1, <1>4, <1>5, <1>6, <1>7 DEF n, seen, f, p

LEMMA NthHop ==
  ASSUME NEW forwarded, NEW remote_addr, NEW n \in Nat \ {0}, NEW p \in Nat,
         Hops(forwarded) \in SUBSET (1 .. (p + n)),
         (p + 1) .. (p + n) \subseteq Hops(forwarded)
  PROVE  client_ip(n, remote_addr, forwarded) = forwarded[p + 1]
<1> DEFINE hops == Hops(forwarded)
<1> HIDE DEF hops
<1>1. /\ ~(Cardinality(hops) < n)
      /\ (CHOOSE i \in hops : Cardinality({j \in hops : j >= i}) = n) = p + 1
  BY NthFromTheRight DEF hops
<1>2. client_ip(n, remote_addr, forwarded) =
        IF n = 0 \/ Cardinality(hops) < n THEN remote_addr
        ELSE forwarded[CHOOSE i \in hops : Cardinality({j \in hops : j >= i}) = n]
  BY DEF client_ip, hops
<1> QED BY <1>1, <1>2

LEMMA ClientIsSeen ==
  ASSUME NEW Text, NEW Address, \A x \in Address : x \in Text, \A x \in Address : x # Blank,
         NEW client \in Address, NEW proxies \in Seq(Address), NEW prepended \in Seq(Text)
  PROVE  LET n    == Len(proxies)
             seen == <<client>> \o proxies
         IN  client_ip(n, seen[n + 1], prepended \o SubSeq(seen, 1, n)) = client
<1> DEFINE n    == Len(proxies)
           p    == Len(prepended)
           seen == <<client>> \o proxies
           f    == prepended \o SubSeq(seen, 1, n)
<1>3. /\ n \in Nat /\ p \in Nat /\ seen[1] = client
      /\ DOMAIN f = 1 .. (p + n)
      /\ \A k \in (p + 1) .. (p + n) : f[k] \in Address
      /\ n # 0 => f[p + 1] = client
  BY SeenHops
<1> HIDE DEF f, n, p, seen
<1>4. CASE n = 0
  <2>1. client_ip(n, seen[n + 1], f) = seen[n + 1]
    BY <1>4 DEF client_ip
  <2>2. seen[n + 1] = client
    BY <1>3, <1>4
  <2> QED BY <2>1, <2>2 DEF f, n, seen
<1>5. CASE n # 0
  <2>1. Hops(f) \in SUBSET (1 .. (p + n))
    BY <1>3 DEF Hops
  <2>2. \A k \in (p + 1) .. (p + n) : f[k] # Blank
    BY <1>3
  <2>3. \A k \in (p + 1) .. (p + n) : k \in 1 .. (p + n)
    BY <1>3
  <2>4. (p + 1) .. (p + n) \subseteq Hops(f)
    BY <1>3, <2>2, <2>3, Zenon DEF Hops
  <2>5. n \in Nat \ {0}
    BY <1>3, <1>5
  <2>6. client_ip(n, seen[n + 1], f) = f[p + 1]
    BY <1>3, <2>1, <2>4, <2>5, NthHop
  <2> QED BY <1>3, <1>5, <2>6 DEF f, n, seen
<1> QED BY <1>4, <1>5 DEF f, n, seen

\* http.py, "anything a client prepends is ignored": for any number of proxies,
\* whatever the client prepends, WHMCS is given the address that was seen.
THEOREM AddressIsObserved == AddressesAreObserved
<1> SUFFICES ASSUME NEW route \in Routes
             PROVE  LET n    == Len(route.proxies)
                        seen == <<route.client>> \o route.proxies
                    IN  client_ip(n, seen[n + 1], route.prepended \o SubSeq(seen, 1, n))
                          = route.client
  BY DEF AddressesAreObserved
<1> DEFINE Text    == STRING
           Address == STRING \ {Blank}
<1>1. /\ route.client \in Address
      /\ route.proxies \in Seq(Address)
      /\ route.prepended \in Seq(Text)
  BY RoutesAssumption
<1>2. /\ \A x \in Address : x \in Text
      /\ \A x \in Address : x # Blank
  OBVIOUS
<1> HIDE DEF Address, Text
<1> QED BY <1>1, <1>2, ClientIsSeen-----------------------------------------------------------------------------
(* create_order: the basket *)

LEMMA FieldOfLine ==
  ASSUME NEW line, NEW field
  PROVE  Field(line, field) = IF field \in DOMAIN line THEN {line[field]} ELSE {}
  BY DEF Field

LEMMA Triples ==
  /\ \A a, b, c : {a} \X {b} \X {c} = {<<a, b, c>>}
  /\ \A B, C : {} \X B \X C = {}
  OBVIOUS

\* PHP reads every text back whole.
LEMMA TextsAreWhole ==
  ASSUME NEW texts
  PROVE  Unserialized(base64_serialize(texts)) = {<<key, texts[key]>> : key \in DOMAIN texts}
<1> DEFINE parts == base64_serialize(texts)
<1>1. /\ DOMAIN parts = DOMAIN texts
      /\ \A key \in DOMAIN texts :
           parts[key].length = parts[key].item.bytes /\ parts[key].item = texts[key]
  BY DEF base64_serialize
<1> HIDE DEF parts
<1>2. {k \in DOMAIN parts : parts[k].length = parts[k].item.bytes} = DOMAIN texts
  BY <1>1
<1>3. Unserialized(parts) = {<<key, texts[key]>> : key \in DOMAIN texts}
  BY <1>1, <1>2 DEF Unserialized
<1> QED BY <1>3 DEF parts

LEMMA NumericKeys ==
  ASSUME NEW entries
  PROVE  /\ DOMAIN _numeric_keys(entries) = {entries[i].id : i \in DOMAIN entries}
         /\ DOMAIN _numeric_keys(entries) # {} <=> DOMAIN entries # {}
  BY DEF _numeric_keys

\* Where no number is written as two keys, every entry keeps its text.
LEMMA DistinctKeys ==
  ASSUME NEW entries,
         \A i, j \in DOMAIN entries : entries[i].id = entries[j].id => i = j
  PROVE  {<<key, _numeric_keys(entries)[key]>> : key \in DOMAIN _numeric_keys(entries)} =
           {<<entries[i].id, entries[i].text>> : i \in DOMAIN entries}
<1> DEFINE texts == _numeric_keys(entries)
<1>1. DOMAIN texts = {entries[i].id : i \in DOMAIN entries}
  BY NumericKeys
<1>2. ASSUME NEW i \in DOMAIN entries PROVE texts[entries[i].id] = entries[i].text
  <2> DEFINE Last(k) == /\ entries[k].id = entries[i].id
                        /\ \A j \in DOMAIN entries \ {k} : entries[j].id = entries[i].id => j < k
  <2>1. texts[entries[i].id] = entries[CHOOSE k \in DOMAIN entries : Last(k)].text
    BY DEF _numeric_keys
  <2>2. Last(i) /\ \A k \in DOMAIN entries : Last(k) => k = i
    OBVIOUS
  <2> HIDE DEF Last
  <2>3. (CHOOSE k \in DOMAIN entries : Last(k)) = i
    BY <2>2
  <2> QED BY <2>1, <2>3
<1> HIDE DEF texts
<1>3. {<<key, texts[key]>> : key \in DOMAIN texts} =
        {<<entries[i].id, entries[i].text>> : i \in DOMAIN entries}
  BY <1>1, <1>2
<1> QED BY <1>3 DEF texts

\* What the serializer leaves of a field.
LEMMA CleanedFields ==
  ASSUME NEW item
  PROVE  /\ DOMAIN Cleaned(item) =
              ((DOMAIN item \cap Declared(item)) \cup Defaults(item)) \ Dropped(item)
         /\ \A field \in DOMAIN Cleaned(item) :
              Cleaned(item)[field] =
                IF field \notin DOMAIN item THEN Default(field)
                ELSE IF field = "domain"
                  THEN [name |-> item.domain.name, spelling |-> "clean"]
                ELSE IF field \in Keyed THEN _numeric_keys(item[field])
                ELSE item[field]
  BY DEF Cleaned, _clean_domain

LEMMA CleanedProduct ==
  ASSUME NEW item, "type" \in DOMAIN item, item.type = "product", ValidProduct(item)
  PROVE  LET c == Cleaned(item) IN
         /\ c.type = "product"
         /\ c.product_id = item.product_id
         /\ c.billing_cycle = item.billing_cycle
         /\ c.quantity = Or(item, "quantity", 1)
         /\ \A field \in {"domain", "hostname", "addons"} \cup Keyed :
              Given(c, field) <=> Given(item, field)
         /\ Given(item, "domain") => c.domain.name = item.domain.name
         /\ \A field \in {"hostname", "addons"} : Given(item, field) => c[field] = item[field]
         /\ \A field \in Keyed : Given(item, field) => c[field] = _numeric_keys(item[field])
<1> DEFINE c == Cleaned(item)
<1>1. /\ Dropped(item) = {}
      /\ Defaults(item) = {"quantity"}
      /\ Declared(item) = {"type", "domain", "product_id", "billing_cycle", "quantity",
                           "hostname", "addons", "config_options", "custom_fields"}
  BY DEF Dropped, Defaults, Declared
<1>2. DOMAIN c = (DOMAIN item \cap Declared(item)) \cup {"quantity"}
  BY <1>1, CleanedFields
<1>3. \A field \in DOMAIN c :
        c[field] = IF field \notin DOMAIN item THEN Default(field)
                   ELSE IF field = "domain"
                     THEN [name |-> item.domain.name, spelling |-> "clean"]
                   ELSE IF field \in Keyed THEN _numeric_keys(item[field])
                   ELSE item[field]
  BY CleanedFields
<1>4. {"type", "product_id", "billing_cycle"} \subseteq DOMAIN item
  BY DEF ValidProduct
<1> HIDE DEF c
<1>5. /\ c.type = "product"
      /\ c.product_id = item.product_id
      /\ c.billing_cycle = item.billing_cycle
  BY <1>1, <1>2, <1>3, <1>4 DEF Keyed
<1>6. c.quantity = Or(item, "quantity", 1)
  BY <1>1, <1>2, <1>3 DEF Or, Default, Keyed
<1>7. \A field \in {"domain", "hostname", "addons"} \cup Keyed :
        field \in DOMAIN c <=> field \in DOMAIN item
  BY <1>1, <1>2 DEF Keyed
<1>8. "domain" \in DOMAIN item => c.domain.name = item.domain.name
  BY <1>3, <1>7
<1>9. /\ Given(c, "domain") <=> Given(item, "domain")
      /\ Given(item, "domain") => c.domain.name = item.domain.name
  BY <1>7, <1>8 DEF Given, Keyed
<1>10. \A field \in {"hostname", "addons"} :
         field \in DOMAIN item => c[field] = item[field]
  BY <1>3, <1>7 DEF Keyed
<1>11. \A field \in {"hostname", "addons"} : Given(c, field) <=> Given(item, field)
  BY <1>7, <1>10 DEF Given, Keyed
<1>12. ASSUME NEW field \in Keyed, field \in DOMAIN item
       PROVE  c[field] = _numeric_keys(item[field])
  BY <1>3, <1>7, <1>12 DEF Keyed
<1>13. ASSUME NEW field \in Keyed
       PROVE  Given(c, field) <=> Given(item, field)
  <2>1. field \notin {"domain", "hostname", "epp_code"}
    BY DEF Keyed
  <2> QED BY <1>7, <1>12, <2>1, NumericKeys DEF Given
<1>14. \A field \in {"hostname", "addons"} : Given(item, field) => c[field] = item[field]
  BY <1>10 DEF Given
<1>15. \A field \in Keyed : Given(item, field) => c[field] = _numeric_keys(item[field])
  BY <1>12 DEF Given
<1> QED BY <1>5, <1>6, <1>9, <1>11, <1>13, <1>14, <1>15 DEF c

LEMMA CleanedDomain ==
  ASSUME NEW item, "type" \in DOMAIN item, item.type = "domain", ValidDomain(item)
  PROVE  LET c == Cleaned(item) IN
         /\ c.type = "domain"
         /\ c.action = item.action
         /\ c.domain = [name |-> item.domain.name, spelling |-> "clean"]
         /\ c.years = Or(item, "years", 1)
         /\ c.id_protection = Or(item, "id_protection", FALSE)
         /\ c.dns_management = Or(item, "dns_management", FALSE)
         /\ c.email_forwarding = Or(item, "email_forwarding", FALSE)
         /\ item.action = "transfer" => Given(c, "epp_code") /\ c.epp_code = item.epp_code
<1> DEFINE c == Cleaned(item)
<1>1. /\ Defaults(item) = {"years", "id_protection", "dns_management", "email_forwarding"}
      /\ Declared(item) = {"type", "domain", "action", "years", "epp_code",
                           "id_protection", "dns_management", "email_forwarding"}
      /\ Dropped(item) \subseteq {"epp_code"}
      /\ item.action = "transfer" => Dropped(item) = {}
  BY DEF Dropped, Defaults, Declared
<1>2. DOMAIN c = ((DOMAIN item \cap Declared(item)) \cup Defaults(item)) \ Dropped(item)
  BY CleanedFields
<1>3. \A field \in DOMAIN c :
        c[field] = IF field \notin DOMAIN item THEN Default(field)
                   ELSE IF field = "domain"
                     THEN [name |-> item.domain.name, spelling |-> "clean"]
                   ELSE IF field \in Keyed THEN _numeric_keys(item[field])
                   ELSE item[field]
  BY CleanedFields
<1>4. {"type", "domain", "action"} \subseteq DOMAIN item
  BY DEF ValidDomain
<1> HIDE DEF c
<1>5. {"type", "domain", "action", "years", "id_protection", "dns_management",
       "email_forwarding"} \subseteq DOMAIN c
  BY <1>1, <1>2, <1>4
<1>6. /\ c.type = "domain"
      /\ c.action = item.action
      /\ c.domain = [name |-> item.domain.name, spelling |-> "clean"]
  BY <1>3, <1>4, <1>5 DEF Keyed
<1>7. /\ c.years = Or(item, "years", 1)
      /\ c.id_protection = Or(item, "id_protection", FALSE)
      /\ c.dns_management = Or(item, "dns_management", FALSE)
      /\ c.email_forwarding = Or(item, "email_forwarding", FALSE)
  BY <1>3, <1>5 DEF Or, Default, Keyed
<1>8. ASSUME item.action = "transfer"
      PROVE  Given(c, "epp_code") /\ c.epp_code = item.epp_code
  <2>1. "epp_code" \in DOMAIN item /\ item.epp_code # Blank
    BY <1>8 DEF ValidDomain, Given
  <2>2. "epp_code" \in DOMAIN c
    BY <1>1, <1>2, <1>8, <2>1
  <2>3. c.epp_code = item.epp_code
    BY <1>3, <2>1, <2>2 DEF Keyed
  <2> QED BY <2>1, <2>2, <2>3 DEF Given, Keyed
<1> QED BY <1>6, <1>7, <1>8 DEF c

\* A product line is sold as it was asked for, with the options it was asked with
\* if no number is written as two keys.
LEMMA ProductIsAsAsked ==
  ASSUME NEW item, "type" \in DOMAIN item, item.type = "product", ValidProduct(item)
  PROVE  LET line == [field \in Fields(Cleaned(item)) |-> Value(Cleaned(item), field)] IN
         /\ Sold(line).action = {} /\ Asked(item).action = {}
         /\ KeysAreDistinct(item) => Sold(line) = Asked(item)
<1> DEFINE c    == Cleaned(item)
           line == [field \in Fields(c) |-> Value(c, field)]
<1>1. /\ c.type = "product"
      /\ c.product_id = item.product_id
      /\ c.billing_cycle = item.billing_cycle
      /\ c.quantity = Or(item, "quantity", 1)
      /\ Given(c, "domain") <=> Given(item, "domain")
      /\ Given(c, "hostname") <=> Given(item, "hostname")
      /\ Given(c, "addons") <=> Given(item, "addons")
      /\ Given(c, "config_options") <=> Given(item, "config_options")
      /\ Given(c, "custom_fields") <=> Given(item, "custom_fields")
      /\ Given(item, "domain") => c.domain.name = item.domain.name
      /\ Given(item, "hostname") => c.hostname = item.hostname
      /\ Given(item, "addons") => c.addons = item.addons
      /\ Given(item, "config_options") => c.config_options = _numeric_keys(item.config_options)
      /\ Given(item, "custom_fields") => c.custom_fields = _numeric_keys(item.custom_fields)
  BY CleanedProduct DEF Keyed
<1> HIDE DEF c
<1>2. /\ DOMAIN line = ProductFields(c)
      /\ \A field \in ProductFields(c) : line[field] = Value(c, field)
  BY <1>1 DEF Fields
<1> HIDE DEF line
<1>3. /\ {"pid", "billingcycle", "qty"} \subseteq DOMAIN line
      /\ {"domaintype", "regperiod", "eppcode", "idprotection", "dnsmanagement",
          "emailforwarding"} \cap DOMAIN line = {}
      /\ "domain" \in DOMAIN line <=> Given(item, "domain")
      /\ "hostname" \in DOMAIN line <=> Given(item, "hostname")
      /\ "addons" \in DOMAIN line <=> Given(item, "addons")
      /\ "configoptions" \in DOMAIN line <=> Given(item, "config_options")
      /\ "customfields" \in DOMAIN line <=> Given(item, "custom_fields")
  BY <1>1, <1>2 DEF ProductFields
<1>4. /\ line["pid"] = item.product_id
      /\ line["billingcycle"] = item.billing_cycle
      /\ line["qty"] = Or(item, "quantity", 1)
  BY <1>1, <1>2, <1>3 DEF Value
<1>5. /\ Given(item, "domain") => line["domain"] = item.domain.name
      /\ Given(item, "hostname") => line["hostname"] = item.hostname
      /\ Given(item, "addons") => line["addons"] = item.addons
      /\ Given(item, "config_options") =>
           line["configoptions"] = base64_serialize(_numeric_keys(item.config_options))
      /\ Given(item, "custom_fields") =>
           line["customfields"] = base64_serialize(_numeric_keys(item.custom_fields))
  BY <1>1, <1>2, <1>3 DEF Value
<1>6. Field(line, "pid") \X Field(line, "billingcycle") \X Field(line, "qty") =
        {<<item.product_id, item.billing_cycle, Or(item, "quantity", 1)>>}
  BY <1>3, <1>4, FieldOfLine, Triples
<1>7. /\ Field(line, "domaintype") = {}
      /\ Field(line, "eppcode") = {}
      /\ Field(line, "idprotection") = {}
  BY <1>3, FieldOfLine
<1>8. /\ Field(line, "domaintype") \X Field(line, "domain") \X Field(line, "regperiod") = {}
      /\ Field(line, "idprotection") \X Field(line, "dnsmanagement")
           \X Field(line, "emailforwarding") = {}
  BY <1>7, Triples
<1>9. /\ Field(line, "domain") = IF Given(item, "domain") THEN {item.domain.name} ELSE {}
      /\ Field(line, "hostname") = IfGiven(item, "hostname")
      /\ Field(line, "addons") = IfGiven(item, "addons")
  BY <1>3, <1>5, FieldOfLine DEF IfGiven
<1>10. ASSUME KeysAreDistinct(item)
       PROVE  /\ UNION {Unserialized(parts) : parts \in Field(line, "configoptions")} =
                   Entries(item, "config_options")
              /\ UNION {Unserialized(parts) : parts \in Field(line, "customfields")} =
                   Entries(item, "custom_fields")
  <2>1. /\ Field(line, "configoptions") =
             IF Given(item, "config_options")
               THEN {base64_serialize(_numeric_keys(item.config_options))} ELSE {}
        /\ Field(line, "customfields") =
             IF Given(item, "custom_fields")
               THEN {base64_serialize(_numeric_keys(item.custom_fields))} ELSE {}
    BY <1>3, <1>5, FieldOfLine
  <2>2. ASSUME NEW field \in Keyed, field \in DOMAIN item
        PROVE  Unserialized(base64_serialize(_numeric_keys(item[field]))) = Entries(item, field)
    BY <1>10, <2>2, TextsAreWhole, DistinctKeys DEF KeysAreDistinct, Entries
  <2>3. ASSUME NEW field \in Keyed, ~Given(item, field)
        PROVE  Entries(item, field) = {}
    BY <2>3 DEF Entries, Given, Keyed
  <2> QED BY <2>1, <2>2, <2>3 DEF Given, Keyed
<1>11. Sold(line).action = {} /\ Asked(item).action = {}
  BY <1>8 DEF Sold, Asked
<1>12. KeysAreDistinct(item) => Sold(line) = Asked(item)
  BY <1>3, <1>6, <1>7, <1>8, <1>9, <1>10 DEF Sold, Asked
<1> QED BY <1>11, <1>12 DEF line, c

\* A domain line is sold as it was asked for.
LEMMA DomainIsAsAsked ==
  ASSUME NEW item, "type" \in DOMAIN item, item.type = "domain", ValidDomain(item)
  PROVE  Sold([field \in Fields(Cleaned(item)) |-> Value(Cleaned(item), field)]) = Asked(item)
<1> DEFINE c    == Cleaned(item)
           line == [field \in Fields(c) |-> Value(c, field)]
<1>0. /\ c.type = "domain"
      /\ c.action = item.action
      /\ c.domain = [name |-> item.domain.name, spelling |-> "clean"]
      /\ c.years = Or(item, "years", 1)
      /\ c.id_protection = Or(item, "id_protection", FALSE)
      /\ c.dns_management = Or(item, "dns_management", FALSE)
      /\ c.email_forwarding = Or(item, "email_forwarding", FALSE)
      /\ item.action = "transfer" => Given(c, "epp_code") /\ c.epp_code = item.epp_code
  BY CleanedDomain
<1> HIDE DEF c
<1>1. c.domain.name = item.domain.name
  BY <1>0
<1>2. /\ DOMAIN line = DomainFields(c)
      /\ \A field \in DomainFields(c) : line[field] = Value(c, field)
  BY <1>0 DEF Fields
<1> HIDE DEF line
<1>3. /\ {"domaintype", "domain", "regperiod", "idprotection", "dnsmanagement",
          "emailforwarding"} \subseteq DOMAIN line
      /\ {"pid", "billingcycle", "qty", "hostname", "addons", "configoptions",
          "customfields"} \cap DOMAIN line = {}
      /\ "eppcode" \in DOMAIN line <=> item.action = "transfer"
  BY <1>0, <1>2 DEF DomainFields
<1>4. /\ line["domaintype"] = item.action
      /\ line["domain"] = item.domain.name
      /\ line["regperiod"] = Or(item, "years", 1)
      /\ line["idprotection"] = Or(item, "id_protection", FALSE)
      /\ line["dnsmanagement"] = Or(item, "dns_management", FALSE)
      /\ line["emailforwarding"] = Or(item, "email_forwarding", FALSE)
      /\ item.action = "transfer" => line["eppcode"] = item.epp_code
  BY <1>0, <1>1, <1>2, <1>3 DEF Value
<1>5. Field(line, "domaintype") \X Field(line, "domain") \X Field(line, "regperiod") =
        {<<item.action, item.domain.name, Or(item, "years", 1)>>}
  BY <1>3, <1>4, FieldOfLine, Triples
<1>6. /\ Field(line, "pid") = {}
      /\ Field(line, "hostname") = {}
      /\ Field(line, "addons") = {}
      /\ Field(line, "configoptions") = {}
      /\ Field(line, "customfields") = {}
  BY <1>3, FieldOfLine
<1>7. Field(line, "eppcode") = IF item.action = "transfer" THEN {item.epp_code} ELSE {}
  BY <1>3, <1>4, FieldOfLine
<1>8. Field(line, "pid") \X Field(line, "billingcycle") \X Field(line, "qty") = {}
  BY <1>6, Triples
<1>9. /\ UNION {Unserialized(parts) : parts \in Field(line, "configoptions")} = {}
      /\ UNION {Unserialized(parts) : parts \in Field(line, "customfields")} = {}
  BY <1>6
<1>10. Field(line, "idprotection") \X Field(line, "dnsmanagement")
         \X Field(line, "emailforwarding") =
           {<<Or(item, "id_protection", FALSE), Or(item, "dns_management", FALSE),
              Or(item, "email_forwarding", FALSE)>>}
  <2> DEFINE private == Or(item, "id_protection", FALSE)
             dns     == Or(item, "dns_management", FALSE)
             email   == Or(item, "email_forwarding", FALSE)
  <2>1. /\ Field(line, "idprotection") = {private}
        /\ Field(line, "dnsmanagement") = {dns}
        /\ Field(line, "emailforwarding") = {email}
    BY <1>3, <1>4, FieldOfLine
  <2>2. {private} \X {dns} \X {email} = {<<private, dns, email>>}
    <3> HIDE DEF private, dns, email
    <3> QED BY Triples
  <2> HIDE DEF private, dns, email
  <2>3. Field(line, "idprotection") \X Field(line, "dnsmanagement")
          \X Field(line, "emailforwarding") = {private} \X {dns} \X {email}
    BY <2>1, Zenon
  <2>4. Field(line, "idprotection") \X Field(line, "dnsmanagement")
          \X Field(line, "emailforwarding") = {<<private, dns, email>>}
    BY <2>2, <2>3, Zenon
  <2> QED BY <2>4 DEF private, dns, email
<1>11. Sold(line) = Asked(item)
  BY <1>3, <1>5, <1>6, <1>7, <1>8, <1>9, <1>10 DEF Sold, Asked
<1> QED BY <1>11 DEF line, c

\* "Indices are emitted explicitly so a product-only line followed by a domain-only
\* line cannot slide into each other" (create_order): whatever the baskets, WHMCS
\* sells what was asked for line by line (where no number is written as two keys of
\* a line), and no domain is acted on twice.
THEOREM BasketIsKept == BasketsAreKept
<1> SUFFICES ASSUME NEW items \in Baskets, validate_items(items)
             PROVE  LET order == AddOrderParams(items) IN
                    /\ \A i \in DOMAIN items :
                         KeysAreDistinct(items[i]) => Sold(LineOf(order, i)) = Asked(items[i])
                    /\ \A field \in DOMAIN order : DOMAIN order[field] \subseteq DOMAIN items
                    /\ \A i, j \in DOMAIN items :
                         i # j => ActedOn(LineOf(order, i)) \cap ActedOn(LineOf(order, j)) = {}
  BY DEF BasketsAreKept
<1> DEFINE cleaned == [i \in DOMAIN items |-> Cleaned(items[i])]
           order   == indexed(cleaned)
<1>1. DOMAIN cleaned = DOMAIN items /\ \A i \in DOMAIN items : cleaned[i] = Cleaned(items[i])
  OBVIOUS
<1>2. AddOrderParams(items) = order
  BY DEF AddOrderParams
<1> HIDE DEF cleaned
<1>3. ASSUME NEW i \in DOMAIN items 
      PROVE  /\ Sold(LineOf(order, i)).action = Asked(items[i]).action
             /\ KeysAreDistinct(items[i]) => Sold(LineOf(order, i)) = Asked(items[i])
  <2> DEFINE line == [field \in Fields(Cleaned(items[i])) |-> Value(Cleaned(items[i]), field)]
  <2>1. LineOf(order, i) = line
    BY <1>1, ArraysKeepLines
  <2>2. "type" \in DOMAIN items[i]
    BY DEF validate_items
  <2>3. \/ items[i].type = "product" /\ ValidProduct(items[i])
        \/ items[i].type = "domain" /\ ValidDomain(items[i])
    BY DEF validate_items
  <2>4. /\ Sold(line).action = Asked(items[i]).action
        /\ KeysAreDistinct(items[i]) => Sold(line) = Asked(items[i])
    BY <2>2, <2>3, ProductIsAsAsked, DomainIsAsAsked
  <2> QED BY <2>1, <2>4
<1>4. ASSUME NEW field \in DOMAIN order PROVE DOMAIN order[field] \subseteq DOMAIN items
  BY <1>1 DEF indexed
<1>5. ASSUME NEW i \in DOMAIN items
      PROVE  ActedOn(LineOf(order, i)) =
               IF i \in DomainLines(items) THEN {items[i].domain.name} ELSE {}
  <2>1. \/ items[i].type = "product"
        \/ items[i].type = "domain"
    BY DEF validate_items
  <2>2. Asked(items[i]).action =
          IF i \in DomainLines(items)
            THEN {<<items[i].action, items[i].domain.name, Or(items[i], "years", 1)>>} ELSE {}
    BY <2>1 DEF Asked, DomainLines
  <2>3. ActedOn(LineOf(order, i)) = {action[2] : action \in Asked(items[i]).action}
    BY <1>3 DEF ActedOn
  <2> QED BY <2>2, <2>3
<1>6. ASSUME NEW i \in DomainLines(items), NEW j \in DomainLines(items), i # j
      PROVE  items[i].domain.name # items[j].domain.name
  <2>1. \A k \in DomainLines(items) :
          Cleaned(items[k]).domain = [name |-> items[k].domain.name, spelling |-> "clean"]
    <3> SUFFICES ASSUME NEW k \in DomainLines(items)
                 PROVE  Cleaned(items[k]).domain =
                          [name |-> items[k].domain.name, spelling |-> "clean"]
      OBVIOUS
    <3>1. k \in DOMAIN items /\ items[k].type = "domain"
      BY DEF DomainLines
    <3>2. "type" \in DOMAIN items[k] /\ ValidDomain(items[k])
      BY <3>1 DEF validate_items
    <3> QED BY <3>1, <3>2, CleanedDomain
  <2>2. Cleaned(items[i]).domain # Cleaned(items[j]).domain
    BY <1>6 DEF validate_items, NoDomainTwice
  <2> QED BY <2>1, <2>2
<1>7. ASSUME NEW i \in DOMAIN items, NEW j \in DOMAIN items, i # j
      PROVE  ActedOn(LineOf(order, i)) \cap ActedOn(LineOf(order, j)) = {}
  <2>1. CASE i \in DomainLines(items) /\ j \in DomainLines(items)
    <3>1. items[i].domain.name # items[j].domain.name
      BY <1>6, <1>7, <2>1
    <3> HIDE DEF order
    <3> QED BY <1>5, <2>1, <3>1
  <2>2. CASE ~(i \in DomainLines(items) /\ j \in DomainLines(items))
    <3> HIDE DEF order
    <3> QED BY <1>5, <2>2
  <2> QED BY <2>1, <2>2
<1> QED BY <1>2, <1>3, <1>4, <1>7

\* Whatever a process calls AddOrder with, WHMCS sells what was asked for and is
\* given the address that the proxies have seen.
THEOREM OrdersAreAsAsked == Spec => []OrderIsAsAsked
<1>1. OrderIsAsAsked
  BY BasketIsKept, AddressIsObserved DEF OrderIsAsAsked
<1> QED BY <1>1, PTL
=============================================================================
