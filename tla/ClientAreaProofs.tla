-------------------------- MODULE ClientAreaProofs --------------------------
(***************************************************************************)
(* Theorems of ClientArea, for every number of requests and changes, every *)
(* catalogue, and all operations at once.                                  *)
(***************************************************************************)
EXTENDS ClientArea, TLAPS

Inv == TypeOK /\ AreaInv

LEMMA Tables ==
  /\ \A op \in DOMAIN Gate : op \in Operations /\ Gate[op] \in Gated
  /\ \A op \in Writes : Invalidates[op] \in Seq(Resources) /\ Vouched(op) \subseteq Resources
  /\ \A op \in DOMAIN Rereads :
       op \in Writes /\ Rereads[op] \in Resources /\ Vouched(op) = {Rereads[op]}
  /\ Gated \subseteq Resources /\ Writes \subseteq Operations
  /\ "view" \in Operations \ Writes /\ "view" \notin DOMAIN Gate
  /\ Ungated \cup {"cancel_order"} \subseteq Writes
<1>1. \A op \in DOMAIN Gate : op \in Operations /\ Gate[op] \in Gated
  BY DEF Gate, Gated
<1>2. \A op \in Writes : Vouched(op) \subseteq Resources
  BY DEF Vouched, Shows, Resources, Writes
<1>3. ASSUME NEW op \in Writes PROVE Invalidates[op] \in Seq(Resources)
  <2>1. CASE op = "upgrade"
    <3>1. Invalidates[op] = <<"services", "invoices", "orders">>
      BY <2>1 DEF Invalidates, Writes
    <3> QED BY <3>1 DEF Resources
  <2>2. CASE op = "record_payment"
    <3>1. Invalidates[op] = <<"invoices", "transactions", "services", "orders">>
      BY <2>2 DEF Invalidates, Writes
    <3> QED BY <3>1 DEF Resources
  <2>3. CASE op = "create_order"
    <3>1. Invalidates[op] = <<"orders", "invoices", "services", "domains">>
      BY <2>3 DEF Invalidates, Writes
    <3> QED BY <3>1 DEF Resources
  <2>4. CASE op = "cancel_order"
    <3>1. Invalidates[op] = <<"orders", "invoices", "services", "domains", "orders">>
      BY <2>4 DEF Invalidates, Writes
    <3> QED BY <3>1 DEF Resources
  <2>5. CASE op = "update_profile"
    <3>1. Invalidates[op] = <<"profile">>
      BY <2>5 DEF Invalidates, Writes
    <3> QED BY <3>1 DEF Resources
  <2>6. CASE op \notin {"upgrade", "record_payment", "create_order", "cancel_order",
                      "update_profile"}
    <3>1. PICK r \in Resources : Invalidates[op] = <<r>>
      BY <2>6 DEF Invalidates, Writes, Resources
    <3> QED BY <3>1
  <2> QED BY <2>1, <2>2, <2>3, <2>4, <2>5, <2>6
<1>4. \A op \in DOMAIN Rereads :
       op \in Writes /\ Rereads[op] \in Resources /\ Vouched(op) = {Rereads[op]}
  BY DEF Rereads, Writes, Vouched, Shows, Forgotten, Resources
<1>5. "view" \in Operations \ Writes /\ "view" \notin DOMAIN Gate
  BY DEF Operations, LiveReads, Writes, Gate
<1> QED BY <1>1, <1>2, <1>3, <1>4, <1>5 DEF Gated, Resources, Operations, LiveReads, Writes, Ungated

\* What its answer vouches for a write invalidates (invalidate_for and its callers).
LEMMA NothingForgotten ==
  ASSUME NEW op \in Writes, NEW r \in Vouched(op)
  PROVE  \E i \in 1 .. Len(Invalidates[op]) : Invalidates[op][i] = r
<1>1. CASE op = "upgrade"
  <2>1. Invalidates[op] = <<"services", "invoices", "orders">> /\ Vouched(op) = {"invoices", "orders"}
    BY <1>1 DEF Invalidates, Vouched, Shows, Forgotten, Writes
  <2> QED BY <2>1
<1>2. CASE op = "record_payment"
  <2>1. /\ Invalidates[op] = <<"invoices", "transactions", "services", "orders">>
        /\ Vouched(op) = {"invoices", "transactions", "services", "orders"}
    BY <1>2 DEF Invalidates, Vouched, Shows, Forgotten, Writes
  <2> QED BY <2>1
<1>3. CASE op \in {"create_order", "cancel_order"}
  <2>1. Vouched(op) = {"orders", "invoices", "services", "domains"}
    BY <1>3 DEF Vouched, Shows, Forgotten, Writes
  <2>2. Invalidates[op] \in {<<"orders", "invoices", "services", "domains">>,
                            <<"orders", "invoices", "services", "domains", "orders">>}
    BY <1>3 DEF Invalidates, Writes
  <2> QED BY <2>1, <2>2
<1>4. CASE op \notin {"upgrade", "record_payment", "create_order", "cancel_order"}
  <2>1. Invalidates[op] = <<r>>
    BY <1>4 DEF Invalidates, Vouched, Shows, Forgotten, Writes
  <2> QED BY <2>1
<1> QED BY <1>1, <1>2, <1>3, <1>4

LEMMA HeadOrTail ==
  ASSUME NEW s \in Seq(Resources), s # <<>>, NEW i \in 1 .. Len(s)
  PROVE  s[i] = Head(s) \/ \E j \in 1 .. Len(Tail(s)) : Tail(s)[j] = s[i]
<1>1. CASE i = 1
  BY <1>1
<1>2. CASE i # 1
  <2>1. i - 1 \in 1 .. Len(Tail(s)) /\ Tail(s)[i - 1] = s[i]
    BY <1>2
  <2> QED BY <2>1
<1> QED BY <1>1, <1>2

LEMMA MaxIsUpper ==
  ASSUME NEW a \in Int, NEW b \in Int
  PROVE  Max2(a, b) >= a /\ Max2(a, b) >= b /\ Max2(a, b) \in {a, b}
  BY DEF Max2

LEMMA InitInv ==
  ASSUME Init
  PROVE  Inv
<1>1. 0 \in Moments /\ Never \in 1 .. Never
  BY ConstantsAssumption DEF Moments, Never
<1>2. NoRequest \in Request /\ NoRequest.at = "idle"
  <2>1. <<>> \in Seq(Resources)
    OBVIOUS
  <2> QED BY <1>1, <2>1, Tables DEF NoRequest, Request
<1>3. TypeOK
  BY <1>1, <1>2 DEF Init, TypeOK
<1>4. AreaInv
  BY <1>2 DEF Init, AreaInv, RequestInv, UpgradesStayInGroup, SameGroup
<1> QED BY <1>3, <1>4 DEF Inv

\* A step that ends a request breaks nothing.
LEMMA Ended ==
  NoRequest \in Request /\ NoRequest.at = "idle"
<1>1. 0 \in Moments /\ <<>> \in Seq(Resources)
  BY ConstantsAssumption DEF Moments
<1> QED BY <1>1, Tables DEF NoRequest, Request

-----------------------------------------------------------------------------
(* The request's own state *)

\* If only request q changes, and what is settled grows: it is enough to look
\* at q.
LEMMA OneSettles ==
  ASSUME Inv, NEW q \in Requests, NEW new \in Request,
         req' = [req EXCEPT ![q] = new],
         UNCHANGED <<whmcs, kept>>,
         settled' \in [Resources -> 0 .. now], told' \in [Resources -> 0 .. now],
         \A r \in Resources : settled[r] <= settled'[r] /\ told'[r] <= settled'[r],
         new.at = "gate" => new.page # None /\ (new.op = "view" \/ new.page \in Gated),
         new.at = "order" => new.op = "cancel_order" /\ new.page = None,
         new.at = "call" => new.page \in Gated \cup {None},
         new.op = "upgrade" /\ new.at \in {"gate", "call"} => new.target \in Products,
         new.at \in {"invalidate", "reread"} => new.op \in Writes /\ new.change > 0,
         RequestInv(q)'
  PROVE  Inv'
<1>1. req' \in [Requests -> Request] /\ req'[q] = new
  BY DEF Inv, TypeOK
<1>2. \A u \in Requests \ {q} : req'[u] = req[u]
  BY DEF Inv, TypeOK
<1>3. TypeOK'
  BY <1>1, <1>2 DEF Inv, TypeOK, whmcs
<1>4. ASSUME NEW u \in Requests \ {q} PROVE RequestInv(u)'
  <2>1. /\ RequestInv(u) /\ req'[u] = req[u] /\ req[u].change \in Int
        /\ req[u].at = "invalidate" => Vouched(req[u].op) \subseteq Resources
    <3>1. RequestInv(u) /\ req[u] \in Request /\ req'[u] = req[u]
      BY <1>2 DEF Inv, TypeOK, AreaInv
    <3>2. req[u].at = "invalidate" => req[u].op \in Writes
      BY DEF Inv, TypeOK
    <3>3. req[u].change \in Int
      BY <3>1 DEF Request, Moments
    <3> QED BY <3>1, <3>2, <3>3, Tables
  <2>2. \A r \in Resources : settled[r] \in Int /\ settled'[r] \in Int
    BY DEF Inv, TypeOK
  <2>3. req[u].at = "reread" => req[u].op \in DOMAIN Rereads /\ Rereads[req[u].op] \in Resources
    BY <2>1, Tables DEF RequestInv
  <2>4. req[u].at = "invalidate" =>
          \A r \in Vouched(req[u].op) :
            settled'[r] >= req[u].change
            \/ \E i \in 1 .. Len(req[u].todo) : req[u].todo[i] = r
    BY <2>1, <2>2 DEF RequestInv
  <2>5. req[u].at = "reread" => settled'[Rereads[req[u].op]] >= req[u].change
    BY <2>1, <2>2, <2>3 DEF RequestInv
  <2> QED BY <2>1, <2>4, <2>5 DEF RequestInv, whmcs
<1>5. UpgradesStayInGroup'
  BY DEF Inv, AreaInv, UpgradesStayInGroup, whmcs
<1> QED BY <1>3, <1>4, <1>5 DEF Inv, AreaInv

\* The same when nothing else changes.
LEMMA OneRequest ==
  ASSUME Inv, NEW q \in Requests, NEW new \in Request,
         req' = [req EXCEPT ![q] = new],
         UNCHANGED <<whmcs, settled, kept, told>>,
         new.at = "gate" => new.page # None /\ (new.op = "view" \/ new.page \in Gated),
         new.at = "order" => new.op = "cancel_order" /\ new.page = None,
         new.at = "call" => new.page \in Gated \cup {None},
         new.op = "upgrade" /\ new.at \in {"gate", "call"} => new.target \in Products,
         new.at \in {"invalidate", "reread"} => new.op \in Writes /\ new.change > 0,
         RequestInv(q)'
  PROVE  Inv'
<1>1. settled' \in [Resources -> 0 .. now] /\ told' \in [Resources -> 0 .. now]
  BY DEF Inv, TypeOK
<1>2. \A r \in Resources : settled[r] <= settled'[r] /\ told'[r] <= settled'[r]
  BY DEF Inv, TypeOK, AreaInv
<1> QED BY <1>1, <1>2, OneSettles

LEMMA ArrivesInv ==
  ASSUME Inv, NEW q \in Requests, NEW op \in Operations,
         NEW page \in Resources \cup {None}, NEW target \in Products \cup {None},
         Arrives(q, op, page, target),
         page # None => op = "view" \/ page \in Gated,
         op = "cancel_order" => page = None,
         op = "upgrade" => page # None /\ target \in Products
  PROVE  Inv'
<1> DEFINE new == [at |-> IF op = "cancel_order" THEN "order"
                          ELSE IF page = None THEN "call" ELSE "gate",
                   op |-> op, page |-> page, target |-> target,
                   since |-> IF page = None THEN 0 ELSE settled[page],
                   owed |-> IF page = None THEN 0 ELSE told[page],
                   seen |-> 0, change |-> 0, todo |-> <<>>]
<1>1. req' = [req EXCEPT ![q] = new] /\ UNCHANGED <<whmcs, settled, kept, told>>
  BY DEF Arrives
<1>2. /\ new.at = (IF op = "cancel_order" THEN "order"
                    ELSE IF page = None THEN "call" ELSE "gate")
      /\ new.op = op
      /\ new.page = page
      /\ new.target = target
      /\ new.since = (IF page = None THEN 0 ELSE settled[page])
      /\ new.owed = (IF page = None THEN 0 ELSE told[page])
  OBVIOUS
<1>3. \A r \in Resources : /\ settled[r] \in 0 .. now
                           /\ told[r] \in 0 .. now
                           /\ told[r] <= settled[r]
  BY DEF Inv, TypeOK, AreaInv
<1>4. now \in Moments /\ 0 .. now \subseteq Moments /\ 0 \in Moments
  BY ConstantsAssumption DEF Inv, TypeOK, Moments
<1>5. new \in Request
  <2>1. new.since \in Moments /\ new.owed \in Moments /\ <<>> \in Seq(Resources)
    BY <1>2, <1>3, <1>4
  <2> QED BY <1>4, <2>1 DEF Request
<1>6. req'[q] = new
  BY <1>1 DEF Inv, TypeOK
<1>7. RequestInv(q)'
  <2> SUFFICES /\ new.at = "gate" => new.owed <= new.since /\ new.since <= now
               /\ new.at \in {"order", "call"} =>
                    new.owed <= now /\ new.page = None /\ new.op # "upgrade"
    BY <1>1, <1>2, <1>6 DEF RequestInv, whmcs
  <2>1. CASE page = None
    BY <1>2, <1>4, <2>1 DEF Moments
  <2>2. CASE page # None
    BY <1>2, <1>3, <2>2
  <2> QED BY <2>1, <2>2
<1> HIDE DEF new
<1> QED BY <1>1, <1>2, <1>5, <1>7, OneRequest

LEMMA EndsInv ==
  ASSUME Inv, NEW q \in Requests, req' = [req EXCEPT ![q] = NoRequest],
         UNCHANGED <<whmcs, settled, kept, told>>
  PROVE  Inv'
<1>1. req'[q] = NoRequest
  BY DEF Inv, TypeOK
<1>2. RequestInv(q)'
  BY <1>1, Ended DEF RequestInv
<1> QED BY <1>2, Ended, OneRequest DEF NoRequest

LEMMA GetOrderInv ==
  ASSUME Inv, NEW q \in Requests, get_order(q)
  PROVE  Inv'
<1> DEFINE new == [req[q] EXCEPT !.at = "call"]
<1>1. /\ req[q] \in Request /\ req[q].op = "cancel_order" /\ req[q].page = None
      /\ req[q].owed <= now /\ UNCHANGED <<whmcs, settled, kept, told>>
  BY DEF Inv, TypeOK, AreaInv, RequestInv, get_order
<1>2. CASE req' = [req EXCEPT ![q].at = "call"]
  <2>1. /\ new \in Request /\ new.at = "call" /\ new.op = "cancel_order"
        /\ new.page = None /\ new.owed = req[q].owed
    BY <1>1 DEF Request
  <2>2. req' = [req EXCEPT ![q] = new] /\ req'[q] = new
    BY <1>2 DEF Inv, TypeOK
  <2>3. RequestInv(q)'
    BY <1>1, <2>1, <2>2 DEF RequestInv, whmcs
  <2> HIDE DEF new
  <2> QED BY <1>1, <2>1, <2>2, <2>3, OneRequest
<1>3. CASE req' = [req EXCEPT ![q] = NoRequest]
  BY <1>1, <1>3, EndsInv
<1> QED BY <1>2, <1>3 DEF get_order

LEMMA GateInv ==
  ASSUME Inv, NEW q \in Requests, ReadGate(q)
  PROVE  Inv'
<1> DEFINE me == req[q]
<1>1. /\ me \in Request /\ me.at = "gate" /\ me.page \in Resources
      /\ me.op = "view" \/ me.page \in Gated
      /\ me.op = "upgrade" => me.target \in Products
      /\ me.owed <= me.since /\ me.since <= now
      /\ UNCHANGED <<whmcs, settled, kept, told>>
  BY DEF Inv, TypeOK, AreaInv, RequestInv, ReadGate, Request
<1>2. now \in Moments /\ lost \in [Gated -> 1 .. Never]
  BY DEF Inv, TypeOK
<1>3. PICK v \in (IF kept THEN me.since ELSE 0) .. now :
        \/ /\ me.op = "view"
           /\ req' = [req EXCEPT ![q].at = "done", ![q].seen = v]
        \/ /\ me.op # "view" /\ Passes(q, v)
           /\ req' = [req EXCEPT ![q].at = "call"]
        \/ req' = [req EXCEPT ![q] = NoRequest]
  BY DEF ReadGate, Page!Answers
<1>4. v \in Moments /\ v <= now /\ (kept => me.owed <= v)
  <2>1. /\ me.since \in Int /\ 0 <= me.since /\ me.owed \in Int
        /\ now \in Int /\ now <= MaxChanges /\ MaxChanges \in Int
    BY <1>1, <1>2, ConstantsAssumption DEF Request, Moments
  <2>2. CASE kept
    BY <1>1, <1>3, <2>1, <2>2 DEF Moments
  <2>3. CASE ~kept
    BY <1>3, <2>1, <2>3 DEF Moments
  <2> QED BY <2>2, <2>3
<1>5. CASE me.op = "view" /\ req' = [req EXCEPT ![q].at = "done", ![q].seen = v]
  <2> DEFINE new == [me EXCEPT !.at = "done", !.seen = v]
  <2>1. new \in Request /\ new.at = "done" /\ new.op = "view" /\ new.seen = v
        /\ new.owed = me.owed
    BY <1>1, <1>4, <1>5 DEF Request
  <2>2. req' = [req EXCEPT ![q] = new] /\ req'[q] = new
    BY <1>5 DEF Inv, TypeOK
  <2>3. "view" \notin DOMAIN Rereads
    BY DEF Rereads
  <2>4. RequestInv(q)'
    BY <1>1, <1>4, <2>1, <2>2, <2>3 DEF RequestInv, whmcs
  <2> HIDE DEF new
  <2> QED BY <1>1, <2>1, <2>2, <2>4, OneRequest
<1>6. CASE me.op # "view" /\ Passes(q, v) /\ req' = [req EXCEPT ![q].at = "call"]
  <2> DEFINE new == [me EXCEPT !.at = "call"]
  <2>1. /\ new \in Request /\ new.at = "call" /\ new.op = me.op /\ new.page = me.page
        /\ new.target = me.target /\ new.owed = me.owed
    BY <1>1 DEF Request
  <2>2. req' = [req EXCEPT ![q] = new] /\ req'[q] = new
    BY <1>6 DEF Inv, TypeOK
  <2>3. v < lost[me.page] /\ lost[me.page] \in Int
    BY <1>1, <1>2, <1>6 DEF Passes, assert_owned, Never
  <2>4. kept => me.owed < lost[me.page]
    BY <1>1, <1>4, <2>3 DEF Request, Moments
  <2>5. ASSUME me.op = "upgrade" PROVE SameGroup(product[0], me.target)
    <3>1. me.target \in upgrade_options(product[v])
      BY <1>6, <2>5 DEF Passes
    <3>2. SameGroup(product[0], product[v])
      BY <1>2, <1>4 DEF Inv, AreaInv, UpgradesStayInGroup, Moments
    <3> QED BY <3>1, <3>2 DEF SameGroup, upgrade_options
  <2>6. me.owed <= now
    BY <1>1, <1>2 DEF Request, Moments
  <2>7. RequestInv(q)'
    BY <1>1, <2>1, <2>2, <2>4, <2>5, <2>6 DEF RequestInv, SameGroup, whmcs
  <2> HIDE DEF new
  <2> QED BY <1>1, <1>6, <2>1, <2>2, <2>7, OneRequest
<1>7. CASE req' = [req EXCEPT ![q] = NoRequest]
  BY <1>1, <1>7, EndsInv
<1> QED BY <1>3, <1>5, <1>6, <1>7

-----------------------------------------------------------------------------
(* Changes in WHMCS *)

\* Time passes: what the other requests rely on stays true.
LEMMA LaterInv ==
  ASSUME Inv, now' = now + 1, product'[0] = product[0],
         \A r \in Gated : lost'[r] \in {lost[r], now + 1},
         UNCHANGED <<settled, kept, told>>,
         NEW q \in Requests, req'[q] = req[q]
  PROVE  RequestInv(q)'
<1>1. /\ RequestInv(q)
      /\ req[q] \in Request
      /\ now \in Moments
      /\ req[q].at = "call" => req[q].page \in Gated \cup {None}
  BY DEF Inv, TypeOK, AreaInv
<1>2. /\ req[q].since \in Int /\ req[q].owed \in Int /\ req[q].change \in Int /\ now \in Int
  BY <1>1 DEF Request, Moments
<1>3. req[q].at = "call" /\ req[q].page # None /\ kept => req[q].owed < lost'[req[q].page]
  BY <1>1, <1>2 DEF RequestInv
<1> QED BY <1>1, <1>2, <1>3 DEF RequestInv, SameGroup

\* A call that is carried out, by a request or by somebody else.
LEMMA ProcessInv ==
  ASSUME Inv, NEW op, NEW p \in Products \cup {None}, Process(op, p),
         op = "upgrade" => p \in Products /\ SameGroup(product[0], p)
  PROVE  /\ now' \in Moments /\ now' = now + 1
         /\ product' \in [0 .. now' -> Products] /\ product'[0] = product[0]
         /\ upgrades' \subseteq Products /\ lost' = lost
         /\ UpgradesStayInGroup'
<1>1. /\ now \in Moments /\ now < MaxChanges /\ now' = now + 1 /\ lost' = lost
      /\ product \in [0 .. now -> Products] /\ upgrades \subseteq Products
  BY DEF Inv, TypeOK, Process
<1>2. now' \in Moments /\ 0 \in 0 .. now
  BY <1>1, ConstantsAssumption DEF Moments
<1>3. \A m \in 0 .. now' :
        /\ m <= now => m \in 0 .. now /\ product'[m] = product[m]
        /\ ~(m <= now) => product'[m] \in {product[now]} \cup (upgrades \cap {p})
  BY <1>1, <1>2 DEF Process, Moments
<1>4. product' \in [0 .. now' -> Products]
  <2>1. now \in 0 .. now
    BY <1>1 DEF Moments
  <2>2. product' = [m \in 0 .. now' |-> product'[m]]
    BY <1>1 DEF Process
  <2>3. \A m \in 0 .. now' : product'[m] \in Products
    BY <1>1, <1>3, <2>1
  <2> QED BY <2>2, <2>3
<1>5. product'[0] = product[0]
  BY <1>1, <1>2, <1>3 DEF Moments
<1>6. upgrades' \subseteq Products /\ upgrades' \subseteq upgrades \cup {o \in {p} : op = "upgrade"}
  BY <1>1 DEF Process
<1>7. UpgradesStayInGroup'
  <2>1. \A o \in upgrades \cup {product[m] : m \in 0 .. now} : SameGroup(product[0], o)
    BY DEF Inv, AreaInv, UpgradesStayInGroup
  <2>2. \A o \in upgrades' : SameGroup(product[0], o)
    BY <1>6, <2>1
  <2>3. \A m \in 0 .. now' : SameGroup(product[0], product'[m])
    <3> SUFFICES ASSUME NEW m \in 0 .. now' PROVE SameGroup(product[0], product'[m])
      OBVIOUS
    <3>1. CASE m <= now
      BY <1>3, <2>1, <3>1
    <3>2. CASE ~(m <= now)
      <4>1. now \in 0 .. now
        BY <1>1 DEF Moments
      <4> QED BY <1>3, <2>1, <3>2, <4>1
    <3> QED BY <3>1, <3>2
  <2> QED BY <1>5, <2>2, <2>3 DEF UpgradesStayInGroup, SameGroup
<1> QED BY <1>1, <1>2, <1>4, <1>5, <1>6, <1>7

\* The histories and promises stay within what has happened.
LEMMA StillBounded ==
  ASSUME Inv, now' = now + 1, UNCHANGED <<settled, told>>
  PROVE  /\ settled' \in [Resources -> 0 .. now'] /\ told' \in [Resources -> 0 .. now']
         /\ \A r \in Resources : told'[r] <= settled'[r]
<1>1. now \in Moments /\ 0 .. now \subseteq 0 .. now'
  BY DEF Inv, TypeOK, Moments
<1> QED BY <1>1 DEF Inv, TypeOK, AreaInv

LEMMA WriteInv ==
  ASSUME Inv, NEW q \in Requests, Write(q) \/ AnswerLost(q)
  PROVE  Inv'
<1> DEFINE op == req[q].op
           new == IF Write(q) THEN Invalidating(op, now + 1) ELSE NoRequest
<1>1. /\ req[q] \in Request /\ op \in Writes /\ req[q].at = "call"
      /\ Process(op, req[q].target)
      /\ req' = [req EXCEPT ![q] = new]
      /\ UNCHANGED <<settled, kept, told>>
  BY DEF Inv, TypeOK, Write, AnswerLost
<1>2. /\ req[q].target \in Products \cup {None}
      /\ op = "upgrade" => req[q].target \in Products /\ SameGroup(product[0], req[q].target)
  BY <1>1 DEF Inv, TypeOK, AreaInv, RequestInv, Request
<1>3. /\ now' \in Moments /\ now' = now + 1
      /\ product' \in [0 .. now' -> Products] /\ product'[0] = product[0]
      /\ upgrades' \subseteq Products /\ lost' = lost
      /\ UpgradesStayInGroup'
  BY <1>1, <1>2, ProcessInv
<1>4. /\ Invalidating(op, now + 1) \in Request
      /\ now + 1 > 0
  <2>1. now + 1 \in Moments /\ now + 1 > 0 /\ 0 \in Moments
    BY <1>3, ConstantsAssumption DEF Inv, TypeOK, Moments
  <2>2. Invalidates[op] \in Seq(Resources) /\ op \in Operations
    BY <1>1, Tables
  <2> QED BY <2>1, <2>2 DEF Invalidating, Request
<1>5. new \in Request /\ req' \in [Requests -> Request] /\ req'[q] = new
      /\ \A u \in Requests \ {q} : req'[u] = req[u]
  <2>1. new \in Request
    BY <1>4, Ended
  <2> HIDE DEF new
  <2> QED BY <1>1, <2>1 DEF Inv, TypeOK
<1>6. TypeOK'
  <2>1. /\ new.at = "gate" => FALSE
        /\ new.at \in {"order", "call"} => FALSE
        /\ new.at \in {"invalidate", "reread"} => new.op \in Writes /\ new.change > 0
    BY <1>1, <1>4, Ended DEF Invalidating
  <2> HIDE DEF new
  <2> QED BY <1>1, <1>3, <1>5, <2>1, StillBounded DEF Inv, TypeOK
<1>7. RequestInv(q)'
  <2>1. CASE Write(q)
    <3>1. /\ req'[q].at = "invalidate" /\ req'[q].op = op
          /\ req'[q].change = now' /\ req'[q].todo = Invalidates[op]
      BY <1>3, <1>5, <2>1 DEF Invalidating
    <3>2. \A r \in Vouched(op) : \E i \in 1 .. Len(Invalidates[op]) : Invalidates[op][i] = r
      BY <1>1, NothingForgotten
    <3>3. now' <= now'
      BY <1>3 DEF Moments
    <3> HIDE DEF op
    <3> QED BY <3>1, <3>2, <3>3 DEF RequestInv
  <2>2. CASE ~Write(q)
    BY <1>5, <2>2, Ended DEF RequestInv
  <2> QED BY <2>1, <2>2
<1>8. \A u \in Requests : RequestInv(u)'
  BY <1>1, <1>3, <1>5, <1>7, LaterInv
<1> QED BY <1>1, <1>3, <1>6, <1>8, StillBounded DEF Inv, AreaInv

LEMMA OutsideInv ==
  ASSUME Inv, OutsideChange
  PROVE  Inv'
<1>1. PICK op \in {"record_payment", "cancel_order"}, p \in upgrades \cup {None} :
        Process(op, p)
  BY DEF OutsideChange
<1>2. p \in Products \cup {None} /\ UNCHANGED <<settled, kept, req, told>>
  BY DEF Inv, TypeOK, OutsideChange
<1>3. /\ now' \in Moments /\ now' = now + 1
      /\ product' \in [0 .. now' -> Products] /\ product'[0] = product[0]
      /\ upgrades' \subseteq Products /\ lost' = lost
      /\ UpgradesStayInGroup'
  BY <1>1, <1>2, ProcessInv
<1>4. TypeOK'
  BY <1>2, <1>3, StillBounded DEF Inv, TypeOK
<1>5. \A u \in Requests : RequestInv(u)'
  BY <1>2, <1>3, LaterInv
<1> QED BY <1>2, <1>3, <1>4, <1>5, StillBounded DEF Inv, AreaInv

LEMMA GiveAwayInv ==
  ASSUME Inv, NEW r \in Gated, GiveAway(r)
  PROVE  Inv'
<1>1. /\ now \in Moments /\ now < MaxChanges /\ now' = now + 1
      /\ lost \in [Gated -> 1 .. Never] /\ lost' = [lost EXCEPT ![r] = now + 1]
      /\ product \in [0 .. now -> Products]
      /\ product' = [m \in 0 .. now + 1 |-> IF m <= now THEN product[m] ELSE product[now]]
      /\ UNCHANGED <<upgrades, settled, kept, req, told>>
  BY DEF Inv, TypeOK, GiveAway
<1>2. now' \in Moments /\ now + 1 \in 1 .. Never /\ 0 \in 0 .. now /\ now \in 0 .. now
      /\ 0 \in 0 .. now' /\ 0 <= now
  BY <1>1, ConstantsAssumption DEF Moments, Never
<1>3. \A m \in 0 .. now' : product'[m] \in {product[k] : k \in 0 .. now}
  BY <1>1, <1>2 DEF Moments
<1>4. product'[0] = product[0]
  BY <1>1, <1>2
<1>5. UpgradesStayInGroup'
  BY <1>1, <1>3, <1>4 DEF Inv, AreaInv, UpgradesStayInGroup, SameGroup
<1>6. TypeOK'
  <2>1. product' \in [0 .. now' -> Products]
    BY <1>1, <1>2 DEF Moments
  <2>2. lost' \in [Gated -> 1 .. Never]
    BY <1>1, <1>2
  <2> QED BY <1>1, <1>2, <2>1, <2>2, StillBounded DEF Inv, TypeOK
<1>7. \A u \in Requests : RequestInv(u)'
  BY <1>1, <1>4, LaterInv
<1> QED BY <1>1, <1>5, <1>6, <1>7, StillBounded DEF Inv, AreaInv

-----------------------------------------------------------------------------
(* Invalidations and answers *)

LEMMA InvalidateInv ==
  ASSUME Inv, NEW q \in Requests, invalidate(q)
  PROVE  Inv'
<1> DEFINE me == req[q]
           h == Head(me.todo)
           new == [me EXCEPT !.todo = Tail(@)]
<1>1. /\ me \in Request /\ me.at = "invalidate" /\ me.op \in Writes /\ me.change > 0
      /\ me.change <= now /\ me.todo # <<>> /\ me.todo \in Seq(Resources)
      /\ me.change \in Int /\ now \in Int
      /\ UNCHANGED <<whmcs, kept, told>>
  BY DEF Inv, TypeOK, AreaInv, RequestInv, invalidate, Request, Moments
<1>2. h \in Resources /\ Tail(me.todo) \in Seq(Resources)
  BY <1>1
<1>3. /\ new \in Request /\ new.at = "invalidate" /\ new.op = me.op
      /\ new.change = me.change /\ new.todo = Tail(me.todo)
  BY <1>1, <1>2 DEF Request
<1>4. req' = [req EXCEPT ![q] = new] /\ req'[q] = new
  BY DEF Inv, TypeOK, invalidate
<1>5. \A r \in Resources : /\ settled[r] \in 0 .. now /\ told[r] \in 0 .. now
                           /\ told[r] <= settled[r]
  BY DEF Inv, TypeOK, AreaInv
<1>6. settled' = [settled EXCEPT ![h] = Max2(settled[h], me.change)]
  BY DEF invalidate
<1>7. /\ Max2(settled[h], me.change) \in 0 .. now
      /\ Max2(settled[h], me.change) >= settled[h]
      /\ Max2(settled[h], me.change) >= me.change
  BY <1>1, <1>2, <1>5 DEF Max2
<1>8. settled' \in [Resources -> 0 .. now] /\ settled'[h] >= me.change
  BY <1>2, <1>6, <1>7 DEF Inv, TypeOK
<1>9. \A r \in Resources : settled[r] <= settled'[r]
  BY <1>2, <1>5, <1>6, <1>7 DEF Inv, TypeOK
<1>10. \A r \in Resources : told'[r] <= settled'[r]
  <2>1. \A r \in Resources : settled'[r] \in Int /\ told'[r] = told[r]
    BY <1>1, <1>8
  <2> QED BY <1>5, <1>9, <2>1
<1>11. told' \in [Resources -> 0 .. now]
  BY <1>1 DEF Inv, TypeOK
<1>12. RequestInv(q)'
  <2> SUFFICES ASSUME NEW r \in Vouched(me.op)
               PROVE  settled'[r] >= me.change
                      \/ \E i \in 1 .. Len(Tail(me.todo)) : Tail(me.todo)[i] = r
    BY <1>1, <1>3, <1>4 DEF RequestInv, whmcs
  <2>1. r \in Resources
    BY <1>1, Tables
  <2>2. settled[r] \in Int /\ settled'[r] \in Int /\ settled[r] <= settled'[r]
    BY <1>5, <1>8, <1>9, <2>1
  <2>3. CASE settled[r] >= me.change
    BY <1>1, <2>2, <2>3
  <2>4. CASE ~(settled[r] >= me.change)
    <3>1. PICK i \in 1 .. Len(me.todo) : me.todo[i] = r
      BY <1>1, <2>4 DEF Inv, AreaInv, RequestInv
    <3>2. r = h \/ \E j \in 1 .. Len(Tail(me.todo)) : Tail(me.todo)[j] = r
      <4> HIDE DEF me
      <4> QED BY <1>1, <3>1, HeadOrTail
    <3> QED BY <1>8, <3>2
  <2> QED BY <2>3, <2>4
<1> HIDE DEF new
<1> QED BY <1>1, <1>3, <1>4, <1>8, <1>9, <1>10, <1>11, <1>12, OneSettles

\* An answer vouches for no more than is settled.
LEMMA ReportedInv ==
  ASSUME Inv, NEW op \in Writes, NEW change \in 0 .. now, Reported(op, change),
         \A r \in Vouched(op) : settled[r] >= change,
         UNCHANGED settled
  PROVE  /\ settled' \in [Resources -> 0 .. now] /\ told' \in [Resources -> 0 .. now]
         /\ \A r \in Resources : settled[r] <= settled'[r] /\ told'[r] <= settled'[r]
<1>1. \A r \in Resources : /\ settled[r] \in 0 .. now /\ told[r] \in 0 .. now
                           /\ told[r] <= settled[r]
  BY DEF Inv, TypeOK, AreaInv
<1>2. \A r \in Resources :
        told'[r] = IF r \in Vouched(op) THEN Max2(told[r], change) ELSE told[r]
  BY DEF Reported
<1>3. \A r \in Resources : told'[r] \in 0 .. now /\ told'[r] <= settled[r]
  BY <1>1, <1>2 DEF Max2
<1>4. told' = [r \in Resources |-> told'[r]]
  BY DEF Reported
<1>5. told' \in [Resources -> 0 .. now]
  BY <1>3, <1>4
<1> QED BY <1>1, <1>3, <1>5 DEF Inv, TypeOK

LEMMA DoneInv ==
  ASSUME Inv, NEW q \in Requests, Done(q)
  PROVE  Inv'
<1>1. /\ req[q].op \in Writes /\ req[q].change \in 0 .. now
      /\ \A r \in Vouched(req[q].op) : settled[r] >= req[q].change
  BY DEF Inv, TypeOK, AreaInv, RequestInv, Done, Request, Moments
<1>2. /\ Reported(req[q].op, req[q].change) /\ UNCHANGED <<whmcs, settled, kept>>
      /\ req' = [req EXCEPT ![q] = NoRequest] /\ req'[q] = NoRequest
  BY DEF Inv, TypeOK, Done
<1>3. RequestInv(q)'
  BY <1>2, Ended DEF RequestInv
<1>4. /\ settled' \in [Resources -> 0 .. now] /\ told' \in [Resources -> 0 .. now]
      /\ \A r \in Resources : settled[r] <= settled'[r] /\ told'[r] <= settled'[r]
  BY <1>1, <1>2, ReportedInv
<1> QED BY <1>2, <1>3, <1>4, Ended, OneSettles

LEMMA RereadInv ==
  ASSUME Inv, NEW q \in Requests, Reread(q)
  PROVE  Inv'
<1> DEFINE page == Rereads[req[q].op]
           new == [req[q] EXCEPT !.at = "reread", !.since = settled[page]]
<1>1. /\ req[q] \in Request /\ req[q].at = "invalidate" /\ req[q].op \in Writes
      /\ req[q].op \in DOMAIN Rereads /\ req[q].change > 0 /\ req[q].change <= now
      /\ req[q].todo = <<>> /\ UNCHANGED <<whmcs, settled, kept, told>>
  BY DEF Inv, TypeOK, AreaInv, RequestInv, Reread
<1>2. settled[page] >= req[q].change
  <2>1. page \in Vouched(req[q].op)
    BY <1>1, Tables
  <2> QED BY <1>1, <2>1 DEF Inv, AreaInv, RequestInv
<1>3. settled[page] \in Moments /\ settled[page] <= now
  <2>1. page \in Resources
    BY <1>1, Tables
  <2>2. settled[page] \in 0 .. now /\ now \in 0 .. MaxChanges
    BY <2>1 DEF Inv, TypeOK, Moments
  <2> HIDE DEF page
  <2> QED BY <2>2, ConstantsAssumption DEF Moments
<1>4. /\ new \in Request /\ new.at = "reread" /\ new.op = req[q].op
      /\ new.change = req[q].change /\ new.since = settled[page]
  BY <1>1, <1>3 DEF Request
<1>5. req' = [req EXCEPT ![q] = new] /\ req'[q] = new
  BY DEF Inv, TypeOK, Reread
<1>6. RequestInv(q)'
  BY <1>1, <1>2, <1>3, <1>4, <1>5 DEF RequestInv, whmcs
<1> HIDE DEF new
<1> QED BY <1>1, <1>4, <1>5, <1>6, OneRequest

LEMMA ShowChangeInv ==
  ASSUME Inv, NEW q \in Requests, ShowChange(q)
  PROVE  Inv'
<1> DEFINE me == req[q]
<1>1. /\ me \in Request /\ me.at = "reread" /\ me.op \in DOMAIN Rereads
      /\ me.op \in Writes /\ me.change > 0 /\ me.change <= now
      /\ me.since >= me.change /\ me.since <= now /\ settled[Rereads[me.op]] >= me.change
      /\ UNCHANGED <<whmcs, settled, kept>> /\ Reported(me.op, me.change)
  BY DEF Inv, TypeOK, AreaInv, RequestInv, ShowChange
<1>2. PICK v \in (IF kept THEN me.since ELSE 0) .. now :
        req' = [req EXCEPT ![q].at = "done", ![q].seen = v]
  BY DEF ShowChange, Page!Answers
<1>3. /\ me.since \in Int /\ 0 <= me.since /\ me.change \in Int
      /\ now \in Int /\ now <= MaxChanges /\ MaxChanges \in Int
  BY <1>1, ConstantsAssumption DEF Inv, TypeOK, Request, Moments
<1>4. v \in Moments /\ (kept => v >= me.change)
  <2>1. CASE kept
    BY <1>1, <1>2, <1>3, <2>1 DEF Moments
  <2>2. CASE ~kept
    BY <1>2, <1>3, <2>2 DEF Moments
  <2> QED BY <2>1, <2>2
<1> DEFINE new == [me EXCEPT !.at = "done", !.seen = v]
<1>5. /\ new \in Request /\ new.at = "done" /\ new.op = me.op
      /\ new.change = me.change /\ new.seen = v
  BY <1>1, <1>4 DEF Request
<1>6. req' = [req EXCEPT ![q] = new] /\ req'[q] = new
  BY <1>2 DEF Inv, TypeOK
<1>7. "view" \notin Writes
  BY Tables
<1>8. RequestInv(q)'
  BY <1>1, <1>4, <1>5, <1>6, <1>7 DEF RequestInv
<1>9. /\ settled' \in [Resources -> 0 .. now] /\ told' \in [Resources -> 0 .. now]
      /\ \A r \in Resources : settled[r] <= settled'[r] /\ told'[r] <= settled'[r]
  <2>1. me.change \in 0 .. now
    BY <1>1, <1>3
  <2>2. Vouched(me.op) = {Rereads[me.op]}
    BY <1>1, Tables
  <2> HIDE DEF me
  <2> QED BY <1>1, <2>1, <2>2, ReportedInv
<1> HIDE DEF new
<1> QED BY <1>1, <1>5, <1>6, <1>8, <1>9, OneSettles

-----------------------------------------------------------------------------
(* All steps *)

LEMMA OpensInv ==
  ASSUME Inv, NEW q \in Requests,
         View(q) \/ Open(q) \/ OpenNew(q) \/ UpdateProfile(q) \/ Cancel(q) \/ Settle(q)
  PROVE  Inv'
<1>1. CASE View(q)
  <2>1. PICK r \in Resources : Arrives(q, "view", r, None)
    BY <1>1, ConstantsAssumption DEF View
  <2>2. r # None
    BY ConstantsAssumption
  <2> QED BY <2>1, <2>2, Tables, ArrivesInv
<1>2. CASE Open(q)
  <2>1. PICK op \in DOMAIN Gate :
          \E t \in Products \cup {None} :
            /\ Arrives(q, op, Gate[op], t)
            /\ op = "upgrade" => t \in Products
    BY <1>2 DEF Open
  <2>2. PICK t \in Products \cup {None} :
          /\ Arrives(q, op, Gate[op], t)
          /\ op = "upgrade" => t \in Products
    BY <2>1
  <2>3. /\ op \in Operations /\ Gate[op] \in Gated /\ Gate[op] \in Resources
        /\ Gate[op] # None
    BY Tables, ConstantsAssumption
  <2>4. op # "cancel_order"
    BY DEF Gate
  <2> QED BY <2>2, <2>3, <2>4, ArrivesInv
<1>3. CASE OpenNew(q)
  <2>1. PICK op \in {"open_ticket", "create_order"} : Arrives(q, op, None, None)
    BY <1>3 DEF OpenNew
  <2>2. op \in Operations
    BY Tables DEF Ungated
  <2> QED BY <2>1, <2>2, ArrivesInv
<1>4. CASE UpdateProfile(q)
  BY <1>4, Tables, ArrivesInv DEF UpdateProfile, Ungated
<1>5. CASE Cancel(q)
  <2>1. PICK p \in Products \cup {None} : Arrives(q, "cancel_order", None, p)
    BY <1>5 DEF Cancel
  <2> QED BY <2>1, Tables, ArrivesInv
<1>6. CASE Settle(q)
  <2>1. PICK p \in Products \cup {None} : Arrives(q, "record_payment", None, p)
    BY <1>6 DEF Settle, Inv, TypeOK
  <2> QED BY <2>1, Tables, ArrivesInv DEF Ungated
<1> QED BY <1>1, <1>2, <1>3, <1>4, <1>5, <1>6

LEMMA LoseInv ==
  ASSUME Inv, Lose
  PROVE  Inv'
<1>1. TypeOK'
  BY DEF Inv, TypeOK, Lose, whmcs
<1>2. \A q \in Requests : RequestInv(q)'
  BY DEF Inv, AreaInv, RequestInv, Lose, whmcs
<1> QED BY <1>1, <1>2 DEF Inv, AreaInv, UpgradesStayInGroup, Lose, whmcs

LEMMA StepInv ==
  Inv /\ [Next]_vars => Inv'
<1> SUFFICES ASSUME Inv, [Next]_vars PROVE Inv'
  OBVIOUS
<1>1. ASSUME NEW q \in Requests, View(q) \/ Open(q) \/ OpenNew(q) \/ UpdateProfile(q) \/ Cancel(q) \/ Settle(q)
      PROVE  Inv'
  BY <1>1, OpensInv
<1>2. ASSUME NEW q \in Requests, ReadGate(q) \/ get_order(q) PROVE Inv'
  BY <1>2, GateInv, GetOrderInv
<1>3. ASSUME NEW q \in Requests, LiveRead(q) \/ Fail(q) PROVE Inv'
  BY <1>3, EndsInv DEF LiveRead, Fail
<1>4. ASSUME NEW q \in Requests, Write(q) \/ AnswerLost(q) PROVE Inv'
  BY <1>4, WriteInv
<1>5. ASSUME NEW q \in Requests, invalidate(q) PROVE Inv'
  BY <1>5, InvalidateInv
<1>6. ASSUME NEW q \in Requests, Done(q) PROVE Inv'
  BY <1>6, DoneInv
<1>7. ASSUME NEW q \in Requests, Reread(q) PROVE Inv'
  BY <1>7, RereadInv
<1>8. ASSUME NEW q \in Requests, ShowChange(q) PROVE Inv'
  BY <1>8, ShowChangeInv
<1>9. CASE OutsideChange
  BY <1>9, OutsideInv
<1>10. ASSUME NEW r \in Gated, GiveAway(r) PROVE Inv'
  BY <1>10, GiveAwayInv
<1>11. CASE Lose
  BY <1>11, LoseInv
<1>12. CASE UNCHANGED vars
  <2>1. TypeOK'
    BY <1>12 DEF Inv, TypeOK, vars
  <2>2. \A q \in Requests : RequestInv(q)'
    BY <1>12 DEF Inv, AreaInv, RequestInv, vars
  <2> QED BY <1>12, <2>1, <2>2 DEF Inv, AreaInv, UpgradesStayInGroup, vars
<1> QED BY <1>1, <1>2, <1>3, <1>4, <1>5, <1>6, <1>7, <1>8, <1>9, <1>10, <1>11, <1>12 DEF Next

\* The types, that an answer vouches only for what is settled, and that a write
\* settles all that its answer vouches for, hold from the first request on.
THEOREM AreaInvariance == Spec => [](TypeOK /\ AreaInv)
<1>1. Init => Inv
  BY InitInv
<1>2. Inv /\ [Next]_vars => Inv'
  BY StepInv
<1>3. Inv => TypeOK /\ AreaInv
  BY DEF Inv
<1> QED BY <1>1, <1>2, <1>3, PTL DEF Spec

\* Every variable keeps its type: requests read only pages that have a record,
\* and invalidate only after a change of their own.
THEOREM TypeCorrect == Spec => []TypeOK
<1> QED BY AreaInvariance, PTL

\* A page that is opened after a write was answered shows it, on every page that
\* the write concerned except the domains after a payment (invalidate_for in
\* hosting.py, billing.py, support.py).
THEOREM FinishedWritesAreShown == Spec => []PagesShowFinishedWrites
<1>1. TypeOK /\ AreaInv => PagesShowFinishedWrites
  BY DEF AreaInv, RequestInv, PagesShowFinishedWrites
<1> QED BY <1>1, AreaInvariance, PTL

\* The ticket that comes back from a reply or a close shows that reply, and the
\* profile that comes back from an update that update, whoever else reads them
\* meanwhile (get_ticket with fresh=True, update_profile).
THEOREM OwnChangesAreShown == Spec => []OwnChangeIsShown
<1>1. TypeOK /\ AreaInv => OwnChangeIsShown
  BY DEF AreaInv, RequestInv, OwnChangeIsShown
<1> QED BY <1>1, AreaInvariance, PTL

\* After an answered write no request of the former owner of a resource passes
\* the cached gate (assert_owned on what get_or_set returns).
THEOREM FormerOwnerIsStopped == Spec => []GivenAwayIsLeftAlone
<1>1. TypeOK /\ AreaInv => GivenAwayIsLeftAlone
  BY DEF AreaInv, RequestInv, GivenAwayIsLeftAlone
<1> QED BY <1>1, AreaInvariance, PTL

\* No sequence of quotes, upgrades and payments leads out of the group of the
\* first product (_assert_upgrade_allowed).
THEOREM UpgradesAreConfined == Spec => []UpgradesStayInGroup
<1>1. TypeOK /\ AreaInv => UpgradesStayInGroup
  BY DEF AreaInv
<1> QED BY <1>1, AreaInvariance, PTL
=============================================================================
