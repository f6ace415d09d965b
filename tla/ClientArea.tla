----------------------------- MODULE ClientArea -----------------------------
(***************************************************************************)
(* The pages of one customer and what is done from them:                   *)
(* services/hosting.py, support.py, billing.py, orders.py and the profile  *)
(* of accounts.py, with their views.  A page is read through the cache, of *)
(* which only its promise is used (CachedReads).  So is the ownership gate *)
(* in front of a write: WHMCS acts on any id it is given.  A write is a    *)
(* gate, a call, one invalidation after the other, and for tickets and the *)
(* profile a second read.                                                  *)
(*                                                                         *)
(* A moment is named by the number of changes that WHMCS has seen until    *)
(* then; what a read answers is named by the moment it shows.  There is    *)
(* one record of each resource, which staff may give to another customer.  *)
(***************************************************************************)
EXTENDS Integers, Sequences

CONSTANTS
  Requests,      \* requests of the customer
  Products,
  GroupOf,       \* the group of each product that GetProducts lists
  MaxChanges,    \* bound: changes in WHMCS
  Offered,       \* bound: the operations that an instance has
  Pages,         \* bound: the pages that its customer opens
  None

VARIABLES
  now,        \* WHMCS: how often its data has changed
  product,    \* WHMCS: the product of the service, at each moment until now
  upgrades,   \* WHMCS: products with an unpaid upgrade order
  lost,       \* WHMCS: when the record of a resource was given away, or Never
  settled,    \* the promise of the cache, for each namespace of the customer
  kept,       \* the cache has not lost a counter
  req,        \* where each request is
  told        \* history: the latest change that an answer reported as done

vars == <<now, product, upgrades, lost, settled, kept, req, told>>

whmcs == <<now, product, upgrades, lost>>

-----------------------------------------------------------------------------

Resources == {"services", "domains", "invoices", "transactions", "orders", "tickets",
              "profile"}

\* Those with a record that writes are about.
Gated == {"services", "domains", "tickets"}

Moments == 0 .. MaxChanges

Never == MaxChanges + 1

Writes ==
  {"change_password", "request_cancellation", "upgrade", "update_nameservers",
   "set_lock_status", "open_ticket", "reply_to_ticket", "close_ticket", "record_payment",
   "create_order", "cancel_order", "update_profile"}

\* Answered by WHMCS itself, each time.
LiveReads ==
  {"quote_upgrade", "get_nameservers", "get_lock_status", "request_epp_code",
   "get_attachment"}

Operations == Writes \cup LiveReads \cup {"view"}

ASSUME ConstantsAssumption ==
  /\ DOMAIN GroupOf \subseteq Products
  /\ MaxChanges \in Nat
  /\ Offered \subseteq Operations
  /\ Pages \subseteq Resources
  /\ None \notin Products \cup Resources

\* The operations without a gate: they are about nothing yet, about the caller
\* alone, or about what the caller of the service has checked.
Ungated == {"open_ticket", "create_order", "record_payment", "update_profile"}

\* The detail page whose cached copy stands in front of the call.
Gate ==
  [op \in Operations \ (Ungated \cup {"view", "cancel_order"}) |->
     CASE op \in {"change_password", "request_cancellation", "upgrade", "quote_upgrade"} ->
            "services"
       [] op \in {"update_nameservers", "set_lock_status", "get_nameservers",
                  "get_lock_status", "request_epp_code"} -> "domains"
       [] OTHER -> "tickets"]

\* The pages in which the customer finds what the call has done.  An upgrade is
\* an order and an invoice until it is paid; a payment "lets WHMCS' automation
\* provision the order", its services and its domains.
Shows ==
  [op \in Writes |->
     CASE op \in {"change_password", "request_cancellation"} -> {"services"}
       [] op = "upgrade" -> {"invoices", "orders"}
       [] op \in {"update_nameservers", "set_lock_status"} -> {"domains"}
       [] op = "record_payment" ->
            {"invoices", "transactions", "services", "orders", "domains"}
       [] op \in {"create_order", "cancel_order"} ->
            {"orders", "invoices", "services", "domains"}
       [] op = "update_profile" -> {"profile"}
       [] OTHER -> {"tickets"}]

\* The namespaces that are invalidated then, in this order.
Invalidates ==
  [op \in Writes |->
     CASE op \in {"change_password", "request_cancellation"} -> <<"services">>
       [] op = "upgrade" -> <<"services", "invoices", "orders">>
       [] op \in {"update_nameservers", "set_lock_status"} -> <<"domains">>
       [] op = "record_payment" -> <<"invoices", "transactions", "services", "orders">>
       [] op = "create_order" -> <<"orders", "invoices", "services", "domains">>
       [] op = "cancel_order" -> <<"orders", "invoices", "services", "domains", "orders">>
       [] op = "update_profile" -> <<"profile">>
       [] OTHER -> <<"tickets">>]

\* What an answer does not vouch for, although the write shows there: record_payment
\* leaves the cached domains alone, of which the payment may have registered some.
Forgotten == [op \in Writes |-> IF op = "record_payment" THEN {"domains"} ELSE {}]

Vouched(op) == Shows[op] \ Forgotten[op]

\* What is read again, through the cache, for the answer.
Rereads ==
  [op \in {"reply_to_ticket", "close_ticket", "update_profile"} |->
     IF op = "update_profile" THEN "profile" ELSE "tickets"]

\* `since` is the promise that a read is made under, `seen` the moment that the
\* answer shows, `change` the moment of the request's own change, `todo` what it
\* has yet to invalidate; `owed` is the history variable `told`, for the page of
\* the request, at the moment the request began.
Request ==
  [at : {"idle", "gate", "order", "call", "invalidate", "reread", "done"},
   op : Operations, page : Resources \cup {None}, target : Products \cup {None},
   since : Moments, owed : Moments, seen : Moments, change : Moments,
   todo : Seq(Resources)]

TypeOK ==
  /\ now \in Moments
  /\ product \in [0 .. now -> Products]
  /\ upgrades \subseteq Products
  /\ lost \in [Gated -> 1 .. Never]
  /\ settled \in [Resources -> 0 .. now]
  /\ kept \in BOOLEAN
  /\ req \in [Requests -> Request]
  /\ told \in [Resources -> 0 .. now]
  /\ \A q \in Requests :
       /\ req[q].at = "gate" => req[q].page # None /\ (req[q].op = "view" \/ req[q].page \in Gated)
       /\ req[q].at = "order" => req[q].op = "cancel_order" /\ req[q].page = None
       /\ req[q].at = "call" => req[q].page \in Gated \cup {None}
       /\ req[q].op = "upgrade" /\ req[q].at \in {"gate", "call"} => req[q].target \in Products
       /\ req[q].at \in {"invalidate", "reread"} => req[q].op \in Writes /\ req[q].change > 0

NoRequest ==
  [at |-> "idle", op |-> "view", page |-> None, target |-> None,
   since |-> 0, owed |-> 0, seen |-> 0, change |-> 0, todo |-> <<>>]

Init ==
  /\ now = 0
  /\ product \in [{0} -> Products]
  /\ upgrades = {}
  /\ lost = [r \in Gated |-> Never]
  /\ settled = [r \in Resources |-> 0]
  /\ kept \in BOOLEAN
  /\ req = [q \in Requests |-> NoRequest]
  /\ told = [r \in Resources |-> 0]

\* A namespace of the cache; only its operator Answers is used.
Page(r) == INSTANCE CachedReads WITH
             data <- now, settled <- settled[r], read <- req, Readers <- Requests

-----------------------------------------------------------------------------
(* The requests *)

Arrives(q, op, page, target) ==
  /\ op \in Offered
  /\ req[q].at \in {"idle", "done"}
  /\ req' = [req EXCEPT ![q] =
       [at |-> IF op = "cancel_order" THEN "order"
               ELSE IF page = None THEN "call" ELSE "gate",
        op |-> op, page |-> page, target |-> target,
        since |-> IF page = None THEN 0 ELSE settled[page],
        owed |-> IF page = None THEN 0 ELSE told[page],
        seen |-> 0, change |-> 0, todo |-> <<>>]]
  /\ UNCHANGED <<whmcs, settled, kept, told>>

\* A list or detail view.
View(q) == \E r \in Pages : Arrives(q, "view", r, None)

\* A view that writes, or reads something live, behind a gate.
Open(q) ==
  \E op \in DOMAIN Gate :
    IF op \in {"upgrade", "quote_upgrade"}
    THEN \E p \in Products : Arrives(q, op, Gate[op], p)
    ELSE Arrives(q, op, Gate[op], None)

\* open_ticket and create_order are about nothing yet.
OpenNew(q) == \E op \in {"open_ticket", "create_order"} : Arrives(q, op, None, None)

\* ProfileView.patch: the client is the caller's own.
UpdateProfile(q) == Arrives(q, "update_profile", None, None)

\* cancel_order, of an upgrade or of something else.
Cancel(q) == \E p \in Products \cup {None} : Arrives(q, "cancel_order", None, p)

\* settle, once the money is there: an upgrade's invoice, or another one.
Settle(q) ==
  \E p \in upgrades \cup {None} : Arrives(q, "record_payment", None, p)

\* Fault: the whole catalogue is offered.
upgrade_options_Everything(p) == DOMAIN GroupOf \ {p}

\* The other products of the product's group; none if it is not listed.
upgrade_options(p) ==
  {o \in DOMAIN GroupOf \ {p} : p \in DOMAIN GroupOf /\ GroupOf[o] = GroupOf[p]}

\* Fault: what the cache has is not compared with the caller.
Passes_AnyOwner(q, v) ==
  req[q].op \in {"upgrade", "quote_upgrade"} => req[q].target \in upgrade_options(product[v])

\* The record, as of v, names the caller; a service is looked for with the
\* caller's id.  The profile is nobody else's.
assert_owned(r, v) == r \in Gated => v < lost[r]

\* The gate, and _assert_upgrade_allowed.
Passes(q, v) ==
  /\ assert_owned(req[q].page, v)
  /\ req[q].op \in {"upgrade", "quote_upgrade"} => req[q].target \in upgrade_options(product[v])

\* Fault: the namespaces are invalidated before the call.
ReadGate_InvalidatesFirst(q) ==
  /\ req[q].at = "gate"
  /\ \E v \in Page(req[q].page)!Answers(req[q].since) :
       \/ /\ req[q].op = "view"
          /\ req' = [req EXCEPT ![q].at = "done", ![q].seen = v]
       \/ /\ req[q].op # "view" /\ Passes(q, v)
          /\ req' = [req EXCEPT ![q].at = IF req[q].op \in Writes THEN "invalidate" ELSE "call"]
       \/ /\ req[q].op # "view" /\ ~Passes(q, v)
          /\ req' = [req EXCEPT ![q] = NoRequest]
  /\ UNCHANGED <<whmcs, settled, kept, told>>

\* get_or_set answers.  A view shows it; an operation goes on or is refused.
ReadGate(q) ==
  /\ req[q].at = "gate"
  /\ \E v \in Page(req[q].page)!Answers(req[q].since) :
       \/ /\ req[q].op = "view"
          /\ req' = [req EXCEPT ![q].at = "done", ![q].seen = v]
       \/ /\ req[q].op # "view" /\ Passes(q, v)
          /\ req' = [req EXCEPT ![q].at = "call"]
       \/ /\ req[q].op # "view" /\ ~Passes(q, v)
          /\ req' = [req EXCEPT ![q] = NoRequest]
  /\ UNCHANGED <<whmcs, settled, kept, told>>

\* The gate of cancel_order is a live read: get_order is not cached.  Of an
\* upgrade the order is pending while it is unpaid.
get_order(q) ==
  /\ req[q].at = "order"
  /\ \/ /\ req[q].target \in upgrades \cup {None}
        /\ req' = [req EXCEPT ![q].at = "call"]
     \/ /\ req[q].target \notin upgrades
        /\ req' = [req EXCEPT ![q] = NoRequest]
  /\ UNCHANGED <<whmcs, settled, kept, told>>

\* A call that changes nothing that a page shows: a quote, the nameservers, the
\* lock, the EPP code, an attachment.
LiveRead(q) ==
  /\ req[q].at = "call"
  /\ req[q].op \in LiveReads
  /\ req' = [req EXCEPT ![q] = NoRequest]
  /\ UNCHANGED <<whmcs, settled, kept, told>>

\* WHMCS carries out an operation, or staff do something of the kind: an upgrade
\* leaves an unpaid order, and takes effect when that is paid.  An order that was
\* paid between the two calls of cancel_order is cancelled, and the product stays.
Process(op, p) ==
  /\ now < MaxChanges
  /\ now' = now + 1
  /\ product' = [m \in 0 .. now + 1 |->
       IF m <= now THEN product[m]
       ELSE IF op = "record_payment" /\ p \in upgrades THEN p ELSE product[now]]
  /\ upgrades' = IF op = "upgrade" THEN upgrades \cup {p}
                 ELSE IF op \in {"record_payment", "cancel_order"} THEN upgrades \ {p}
                 ELSE upgrades
  /\ UNCHANGED lost

Invalidating(op, change) ==
  [at |-> "invalidate", op |-> op, page |-> None, target |-> None,
   since |-> 0, owed |-> 0, seen |-> 0, change |-> change, todo |-> Invalidates[op]]

\* The call of a write succeeds.
Write(q) ==
  /\ req[q].at = "call"
  /\ req[q].op \in Writes
  /\ Process(req[q].op, req[q].target)
  /\ req' = [req EXCEPT ![q] = Invalidating(req[q].op, now + 1)]
  /\ UNCHANGED <<settled, kept, told>>

\* It is carried out, and its answer lost: call raises, nothing is invalidated.
AnswerLost(q) ==
  /\ req[q].at = "call"
  /\ req[q].op \in Writes
  /\ Process(req[q].op, req[q].target)
  /\ req' = [req EXCEPT ![q] = NoRequest]
  /\ UNCHANGED <<settled, kept, told>>

Max2(a, b) == IF a > b THEN a ELSE b

\* Fault: only the first resource is invalidated.
invalidate_OnlyFirst(q) ==
  /\ req[q].at = "invalidate"
  /\ req[q].todo # <<>>
  /\ settled' = [settled EXCEPT ![Head(req[q].todo)] = Max2(@, req[q].change)]
  /\ req' = [req EXCEPT ![q].todo = <<>>]
  /\ UNCHANGED <<whmcs, kept, told>>

\* invalidate of the next namespace.
invalidate(q) ==
  /\ req[q].at = "invalidate"
  /\ req[q].todo # <<>>
  /\ settled' = [settled EXCEPT ![Head(req[q].todo)] = Max2(@, req[q].change)]
  /\ req' = [req EXCEPT ![q].todo = Tail(@)]
  /\ UNCHANGED <<whmcs, kept, told>>

\* The answer: it is done.
Reported(op, change) ==
  told' = [r \in Resources |->
    IF r \in Vouched(op) THEN Max2(told[r], change) ELSE told[r]]

\* Fault: the answer does not wait for the invalidations.
Done_Early(q) ==
  /\ req[q].at = "invalidate"
  /\ req[q].op \notin DOMAIN Rereads
  /\ Reported(req[q].op, req[q].change)
  /\ req' = [req EXCEPT ![q] = NoRequest]
  /\ UNCHANGED <<whmcs, settled, kept>>

Done(q) ==
  /\ req[q].at = "invalidate"
  /\ req[q].todo = <<>>
  /\ req[q].op \notin DOMAIN Rereads
  /\ Reported(req[q].op, req[q].change)
  /\ req' = [req EXCEPT ![q] = NoRequest]
  /\ UNCHANGED <<whmcs, settled, kept>>

\* Fault: what is in the cache is as good.
Reread_NotFresh(q) ==
  /\ req[q].at = "invalidate"
  /\ req[q].op \in DOMAIN Rereads
  /\ req' = [req EXCEPT ![q].at = "reread", ![q].since = settled[Rereads[req[q].op]]]
  /\ UNCHANGED <<whmcs, settled, kept, told>>

\* get_ticket(fresh=True), or update_profile, has invalidated, and reads through
\* the cache ...
Reread(q) ==
  /\ req[q].at = "invalidate"
  /\ req[q].todo = <<>>
  /\ req[q].op \in DOMAIN Rereads
  /\ req' = [req EXCEPT ![q].at = "reread", ![q].since = settled[Rereads[req[q].op]]]
  /\ UNCHANGED <<whmcs, settled, kept, told>>

\* ... which others may have filled meanwhile.  A ticket is still checked.
ShowChange(q) ==
  /\ req[q].at = "reread"
  /\ \E v \in Page(Rereads[req[q].op])!Answers(req[q].since) :
       /\ assert_owned(Rereads[req[q].op], v)
       /\ req' = [req EXCEPT ![q].at = "done", ![q].seen = v]
  /\ Reported(req[q].op, req[q].change)
  /\ UNCHANGED <<whmcs, settled, kept>>

\* WHMCS refuses or does not answer, the payment method is unknown, a check
\* raises, what update_nameservers or cancel_order reads after its write fails, the
\* process dies.
Fail(q) ==
  /\ req[q].at \notin {"idle", "done"}
  /\ req' = [req EXCEPT ![q] = NoRequest]
  /\ UNCHANGED <<whmcs, settled, kept, told>>

-----------------------------------------------------------------------------
(* WHMCS and the cache *)

\* Staff, who may cancel an order, time, or a customer who pays on WHMCS' own
\* invoice page.
OutsideChange ==
  /\ \E op \in {"record_payment", "cancel_order"}, p \in upgrades \cup {None} : Process(op, p)
  /\ UNCHANGED <<settled, kept, req, told>>

\* A service, domain or ticket is moved to another customer.
GiveAway(r) ==
  /\ lost[r] = Never
  /\ now < MaxChanges
  /\ now' = now + 1
  /\ product' = [m \in 0 .. now + 1 |-> IF m <= now THEN product[m] ELSE product[now]]
  /\ lost' = [lost EXCEPT ![r] = now + 1]
  /\ UNCHANGED <<upgrades, settled, kept, req, told>>

\* A counter expires or is evicted: see Cache.
Lose ==
  /\ kept' = FALSE
  /\ UNCHANGED <<whmcs, settled, req, told>>

Next ==
  \/ \E q \in Requests :
       \/ View(q) \/ Open(q) \/ OpenNew(q) \/ UpdateProfile(q) \/ Cancel(q) \/ Settle(q)
       \/ ReadGate(q) \/ get_order(q) \/ LiveRead(q) \/ Write(q) \/ AnswerLost(q)
       \/ invalidate(q) \/ Done(q) \/ Reread(q) \/ ShowChange(q) \/ Fail(q)
  \/ OutsideChange
  \/ \E r \in Gated : GiveAway(r)
  \/ Lose

Spec == Init /\ [][Next]_vars

-----------------------------------------------------------------------------

\* A page that is opened after a write was answered as done shows the write, in
\* every resource that the write concerned, except the domains after a payment
\* (invalidate_for and its callers).
PagesShowFinishedWrites ==
  kept =>
    \A q \in Requests :
      req[q].at = "done" /\ req[q].op = "view" => req[q].seen >= req[q].owed

\* The ticket that reply_to_ticket and close_ticket return, and the profile that
\* update_profile returns, show that very change, whoever else reads or refreshes
\* them ("when the caller needs to see its own change", support.py).
OwnChangeIsShown ==
  kept =>
    \A q \in Requests :
      req[q].at = "done" /\ req[q].op \in DOMAIN Rereads => req[q].seen >= req[q].change

\* The cached gate may let requests of the former owner through, but not after
\* one of his writes has been answered: a request that begins later does not
\* reach WHMCS (assert_owned behind get_or_set).
GivenAwayIsLeftAlone ==
  kept =>
    \A q \in Requests :
      req[q].at = "call" /\ req[q].page # None => req[q].owed < lost[req[q].page]

SameGroup(p, o) ==
  p = o \/ (p \in DOMAIN GroupOf /\ o \in DOMAIN GroupOf /\ GroupOf[p] = GroupOf[o])

\* However stale the gate is, and in whatever order several upgrades are asked
\* for and paid, the service stays in its group (upgrade_options: without a
\* restriction a customer could move "onto an unrelated product").
UpgradesStayInGroup ==
  \A p \in upgrades \cup {product[m] : m \in 0 .. now} : SameGroup(product[0], p)

\* Why: what an answer vouches for is settled; a write settles all of that
\* before it answers; and what a request relies on is as of a moment that its
\* gate has shown.
RequestInv(q) ==
  LET me == req[q] IN
    /\ me.at = "gate" => me.owed <= me.since /\ me.since <= now
    /\ me.at \in {"order", "call"} => me.owed <= now
    /\ me.at = "call" /\ me.page # None /\ kept => me.owed < lost[me.page]
    /\ me.at = "call" /\ me.op = "upgrade" => SameGroup(product[0], me.target)
    /\ me.at \in {"invalidate", "reread"} => me.change <= now
    /\ me.at = "invalidate" =>
         \A r \in Vouched(me.op) :
           settled[r] >= me.change \/ \E i \in 1 .. Len(me.todo) : me.todo[i] = r
    /\ me.at = "reread" => me.op \in DOMAIN Rereads /\ me.since >= me.change /\ me.since <= now
                           /\ settled[Rereads[me.op]] >= me.change
    /\ me.at = "done" /\ me.op = "view" /\ kept => me.seen >= me.owed
    /\ me.at = "done" /\ me.op \in DOMAIN Rereads /\ kept => me.seen >= me.change

AreaInv ==
  /\ \A r \in Resources : told[r] <= settled[r]
  /\ \A q \in Requests : RequestInv(q)
  /\ UpgradesStayInGroup
=============================================================================
