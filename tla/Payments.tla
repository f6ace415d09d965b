------------------------------ MODULE Payments ------------------------------
(***************************************************************************)
(* The checkout of the bridge: apps/payments.  PaymentService.start opens a*)
(* session at the Zibal gateway for an unpaid WHMCS invoice;               *)
(* PaymentService.settle verifies a session server to server, applies the  *)
(* answer to the PaymentAttempt row under its lock, and then, outside the  *)
(* lock, tells WHMCS through AddInvoicePayment.  settle runs concurrently  *)
(* in the browser callback (ZibalCallbackView) and in the cron command     *)
(* reconcile_payments.  The gateway and WHMCS are external: they are       *)
(* modelled by the answers that the code distinguishes.                    *)
(*                                                                         *)
(* An attempt stands for its row, for the trackId that the gateway gave it *)
(* (unique in the table) and for the gateway session behind that trackId.  *)
(***************************************************************************)
EXTENDS Integers

CONSTANTS
  Invoices,          \* WHMCS invoices
  Attempts,          \* PaymentAttempt rows that may ever be created
  Browsers,          \* callback requests being served at the same time
  Jobs,              \* reconcile_payments processes
  Balances,          \* balances, in hundredths, an invoice may begin with
  Multiplier,        \* PAYMENT_AMOUNT_MULTIPLIER
  MinRial,           \* the least amount the gateway takes (1000 in the code)
  RefAnswers,        \* how verify answers may name a payment, see References
  OddAnswers,        \* how verify may answer for a paid session, see Oddities
  IncludeAbandoned,  \* does the cron command pass --include-abandoned?
  None               \* no attempt

\* A verify answer carries a refNumber, or settle falls back on the trackId.
References == {"ref_number", "track_id"}

\* A paid session is denied, or its amount is left out.
Oddities == {"denied", "no_amount"}

Settlers == Browsers \cup Jobs

ASSUME IntegerAssumption ==
  /\ Balances \subseteq Int
  /\ Multiplier \in Nat \ {0}
  /\ MinRial \in Nat \ {0}

ASSUME FlagAssumption ==
  /\ RefAnswers \subseteq References
  /\ OddAnswers \subseteq Oddities
  /\ IncludeAbandoned \in BOOLEAN

ASSUME NoneAssumption == None \notin Attempts

ASSUME RolesAssumption == Browsers \cap Jobs = {}

VARIABLES
  row,       \* the PaymentAttempt table
  starting,  \* where the start call that created an attempt is
  settler,   \* where each settle call is, and what it has read so far
  queue,     \* rows a reconcile_payments run has still to settle
  aged,      \* rows older than --max-age-hours
  session,   \* the gateway: one payment session per attempt
  invoice,   \* WHMCS: status and balance of every invoice
  credits,   \* WHMCS: how often an attempt's money was credited
  transids,  \* WHMCS: the transaction ids it knows
  late,      \* AddInvoicePayment calls whose effect at WHMCS is still to come
  unconfirmed,  \* history: attempts with an AddInvoicePayment that was answered,
                \* but neither confirmed nor refused
  overtaken     \* history: attempts whose invoice was paid in another way after
                \* they began and before they were credited

vars == <<row, starting, settler, queue, aged, session,
          invoice, credits, transids, late, unconfirmed, overtaken>>

bridge == <<row, starting, settler, queue, aged>>
whmcs  == <<invoice, credits, transids, late, unconfirmed, overtaken>>

-----------------------------------------------------------------------------

PaymentStatus == {"pending", "redirected", "paid", "recorded",
                  "failed", "cancelled", "mismatch"}

\* "Unpaid" and "Overdue", which nothing tells apart.
PAYABLE_STATUSES == {"payable"}

InvoiceStatus == PAYABLE_STATUSES \cup {"Paid", "Cancelled"}

\* Fault: int() of the product, which drops its decimals.
to_rial_Truncated(amount) == (amount * Multiplier) \div 100

\* Amounts of WHMCS have two decimals and are counted in hundredths here.
\* quantize rounds to whole rials, and a half to the even one.
to_rial(amount) ==
  LET exact == amount * Multiplier
      whole == exact \div 100
      rest  == exact % 100
  IN  IF rest > 50 \/ (rest = 50 /\ whole % 2 = 1) THEN whole + 1 ELSE whole

\* A verify answer as settle reads it.
NoAnswer == [paid |-> FALSE, amount |-> 0, ref |-> "track_id"]

Idle == [at |-> "idle", attempt |-> None, answer |-> NoAnswer, outcome |-> "other"]

\* How a settle that leaves a row in this status ends: the storefront is told that
\* WHMCS has the money, or something else, of which nothing is kept.
OUTCOME_BY_STATUS(status, a) ==
  IF status = "recorded" THEN [Idle EXCEPT !.attempt = a, !.outcome = "success"] ELSE Idle

\* Fault: every call gets a transid of its own.
TransactionId_PerCall(a, ref) == <<a, credits[a]>>

\* The transid given to WHMCS: attempt.ref_number or track_id.
TransactionId(a, ref) == <<a, ref>>

\* The rial amount the attempt asked the gateway for.
AmountRial(a) == to_rial(row[a].amount)

\* Fault: a row counts as settled once the gateway has the money.
is_settled_Paid(a) == row[a].status \in {"paid", "recorded"}

is_settled(a) == row[a].status = "recorded"

\* Fault: reconcile_payments looks for one status only.
Reconcilable_PaidOnly ==
  {a \in Attempts : row[a].tracked /\ a \notin aged /\ row[a].status = "paid"}

Reconcilable_AbandonedOnly ==
  {a \in Attempts : /\ row[a].tracked /\ a \notin aged
                    /\ IncludeAbandoned /\ row[a].status = "redirected"}

\* The rows reconcile_payments selects; a row without a trackId is left out.
Reconcilable ==
  {a \in Attempts : /\ row[a].tracked
                    /\ a \notin aged
                    /\ \/ row[a].status = "paid"
                       \/ IncludeAbandoned /\ row[a].status = "redirected"}

\* A row of the table ("absent" until it is inserted), and a settle call.
PaymentAttempt ==
  [status : PaymentStatus \cup {"absent"}, invoice : Invoices,
   amount : Int, tracked : BOOLEAN]

SettleCall ==
  [at : {"idle", "verify", "apply", "record", "save"},
   attempt : Attempts \cup {None},
   answer : [paid : BOOLEAN, amount : Int, ref : References],
   outcome : {"success", "other"}]

TypeOK ==
  /\ row \in [Attempts -> PaymentAttempt]
  /\ starting \in [Attempts -> {"idle", "requesting", "opened"}]
  /\ settler \in [Settlers -> SettleCall]
  /\ queue \in [Jobs -> SUBSET Attempts]
  /\ aged \subseteq Attempts
  /\ session \in [Attempts -> [state : {"none", "open", "paid"}, amount : Int]]
  /\ invoice \in [Invoices -> [status : InvoiceStatus, balance : Int]]
  /\ credits \in [Attempts -> Nat]
  /\ transids \subseteq Attempts \X References
  /\ late \subseteq Attempts \X References
  /\ unconfirmed \subseteq Attempts
  /\ overtaken \subseteq Attempts

Init ==
  /\ \E bill \in [Attempts -> Invoices] :
       row = [a \in Attempts |-> [status |-> "absent", invoice |-> bill[a],
                                 amount |-> 0, tracked |-> FALSE]]
  /\ starting = [a \in Attempts |-> "idle"]
  /\ settler = [w \in Settlers |-> Idle]
  /\ queue = [j \in Jobs |-> {}]
  /\ aged = {}
  /\ session = [a \in Attempts |-> [state |-> "none", amount |-> 0]]
  /\ invoice \in [Invoices -> [status : InvoiceStatus, balance : Balances]]
  /\ credits = [a \in Attempts |-> 0]
  /\ transids = {}
  /\ late = {}
  /\ unconfirmed = {}
  /\ overtaken = {}

-----------------------------------------------------------------------------
(* PaymentService.start *)

\* Fault: the invoice is read through the cache, where its balance may be older.
Start_Cached(a) ==
  /\ row[a].status = "absent"
  /\ invoice[row[a].invoice].status \in PAYABLE_STATUSES
  /\ \E balance \in Balances :
       /\ balance >= invoice[row[a].invoice].balance
       /\ to_rial(balance) > 0
       /\ row' = [row EXCEPT ![a].status = "pending", ![a].amount = balance]
  /\ starting' = [starting EXCEPT ![a] = "requesting"]
  /\ UNCHANGED <<settler, queue, aged, session, whmcs>>

\* The invoice is read from WHMCS, never from cache, and the row is created.
\* Nobody can find the row before it has a trackId, so read and insert are one
\* step; the invoice may change at any time after it.
Start(a) ==
  /\ row[a].status = "absent"
  /\ LET inv == invoice[row[a].invoice] IN
       /\ inv.status \in PAYABLE_STATUSES
       /\ to_rial(inv.balance) > 0
       /\ row' = [row EXCEPT ![a].status = "pending",
                             ![a].amount = inv.balance]
  /\ starting' = [starting EXCEPT ![a] = "requesting"]
  /\ UNCHANGED <<settler, queue, aged, session, whmcs>>

\* Zibal opens a session: amounts below its minimum are not even sent.
request_payment(a) ==
  /\ starting[a] = "requesting"
  /\ AmountRial(a) >= MinRial
  /\ session' = [session EXCEPT ![a].state = "open"]
  /\ starting' = [starting EXCEPT ![a] = "opened"]
  /\ UNCHANGED <<row, settler, queue, aged, whmcs>>

\* ZibalError: too small, refused, or no answer (a session that was opened all
\* the same is one no customer is ever sent to).
RequestRefused(a) ==
  /\ starting[a] = "requesting"
  /\ row' = [row EXCEPT ![a].status = "failed"]
  /\ starting' = [starting EXCEPT ![a] = "idle"]
  /\ UNCHANGED <<settler, queue, aged, session, whmcs>>

\* The trackId is saved, and the customer gets the gateway's URL.
SaveTrackId(a) ==
  /\ starting[a] = "opened"
  /\ row' = [row EXCEPT ![a].status = "redirected", ![a].tracked = TRUE]
  /\ starting' = [starting EXCEPT ![a] = "idle"]
  /\ UNCHANGED <<settler, queue, aged, session, whmcs>>

\* The request dies, or raises something else than ZibalError (an unset
\* callback URL): the row stays as it is.
StartDies(a) ==
  /\ starting[a] # "idle"
  /\ starting' = [starting EXCEPT ![a] = "idle"]
  /\ UNCHANGED <<row, settler, queue, aged, session, whmcs>>

-----------------------------------------------------------------------------
(* PaymentService.settle, one step per call it makes and per transaction *)

\* The row is looked up without a lock; a recorded one is returned at once.
Lookup(w, a) ==
  settler' = [settler EXCEPT ![w] =
                IF is_settled(a)
                  THEN OUTCOME_BY_STATUS("recorded", a)
                  ELSE [Idle EXCEPT !.at = "verify", !.attempt = a]]

\* ZibalCallbackView: anyone who knows the trackId, at any time, any number of
\* times.
Callback(b, a) ==
  /\ settler[b].at = "idle"
  /\ row[a].tracked
  /\ Lookup(b, a)
  /\ UNCHANGED <<row, starting, queue, aged, session, whmcs>>

\* reconcile_payments evaluates its query once ...
Reconcile(j) ==
  /\ settler[j].at = "idle"
  /\ queue[j] = {}
  /\ queue' = [queue EXCEPT ![j] = Reconcilable]
  /\ UNCHANGED <<row, starting, settler, aged, session, whmcs>>

\* ... and settles the rows one by one; an exception only skips a row.
ReconcileNext(j, a) ==
  /\ settler[j].at = "idle"
  /\ a \in queue[j]
  /\ queue' = [queue EXCEPT ![j] = @ \ {a}]
  /\ Lookup(j, a)
  /\ UNCHANGED <<row, starting, aged, session, whmcs>>

\* What verify makes of Zibal's answer: 100 or 201 is a payment, any other result
\* is none (202 for a session that is not paid; the merchant's account, 102 to
\* 104, or the trackId, 203, for any session), and an amount that is left out is 0.
Verifications(s) ==
  {answer \in [paid : {TRUE}, amount : {s.amount, 0}, ref : RefAnswers] :
     s.state = "paid" /\ (answer.amount = s.amount \/ "no_amount" \in OddAnswers)}
  \cup {answer \in {NoAnswer} : s.state # "paid" \/ "denied" \in OddAnswers}

\* Zibal answers the verify call.
verify(w) ==
  /\ settler[w].at = "verify"
  /\ \E answer \in Verifications(session[settler[w].attempt]) :
       settler' = [settler EXCEPT ![w].at = "apply", ![w].answer = answer]
  /\ UNCHANGED <<row, starting, queue, aged, session, whmcs>>

\* ZibalError after the last retry: the row is left alone.
VerifyUnreachable(w) ==
  /\ settler[w].at = "verify"
  /\ settler' = [settler EXCEPT ![w] = Idle]
  /\ UNCHANGED <<row, starting, queue, aged, session, whmcs>>

\* The locked transaction that applies the answer ends settle with `status`.
Conclude(w, status) ==
  LET a == settler[w].attempt IN
    /\ row' = [row EXCEPT ![a].status = status]
    /\ settler' = [settler EXCEPT ![w] = OUTCOME_BY_STATUS(status, a)]
    /\ UNCHANGED <<starting, queue, aged, session, whmcs>>

\* The row is read again under the lock: somebody recorded it meanwhile.
ApplySettled(w) ==
  /\ settler[w].at = "apply"
  /\ is_settled(settler[w].attempt)
  /\ Conclude(w, "recorded")

\* Fault: no second look at the row under the lock.
ApplyUnpaid_NoSecondLook(w) ==
  /\ settler[w].at = "apply"
  /\ ~settler[w].answer.paid
  /\ Conclude(w, "failed")

\* Fault: a status that the table does not list.
ApplyUnpaid_Unlisted(w) ==
  /\ settler[w].at = "apply"
  /\ ~is_settled(settler[w].attempt)
  /\ ~settler[w].answer.paid
  /\ Conclude(w, "unpaid")

ApplyUnpaid(w) ==
  /\ settler[w].at = "apply"
  /\ ~is_settled(settler[w].attempt)
  /\ ~settler[w].answer.paid
  /\ Conclude(w, "failed")

ApplyMismatch(w) ==
  /\ settler[w].at = "apply"
  /\ ~is_settled(settler[w].attempt)
  /\ settler[w].answer.paid
  /\ settler[w].answer.amount # AmountRial(settler[w].attempt)
  /\ Conclude(w, "mismatch")

\* Fault: the amount that was verified is not compared.
ApplyPaid_AnyAmount(w) ==
  /\ settler[w].at = "apply"
  /\ ~is_settled(settler[w].attempt)
  /\ settler[w].answer.paid
  /\ row' = [row EXCEPT ![settler[w].attempt].status = "paid"]
  /\ settler' = [settler EXCEPT ![w].at = "record"]
  /\ UNCHANGED <<starting, queue, aged, session, whmcs>>

\* The verified amount is the one asked for: committed, and the lock released,
\* before WHMCS is told.
ApplyPaid(w) ==
  /\ settler[w].at = "apply"
  /\ ~is_settled(settler[w].attempt)
  /\ settler[w].answer.paid
  /\ settler[w].answer.amount = AmountRial(settler[w].attempt)
  /\ row' = [row EXCEPT ![settler[w].attempt].status = "paid"]
  /\ settler' = [settler EXCEPT ![w].at = "record"]
  /\ UNCHANGED <<starting, queue, aged, session, whmcs>>

\* Invoice i is paid, by attempt a or by other means: its other attempts that have
\* begun and are not credited asked for what is no longer due.
Overtake(i, a) ==
  overtaken' = overtaken \cup
    {b \in Attempts \ {a} : /\ row[b].invoice = i /\ row[b].status # "absent"
                            /\ credits[b] = 0}

\* What AddInvoicePayment does at WHMCS with a transid it has not seen.
Credit(t) ==
  LET a == t[1]
      i == row[a].invoice
      left == invoice[i].balance - row[a].amount
  IN  /\ credits' = [credits EXCEPT ![a] = @ + 1]
      /\ transids' = transids \cup {t}
      /\ invoice' = [invoice EXCEPT ![i] =
           [status  |-> IF @.status \in PAYABLE_STATUSES /\ left <= 0
                          THEN "Paid" ELSE @.status,
            balance |-> left]]
      /\ Overtake(i, a)

\* record_payment: a single attempt, and WHMCS has answered it with success.
record_payment(w) ==
  LET t == TransactionId(settler[w].attempt, settler[w].answer.ref) IN
    /\ settler[w].at = "record"
    /\ t \notin transids
    /\ Credit(t)
    /\ settler' = [settler EXCEPT ![w].at = "save"]
    /\ UNCHANGED <<row, starting, queue, aged, session, late, unconfirmed>>

\* WHMCS, or what stands before it, answers with a 4xx or 5xx status and a JSON
\* object that names no error: the transport returns it, nobody looks at it, and
\* settle goes on as after a confirmation.  The call may have been processed, may
\* be later, or never.
RecordUnconfirmed(w) ==
  /\ settler[w].at = "record"
  /\ late' = late \cup {TransactionId(settler[w].attempt, settler[w].answer.ref)}
  /\ unconfirmed' = unconfirmed \cup {settler[w].attempt}
  /\ settler' = [settler EXCEPT ![w].at = "save"]
  /\ UNCHANGED <<row, starting, queue, aged, session,
                 invoice, credits, transids, overtaken>>

\* Fault: the exception is swallowed, and the row saved as recorded.
RecordRaises_Swallowed(w) ==
  /\ settler[w].at = "record"
  /\ Conclude(w, "recorded")

\* WHMCS refuses (a transid it knows, maintenance, ...) or was never reached:
\* the exception leaves the row as paid.
RecordRaises(w) ==
  /\ settler[w].at = "record"
  /\ settler' = [settler EXCEPT ![w] = Idle]
  /\ UNCHANGED <<row, starting, queue, aged, session, whmcs>>

\* The call times out, its answer cannot be decoded, or an invalidation after it
\* raises: an exception too, but WHMCS has the request, and may process it now or
\* later.
RecordTimesOut(w) ==
  /\ settler[w].at = "record"
  /\ late' = late \cup {TransactionId(settler[w].attempt, settler[w].answer.ref)}
  /\ settler' = [settler EXCEPT ![w] = Idle]
  /\ UNCHANGED <<row, starting, queue, aged, session,
                 invoice, credits, transids, unconfirmed, overtaken>>

\* record_payment has returned: the row becomes final.  No lock, and no second look.
SaveRecorded(w) ==
  /\ settler[w].at = "save"
  /\ Conclude(w, "recorded")

\* The process serving the call dies between two steps, a reconcile run also
\* between two rows: it loses its queue.  (To die after AddInvoicePayment was
\* sent is to time out and to die.)
SettlerDies(w) ==
  /\ settler[w].at # "idle" \/ \E j \in Jobs : j = w /\ queue[j] # {}
  /\ settler' = [settler EXCEPT ![w] = Idle]
  /\ queue' = [j \in Jobs |-> IF j = w THEN {} ELSE queue[j]]
  /\ UNCHANGED <<row, starting, aged, session, whmcs>>

-----------------------------------------------------------------------------
(* The world outside the bridge *)

\* The customer pays at the gateway; what the gateway takes may differ from
\* what was asked.
CustomerPays(a) ==
  /\ session[a].state = "open"
  /\ row[a].tracked
  /\ \E rial \in {AmountRial(a), AmountRial(a) - 1} :
       session' = [session EXCEPT ![a] = [state |-> "paid", amount |-> rial]]
  /\ UNCHANGED <<bridge, whmcs>>

\* WHMCS processes a call whose caller has given up; it rejects a transid it
\* already knows.
LateArrives(t) ==
  /\ t \in late
  /\ late' = late \ {t}
  /\ IF t \in transids THEN UNCHANGED <<invoice, credits, transids, overtaken>>
                       ELSE Credit(t)
  /\ UNCHANGED <<bridge, session, unconfirmed>>

\* Staff cancel an invoice that somebody may be paying.
InvoiceCancelled(i) ==
  /\ invoice[i].status \in PAYABLE_STATUSES
  /\ invoice' = [invoice EXCEPT ![i].status = "Cancelled"]
  /\ UNCHANGED <<bridge, session, credits, transids, late, unconfirmed, overtaken>>

\* An invoice is paid, wholly or in part, outside the checkout: on WHMCS' hosted
\* page (invoice_payment_url), by staff, or from the customer's credit.
PaidElsewhere(i) ==
  /\ invoice[i].status \in PAYABLE_STATUSES
  /\ invoice[i].balance > 0
  /\ \E left \in {0} \cup {b \in Balances : 0 < b /\ b < invoice[i].balance} :
       invoice' = [invoice EXCEPT ![i] =
         [status |-> IF left = 0 THEN "Paid" ELSE @.status, balance |-> left]]
  /\ Overtake(i, None)
  /\ UNCHANGED <<bridge, session, credits, transids, late, unconfirmed>>

\* A row grows older than --max-age-hours.
Age(a) ==
  /\ row[a].status # "absent"
  /\ a \notin aged
  /\ aged' = aged \cup {a}
  /\ UNCHANGED <<row, starting, settler, queue, session, whmcs>>

StartStep(a) == \/ Start(a) \/ request_payment(a) \/ RequestRefused(a)
                \/ SaveTrackId(a) \/ StartDies(a)

SettleStep(w) == \/ verify(w) \/ VerifyUnreachable(w)
                 \/ ApplySettled(w) \/ ApplyUnpaid(w)
                 \/ ApplyMismatch(w) \/ ApplyPaid(w)
                 \/ record_payment(w) \/ RecordUnconfirmed(w)
                 \/ RecordRaises(w) \/ RecordTimesOut(w)
                 \/ SaveRecorded(w)

Next ==
  \/ \E a \in Attempts : StartStep(a) \/ CustomerPays(a) \/ Age(a)
  \/ \E b \in Browsers, a \in Attempts : Callback(b, a)
  \/ \E j \in Jobs : Reconcile(j) \/ \E a \in Attempts : ReconcileNext(j, a)
  \/ \E w \in Settlers : SettleStep(w) \/ SettlerDies(w)
  \/ \E t \in late : LateArrives(t)
  \/ \E i \in Invoices : InvoiceCancelled(i) \/ PaidElsewhere(i)

Spec == Init /\ [][Next]_vars

(***************************************************************************)
(* Every call to the gateway and to WHMCS has a timeout, so a settle takes  *)
(* its next step.  The cron command is run again and again, is not killed  *)
(* at the same step every time, and neither the gateway nor WHMCS is down  *)
(* for ever.  Nothing is assumed of the customer, who may never come back. *)
(***************************************************************************)
Fairness ==
 /\ \A w \in Settlers : WF_vars(SettleStep(w))
 /\ \A j \in Jobs :
    /\ SF_vars(Reconcile(j))
    /\ \A a \in Attempts :
         /\ SF_vars(ReconcileNext(j, a))
         /\ SF_vars(settler[j].attempt = a /\ verify(j))
         /\ SF_vars(settler[j].attempt = a /\ (ApplyUnpaid(j) \/ ApplyMismatch(j) \/ ApplyPaid(j)))
         /\ SF_vars(settler[j].attempt = a /\ record_payment(j))
         /\ SF_vars(settler[j].attempt = a /\ SaveRecorded(j))

FairSpec == Spec /\ Fairness

-----------------------------------------------------------------------------
(* Safety *)

Credited(a) == credits[a] > 0

\* The gateway has taken from the customer exactly what the attempt asked for.
TakenAsAsked(a) == session[a].state = "paid" /\ session[a].amount = AmountRial(a)

\* WHMCS is never told of money that the gateway did not take, or took in
\* another amount: whatever answers were read before the lock, however often
\* and by whomever settle is run (services.py settle, the amount check).
CreditOnlyMoneyTaken == \A a \in Attempts : Credited(a) => TakenAsAsked(a)

\* What WHMCS is credited with is worth what the gateway took from the customer,
\* to half a rial: the two are computed from one balance by ways of their own
\* (the row keeps WHMCS' string and the rounded amount), and are compared with
\* each other nowhere.
CreditIsWorthTheMoney ==
  \A a \in Attempts :
    Credited(a) =>
      LET owed == row[a].amount * Multiplier
          got  == 100 * session[a].amount
      IN  2 * (got - owed) \in -100 .. 100

\* A recorded row, which settle never looks at again, has reached WHMCS: no
\* interleaving, timeout or crash closes an attempt that WHMCS was not told of
\* (PaymentAttempt.is_settled).  The exception is an AddInvoicePayment whose answer
\* confirmed nothing and that record_payment took for done: its attempt may be
\* closed without a credit, and no attempt without such an answer is.
RecordedIsCredited ==
  \A a \in Attempts : is_settled(a) => Credited(a) \/ a \in unconfirmed

\* The storefront is told "success", and reconcile_payments counts a row as
\* recorded, only when WHMCS has the money or has given that answer
\* (OUTCOME_BY_STATUS).
SuccessIsTrue ==
  \A w \in Settlers :
    settler[w].outcome = "success" =>
      Credited(settler[w].attempt) \/ settler[w].attempt \in unconfirmed

\* When the gateway names the same reference in every verify answer, callbacks
\* replayed and racing with reconcile_payments, timeouts and late calls credit
\* an attempt once (services.py: "running it twice ... cannot credit twice").
CreditedOnce == \A a \in Attempts : credits[a] <= 1

\* An invoice ends up with more money than it asked for only through an attempt
\* that was overtaken: another payment came between its start, which read the
\* balance, and its credit, which does not look at it again (services.py start,
\* "always_fresh", and record_payment).  Neither replays nor an old balance do it.
OverpaidIsOvertaken ==
  \A i \in Invoices :
    invoice[i].balance < 0 =>
      \E a \in overtaken : row[a].invoice = i /\ Credited(a)

\* What the runs of settle under way may rely on, the inductive strengthening
\* of the three invariants above: an answer that says "paid" stays true however
\* late it is used, and a call that WHMCS has not processed yet carries money
\* that was taken.
AttemptInv(a) ==
  /\ row[a].status = "absent" => starting[a] = "idle"
  /\ starting[a] # "idle" => row[a].status = "pending" /\ ~row[a].tracked
  /\ row[a].tracked => row[a].status # "absent"
  /\ row[a].status # "absent" => AmountRial(a) > 0
  /\ session[a].state = "paid" => row[a].tracked
  /\ Credited(a) => TakenAsAsked(a)
  /\ is_settled(a) => Credited(a) \/ a \in unconfirmed
  /\ a \in unconfirmed => TakenAsAsked(a)

SettlerInv(s) ==
  /\ s.at # "idle" => s.attempt \in Attempts /\ row[s.attempt].tracked
  /\ s.at = "apply" /\ s.answer.paid =>
       /\ session[s.attempt].state = "paid"
       /\ \/ s.answer.amount = session[s.attempt].amount
          \/ "no_amount" \in OddAnswers /\ s.answer.amount = 0
  /\ s.at = "record" => TakenAsAsked(s.attempt)
  /\ s.at = "save" => Credited(s.attempt) \/ s.attempt \in unconfirmed
  /\ s.outcome = "success" =>
       s.attempt \in Attempts /\ (Credited(s.attempt) \/ s.attempt \in unconfirmed)

SettleInv ==
  /\ \A a \in Attempts : AttemptInv(a)
  /\ \A w \in Settlers : SettlerInv(settler[w])
  /\ \A t \in late : TakenAsAsked(t[1])
  /\ \A j \in Jobs : \A a \in queue[j] : row[a].tracked

-----------------------------------------------------------------------------
(* What a step may never do *)

\* A recorded row is final: a settle that read the row, or the gateway, before
\* it was recorded does not move it (the second look under the lock).
RecordedIsFinal ==
  [][\A a \in Attempts : is_settled(a) => is_settled(a)']_vars

\* A paid row is never turned into a failed one (services.py: "keep the row as
\* PAID so reconciliation retries it - never as FAILED").
PaidIsNeverFailed ==
  [][\A a \in Attempts : row[a].status = "paid" => row'[a].status # "failed"]_vars

-----------------------------------------------------------------------------
(* What the checkout promises *)

Taken(a) ==
  IF session[a].state # "paid" THEN "nothing"
  ELSE IF TakenAsAsked(a) THEN "asked" ELSE "other"

Promise == INSTANCE Settlement WITH
             taken    <- [a \in Attempts |-> Taken(a)],
             credited <- credits,
             presumed <- unconfirmed,
             closed   <- {a \in Attempts : is_settled(a)}

\* The checkout implements its promise: money is taken once, credited once, and
\* an attempt is closed only when credited or presumed to be, through every race,
\* crash, timeout and replay (with a gateway that names the same reference every time).
KeepsPromise == Promise!Spec

-----------------------------------------------------------------------------
(* Liveness, under FairSpec *)

\* A row left as paid because WHMCS could not be told is told to WHMCS by a
\* later reconcile_payments run, unless it grows too old, WHMCS' answer confirms
\* nothing, or the gateway denies the payment or its amount in an answer, an older
\* or a later one, that settle then applies.
PaidIsCredited ==
  \A a \in Attempts :
    row[a].status = "paid" ~>
      (Credited(a) \/ a \in unconfirmed \/ row[a].status \in {"failed", "mismatch"}
       \/ a \in aged)

\* With --include-abandoned, a session the customer paid without ever coming
\* back is looked at.
AbandonedIsVerified ==
  \A a \in Attempts :
    (row[a].status = "redirected" /\ session[a].state = "paid")
      ~> (row[a].status # "redirected" \/ a \in aged)

\* reconcile_payments "closes the only gap the checkout flow can leave behind":
\* a row left as paid ends up recorded.
PaidIsRecorded ==
  \A a \in Attempts : row[a].status = "paid" ~> (is_settled(a) \/ a \in aged)
=============================================================================
