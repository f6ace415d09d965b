--------------------------- MODULE PaymentsProofs ---------------------------
(* Theorems about Payments, for every value of its constants. *)
EXTENDS Payments, TLAPS

-----------------------------------------------------------------------------
(* Type correctness *)

\* Rounding to the nearest whole number is off by half at most.
LEMMA RoundingError ==
  ASSUME NEW y \in Int, NEW z \in Int,
         z = IF y % 100 > 50 \/ (y % 100 = 50 /\ (y \div 100) % 2 = 1)
               THEN (y \div 100) + 1 ELSE y \div 100
  PROVE  2 * (100 * z - y) \in -100 .. 100
<1>1. y \div 100 \in Int /\ y % 100 \in 0 .. 99 /\ y = 100 * (y \div 100) + (y % 100)
  OBVIOUS
<1>2. CASE y % 100 > 50 \/ (y % 100 = 50 /\ (y \div 100) % 2 = 1)
  <2>1. z = (y \div 100) + 1 /\ y % 100 >= 50
    BY <1>1, <1>2
  <2> QED BY <1>1, <2>1
<1>3. CASE ~(y % 100 > 50 \/ (y % 100 = 50 /\ (y \div 100) % 2 = 1))
  <2>1. z = y \div 100 /\ y % 100 <= 50
    BY <1>1, <1>3
  <2> QED BY <1>1, <2>1
<1> QED BY <1>2, <1>3

LEMMA RialIsNearest ==
  ASSUME NEW x \in Int
  PROVE  to_rial(x) \in Int /\ 2 * (100 * to_rial(x) - x * Multiplier) \in -100 .. 100
<1> DEFINE y == x * Multiplier
<1>1. y \in Int
  BY IntegerAssumption
<1>2. to_rial(x) = IF y % 100 > 50 \/ (y % 100 = 50 /\ (y \div 100) % 2 = 1)
                     THEN (y \div 100) + 1 ELSE y \div 100
  BY DEF to_rial
<1> HIDE DEF y
<1>3. to_rial(x) \in Int
  BY <1>1, <1>2
<1>4. 2 * (100 * to_rial(x) - y) \in -100 .. 100
  BY <1>1, <1>2, <1>3, RoundingError
<1> QED BY <1>3, <1>4 DEF y

LEMMA RialIsInt == ASSUME NEW x \in Int PROVE to_rial(x) \in Int
  BY RialIsNearest

LEMMA AnswerType == NoAnswer \in [paid : BOOLEAN, amount : Int, ref : References]
  BY DEF NoAnswer, References

LEMMA CreditType ==
  ASSUME TypeOK, NEW t \in Attempts \X References, Credit(t)
  PROVE  /\ credits' \in [Attempts -> Nat]
         /\ transids' \subseteq Attempts \X References
         /\ invoice' \in [Invoices -> [status : InvoiceStatus, balance : Int]]
         /\ overtaken' \subseteq Attempts
<1>1. t[1] \in Attempts /\ row[t[1]].invoice \in Invoices /\ row[t[1]].amount \in Int
  BY DEF TypeOK, PaymentAttempt
<1>2. credits' \in [Attempts -> Nat] /\ transids' \subseteq Attempts \X References
  BY <1>1 DEF TypeOK, Credit
<1>3. invoice' \in [Invoices -> [status : InvoiceStatus, balance : Int]]
  <2> DEFINE i == row[t[1]].invoice
             left == invoice[i].balance - row[t[1]].amount
             st == IF invoice[i].status \in PAYABLE_STATUSES /\ left <= 0
                     THEN "Paid" ELSE invoice[i].status
  <2>1. i \in Invoices /\ left \in Int /\ st \in InvoiceStatus
    BY <1>1 DEF TypeOK, InvoiceStatus
  <2>2. invoice' = [invoice EXCEPT ![i] = [status |-> st, balance |-> left]]
    BY <1>1 DEF TypeOK, Credit
  <2> HIDE DEF i, left, st
  <2> QED BY <2>1, <2>2 DEF TypeOK
<1>4. overtaken' \subseteq Attempts
  BY DEF TypeOK, Credit, Overtake
<1> QED BY <1>2, <1>3, <1>4

LEMMA IdleType == Idle \in SettleCall
  BY AnswerType DEF Idle, SettleCall

LEMMA OutcomeType ==
  ASSUME NEW a \in Attempts, NEW status PROVE OUTCOME_BY_STATUS(status, a) \in SettleCall
  BY IdleType DEF OUTCOME_BY_STATUS, SettleCall

LEMMA InitType == Init => TypeOK
<1> SUFFICES ASSUME Init PROVE TypeOK
  OBVIOUS
<1>1. row \in [Attempts -> PaymentAttempt]
  BY DEF Init, PaymentAttempt
<1>2. settler \in [Settlers -> SettleCall]
  BY IdleType DEF Init
<1>3. invoice \in [Invoices -> [status : InvoiceStatus, balance : Int]]
  <2>1. \A i \in Invoices : /\ invoice[i] \in [status : InvoiceStatus, balance : Balances]
                            /\ invoice[i].balance \in Int
    BY IntegerAssumption DEF Init
  <2> QED BY <2>1 DEF Init
<1> QED BY <1>1, <1>2, <1>3 DEF Init, TypeOK

LEMMA StartType ==
  ASSUME TypeOK, NEW a \in Attempts, StartStep(a) PROVE TypeOK'
<1> USE DEF whmcs
<1>1. row[a] \in PaymentAttempt /\ session[a] \in [state : {"none", "open", "paid"}, amount : Int]
  BY DEF TypeOK
<1>2. CASE Start(a)
  <2>1. invoice[row[a].invoice].balance \in Int
    BY <1>1 DEF TypeOK, PaymentAttempt
  <2>2. row' \in [Attempts -> PaymentAttempt]
    BY <1>1, <1>2, <2>1 DEF TypeOK, Start, PaymentAttempt, PaymentStatus
  <2> QED BY <1>2, <2>2 DEF TypeOK, Start
<1>3. CASE request_payment(a)
  <2>1. session' \in [Attempts -> [state : {"none", "open", "paid"}, amount : Int]]
    BY <1>1, <1>3 DEF TypeOK, request_payment
  <2> QED BY <1>3, <2>1 DEF TypeOK, request_payment
<1>4. CASE RequestRefused(a)
  <2>1. row' \in [Attempts -> PaymentAttempt]
    BY <1>1, <1>4 DEF TypeOK, RequestRefused, PaymentAttempt, PaymentStatus
  <2> QED BY <1>4, <2>1 DEF TypeOK, RequestRefused
<1>5. CASE SaveTrackId(a)
  <2>1. row' \in [Attempts -> PaymentAttempt]
    BY <1>1, <1>5 DEF TypeOK, SaveTrackId, PaymentAttempt, PaymentStatus
  <2> QED BY <1>5, <2>1 DEF TypeOK, SaveTrackId
<1>6. CASE StartDies(a)
  BY <1>6 DEF TypeOK, StartDies
<1> QED BY <1>2, <1>3, <1>4, <1>5, <1>6 DEF StartStep

LEMMA LookupType ==
  ASSUME TypeOK, NEW w \in Settlers, NEW a \in Attempts, Lookup(w, a)
  PROVE  settler' \in [Settlers -> SettleCall]
<1>1. OUTCOME_BY_STATUS("recorded", a) \in SettleCall
  BY OutcomeType
<1>2. [Idle EXCEPT !.at = "verify", !.attempt = a] \in SettleCall
  BY IdleType DEF SettleCall
<1> QED BY <1>1, <1>2 DEF TypeOK, Lookup

LEMMA StatusType ==
  ASSUME TypeOK, NEW a \in Attempts, NEW status \in PaymentStatus
  PROVE  [row EXCEPT ![a].status = status] \in [Attempts -> PaymentAttempt]
<1>1. row[a] \in PaymentAttempt
  BY DEF TypeOK
<1>2. [row[a] EXCEPT !.status = status] \in PaymentAttempt
  BY <1>1 DEF PaymentAttempt
<1> QED BY <1>2 DEF TypeOK

LEMMA ConcludeType ==
  ASSUME TypeOK, NEW w \in Settlers, settler[w].attempt \in Attempts,
         NEW status \in PaymentStatus, Conclude(w, status)
  PROVE  TypeOK'
<1>1. OUTCOME_BY_STATUS(status, settler[w].attempt) \in SettleCall
  BY OutcomeType
<1>2. row' \in [Attempts -> PaymentAttempt]
  BY StatusType DEF Conclude
<1> QED BY <1>1, <1>2 DEF TypeOK, Conclude, whmcs

LEMMA SettleType ==
  ASSUME TypeOK, SettleInv, NEW w \in Settlers, SettleStep(w)
  PROVE  TypeOK'
<1> USE DEF whmcs
<1>1. settler[w] \in SettleCall
  BY DEF TypeOK
<1>2. settler[w].attempt \in Attempts
  BY DEF SettleInv, SettlerInv, SettleStep, verify, VerifyUnreachable,
     ApplySettled, ApplyUnpaid, ApplyMismatch, ApplyPaid, record_payment,
     RecordUnconfirmed, RecordRaises, RecordTimesOut, SaveRecorded
<1> DEFINE a == settler[w].attempt
           t == TransactionId(a, settler[w].answer.ref)
<1>3. t \in Attempts \X References
  BY <1>1, <1>2 DEF SettleCall, TransactionId
<1>4. Idle \in SettleCall
  BY IdleType
<1>5. CASE verify(w)
  <2>1. session[a] \in [state : {"none", "open", "paid"}, amount : Int]
    BY <1>2 DEF TypeOK
  <2>2. Verifications(session[a]) \subseteq [paid : BOOLEAN, amount : Int, ref : References]
    <3>1. [paid : {TRUE}, amount : {session[a].amount, 0}, ref : RefAnswers]
            \subseteq [paid : BOOLEAN, amount : Int, ref : References]
      <4>1. {session[a].amount, 0} \subseteq Int /\ {TRUE} \subseteq BOOLEAN
        BY <2>1
      <4>2. RefAnswers \subseteq References
        BY FlagAssumption
      <4> HIDE DEF a, t
      <4> QED BY <4>1, <4>2
    <3> QED BY <3>1, AnswerType DEF Verifications
  <2>3. PICK answer \in [paid : BOOLEAN, amount : Int, ref : References] :
          settler' = [settler EXCEPT ![w].at = "apply", ![w].answer = answer]
    BY <1>5, <2>2 DEF verify
  <2>4. settler' \in [Settlers -> SettleCall]
    BY <1>1, <2>3 DEF TypeOK, SettleCall
  <2> QED BY <1>5, <2>4 DEF TypeOK, verify
<1>6. CASE VerifyUnreachable(w)
  BY <1>4, <1>6 DEF TypeOK, VerifyUnreachable
<1>7. CASE ApplySettled(w) \/ ApplyUnpaid(w) \/ ApplyMismatch(w) \/ SaveRecorded(w)
  BY <1>2, <1>7, ConcludeType
     DEF ApplySettled, ApplyUnpaid, ApplyMismatch, SaveRecorded, PaymentStatus
<1>8. CASE ApplyPaid(w)
  <2>1. row' \in [Attempts -> PaymentAttempt]
    <3>1. row' = [row EXCEPT ![a].status = "paid"]
      BY <1>8 DEF ApplyPaid
    <3> QED BY <1>2, <3>1, StatusType DEF PaymentStatus
  <2>2. settler' \in [Settlers -> SettleCall]
    BY <1>1, <1>8 DEF TypeOK, ApplyPaid, SettleCall
  <2> QED BY <1>8, <2>1, <2>2 DEF TypeOK, ApplyPaid
<1>9. CASE record_payment(w)
  <2>1. settler' \in [Settlers -> SettleCall]
    BY <1>1, <1>9 DEF TypeOK, record_payment, SettleCall
  <2>2. Credit(t)
    BY <1>9 DEF record_payment
  <2> QED BY <1>3, <1>9, <2>1, <2>2, CreditType DEF TypeOK, record_payment
<1>10. CASE RecordRaises(w)
  BY <1>4, <1>10 DEF TypeOK, RecordRaises
<1>11. CASE RecordTimesOut(w)
  BY <1>3, <1>4, <1>11 DEF TypeOK, RecordTimesOut
<1>12. CASE RecordUnconfirmed(w)
  <2>1. settler' \in [Settlers -> SettleCall]
    BY <1>1, <1>12 DEF TypeOK, RecordUnconfirmed, SettleCall
  <2> QED BY <1>2, <1>3, <1>12, <2>1 DEF TypeOK, RecordUnconfirmed
<1> QED BY <1>5, <1>6, <1>7, <1>8, <1>9, <1>10, <1>11, <1>12 DEF SettleStep

LEMMA DiesType ==
  ASSUME TypeOK, NEW w \in Settlers, SettlerDies(w)
  PROVE  TypeOK'
<1>1. Idle \in SettleCall
  BY IdleType
<1> QED BY <1>1 DEF TypeOK, SettlerDies, whmcs

LEMMA WorldType ==
  ASSUME TypeOK,
         \/ \E a \in Attempts : CustomerPays(a) \/ Age(a)
         \/ \E b \in Browsers, a \in Attempts : Callback(b, a)
         \/ \E j \in Jobs : Reconcile(j) \/ \E a \in Attempts : ReconcileNext(j, a)
         \/ \E t \in late : LateArrives(t)
         \/ \E i \in Invoices : InvoiceCancelled(i) \/ PaidElsewhere(i)
  PROVE  TypeOK'
<1> USE DEF whmcs, bridge
<1>1. ASSUME NEW a \in Attempts, CustomerPays(a) PROVE TypeOK'
  <2>1. AmountRial(a) \in Int
    BY RialIsInt DEF TypeOK, PaymentAttempt, AmountRial
  <2>2. session' \in [Attempts -> [state : {"none", "open", "paid"}, amount : Int]]
    BY <1>1, <2>1 DEF TypeOK, CustomerPays
  <2> QED BY <1>1, <2>2 DEF TypeOK, CustomerPays
<1>2. ASSUME NEW a \in Attempts, Age(a) PROVE TypeOK'
  BY <1>2 DEF TypeOK, Age
<1>3. ASSUME NEW b \in Browsers, NEW a \in Attempts, Callback(b, a) PROVE TypeOK'
  BY <1>3, LookupType DEF TypeOK, Callback, Settlers
<1>4. ASSUME NEW j \in Jobs, Reconcile(j) PROVE TypeOK'
  BY <1>4 DEF TypeOK, Reconcile, Reconcilable
<1>5. ASSUME NEW j \in Jobs, NEW a \in Attempts, ReconcileNext(j, a) PROVE TypeOK'
  BY <1>5, LookupType DEF TypeOK, ReconcileNext, Settlers
<1>6. ASSUME NEW t \in late, LateArrives(t) PROVE TypeOK'
  BY <1>6, CreditType DEF TypeOK, LateArrives
<1>7. ASSUME NEW i \in Invoices, InvoiceCancelled(i) PROVE TypeOK'
  BY <1>7 DEF TypeOK, InvoiceCancelled, InvoiceStatus
<1>8. ASSUME NEW i \in Invoices, PaidElsewhere(i) PROVE TypeOK'
  <2>1. PICK left \in {0} \cup {b \in Balances : 0 < b /\ b < invoice[i].balance} :
          invoice' = [invoice EXCEPT ![i] =
            [status |-> IF left = 0 THEN "Paid" ELSE @.status, balance |-> left]]
    BY <1>8 DEF PaidElsewhere
  <2>2. left \in Int
    BY <2>1, IntegerAssumption
  <2>3. invoice' \in [Invoices -> [status : InvoiceStatus, balance : Int]]
    BY <2>1, <2>2 DEF TypeOK, InvoiceStatus
  <2> QED BY <1>8, <2>3 DEF TypeOK, PaidElsewhere, Overtake
<1> QED BY <1>1, <1>2, <1>3, <1>4, <1>5, <1>6, <1>7, <1>8

LEMMA NextType == TypeOK /\ SettleInv /\ [Next]_vars => TypeOK'
<1> SUFFICES ASSUME TypeOK, SettleInv, [Next]_vars PROVE TypeOK'
  OBVIOUS
<1>1. CASE UNCHANGED vars
  BY <1>1 DEF TypeOK, vars
<1>2. CASE Next
  BY <1>2, StartType, SettleType, DiesType, WorldType DEF Next
<1> QED BY <1>1, <1>2

-----------------------------------------------------------------------------
(* What no step undoes *)

Monotone ==
  \A a \in Attempts :
    /\ session[a].state = "paid" => session'[a] = session[a]
    /\ row[a].status # "absent" => row'[a].amount = row[a].amount
    /\ row[a].tracked => row'[a].tracked
    /\ Credited(a) => Credited(a)'
    /\ a \in unconfirmed => a \in unconfirmed'

LEMMA CreditMonotone ==
  ASSUME TypeOK, NEW t \in Attempts \X References, Credit(t)
  PROVE  /\ \A a \in Attempts : Credited(a) => Credited(a)'
         /\ Credited(t[1])'
         /\ \A a \in Attempts : a # t[1] => credits'[a] = credits[a]
  BY DEF TypeOK, Credit, Credited

LEMMA SettleMonotone ==
  ASSUME TypeOK, SettleInv, NEW w \in Settlers, SettleStep(w)
  PROVE  Monotone
<1> USE DEF whmcs, Monotone, Credited
<1>1. settler[w] \in SettleCall
  BY DEF TypeOK
<1>2. settler[w].attempt \in Attempts
  BY DEF SettleInv, SettlerInv, SettleStep, verify, VerifyUnreachable,
     ApplySettled, ApplyUnpaid, ApplyMismatch, ApplyPaid, record_payment,
     RecordUnconfirmed, RecordRaises, RecordTimesOut, SaveRecorded
<1>3. CASE \/ verify(w) \/ VerifyUnreachable(w) \/ RecordUnconfirmed(w) \/ RecordRaises(w)
           \/ RecordTimesOut(w)
  BY <1>3 DEF verify, VerifyUnreachable, RecordUnconfirmed, RecordRaises, RecordTimesOut
<1>4. CASE ApplySettled(w) \/ ApplyUnpaid(w) \/ ApplyMismatch(w) \/ SaveRecorded(w)
           \/ ApplyPaid(w)
  <2>1. PICK status \in PaymentStatus :
          /\ row' = [row EXCEPT ![settler[w].attempt].status = status]
          /\ UNCHANGED <<session, credits, unconfirmed>>
    BY <1>4 DEF ApplySettled, ApplyUnpaid, ApplyMismatch, SaveRecorded, ApplyPaid,
       Conclude, PaymentStatus
  <2> QED BY <1>2, <2>1 DEF TypeOK, PaymentAttempt
<1>5. CASE record_payment(w)
  <2>1. TransactionId(settler[w].attempt, settler[w].answer.ref) \in Attempts \X References
    BY <1>1, <1>2 DEF SettleCall, TransactionId
  <2> QED BY <1>5, <2>1, CreditMonotone DEF record_payment
<1> QED BY <1>3, <1>4, <1>5 DEF SettleStep

LEMMA NextMonotone ==
  ASSUME TypeOK, SettleInv, Next PROVE Monotone
<1> USE DEF whmcs, bridge
<1>1. ASSUME NEW a \in Attempts, StartStep(a) PROVE Monotone
  <2> USE DEF Monotone, Credited
  <2>1. AttemptInv(a) /\ row[a] \in PaymentAttempt
    BY DEF SettleInv, TypeOK
  <2>2. CASE Start(a)
    BY <2>1, <2>2 DEF TypeOK, PaymentAttempt, AttemptInv, Start
  <2>3. CASE request_payment(a)
    BY <2>1, <2>3 DEF TypeOK, AttemptInv, request_payment
  <2>4. CASE RequestRefused(a)
    BY <2>1, <2>4 DEF TypeOK, PaymentAttempt, AttemptInv, RequestRefused
  <2>5. CASE SaveTrackId(a)
    BY <2>1, <2>5 DEF TypeOK, PaymentAttempt, AttemptInv, SaveTrackId
  <2>6. CASE StartDies(a)
    BY <2>6 DEF StartDies
  <2> QED BY <1>1, <2>2, <2>3, <2>4, <2>5, <2>6 DEF StartStep
<1>2. ASSUME NEW a \in Attempts, CustomerPays(a) \/ Age(a) PROVE Monotone
  BY <1>2 DEF TypeOK, Monotone, Credited, CustomerPays, Age
<1>3. CASE \/ \E b \in Browsers, a \in Attempts : Callback(b, a)
           \/ \E j \in Jobs : Reconcile(j) \/ \E a \in Attempts : ReconcileNext(j, a)
           \/ \E i \in Invoices : InvoiceCancelled(i) \/ PaidElsewhere(i)
  BY <1>3 DEF Monotone, Credited, Callback, Reconcile, ReconcileNext, InvoiceCancelled,
     PaidElsewhere
<1>4. ASSUME NEW t \in late, LateArrives(t) PROVE Monotone
  <2>1. t \in Attempts \X References
    BY DEF TypeOK
  <2> QED BY <1>4, <2>1, CreditMonotone DEF Monotone, Credited, LateArrives
<1>5. ASSUME NEW w \in Settlers, SettlerDies(w) PROVE Monotone
  BY <1>5 DEF Monotone, Credited, SettlerDies, whmcs
<1> QED BY <1>1, <1>2, <1>3, <1>4, <1>5, SettleMonotone DEF Next

\* Money taken in the amount asked for stays so.
LEMMA TakenStays ==
  ASSUME SettleInv, Monotone, NEW a \in Attempts, TakenAsAsked(a)
  PROVE  TakenAsAsked(a)'
  BY DEF SettleInv, AttemptInv, Monotone, TakenAsAsked, AmountRial

\* A settle call that takes no step keeps what it relies on.
LEMMA SettlerStays ==
  ASSUME SettleInv, Monotone, NEW w \in Settlers, settler'[w] = settler[w]
  PROVE  SettlerInv(settler[w])'
<1>1. SettlerInv(settler[w])
  BY DEF SettleInv
<1> QED BY <1>1, TakenStays DEF SettlerInv, Monotone, Credited

\* So does an attempt whose row, start call and session are left alone, unless
\* WHMCS is credited with other money, or presumed to be.
LEMMA AttemptStays ==
  ASSUME SettleInv, Monotone, NEW a \in Attempts,
         row'[a] = row[a], starting'[a] = starting[a], session'[a] = session[a],
         credits'[a] = credits[a] \/ TakenAsAsked(a),
         a \in unconfirmed' => a \in unconfirmed \/ TakenAsAsked(a)
  PROVE  AttemptInv(a)'
<1>1. AttemptInv(a)
  BY DEF SettleInv
<1>2. Credited(a)' \/ a \in unconfirmed' => TakenAsAsked(a)'
  BY <1>1, TakenStays DEF AttemptInv, Credited
<1> QED BY <1>1, <1>2 DEF AttemptInv, Monotone, is_settled, AmountRial

-----------------------------------------------------------------------------
(* The inductive invariant *)

LEMMA InitInv == Init => SettleInv
  BY DEF Init, SettleInv, AttemptInv, SettlerInv, Idle, Credited, is_settled

\* A step of start touches one attempt nobody else knows yet.
LEMMA StartInv ==
  ASSUME TypeOK, SettleInv, Monotone, NEW a \in Attempts, StartStep(a)
  PROVE  SettleInv'
<1> USE DEF whmcs
<1>1. /\ UNCHANGED <<settler, credits, late, unconfirmed>>
      /\ \A b \in Attempts \ {a} : /\ row'[b] = row[b] /\ starting'[b] = starting[b]
                                   /\ session'[b] = session[b]
  BY DEF TypeOK, StartStep, Start, request_payment, RequestRefused, SaveTrackId, StartDies
<1>2. AttemptInv(a)'
  <2> USE DEF TypeOK, PaymentAttempt
  <2>1. /\ AttemptInv(a)
        /\ row[a] \in PaymentAttempt
        /\ session[a].state # "paid" /\ ~Credited(a) /\ a \notin unconfirmed
    BY DEF SettleInv, AttemptInv, StartStep, Start, request_payment, RequestRefused,
       SaveTrackId, StartDies, TakenAsAsked
  <2>2. session'[a].state # "paid" /\ ~Credited(a)'
    BY <1>1, <2>1 DEF Credited, StartStep, Start, request_payment, RequestRefused,
       SaveTrackId, StartDies
  <2>3. CASE Start(a)
    <3>1. row'[a].amount = invoice[row[a].invoice].balance
          /\ to_rial(invoice[row[a].invoice].balance) > 0
      BY <2>1, <2>3 DEF Start
    <3>2. AmountRial(a)' > 0
      BY <3>1 DEF AmountRial, to_rial
    <3> QED BY <1>1, <2>1, <2>2, <2>3, <3>2 DEF AttemptInv, Start, is_settled
  <2>4. CASE request_payment(a)
    BY <1>1, <2>1, <2>2, <2>4 DEF AttemptInv, request_payment, is_settled, AmountRial
  <2>5. CASE RequestRefused(a)
    BY <1>1, <2>1, <2>2, <2>5 DEF AttemptInv, RequestRefused, is_settled, AmountRial
  <2>6. CASE SaveTrackId(a)
    BY <1>1, <2>1, <2>2, <2>6 DEF AttemptInv, SaveTrackId, is_settled, AmountRial
  <2>7. CASE StartDies(a)
    BY <1>1, <2>1, <2>2, <2>7 DEF AttemptInv, StartDies, is_settled, AmountRial
  <2> QED BY <2>3, <2>4, <2>5, <2>6, <2>7 DEF StartStep
<1>3. \A b \in Attempts : AttemptInv(b)'
  BY <1>1, <1>2, AttemptStays
<1>4. \A w \in Settlers : SettlerInv(settler[w])'
  BY <1>1, SettlerStays
<1>5. \A t \in late : TakenAsAsked(t[1])'
  BY TakenStays DEF SettleInv, TypeOK
<1>6. \A j \in Jobs : \A b \in queue'[j] : row'[b].tracked
  BY DEF TypeOK, SettleInv, Monotone, StartStep, Start, request_payment, RequestRefused,
     SaveTrackId, StartDies
<1> QED BY <1>1, <1>3, <1>4, <1>5, <1>6 DEF SettleInv

\* The lookup without a lock relies on nothing but the row's existence.
LEMMA LookupInv ==
  ASSUME TypeOK, SettleInv, Monotone, NEW w \in Settlers, NEW a \in Attempts,
         row[a].tracked, Lookup(w, a), UNCHANGED <<row, starting, session, whmcs>>,
         \A j \in Jobs : queue'[j] \subseteq queue[j]
  PROVE  SettleInv'
<1> USE DEF whmcs
<1>1. SettlerInv(settler[w])'
  BY DEF TypeOK, SettleInv, AttemptInv, SettlerInv, Lookup, OUTCOME_BY_STATUS, Idle,
     is_settled, Credited
<1>2. \A v \in Settlers \ {w} : settler'[v] = settler[v]
  BY DEF TypeOK, Lookup
<1>3. \A v \in Settlers : SettlerInv(settler[v])'
  BY <1>1, <1>2, SettlerStays
<1>4. \A b \in Attempts : AttemptInv(b)'
  BY AttemptStays
<1>5. \A t \in late : TakenAsAsked(t[1])'
  BY TakenStays DEF SettleInv, TypeOK
<1>6. \A j \in Jobs : \A b \in queue'[j] : row'[b].tracked
  BY DEF SettleInv
<1> QED BY <1>3, <1>4, <1>5, <1>6 DEF SettleInv

\* A step of settle: the answer it applies was true when it was given, and what
\* is true of money taken stays true.
LEMMA SettleStepInv ==
  ASSUME TypeOK, SettleInv, Monotone, NEW w \in Settlers, SettleStep(w)
  PROVE  SettleInv'
<1> USE DEF whmcs
<1>1. settler[w] \in SettleCall /\ SettlerInv(settler[w])
  BY DEF TypeOK, SettleInv
<1>2. PICK a \in Attempts : a = settler[w].attempt /\ row[a].tracked
  BY <1>1 DEF SettlerInv, SettleStep, verify, VerifyUnreachable,
     ApplySettled, ApplyUnpaid, ApplyMismatch, ApplyPaid, record_payment,
     RecordUnconfirmed, RecordRaises, RecordTimesOut, SaveRecorded
<1>3. AttemptInv(a) /\ row[a] \in PaymentAttempt
  BY <1>2 DEF SettleInv, TypeOK
<1>4. /\ UNCHANGED <<starting, session>>
      /\ \A b \in Attempts \ {a} : row'[b] = row[b]
      /\ \A v \in Settlers \ {w} : settler'[v] = settler[v]
      /\ \A j \in Jobs : queue'[j] \subseteq queue[j]
  BY <1>2 DEF TypeOK, SettleStep, verify, VerifyUnreachable,
     ApplySettled, ApplyUnpaid, ApplyMismatch, ApplyPaid, record_payment,
     RecordUnconfirmed, RecordRaises, RecordTimesOut, SaveRecorded, Conclude
<1>5. /\ SettlerInv(settler[w])'
      /\ AttemptInv(a)'
      /\ \A b \in Attempts \ {a} : credits'[b] = credits[b]
      /\ \A b \in Attempts \ {a} : b \in unconfirmed' => b \in unconfirmed
      /\ \A x \in late' : TakenAsAsked(x[1])'
  <2>1. \A x \in late : TakenAsAsked(x[1])'
    BY TakenStays DEF SettleInv, TypeOK
  <2>2. CASE verify(w)
    <3>1. PICK answer \in Verifications(session[a]) :
            settler' = [settler EXCEPT ![w].at = "apply", ![w].answer = answer]
      BY <1>2, <2>2 DEF verify
    <3>2. answer.paid =>
            /\ session[a].state = "paid"
            /\ \/ answer.amount = session[a].amount
               \/ "no_amount" \in OddAnswers /\ answer.amount = 0
      <4>1. ~NoAnswer.paid
        BY DEF NoAnswer
      <4>2. answer # NoAnswer =>
              /\ session[a].state = "paid"
              /\ answer.amount \in {session[a].amount, 0}
              /\ answer.amount = session[a].amount \/ "no_amount" \in OddAnswers
        BY <3>1 DEF Verifications
      <4> QED BY <4>1, <4>2
    <3>3. SettlerInv(settler[w])'
      BY <1>1, <1>2, <2>2, <3>1, <3>2 DEF TypeOK, SettleCall, SettlerInv, verify, Credited
    <3>4. UNCHANGED <<row, starting, session, credits, late, unconfirmed>>
      BY <2>2 DEF verify
    <3>5. AttemptInv(a)'
      BY <1>2, <3>4, AttemptStays
    <3> QED BY <2>1, <3>3, <3>4, <3>5
  <2>3. CASE VerifyUnreachable(w) \/ RecordRaises(w)
    <3>1. SettlerInv(settler[w])'
      BY <2>3 DEF TypeOK, SettlerInv, Idle, VerifyUnreachable, RecordRaises
    <3>2. UNCHANGED <<row, starting, session, credits, late, unconfirmed>>
      BY <2>3 DEF VerifyUnreachable, RecordRaises
    <3>3. AttemptInv(a)'
      BY <1>2, <3>2, AttemptStays
    <3> QED BY <2>1, <3>1, <3>2, <3>3
  <2>4. CASE RecordTimesOut(w)
    <3>1. SettlerInv(settler[w])'
      BY <2>4 DEF TypeOK, SettlerInv, Idle, RecordTimesOut
    <3>2. TakenAsAsked(a)'
      <4>1. TakenAsAsked(a)
        BY <1>1, <1>2, <2>4 DEF SettlerInv, RecordTimesOut
      <4> QED BY <1>2, <4>1, TakenStays
    <3>3. late' = late \cup {<<a, settler[w].answer.ref>>}
      BY <1>2, <2>4 DEF RecordTimesOut, TransactionId
    <3>4. \A x \in late' : TakenAsAsked(x[1])'
      BY <2>1, <3>2, <3>3
    <3>5. UNCHANGED <<row, starting, session, credits, unconfirmed>>
      BY <2>4 DEF RecordTimesOut
    <3>6. AttemptInv(a)'
      BY <1>2, <3>5, AttemptStays
    <3> QED BY <3>1, <3>4, <3>5, <3>6
  <2>9. CASE RecordUnconfirmed(w)
    <3>1. /\ UNCHANGED <<row, starting, session, credits>>
          /\ unconfirmed' = unconfirmed \cup {a}
          /\ settler' = [settler EXCEPT ![w].at = "save"]
          /\ late' = late \cup {<<a, settler[w].answer.ref>>}
      BY <1>2, <2>9 DEF RecordUnconfirmed, TransactionId
    <3>2. TakenAsAsked(a) /\ TakenAsAsked(a)'
      <4>1. TakenAsAsked(a)
        BY <1>1, <1>2, <2>9 DEF SettlerInv, RecordUnconfirmed
      <4> QED BY <4>1, TakenStays
    <3>3. \A x \in late' : TakenAsAsked(x[1])'
      BY <2>1, <3>1, <3>2
    <3>4. SettlerInv(settler[w])'
      BY <1>1, <1>2, <2>9, <3>1 DEF TypeOK, SettleCall, RecordUnconfirmed, SettlerInv
    <3>5. AttemptInv(a)'
      BY <1>2, <3>1, <3>2, AttemptStays
    <3> QED BY <3>1, <3>3, <3>4, <3>5
  <2>5. CASE ApplySettled(w) \/ SaveRecorded(w)
    <3>1. (Credited(a) \/ a \in unconfirmed) /\ Conclude(w, "recorded")
      BY <1>1, <1>2, <1>3, <2>5 DEF ApplySettled, SaveRecorded, SettlerInv, AttemptInv
    <3>2. /\ UNCHANGED <<starting, session, credits, late, unconfirmed>>
          /\ row' = [row EXCEPT ![a].status = "recorded"]
          /\ settler' = [settler EXCEPT ![w] = OUTCOME_BY_STATUS("recorded", a)]
      BY <1>2, <3>1 DEF Conclude
    <3>3. SettlerInv(settler[w])'
      BY <3>1, <3>2 DEF TypeOK, OUTCOME_BY_STATUS, Idle, SettlerInv, Credited
    <3>4. AttemptInv(a)'
      BY <1>2, <1>3, <3>1, <3>2, TakenStays DEF TypeOK, PaymentAttempt, AttemptInv, is_settled,
         Credited, AmountRial
    <3> QED BY <2>1, <3>2, <3>3, <3>4
  <2>6. CASE ApplyUnpaid(w) \/ ApplyMismatch(w)
    <3>1. PICK status \in {"failed", "mismatch"} : Conclude(w, status)
      BY <2>6 DEF ApplyUnpaid, ApplyMismatch
    <3>2. /\ UNCHANGED <<starting, session, credits, late, unconfirmed>>
          /\ row' = [row EXCEPT ![a].status = status]
          /\ settler' = [settler EXCEPT ![w] = OUTCOME_BY_STATUS(status, a)]
      BY <1>2, <3>1 DEF Conclude
    <3>3. SettlerInv(settler[w])'
      BY <3>1, <3>2 DEF TypeOK, OUTCOME_BY_STATUS, Idle, SettlerInv
    <3>4. AttemptInv(a)'
      BY <1>2, <1>3, <3>1, <3>2, TakenStays DEF TypeOK, PaymentAttempt, AttemptInv, is_settled,
         Credited, AmountRial
    <3> QED BY <2>1, <3>2, <3>3, <3>4
  <2>7. CASE ApplyPaid(w)
    <3>1. TakenAsAsked(a) /\ TakenAsAsked(a)'
      <4>1. AmountRial(a) > 0
        BY <1>2, <1>3 DEF AttemptInv
      <4>2. TakenAsAsked(a)
        BY <1>1, <1>2, <2>7, <4>1 DEF ApplyPaid, SettlerInv, TakenAsAsked
      <4> QED BY <4>2, TakenStays
    <3>2. /\ row' = [row EXCEPT ![a].status = "paid"]
          /\ settler' = [settler EXCEPT ![w].at = "record"]
          /\ UNCHANGED <<starting, session, credits, late, unconfirmed>>
      BY <1>2, <2>7 DEF ApplyPaid
    <3>3. SettlerInv(settler[w])'
      BY <1>1, <1>2, <2>7, <3>1, <3>2 DEF TypeOK, PaymentAttempt, SettleCall, ApplyPaid,
         SettlerInv, Credited
    <3>4. AttemptInv(a)'
      BY <1>2, <1>3, <3>1, <3>2 DEF TypeOK, PaymentAttempt, AttemptInv, is_settled, Credited,
         AmountRial
    <3> QED BY <2>1, <3>2, <3>3, <3>4
  <2>8. CASE record_payment(w)
    <3>1. PICK t \in Attempts \X References :
            t = TransactionId(a, settler[w].answer.ref) /\ t[1] = a
      <4>1. settler[w].answer.ref \in References
        BY <1>1 DEF SettleCall
      <4>2. <<a, settler[w].answer.ref>> \in Attempts \X References
        BY <4>1
      <4> QED BY <4>2 DEF TransactionId
    <3>2. Credit(t) /\ UNCHANGED <<row, starting, session, late, unconfirmed>>
      BY <1>2, <2>8, <3>1 DEF record_payment
    <3>3. Credited(a)' /\ \A b \in Attempts \ {a} : credits'[b] = credits[b]
      BY <3>1, <3>2, CreditMonotone
    <3>4. SettlerInv(settler[w])'
      BY <1>1, <1>2, <2>8, <3>2, <3>3 DEF TypeOK, SettleCall, record_payment, SettlerInv,
         Credited
    <3>5. TakenAsAsked(a)
      BY <1>1, <1>2, <2>8 DEF SettlerInv, record_payment
    <3>6. AttemptInv(a)'
      BY <1>2, <3>2, <3>5, AttemptStays
    <3> QED BY <2>1, <3>2, <3>3, <3>4, <3>6
  <2> QED BY <2>2, <2>3, <2>4, <2>5, <2>6, <2>7, <2>8, <2>9 DEF SettleStep
<1>6. \A b \in Attempts : AttemptInv(b)'
  BY <1>4, <1>5, AttemptStays
<1>7. \A v \in Settlers : SettlerInv(settler[v])'
  BY <1>4, <1>5, SettlerStays
<1>8. \A j \in Jobs : \A b \in queue'[j] : row'[b].tracked
  BY <1>4 DEF SettleInv, Monotone, TypeOK
<1> QED BY <1>5, <1>6, <1>7, <1>8 DEF SettleInv

\* A settle call that dies forgets what it knew.
LEMMA DiesInv ==
  ASSUME TypeOK, SettleInv, Monotone, NEW w \in Settlers, SettlerDies(w)
  PROVE  SettleInv'
<1> USE DEF whmcs
<1>1. /\ UNCHANGED <<row, starting, session, credits, late, unconfirmed>>
      /\ \A v \in Settlers \ {w} : settler'[v] = settler[v]
      /\ settler'[w] = Idle
      /\ \A j \in Jobs : queue'[j] \subseteq queue[j]
  BY DEF TypeOK, SettlerDies
<1>2. SettlerInv(settler[w])'
  BY <1>1 DEF SettlerInv, Idle
<1>3. \A v \in Settlers : SettlerInv(settler[v])'
  BY <1>1, <1>2, SettlerStays
<1>4. \A b \in Attempts : AttemptInv(b)'
  BY <1>1, AttemptStays
<1>5. \A x \in late' : TakenAsAsked(x[1])'
  BY <1>1, TakenStays DEF SettleInv, TypeOK
<1>6. \A j \in Jobs : \A b \in queue'[j] : row'[b].tracked
  BY <1>1 DEF SettleInv
<1> QED BY <1>3, <1>4, <1>5, <1>6 DEF SettleInv

\* The world: a late call carries money that was taken.
LEMMA WorldInv ==
  ASSUME TypeOK, SettleInv, Monotone,
         \/ \E a \in Attempts : CustomerPays(a) \/ Age(a)
         \/ \E j \in Jobs : Reconcile(j)
         \/ \E t \in late : LateArrives(t)
         \/ \E i \in Invoices : InvoiceCancelled(i) \/ PaidElsewhere(i)
  PROVE  SettleInv'
<1> USE DEF whmcs, bridge
<1>1. \A t \in late : TakenAsAsked(t[1])'
  BY TakenStays DEF SettleInv, TypeOK
<1>2. ASSUME UNCHANGED settler PROVE \A w \in Settlers : SettlerInv(settler[w])'
  BY <1>2, SettlerStays
<1>3. ASSUME NEW a \in Attempts, CustomerPays(a) PROVE SettleInv'
  <2>1. /\ UNCHANGED <<row, starting, settler, queue, credits, late, unconfirmed>>
        /\ row[a].tracked
        /\ session[a].state = "open"
        /\ \A b \in Attempts \ {a} : session'[b] = session[b]
    BY <1>3 DEF TypeOK, CustomerPays
  <2>2. AttemptInv(a)'
    BY <2>1 DEF SettleInv, AttemptInv, Credited, TakenAsAsked, is_settled, AmountRial
  <2>3. \A b \in Attempts \ {a} : AttemptInv(b)'
    BY <2>1, AttemptStays
  <2> QED BY <1>1, <1>2, <2>1, <2>2, <2>3 DEF SettleInv
<1>4. ASSUME NEW a \in Attempts, Age(a) PROVE SettleInv'
  <2>1. \A b \in Attempts : AttemptInv(b)'
    BY <1>4, AttemptStays DEF Age
  <2> QED BY <1>1, <1>2, <1>4, <2>1 DEF SettleInv, Age
<1>5. ASSUME NEW j \in Jobs, Reconcile(j) PROVE SettleInv'
  <2>1. \A b \in Attempts : AttemptInv(b)'
    BY <1>5, AttemptStays DEF Reconcile
  <2>2. \A k \in Jobs : \A b \in queue'[k] : row'[b].tracked
    BY <1>5 DEF TypeOK, SettleInv, Reconcile, Reconcilable
  <2> QED BY <1>1, <1>2, <1>5, <2>1, <2>2 DEF SettleInv, Reconcile
<1>6. ASSUME NEW t \in late, LateArrives(t) PROVE SettleInv'
  <2>1. t \in Attempts \X References /\ TakenAsAsked(t[1])
    BY DEF TypeOK, SettleInv
  <2>2. /\ UNCHANGED <<row, starting, session, settler, queue, unconfirmed>>
        /\ late' \subseteq late
        /\ \A b \in Attempts : credits'[b] = credits[b] \/ TakenAsAsked(b)
    BY <1>6, <2>1, CreditMonotone DEF LateArrives
  <2>3. \A b \in Attempts : AttemptInv(b)'
    BY <2>2, AttemptStays
  <2> QED BY <1>1, <1>2, <2>2, <2>3 DEF SettleInv
<1>7. ASSUME NEW i \in Invoices, InvoiceCancelled(i) \/ PaidElsewhere(i) PROVE SettleInv'
  <2>1. \A b \in Attempts : AttemptInv(b)'
    BY <1>7, AttemptStays DEF InvoiceCancelled, PaidElsewhere
  <2> QED BY <1>1, <1>2, <1>7, <2>1 DEF SettleInv, InvoiceCancelled, PaidElsewhere
<1> QED BY <1>3, <1>4, <1>5, <1>6, <1>7

LEMMA NextInv == TypeOK /\ SettleInv /\ [Next]_vars => SettleInv'
<1> SUFFICES ASSUME TypeOK, SettleInv, [Next]_vars PROVE SettleInv'
  OBVIOUS
<1>1. CASE UNCHANGED vars
  BY <1>1 DEF vars, SettleInv, AttemptInv, SettlerInv, TakenAsAsked, AmountRial, Credited,
     is_settled
<1>2. CASE Next
  <2>1. Monotone
    BY <1>2, NextMonotone
  <2>2. ASSUME NEW b \in Browsers, NEW a \in Attempts, Callback(b, a) PROVE SettleInv'
    BY <2>1, <2>2, LookupInv DEF Callback, Settlers
  <2>3. ASSUME NEW j \in Jobs, NEW a \in Attempts, ReconcileNext(j, a) PROVE SettleInv'
    <3>1. row[a].tracked /\ \A k \in Jobs : queue'[k] \subseteq queue[k]
      BY <2>3 DEF TypeOK, SettleInv, ReconcileNext
    <3> QED BY <2>1, <2>3, <3>1, LookupInv DEF ReconcileNext, Settlers
  <2> QED BY <1>2, <2>1, <2>2, <2>3, StartInv, SettleStepInv, DiesInv, WorldInv DEF Next
<1> QED BY <1>1, <1>2

LEMMA Invariance == Spec => [](TypeOK /\ SettleInv)
  BY InitType, InitInv, NextType, NextInv, PTL DEF Spec

-----------------------------------------------------------------------------
(* Theorems *)

\* The types, whatever runs concurrently.
THEOREM TypeCorrect == Spec => []TypeOK
  BY Invariance, PTL

\* services.py settle: WHMCS is told of a payment only when the gateway has
\* taken the money, in the amount the attempt asked for - for any number of
\* callbacks and reconcile_payments runs, crashes, timeouts and late calls.
THEOREM NoFalseCredit == Spec => []CreditOnlyMoneyTaken
<1>1. SettleInv => CreditOnlyMoneyTaken
  BY DEF SettleInv, AttemptInv, CreditOnlyMoneyTaken
<1> QED BY <1>1, Invariance, PTL

\* to_rial and amount_whmcs: the money credited is the money taken, to half a
\* rial, for every balance and every multiplier.
THEOREM CreditsAreWorthIt == Spec => []CreditIsWorthTheMoney
<1>1. TypeOK /\ SettleInv => CreditIsWorthTheMoney
  <2> SUFFICES ASSUME TypeOK, SettleInv, NEW a \in Attempts, Credited(a)
               PROVE  2 * (100 * session[a].amount - row[a].amount * Multiplier)
                        \in -100 .. 100
    BY DEF CreditIsWorthTheMoney
  <2>1. session[a].amount = to_rial(row[a].amount)
    BY DEF SettleInv, AttemptInv, TakenAsAsked, AmountRial
  <2>2. row[a].amount \in Int
    BY DEF TypeOK, PaymentAttempt
  <2> QED BY <2>1, <2>2, RialIsNearest
<1> QED BY <1>1, Invariance, PTL

\* PaymentAttempt.is_settled: a row is closed only when WHMCS has the money, or
\* has answered its AddInvoicePayment with something that confirms nothing.
THEOREM NoFalseClosure == Spec => []RecordedIsCredited
<1>1. SettleInv => RecordedIsCredited
  BY DEF SettleInv, AttemptInv, RecordedIsCredited
<1> QED BY <1>1, Invariance, PTL

\* OUTCOME_BY_STATUS: the customer is told "success" only when WHMCS has it, or
\* has given that answer.
THEOREM NoFalseSuccess == Spec => []SuccessIsTrue
<1>1. SettleInv => SuccessIsTrue
  BY DEF SettleInv, SettlerInv, SuccessIsTrue
<1> QED BY <1>1, Invariance, PTL

\* Whatever a step does to a row, it does not reopen a recorded one.
LEMMA FinalStep ==
  ASSUME TypeOK, SettleInv, [Next]_vars, NEW a \in Attempts, is_settled(a)
  PROVE  is_settled(a)'
<1> USE DEF is_settled, whmcs, bridge
<1>1. AttemptInv(a) /\ row[a] \in PaymentAttempt
  BY DEF SettleInv, TypeOK
<1>2. CASE UNCHANGED row
  BY <1>2
<1>3. ASSUME NEW b \in Attempts, StartStep(b) PROVE is_settled(a)'
  <2>1. starting[a] = "idle" /\ row[a].status # "absent"
    BY <1>1 DEF AttemptInv
  <2> QED BY <1>3, <2>1 DEF TypeOK, StartStep, Start, request_payment, RequestRefused,
          SaveTrackId, StartDies
<1>4. ASSUME NEW w \in Settlers, SettleStep(w) PROVE is_settled(a)'
  <2>1. \/ row'[a] = row[a]
        \/ a = settler[w].attempt /\ row' = [row EXCEPT ![a].status = "recorded"]
    BY <1>1, <1>4 DEF TypeOK, SettleStep, verify, VerifyUnreachable, ApplySettled,
       ApplyUnpaid, ApplyMismatch, ApplyPaid, record_payment, RecordUnconfirmed, RecordRaises,
       RecordTimesOut, SaveRecorded, Conclude
  <2> QED BY <1>1, <2>1 DEF TypeOK, PaymentAttempt
<1> QED BY <1>2, <1>3, <1>4
        DEF Next, vars, CustomerPays, Age, Callback, Reconcile, ReconcileNext, SettlerDies,
            LateArrives, InvoiceCancelled, PaidElsewhere

\* services.py settle: the second look under the lock makes a recorded row
\* final, although the answer about to be applied may be older than the record.
THEOREM RecordedStays == Spec => RecordedIsFinal
<1>1. TypeOK /\ SettleInv /\ [Next]_vars
        => [\A a \in Attempts : is_settled(a) => is_settled(a)']_vars
  BY FinalStep
<1> QED BY <1>1, Invariance, PTL DEF Spec, RecordedIsFinal

-----------------------------------------------------------------------------
(* One credit per attempt, when the gateway names one reference.  WHMCS knows *)
(* the transid of every credited attempt, and everything under way for the    *)
(* attempt - an answer, a call, a late call - would use the same one.         *)

OnceInv(r) ==
  /\ \A a \in Attempts : credits[a] \in {0, 1}
  /\ \A a \in Attempts : credits[a] = 1 <=> <<a, r>> \in transids
  /\ \A t \in transids \cup late : t[2] = r
  /\ \A w \in Settlers :
       /\ settler[w].at = "apply" /\ settler[w].answer.paid => settler[w].answer.ref = r
       /\ settler[w].at = "record" => settler[w].answer.ref = r

LEMMA CreditOnce ==
  ASSUME TypeOK, NEW r \in References, OnceInv(r),
         NEW a \in Attempts, <<a, r>> \notin transids, Credit(<<a, r>>)
  PROVE  /\ \A t \in transids' : t[2] = r
         /\ \A b \in Attempts :
              credits'[b] \in {0, 1} /\ (credits'[b] = 1 <=> <<b, r>> \in transids')
         /\ credits[a] = 0 /\ credits' = [credits EXCEPT ![a] = 1]
<1>1. transids' = transids \cup {<<a, r>>} /\ credits' = [credits EXCEPT ![a] = credits[a] + 1]
  BY DEF Credit
<1>2. credits[a] = 0 /\ credits' = [credits EXCEPT ![a] = 1]
  <2>1. credits[a] = 0
    BY DEF OnceInv
  <2> QED BY <1>1, <2>1
<1> QED BY <1>1, <1>2 DEF TypeOK, OnceInv

LEMMA OnceStep ==
  ASSUME NEW r \in References, RefAnswers = {r}, TypeOK, SettleInv, OnceInv(r), [Next]_vars
  PROVE  OnceInv(r)'
<1> USE DEF whmcs, bridge
<1>1. ASSUME UNCHANGED <<settler, whmcs>> PROVE OnceInv(r)'
  BY <1>1 DEF OnceInv
<1>2. ASSUME NEW w \in Settlers, NEW a \in Attempts, Lookup(w, a), UNCHANGED whmcs
      PROVE  OnceInv(r)'
  BY <1>2 DEF TypeOK, OnceInv, Lookup, OUTCOME_BY_STATUS, Idle
<1>3. ASSUME NEW w \in Settlers, SettleStep(w) \/ SettlerDies(w) PROVE OnceInv(r)'
  <2>1. settler[w] \in SettleCall /\ SettlerInv(settler[w])
    BY DEF TypeOK, SettleInv
  <2>2. CASE verify(w)
    <3>1. PICK answer :
            /\ settler' = [settler EXCEPT ![w].at = "apply", ![w].answer = answer]
            /\ answer.paid => answer.ref = r
      <4>1. ~NoAnswer.paid
        BY DEF NoAnswer
      <4> QED BY <2>2, <4>1 DEF verify, Verifications
    <3> QED BY <2>2, <3>1 DEF TypeOK, SettleCall, OnceInv, verify
  <2>3. CASE VerifyUnreachable(w) \/ RecordRaises(w) \/ SettlerDies(w)
    BY <2>3 DEF TypeOK, OnceInv, Idle, VerifyUnreachable, RecordRaises, SettlerDies
  <2>4. CASE ApplySettled(w) \/ ApplyUnpaid(w) \/ ApplyMismatch(w) \/ SaveRecorded(w)
    <3>1. PICK status : /\ settler' = [settler EXCEPT ![w] =
                                         OUTCOME_BY_STATUS(status, settler[w].attempt)]
                        /\ UNCHANGED whmcs
      BY <2>4 DEF ApplySettled, ApplyUnpaid, ApplyMismatch, SaveRecorded, Conclude
    <3> QED BY <3>1 DEF TypeOK, OnceInv, OUTCOME_BY_STATUS, Idle
  <2>5. CASE ApplyPaid(w)
    BY <2>5 DEF TypeOK, SettleCall, OnceInv, ApplyPaid
  <2>6. CASE RecordTimesOut(w) \/ RecordUnconfirmed(w)
    <3>1. settler[w].answer.ref = r
      BY <2>6 DEF OnceInv, RecordTimesOut, RecordUnconfirmed
    <3>2. \A t \in late' : t[2] = r
      BY <2>6, <3>1 DEF OnceInv, RecordTimesOut, RecordUnconfirmed, TransactionId
    <3>3. settler' = [settler EXCEPT ![w] = Idle] \/ settler' = [settler EXCEPT ![w].at = "save"]
      BY <2>6 DEF RecordTimesOut, RecordUnconfirmed
    <3>4. \A v \in Settlers :
            /\ settler'[v].at = "apply" /\ settler'[v].answer.paid => settler'[v].answer.ref = r
            /\ settler'[v].at = "record" => settler'[v].answer.ref = r
      BY <3>3 DEF TypeOK, SettleCall, OnceInv, Idle
    <3>5. UNCHANGED <<credits, transids>>
      BY <2>6 DEF RecordTimesOut, RecordUnconfirmed
    <3> QED BY <3>2, <3>4, <3>5 DEF OnceInv
  <2>7. CASE record_payment(w)
    <3>1. PICK a \in Attempts : a = settler[w].attempt
      BY <2>1, <2>7 DEF SettlerInv, record_payment
    <3>2. <<a, r>> \notin transids /\ Credit(<<a, r>>)
      BY <2>7, <3>1 DEF OnceInv, record_payment, TransactionId
    <3>3. UNCHANGED late /\ settler' = [settler EXCEPT ![w].at = "save"]
      BY <2>7 DEF record_payment
    <3>4. \A v \in Settlers :
            /\ settler'[v].at = "apply" /\ settler'[v].answer.paid => settler'[v].answer.ref = r
            /\ settler'[v].at = "record" => settler'[v].answer.ref = r
      BY <3>3 DEF TypeOK, SettleCall, OnceInv
    <3> QED BY <3>2, <3>3, <3>4, CreditOnce DEF OnceInv
  <2> QED BY <1>3, <2>2, <2>3, <2>4, <2>5, <2>6, <2>7 DEF SettleStep
<1>4. ASSUME NEW t \in late, LateArrives(t) PROVE OnceInv(r)'
  <2>1. PICK a \in Attempts : t = <<a, r>>
    BY DEF TypeOK, OnceInv
  <2>2. late' \subseteq late /\ UNCHANGED settler
    BY <1>4 DEF LateArrives
  <2>3. CASE t \in transids
    BY <1>4, <2>2, <2>3 DEF OnceInv, LateArrives
  <2>4. CASE t \notin transids
    <3>1. Credit(<<a, r>>)
      BY <1>4, <2>1, <2>4 DEF LateArrives
    <3> QED BY <2>1, <2>2, <2>4, <3>1, CreditOnce DEF OnceInv
  <2> QED BY <2>3, <2>4
<1>5. CASE UNCHANGED vars
  BY <1>1, <1>5 DEF vars
<1>6. CASE Next
  <2>1. ASSUME NEW a \in Attempts, StartStep(a) \/ CustomerPays(a) \/ Age(a) PROVE OnceInv(r)'
    BY <1>1, <2>1 DEF StartStep, Start, request_payment, RequestRefused, SaveTrackId,
       StartDies, CustomerPays, Age
  <2>2. ASSUME NEW b \in Browsers, NEW a \in Attempts, Callback(b, a) PROVE OnceInv(r)'
    BY <1>2, <2>2 DEF Callback, Settlers
  <2>3. ASSUME NEW j \in Jobs, Reconcile(j) PROVE OnceInv(r)'
    BY <1>1, <2>3 DEF Reconcile
  <2>4. ASSUME NEW j \in Jobs, NEW a \in Attempts, ReconcileNext(j, a) PROVE OnceInv(r)'
    BY <1>2, <2>4 DEF ReconcileNext, Settlers
  <2>5. ASSUME NEW i \in Invoices, InvoiceCancelled(i) \/ PaidElsewhere(i) PROVE OnceInv(r)'
    BY <2>5 DEF OnceInv, InvoiceCancelled, PaidElsewhere
  <2> QED BY <1>3, <1>4, <1>6, <2>1, <2>2, <2>3, <2>4, <2>5 DEF Next
<1> QED BY <1>5, <1>6

LEMMA OnceInvariance ==
  ASSUME NEW r \in References, RefAnswers = {r} PROVE Spec => []OnceInv(r)
<1>1. Init => OnceInv(r)
  BY DEF Init, OnceInv, Idle
<1>2. TypeOK /\ SettleInv /\ OnceInv(r) /\ [Next]_vars => OnceInv(r)'
  BY OnceStep
<1> QED BY <1>1, <1>2, Invariance, PTL DEF Spec

\* services.py: "running it twice on the same trackId cannot credit an invoice
\* twice", for any number of concurrent settles, timeouts, late calls and
\* crashes - provided every verify answer names the same reference.
THEOREM NoDoubleCredit ==
  ASSUME NEW r \in References, RefAnswers = {r} PROVE Spec => []CreditedOnce
<1>1. OnceInv(r) => CreditedOnce
  BY DEF OnceInv, CreditedOnce
<1> QED BY <1>1, OnceInvariance, PTL

-----------------------------------------------------------------------------
(* Without the hypothesis of one reference: WHMCS credits an attempt once for *)
(* each form in which the gateway ever named its payment, however often       *)
(* settle is run.                                                             *)

CreditedFor(t) == IF t \in transids THEN 1 ELSE 0

CreditedPerReference ==
  \A a \in Attempts :
    credits[a] = CreditedFor(<<a, "ref_number">>) + CreditedFor(<<a, "track_id">>)

CreditedTwiceAtMost == \A a \in Attempts : credits[a] <= 2

LEMMA CreditPerReference ==
  ASSUME TypeOK, CreditedPerReference, NEW t \in Attempts \X References, t \notin transids,
         Credit(t)
  PROVE  CreditedPerReference'
<1>1. /\ credits' = [credits EXCEPT ![t[1]] = credits[t[1]] + 1]
      /\ transids' = transids \cup {t}
  BY DEF Credit
<1>2. PICK a \in Attempts, r \in References : t = <<a, r>>
  OBVIOUS
<1>3. \A b \in Attempts \ {a} : \A q \in References :
        CreditedFor(<<b, q>>)' = CreditedFor(<<b, q>>)
  BY <1>1, <1>2 DEF CreditedFor
<1>4. \A q \in References :
        CreditedFor(<<a, q>>)' = IF q = r THEN 1 ELSE CreditedFor(<<a, q>>)
  BY <1>1, <1>2 DEF CreditedFor
<1>5. CreditedFor(<<a, r>>) = 0
  BY <1>2 DEF CreditedFor
<1>6. ASSUME NEW b \in Attempts
      PROVE  credits'[b] = CreditedFor(<<b, "ref_number">>)' + CreditedFor(<<b, "track_id">>)'
  <2>1. CASE b = a
    <3>1. credits'[a] = CreditedFor(<<a, "ref_number">>) + CreditedFor(<<a, "track_id">>) + 1
      BY <1>1, <1>2 DEF TypeOK, CreditedPerReference
    <3> QED BY <1>4, <1>5, <2>1, <3>1 DEF References, CreditedFor
  <2>2. CASE b # a
    <3>1. credits'[b] = credits[b]
      BY <1>1, <1>2, <2>2 DEF TypeOK
    <3> QED BY <1>3, <2>2, <3>1 DEF References, CreditedPerReference
  <2> QED BY <2>1, <2>2
<1> QED BY <1>6 DEF CreditedPerReference

LEMMA PerReferenceStep ==
  ASSUME TypeOK, SettleInv, CreditedPerReference, [Next]_vars PROVE CreditedPerReference'
<1> USE DEF whmcs, bridge
<1>1. ASSUME UNCHANGED <<credits, transids>> PROVE CreditedPerReference'
  BY <1>1 DEF CreditedPerReference, CreditedFor
<1>2. ASSUME NEW w \in Settlers, record_payment(w) PROVE CreditedPerReference'
  <2>1. settler[w] \in SettleCall /\ settler[w].attempt \in Attempts
    BY <1>2 DEF TypeOK, SettleInv, SettlerInv, record_payment
  <2>2. TransactionId(settler[w].attempt, settler[w].answer.ref) \in Attempts \X References
    BY <2>1 DEF SettleCall, TransactionId
  <2> QED BY <1>2, <2>2, CreditPerReference DEF record_payment
<1>3. ASSUME NEW t \in late, LateArrives(t) PROVE CreditedPerReference'
  <2>1. t \in Attempts \X References
    BY DEF TypeOK
  <2> QED BY <1>1, <1>3, <2>1, CreditPerReference DEF LateArrives
<1>4. ASSUME NEW w \in Settlers, SettleStep(w), ~record_payment(w) PROVE CreditedPerReference'
  BY <1>1, <1>4 DEF SettleStep, verify, VerifyUnreachable, ApplySettled, ApplyUnpaid,
     ApplyMismatch, ApplyPaid, RecordUnconfirmed, RecordRaises, RecordTimesOut, SaveRecorded,
     Conclude
<1>5. CASE \/ \E a \in Attempts : StartStep(a) \/ CustomerPays(a) \/ Age(a)
           \/ \E b \in Browsers, a \in Attempts : Callback(b, a)
           \/ \E j \in Jobs : Reconcile(j) \/ \E a \in Attempts : ReconcileNext(j, a)
           \/ \E w \in Settlers : SettlerDies(w)
           \/ \E i \in Invoices : InvoiceCancelled(i) \/ PaidElsewhere(i)
  BY <1>1, <1>5 DEF StartStep, Start, request_payment, RequestRefused, SaveTrackId, StartDies,
     CustomerPays, Age, Callback, Reconcile, ReconcileNext, SettlerDies, InvoiceCancelled,
     PaidElsewhere
<1>6. CASE UNCHANGED vars
  BY <1>1, <1>6 DEF vars
<1> QED BY <1>2, <1>3, <1>4, <1>5, <1>6 DEF Next

\* services.py, transid=attempt.ref_number or attempt.track_id: however settles
\* race, time out and are repeated, WHMCS is credited once per form of the
\* reference, so twice at the very most - and with no hypothesis on the gateway.
THEOREM NoCreditPerReplay ==
  Spec => [](CreditedPerReference /\ CreditedTwiceAtMost)
<1>1. Init => CreditedPerReference
  BY DEF Init, CreditedPerReference, CreditedFor
<1>2. TypeOK /\ SettleInv /\ CreditedPerReference /\ [Next]_vars => CreditedPerReference'
  BY PerReferenceStep
<1>3. CreditedPerReference => CreditedTwiceAtMost
  <2>1. \A t : CreditedFor(t) \in {0, 1}
    BY DEF CreditedFor
  <2>2. ASSUME CreditedPerReference, NEW a \in Attempts PROVE credits[a] <= 2
    <3> DEFINE x == CreditedFor(<<a, "ref_number">>)
               y == CreditedFor(<<a, "track_id">>)
    <3>1. x \in {0, 1} /\ y \in {0, 1}
      BY <2>1
    <3>2. credits[a] = x + y
      BY <2>2 DEF CreditedPerReference
    <3> HIDE DEF x, y
    <3> QED BY <3>1, <3>2
  <2> QED BY <2>2 DEF CreditedTwiceAtMost
<1> QED BY <1>1, <1>2, <1>3, Invariance, PTL DEF Spec

-----------------------------------------------------------------------------
(* The balance of an invoice.  No sum is needed: an attempt that is neither    *)
(* credited nor overtaken asks for exactly what is due, so its credit leaves   *)
(* nothing; what takes an invoice below zero is the credit of an overtaken one.*)

AsksForBalance(a) == row[a].amount = invoice[row[a].invoice].balance

DueInv ==
  /\ OverpaidIsOvertaken
  /\ \A a \in Attempts :
       row[a].status # "absent" /\ ~Credited(a) /\ a \notin overtaken => AsksForBalance(a)

\* Steps that neither pay an invoice nor create a row.
LEMMA DueStays ==
  ASSUME TypeOK, DueInv, UNCHANGED <<credits, overtaken>>,
         \A i \in Invoices : invoice'[i].balance = invoice[i].balance,
         \A a \in Attempts :
           /\ row'[a].invoice = row[a].invoice
           /\ row'[a].status # "absent" =>
                row[a].status # "absent" /\ row'[a].amount = row[a].amount
  PROVE  DueInv'
<1>1. OverpaidIsOvertaken'
  BY DEF TypeOK, DueInv, OverpaidIsOvertaken, Credited
<1>2. \A a \in Attempts : row[a].invoice \in Invoices
  BY DEF TypeOK, PaymentAttempt
<1> QED BY <1>1, <1>2 DEF DueInv, AsksForBalance, Credited

LEMMA DueStart ==
  ASSUME TypeOK, DueInv, NEW a \in Attempts, Start(a) PROVE DueInv'
<1>1. /\ UNCHANGED <<invoice, credits, overtaken>>
      /\ row'[a].amount = invoice[row[a].invoice].balance
      /\ \A b \in Attempts : /\ row'[b].invoice = row[b].invoice
                             /\ b # a => row'[b] = row[b]
  BY DEF TypeOK, PaymentAttempt, Start, whmcs
<1>2. OverpaidIsOvertaken'
  BY <1>1 DEF TypeOK, DueInv, OverpaidIsOvertaken, Credited
<1> QED BY <1>1, <1>2 DEF DueInv, AsksForBalance, Credited

\* Another way of paying leaves nothing below zero, and overtakes everybody.
LEMMA DueElsewhere ==
  ASSUME TypeOK, DueInv, NEW i \in Invoices, PaidElsewhere(i) PROVE DueInv'
<1>1. UNCHANGED <<row, credits>> /\ overtaken \subseteq overtaken'
  BY DEF PaidElsewhere, Overtake, bridge
<1>2. PICK left \in {0} \cup {b \in Balances : 0 < b /\ b < invoice[i].balance} :
        invoice' = [invoice EXCEPT ![i] =
          [status |-> IF left = 0 THEN "Paid" ELSE @.status, balance |-> left]]
  BY DEF PaidElsewhere
<1>3. /\ invoice'[i].balance = left /\ ~(left < 0)
      /\ \A j \in Invoices \ {i} : invoice'[j] = invoice[j]
  <2>1. left \in Int /\ ~(left < 0)
    BY IntegerAssumption
  <2> QED BY <1>2, <2>1 DEF TypeOK
<1>4. OverpaidIsOvertaken'
  BY <1>1, <1>3 DEF TypeOK, DueInv, OverpaidIsOvertaken, Credited
<1>5. ASSUME NEW a \in Attempts, row[a].status # "absent", ~Credited(a), a \notin overtaken'
      PROVE  AsksForBalance(a)'
  <2>1. credits[a] = 0
    BY <1>5 DEF TypeOK, Credited
  <2>2. row[a].invoice # i
    BY <1>5, <2>1, NoneAssumption DEF PaidElsewhere, Overtake
  <2>3. row[a].invoice \in Invoices
    BY DEF TypeOK, PaymentAttempt
  <2>4. AsksForBalance(a)
    BY <1>1, <1>5 DEF DueInv
  <2> QED BY <1>1, <1>3, <2>2, <2>3, <2>4 DEF AsksForBalance
<1> QED BY <1>1, <1>4, <1>5 DEF DueInv, Credited

\* A credit overtakes the others of its invoice.  It takes the whole balance, or
\* is itself of an overtaken attempt.
LEMMA DueCredit ==
  ASSUME TypeOK, DueInv, NEW r \in References, OnceInv(r), NEW a \in Attempts,
         row[a].status # "absent", <<a, r>> \notin transids, Credit(<<a, r>>), UNCHANGED row
  PROVE  DueInv'
<1> DEFINE i == row[a].invoice
<1>1. credits[a] = 0 /\ credits' = [credits EXCEPT ![a] = 1]
  BY CreditOnce
<1>2. ~Credited(a) /\ Credited(a)' /\ \A b \in Attempts \ {a} : Credited(b)' <=> Credited(b)
  BY <1>1 DEF TypeOK, Credited
<1>3. i \in Invoices /\ row[a].amount \in Int /\ invoice[i].balance \in Int
  BY DEF TypeOK, PaymentAttempt
<1>4. /\ invoice'[i].balance = invoice[i].balance - row[a].amount
      /\ \A j \in Invoices \ {i} : invoice'[j] = invoice[j]
  BY <1>3 DEF TypeOK, Credit
<1>5. overtaken' = overtaken \cup {b \in Attempts \ {a} : /\ row[b].invoice = i
                                                        /\ row[b].status # "absent"
                                                        /\ credits[b] = 0}
  BY DEF Credit, Overtake
<1>6. OverpaidIsOvertaken'
  <2> SUFFICES ASSUME NEW j \in Invoices, invoice'[j].balance < 0
               PROVE  \E b \in overtaken' : row[b].invoice = j /\ Credited(b)'
    BY DEF OverpaidIsOvertaken
  <2>1. CASE j # i
    <3>1. PICK b \in overtaken : row[b].invoice = j /\ Credited(b)
      BY <1>4, <2>1 DEF DueInv, OverpaidIsOvertaken
    <3>2. b \in Attempts /\ b # a
      BY <2>1, <3>1 DEF TypeOK
    <3> QED BY <1>2, <1>5, <3>1, <3>2
  <2>2. CASE j = i /\ a \in overtaken
    BY <1>2, <1>5, <2>2
  <2>3. CASE j = i /\ a \notin overtaken
    <3>1. row[a].amount = invoice[i].balance
      BY <1>2, <2>3 DEF DueInv, AsksForBalance
    <3>2. invoice'[i].balance = 0
      BY <1>3, <1>4, <3>1
    <3> QED BY <2>3, <3>2
  <2> QED BY <2>1, <2>2, <2>3
<1>7. ASSUME NEW b \in Attempts, row[b].status # "absent", ~Credited(b)', b \notin overtaken'
      PROVE  AsksForBalance(b)'
  <2>1. b # a /\ ~Credited(b) /\ b \notin overtaken
    BY <1>2, <1>5, <1>7
  <2>2. credits[b] = 0
    BY <2>1 DEF TypeOK, Credited
  <2>3. row[b].invoice \in Invoices \ {i}
    BY <1>5, <1>7, <2>1, <2>2 DEF TypeOK, PaymentAttempt
  <2>4. AsksForBalance(b)
    BY <1>7, <2>1 DEF DueInv
  <2> QED BY <1>4, <2>3, <2>4 DEF AsksForBalance
<1> QED BY <1>6, <1>7 DEF DueInv

LEMMA DueStep ==
  ASSUME NEW r \in References, TypeOK, SettleInv, OnceInv(r), DueInv, [Next]_vars
  PROVE  DueInv'
<1> USE DEF whmcs, bridge
<1>1. ASSUME UNCHANGED <<row, invoice, credits, overtaken>> PROVE DueInv'
  BY <1>1, DueStays
<1>2. ASSUME NEW a \in Attempts, StartStep(a) PROVE DueInv'
  <2>1. row[a] \in PaymentAttempt /\ AttemptInv(a)
    BY DEF TypeOK, SettleInv
  <2>2. CASE RequestRefused(a) \/ SaveTrackId(a)
    <3>1. /\ row[a].status # "absent" /\ UNCHANGED <<invoice, credits, overtaken>>
          /\ row'[a].invoice = row[a].invoice /\ row'[a].amount = row[a].amount
          /\ \A b \in Attempts \ {a} : row'[b] = row[b]
      BY <2>1, <2>2 DEF TypeOK, PaymentAttempt, AttemptInv, RequestRefused, SaveTrackId
    <3> QED BY <3>1, DueStays
  <2> QED BY <1>1, <1>2, <2>2, DueStart DEF StartStep, request_payment, StartDies
<1>3. ASSUME NEW w \in Settlers, SettleStep(w) PROVE DueInv'
  <2>1. SettlerInv(settler[w])
    BY DEF SettleInv
  <2>2. CASE ApplySettled(w) \/ ApplyUnpaid(w) \/ ApplyMismatch(w) \/ ApplyPaid(w)
             \/ SaveRecorded(w)
    <3>1. PICK a \in Attempts : a = settler[w].attempt /\ row[a].status # "absent"
      BY <2>1, <2>2 DEF SettleInv, AttemptInv, SettlerInv, ApplySettled, ApplyUnpaid,
         ApplyMismatch, ApplyPaid, SaveRecorded
    <3>2. PICK status : /\ row' = [row EXCEPT ![a].status = status]
                        /\ UNCHANGED <<invoice, credits, overtaken>>
      BY <2>2, <3>1 DEF ApplySettled, ApplyUnpaid, ApplyMismatch, ApplyPaid, SaveRecorded,
         Conclude
    <3>3. \A b \in Attempts :
            /\ row'[b].invoice = row[b].invoice
            /\ row'[b].status # "absent" =>
                 row[b].status # "absent" /\ row'[b].amount = row[b].amount
      BY <3>1, <3>2 DEF TypeOK, PaymentAttempt
    <3> QED BY <3>2, <3>3, DueStays
  <2>3. CASE record_payment(w)
    <3>1. PICK a \in Attempts : a = settler[w].attempt /\ row[a].status # "absent"
      BY <2>1, <2>3 DEF SettleInv, AttemptInv, SettlerInv, record_payment
    <3>2. settler[w].answer.ref = r
      BY <2>3 DEF OnceInv, record_payment
    <3>3. <<a, r>> \notin transids /\ Credit(<<a, r>>) /\ UNCHANGED row
      BY <2>3, <3>1, <3>2 DEF record_payment, TransactionId
    <3> QED BY <3>1, <3>3, DueCredit
  <2> QED BY <1>1, <1>3, <2>2, <2>3
          DEF SettleStep, verify, VerifyUnreachable, RecordUnconfirmed, RecordRaises,
              RecordTimesOut
<1>4. ASSUME NEW t \in late, LateArrives(t) PROVE DueInv'
  <2>1. PICK a \in Attempts : t = <<a, r>> /\ row[a].status # "absent"
    BY DEF TypeOK, SettleInv, AttemptInv, TakenAsAsked, OnceInv
  <2>2. CASE t \in transids
    BY <1>1, <1>4, <2>2 DEF LateArrives
  <2>3. CASE t \notin transids
    BY <1>4, <2>1, <2>3, DueCredit DEF LateArrives
  <2> QED BY <2>2, <2>3
<1>5. ASSUME NEW i \in Invoices, InvoiceCancelled(i) PROVE DueInv'
  <2>1. UNCHANGED <<row, credits, overtaken>>
        /\ \A j \in Invoices : invoice'[j].balance = invoice[j].balance
    BY <1>5 DEF TypeOK, InvoiceCancelled
  <2> QED BY <2>1, DueStays
<1>6. CASE UNCHANGED vars
  BY <1>1, <1>6 DEF vars
<1>7. CASE \/ \E a \in Attempts : CustomerPays(a) \/ Age(a)
           \/ \E b \in Browsers, a \in Attempts : Callback(b, a)
           \/ \E j \in Jobs : Reconcile(j) \/ \E a \in Attempts : ReconcileNext(j, a)
           \/ \E w \in Settlers : SettlerDies(w)
  BY <1>1, <1>7 DEF CustomerPays, Age, Callback, Reconcile, ReconcileNext, SettlerDies
<1> QED BY <1>2, <1>3, <1>4, <1>5, <1>6, <1>7, DueElsewhere DEF Next

\* services.py start and settle: an invoice is credited with more than was due only
\* through an attempt in whose course it was paid in another way - for every set of
\* opening balances none of which is negative, and one reference per payment.
THEOREM OverpaidTakesOvertaking ==
  ASSUME NEW r \in References, RefAnswers = {r}, Balances \subseteq Nat
  PROVE  Spec => []OverpaidIsOvertaken
<1>1. Init => DueInv
  <2> SUFFICES ASSUME Init PROVE DueInv
    OBVIOUS
  <2>1. ASSUME NEW i \in Invoices PROVE ~(invoice[i].balance < 0)
    <3>1. invoice[i].balance \in Nat
      BY DEF Init
    <3> QED BY <3>1
  <2>2. \A a \in Attempts : row[a].status = "absent"
    BY DEF Init
  <2> QED BY <2>1, <2>2 DEF DueInv, OverpaidIsOvertaken
<1>2. TypeOK /\ SettleInv /\ OnceInv(r) /\ DueInv /\ [Next]_vars => DueInv'
  BY DueStep
<1>3. DueInv => OverpaidIsOvertaken
  BY DEF DueInv
<1> QED BY <1>1, <1>2, <1>3, Invariance, OnceInvariance, PTL DEF Spec

-----------------------------------------------------------------------------
(* The checkout implements what it promises *)

LEMMA PromiseInit == Init => Promise!Init
  BY DEF Init, Promise!Init, Taken, is_settled

\* Steps that neither take money, nor credit, nor close, map to a stutter.
LEMMA PromiseStutter ==
  ASSUME SettleInv, Monotone, UNCHANGED <<session, credits, unconfirmed>>,
         \A a \in Attempts : is_settled(a) <=> is_settled(a)'
  PROVE  UNCHANGED Promise!vars
<1>1. ASSUME NEW a \in Attempts PROVE Taken(a)' = Taken(a)
  BY DEF SettleInv, AttemptInv, Monotone, Taken, TakenAsAsked, AmountRial
<1> QED BY <1>1 DEF Promise!vars

LEMMA PromiseCredit ==
  ASSUME TypeOK, SettleInv, Monotone, NEW r \in References, OnceInv(r), NEW a \in Attempts,
         <<a, r>> \notin transids, TakenAsAsked(a), Credit(<<a, r>>),
         UNCHANGED <<row, session, unconfirmed>>
  PROVE  Promise!Next
<1>1. credits[a] = 0 /\ credits' = [credits EXCEPT ![a] = 1]
  BY CreditOnce
<1>2. ASSUME NEW b \in Attempts PROVE Taken(b)' = Taken(b)
  BY DEF Taken, TakenAsAsked, AmountRial
<1>3. Taken(a) = "asked"
  BY DEF Taken, TakenAsAsked
<1>4. {b \in Attempts : is_settled(b)}' = {b \in Attempts : is_settled(b)}
  BY DEF is_settled
<1>5. Promise!Credit(a)
  BY <1>1, <1>2, <1>3, <1>4 DEF Promise!Credit
<1> QED BY <1>5 DEF Promise!Next

LEMMA PromiseClose ==
  ASSUME TypeOK, SettleInv, Monotone, NEW r \in References, OnceInv(r), NEW w \in Settlers,
         SaveRecorded(w)
  PROVE  Promise!Next
<1>1. PICK a \in Attempts :
        a = settler[w].attempt /\ (Credited(a) \/ a \in unconfirmed)
  BY DEF SettleInv, SettlerInv, SaveRecorded
<1>2. credits[a] = 1 \/ a \in unconfirmed
  BY <1>1 DEF OnceInv, Credited
<1>3. row' = [row EXCEPT ![a].status = "recorded"] /\ UNCHANGED <<session, credits, unconfirmed>>
  BY <1>1 DEF SaveRecorded, Conclude, whmcs
<1>4. \A b \in Attempts : /\ is_settled(b)' <=> (b = a \/ is_settled(b))
                          /\ row'[b].amount = row[b].amount
  BY <1>3 DEF TypeOK, PaymentAttempt, is_settled
<1>5. ASSUME NEW b \in Attempts PROVE Taken(b)' = Taken(b)
  BY <1>3, <1>4 DEF Taken, TakenAsAsked, AmountRial
<1>6. {b \in Attempts : is_settled(b)}' = {b \in Attempts : is_settled(b)} \cup {a}
  BY <1>4
<1>7. Promise!Close(a)
  BY <1>2, <1>3, <1>5, <1>6 DEF Promise!Close
<1> QED BY <1>7 DEF Promise!Next

LEMMA PromisePresume ==
  ASSUME TypeOK, SettleInv, NEW w \in Settlers, RecordUnconfirmed(w) PROVE Promise!Next
<1>1. PICK a \in Attempts : a = settler[w].attempt /\ TakenAsAsked(a)
  BY DEF SettleInv, SettlerInv, RecordUnconfirmed
<1>2. UNCHANGED <<row, session, credits>> /\ unconfirmed' = unconfirmed \cup {a}
  BY <1>1 DEF RecordUnconfirmed
<1>3. ASSUME NEW b \in Attempts PROVE Taken(b)' = Taken(b)
  BY <1>2 DEF Taken, TakenAsAsked, AmountRial
<1>4. Taken(a) = "asked"
  BY <1>1 DEF Taken, TakenAsAsked
<1>5. {b \in Attempts : is_settled(b)}' = {b \in Attempts : is_settled(b)}
  BY <1>2 DEF is_settled
<1>6. Promise!Presume(a)
  BY <1>2, <1>3, <1>4, <1>5 DEF Promise!Presume
<1> QED BY <1>6 DEF Promise!Next

LEMMA PromiseTake ==
  ASSUME TypeOK, NEW a \in Attempts, CustomerPays(a) PROVE Promise!Next
<1>1. UNCHANGED <<row, credits, unconfirmed>> /\ session[a].state = "open"
      /\ session'[a].state = "paid" /\ \A b \in Attempts \ {a} : session'[b] = session[b]
  BY DEF TypeOK, CustomerPays, bridge, whmcs
<1>2. ASSUME NEW b \in Attempts \ {a} PROVE Taken(b)' = Taken(b)
  BY <1>1 DEF Taken, TakenAsAsked, AmountRial
<1>3. Taken(a) = "nothing"
  BY <1>1 DEF Taken
<1>4. PICK how \in {"asked", "other"} : Taken(a)' = how
  BY <1>1 DEF Taken
<1>5. [b \in Attempts |-> Taken(b)]' = [[b \in Attempts |-> Taken(b)] EXCEPT ![a] = how]
  BY <1>2, <1>4
<1>6. {b \in Attempts : is_settled(b)}' = {b \in Attempts : is_settled(b)}
  BY <1>1 DEF is_settled
<1>7. Promise!Take(a)
  BY <1>1, <1>3, <1>5, <1>6 DEF Promise!Take
<1> QED BY <1>7 DEF Promise!Next

LEMMA PromiseStep ==
  ASSUME NEW r \in References, TypeOK, SettleInv, OnceInv(r), [Next]_vars
  PROVE  [Promise!Next]_(Promise!vars)
<1> USE DEF whmcs, bridge
<1>1. CASE UNCHANGED vars
  BY <1>1 DEF vars, Promise!vars, Taken, TakenAsAsked, AmountRial, is_settled
<1>2. CASE Next
  <2>1. Monotone
    BY <1>2, NextMonotone
  <2>2. ASSUME UNCHANGED <<row, session, credits, unconfirmed>> PROVE UNCHANGED Promise!vars
    BY <2>1, <2>2, PromiseStutter DEF is_settled
  <2>3. ASSUME NEW a \in Attempts, StartStep(a) PROVE [Promise!Next]_(Promise!vars)
    <3>1. /\ UNCHANGED <<credits, unconfirmed>>
          /\ \A b \in Attempts \ {a} : row'[b] = row[b] /\ session'[b] = session[b]
          /\ session[a].state # "paid" /\ session'[a].state # "paid"
      BY <2>3 DEF TypeOK, SettleInv, AttemptInv, StartStep, Start, request_payment,
         RequestRefused, SaveTrackId, StartDies
    <3>2. ASSUME NEW b \in Attempts PROVE Taken(b)' = Taken(b)
      BY <3>1 DEF Taken, TakenAsAsked, AmountRial
    <3>3. ASSUME NEW b \in Attempts PROVE is_settled(b) <=> is_settled(b)'
      <4>1. row[a] \in PaymentAttempt /\ AttemptInv(a)
        BY DEF TypeOK, SettleInv
      <4>2. row[a].status \in {"absent", "pending"}
        BY <2>3, <4>1 DEF AttemptInv, StartStep, Start, request_payment, RequestRefused,
           SaveTrackId, StartDies
      <4>3. row'[a] = row[a] \/ row'[a].status \in {"pending", "failed", "redirected"}
        BY <2>3, <4>1 DEF TypeOK, PaymentAttempt, StartStep, Start, request_payment,
           RequestRefused, SaveTrackId, StartDies
      <4> QED BY <3>1, <4>2, <4>3 DEF is_settled
    <3> QED BY <3>1, <3>2, <3>3 DEF Promise!vars
  <2>4. ASSUME NEW a \in Attempts, CustomerPays(a) PROVE [Promise!Next]_(Promise!vars)
    BY <2>4, PromiseTake
  <2>5. ASSUME NEW w \in Settlers, SettleStep(w) \/ SettlerDies(w)
        PROVE  [Promise!Next]_(Promise!vars)
    <3>1. CASE verify(w) \/ VerifyUnreachable(w) \/ RecordRaises(w) \/ RecordTimesOut(w)
               \/ SettlerDies(w)
      BY <2>2, <3>1 DEF verify, VerifyUnreachable, RecordRaises, RecordTimesOut, SettlerDies
    <3>2. CASE ApplySettled(w) \/ ApplyUnpaid(w) \/ ApplyMismatch(w) \/ ApplyPaid(w)
      <4>1. PICK a \in Attempts : a = settler[w].attempt
        BY <3>2 DEF SettleInv, SettlerInv, ApplySettled, ApplyUnpaid, ApplyMismatch, ApplyPaid
      <4>2. PICK status \in PaymentStatus :
              /\ row' = [row EXCEPT ![a].status = status]
              /\ is_settled(a) <=> status = "recorded"
        BY <3>2, <4>1 DEF ApplySettled, ApplyUnpaid, ApplyMismatch, ApplyPaid, Conclude,
           PaymentStatus
      <4>3. \A b \in Attempts : is_settled(b) <=> is_settled(b)'
        BY <4>2 DEF TypeOK, PaymentAttempt, is_settled
      <4>4. UNCHANGED <<session, credits, unconfirmed>>
        BY <3>2 DEF ApplySettled, ApplyUnpaid, ApplyMismatch, ApplyPaid, Conclude
      <4> QED BY <2>1, <4>3, <4>4, PromiseStutter
    <3>3. CASE record_payment(w)
      <4>1. PICK a \in Attempts : a = settler[w].attempt /\ TakenAsAsked(a)
        BY <3>3 DEF SettleInv, SettlerInv, record_payment
      <4>2. settler[w].answer.ref = r
        BY <3>3 DEF OnceInv, record_payment
      <4>3. <<a, r>> \notin transids /\ Credit(<<a, r>>)
            /\ UNCHANGED <<row, session, unconfirmed>>
        BY <3>3, <4>1, <4>2 DEF record_payment, TransactionId
      <4> QED BY <2>1, <4>1, <4>3, PromiseCredit
    <3>4. CASE SaveRecorded(w)
      BY <2>1, <3>4, PromiseClose
    <3>5. CASE RecordUnconfirmed(w)
      BY <3>5, PromisePresume
    <3> QED BY <2>5, <3>1, <3>2, <3>3, <3>4, <3>5 DEF SettleStep
  <2>6. ASSUME NEW t \in late, LateArrives(t) PROVE [Promise!Next]_(Promise!vars)
    <3>1. PICK a \in Attempts : t = <<a, r>> /\ TakenAsAsked(a)
      BY DEF TypeOK, SettleInv, OnceInv
    <3>2. CASE t \in transids
      BY <2>2, <2>6, <3>2 DEF LateArrives
    <3>3. CASE t \notin transids
      BY <2>1, <2>6, <3>1, <3>3, PromiseCredit DEF LateArrives
    <3> QED BY <3>2, <3>3
  <2>7. CASE \/ \E a \in Attempts : Age(a)
             \/ \E b \in Browsers, a \in Attempts : Callback(b, a)
             \/ \E j \in Jobs : Reconcile(j) \/ \E a \in Attempts : ReconcileNext(j, a)
             \/ \E i \in Invoices : InvoiceCancelled(i) \/ PaidElsewhere(i)
    BY <2>2, <2>7 DEF Age, Callback, Reconcile, ReconcileNext, InvoiceCancelled, PaidElsewhere
  <2> QED BY <1>2, <2>3, <2>4, <2>5, <2>6, <2>7 DEF Next
<1> QED BY <1>1, <1>2

\* The checkout implements Settlement: however the settles interleave, crash or
\* are replayed, an attempt's money is taken, credited (or, after an answer that
\* confirms nothing, presumed to be) and closed once each, in this order - provided
\* every verify answer names the same reference.
THEOREM PromiseKept ==
  ASSUME NEW r \in References, RefAnswers = {r} PROVE Spec => KeepsPromise
<1>1. TypeOK /\ SettleInv /\ OnceInv(r) /\ [Next]_vars => [Promise!Next]_(Promise!vars)
  BY PromiseStep
<1> QED BY <1>1, PromiseInit, Invariance, OnceInvariance, PTL
        DEF Spec, KeepsPromise, Promise!Spec
-----------------------------------------------------------------------------
(* The promise says enough: whatever implements it, this code or another, is  *)
(* safe.                                                                      *)

PromisedInv ==
  /\ credits \in [Attempts -> {0, 1}]
  /\ \A a \in Attempts : credits[a] = 1 => Taken(a) = "asked"
  /\ \A a \in Attempts : is_settled(a) => credits[a] = 1 \/ a \in unconfirmed

LEMMA PromisedStep ==
  ASSUME PromisedInv, [Promise!Next]_(Promise!vars) PROVE PromisedInv'
<1> DEFINE taken  == [a \in Attempts |-> Taken(a)]
           closed == {a \in Attempts : is_settled(a)}
<1>1. \A a \in Attempts : /\ taken[a] = Taken(a) /\ taken'[a] = Taken(a)'
                          /\ a \in closed <=> is_settled(a)
                          /\ a \in closed' <=> is_settled(a)'
  OBVIOUS
<1>2. taken = [a \in Attempts |-> taken[a]]
  OBVIOUS
<1>3. CASE UNCHANGED Promise!vars
  <2>1. UNCHANGED <<taken, closed, credits, unconfirmed>>
    BY <1>3 DEF Promise!vars
  <2> HIDE DEF taken, closed
  <2> QED BY <1>1, <2>1 DEF PromisedInv
<1>4. ASSUME NEW a \in Attempts, Promise!Take(a) PROVE PromisedInv'
  <2>1. PICK how : taken[a] = "nothing" /\ taken' = [taken EXCEPT ![a] = how]
    BY <1>4 DEF Promise!Take
  <2>2. UNCHANGED <<closed, credits, unconfirmed>>
    BY <1>4 DEF Promise!Take
  <2> HIDE DEF taken, closed
  <2> QED BY <1>1, <1>2, <2>1, <2>2 DEF PromisedInv
<1>5. ASSUME NEW a \in Attempts, Promise!Credit(a) PROVE PromisedInv'
  <2>1. /\ taken[a] = "asked" /\ UNCHANGED <<taken, closed, unconfirmed>>
        /\ credits' = [credits EXCEPT ![a] = 1]
    BY <1>5 DEF Promise!Credit
  <2> HIDE DEF taken, closed
  <2> QED BY <1>1, <2>1 DEF PromisedInv
<1>6. ASSUME NEW a \in Attempts, Promise!Close(a) PROVE PromisedInv'
  <2>1. /\ credits[a] = 1 \/ a \in unconfirmed
        /\ closed' = closed \cup {a} /\ UNCHANGED <<taken, credits, unconfirmed>>
    BY <1>6 DEF Promise!Close
  <2> HIDE DEF taken, closed
  <2> QED BY <1>1, <2>1 DEF PromisedInv
<1>7. ASSUME NEW a \in Attempts, Promise!Presume(a) PROVE PromisedInv'
  <2>1. unconfirmed' = unconfirmed \cup {a} /\ UNCHANGED <<taken, closed, credits>>
    BY <1>7 DEF Promise!Presume
  <2> HIDE DEF taken, closed
  <2> QED BY <1>1, <2>1 DEF PromisedInv
<1> QED BY <1>3, <1>4, <1>5, <1>6, <1>7 DEF Promise!Next

\* ARCHITECTURE.md, section 5b-2: money is credited once, only in the amount
\* taken, and an attempt is closed only when credited or answered as if it were -
\* all of it follows from Settlement alone, for any way of implementing it.
THEOREM PromiseSuffices ==
  KeepsPromise => [](CreditedOnce /\ CreditOnlyMoneyTaken /\ RecordedIsCredited)
<1>1. Promise!Init => PromisedInv
  <2> SUFFICES ASSUME Promise!Init PROVE PromisedInv
    OBVIOUS
  <2>1. credits = [a \in Attempts |-> 0] /\ {a \in Attempts : is_settled(a)} = {}
    BY DEF Promise!Init
  <2> QED BY <2>1 DEF PromisedInv
<1>2. PromisedInv /\ [Promise!Next]_(Promise!vars) => PromisedInv'
  BY PromisedStep
<1>3. PromisedInv => CreditedOnce /\ CreditOnlyMoneyTaken /\ RecordedIsCredited
  <2> SUFFICES ASSUME PromisedInv, NEW a \in Attempts
               PROVE  /\ credits[a] <= 1
                      /\ credits[a] > 0 => TakenAsAsked(a)
                      /\ is_settled(a) => credits[a] > 0 \/ a \in unconfirmed
    BY DEF CreditedOnce, CreditOnlyMoneyTaken, RecordedIsCredited, Credited
  <2>1. credits[a] \in {0, 1}
    BY DEF PromisedInv
  <2>2. Taken(a) = "asked" => TakenAsAsked(a)
    BY DEF Taken
  <2> QED BY <2>1, <2>2 DEF PromisedInv
<1> QED BY <1>1, <1>2, <1>3, PTL DEF KeepsPromise, Promise!Spec
-----------------------------------------------------------------------------
(* What becomes of a paid row *)

PaidInv ==
  \A a \in Attempts : row[a].status = "paid" => row[a].tracked /\ TakenAsAsked(a)

\* A settle is about to apply an answer that denies the payment (given before the
\* customer paid, or with another of Zibal's results than 100 and 201) ...
DenialApplied(a) ==
  \E w \in Settlers :
    settler[w].at = "apply" /\ settler[w].attempt = a /\ ~settler[w].answer.paid

\* ... or one that has left out the amount.
NoAmountApplied(a) ==
  /\ "no_amount" \in OddAnswers
  /\ \E w \in Settlers : /\ settler[w].at = "apply" /\ settler[w].attempt = a
                         /\ settler[w].answer.paid /\ settler[w].answer.amount = 0

PaidLeavesFor(a, status) ==
  \/ status = "recorded"
  \/ status = "failed" /\ DenialApplied(a)
  \/ status = "mismatch" /\ NoAmountApplied(a)

\* What may happen to the status of a row that is paid, or becomes so.
LEMMA PaidRow ==
  ASSUME TypeOK, SettleInv, PaidInv, [Next]_vars, NEW a \in Attempts
  PROVE  \/ row'[a].status = row[a].status
         \/ row[a].status # "paid" /\ row'[a].status # "paid"
         \/ row[a].status = "paid" /\ PaidLeavesFor(a, row'[a].status)
         \/ row'[a].status = "paid" /\ row[a].tracked /\ TakenAsAsked(a)
<1> USE DEF whmcs, bridge
<1>1. AttemptInv(a) /\ row \in [Attempts -> PaymentAttempt]
  BY DEF SettleInv, TypeOK
<1>2. CASE UNCHANGED row
  BY <1>2
<1>3. ASSUME NEW b \in Attempts, StartStep(b)
      PROVE  \/ row'[a].status = row[a].status
             \/ row[a].status # "paid" /\ row'[a].status # "paid"
  <2>1. starting[a] # "idle" => row[a].status = "pending"
    BY <1>1 DEF AttemptInv
  <2> QED BY <1>1, <1>3, <2>1 DEF StartStep, Start, request_payment, RequestRefused,
          SaveTrackId, StartDies, PaymentAttempt
<1>4. ASSUME NEW w \in Settlers, SettleStep(w), settler[w].attempt # a
      PROVE  row'[a].status = row[a].status
  BY <1>1, <1>4 DEF SettleStep, verify, VerifyUnreachable, ApplySettled, ApplyUnpaid,
     ApplyMismatch, ApplyPaid, record_payment, RecordUnconfirmed, RecordRaises, RecordTimesOut,
     SaveRecorded, Conclude, PaymentAttempt
<1>5. ASSUME NEW w \in Settlers, settler[w].attempt = a, SettleStep(w)
      PROVE  \/ row'[a].status = row[a].status
             \/ row[a].status # "paid" /\ row'[a].status # "paid"
             \/ row[a].status = "paid" /\ PaidLeavesFor(a, row'[a].status)
             \/ row'[a].status = "paid" /\ row[a].tracked /\ TakenAsAsked(a)
  <2>1. SettlerInv(settler[w])
    BY DEF SettleInv
  <2>2. CASE verify(w) \/ VerifyUnreachable(w) \/ record_payment(w) \/ RecordUnconfirmed(w)
             \/ RecordRaises(w) \/ RecordTimesOut(w)
    BY <2>2 DEF verify, VerifyUnreachable, record_payment, RecordUnconfirmed, RecordRaises,
       RecordTimesOut
  <2>3. CASE ApplySettled(w) \/ SaveRecorded(w)
    <3>1. row'[a].status = "recorded"
      BY <1>1, <1>5, <2>3 DEF ApplySettled, SaveRecorded, Conclude, PaymentAttempt
    <3> QED BY <3>1 DEF PaidLeavesFor
  <2>4. CASE ApplyUnpaid(w)
    <3>1. row'[a].status = "failed"
      BY <1>1, <1>5, <2>4 DEF ApplyUnpaid, Conclude, PaymentAttempt
    <3>2. DenialApplied(a)
      BY <1>5, <2>4 DEF ApplyUnpaid, DenialApplied
    <3> QED BY <3>1, <3>2 DEF PaidLeavesFor
  <2>5. CASE ApplyMismatch(w)
    <3>1. row'[a].status = "mismatch"
      BY <1>1, <1>5, <2>5 DEF ApplyMismatch, Conclude, PaymentAttempt
    <3>2. ~TakenAsAsked(a) \/ NoAmountApplied(a)
      BY <1>5, <2>1, <2>5 DEF ApplyMismatch, SettlerInv, TakenAsAsked, NoAmountApplied
    <3> QED BY <3>1, <3>2 DEF PaidInv, PaidLeavesFor
  <2>6. CASE ApplyPaid(w)
    <3>1. row'[a].status = "paid"
      BY <1>1, <1>5, <2>6 DEF ApplyPaid, PaymentAttempt
    <3>2. row[a].tracked /\ TakenAsAsked(a)
      <4>1. row[a].tracked /\ AmountRial(a) > 0
        BY <1>1, <1>5, <2>1, <2>6 DEF ApplyPaid, SettlerInv, AttemptInv
      <4> QED BY <1>5, <2>1, <2>6, <4>1 DEF ApplyPaid, SettlerInv, TakenAsAsked
    <3> QED BY <3>1, <3>2
  <2> QED BY <1>5, <2>2, <2>3, <2>4, <2>5, <2>6 DEF SettleStep
<1> QED BY <1>2, <1>3, <1>4, <1>5
        DEF Next, vars, CustomerPays, Age, Callback, Reconcile, ReconcileNext, SettlerDies,
            LateArrives, InvoiceCancelled, PaidElsewhere

LEMMA PaidStep ==
  ASSUME TypeOK, SettleInv, PaidInv, [Next]_vars
  PROVE  PaidInv'
<1>1. CASE UNCHANGED vars
  BY <1>1 DEF vars, PaidInv, TakenAsAsked, AmountRial
<1>2. CASE Next
  <2> SUFFICES ASSUME NEW a \in Attempts, row'[a].status = "paid"
               PROVE  row'[a].tracked /\ TakenAsAsked(a)'
    BY DEF PaidInv
  <2>1. row[a].tracked /\ TakenAsAsked(a)
    BY PaidRow DEF PaidInv, PaidLeavesFor
  <2>2. Monotone
    BY <1>2, NextMonotone
  <2> QED BY <2>1, <2>2, TakenStays DEF Monotone
<1> QED BY <1>1, <1>2

LEMMA PaidInvariance == Spec => []PaidInv
<1>1. Init => PaidInv
  BY DEF Init, PaidInv
<1>2. TypeOK /\ SettleInv /\ PaidInv /\ [Next]_vars => PaidInv'
  BY PaidStep
<1> QED BY <1>1, <1>2, Invariance, PTL DEF Spec

\* services.py, "keep the row as PAID so reconciliation retries it": until it is
\* recorded, a paid row is one of those that reconcile_payments selects, for as long
\* as it is young enough, and the money was taken as it was asked for.  The other
\* ways out are an answer of the gateway, older or newer than the one that made the
\* row paid, that denies the payment or leaves out its amount.
THEOREM PaidIsReconcilable ==
  Spec => /\ []\A a \in Attempts :
                 row[a].status = "paid" => TakenAsAsked(a) /\ (a \in aged \/ a \in Reconcilable)
          /\ [][\A a \in Attempts :
                  row[a].status = "paid" =>
                    row'[a].status = "paid" \/ PaidLeavesFor(a, row'[a].status)]_vars
<1> DEFINE Kept == \A a \in Attempts :
                     row[a].status = "paid" => TakenAsAsked(a) /\ (a \in aged \/ a \in Reconcilable)
           Moves == \A a \in Attempts :
                      row[a].status = "paid" =>
                        row'[a].status = "paid" \/ PaidLeavesFor(a, row'[a].status)
<1>1. PaidInv => Kept
  BY DEF PaidInv, Reconcilable
<1>2. TypeOK /\ SettleInv /\ PaidInv /\ [Next]_vars => [Moves]_vars
  BY PaidRow
<1> QED BY <1>1, <1>2, PaidInvariance, Invariance, PTL DEF Spec
=============================================================================
