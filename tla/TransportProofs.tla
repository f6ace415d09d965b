--------------------------- MODULE TransportProofs ---------------------------
(***************************************************************************)
(* Theorems of Transport and Errors, for every number of retries: what a   *)
(* caller, and the storefront, may conclude about a write from the way its *)
(* call ended.                                                             *)
(***************************************************************************)
EXTENDS Errors, TLAPS

\* No writing action of the allowlist begins with an idempotent prefix.
LEMMA WritesAreNotRetried ==
  ASSUME NEW action \in Writes
  PROVE  Attempts(action) = 1
<1>1. action[1] \in {"Add", "Update", "Accept", "Domain", "Cancel", "Upgrade", "Module", "Open"}
  BY DEF Writes
<1> QED BY <1>1 DEF Attempts, _is_idempotent, IDEMPOTENT_PREFIXES

\* The allowlist lets every write through.
LEMMA WritesAreAllowed ==
  ASSUME NEW action \in Writes
  PROVE  _check_action(action)
<1>1. action \in ALLOWED_ACTIONS
  BY DEF ALLOWED_ACTIONS
<1>2. action[1] \in {"Delete", "Decrypt", "Get", "Set", "Send"} => FALSE
  BY DEF Writes
<1>3. action[1] = "Module" => action[2] = "ChangePw"
  BY DEF Writes
<1>4. action[1] = "Add" => action[2] \in {"Client", "Contact", "Order", "CancelRequest",
                                          "InvoicePayment", "TicketReply"}
  BY DEF Writes
<1>5. action \notin FORBIDDEN_ACTIONS
  <2> SUFFICES ASSUME action \in FORBIDDEN_ACTIONS PROVE FALSE
    OBVIOUS
  <2>1. \/ action[1] \in {"Delete", "Decrypt", "Get", "Set", "Send"}
        \/ action[1] = "Module" /\ action[2] \in {"Terminate", "Suspend"}
        \/ action[1] = "Add" /\ action[2] \in {"BannedIp", "Credit"}
    BY DEF FORBIDDEN_ACTIONS
  <2> QED BY <1>2, <1>3, <1>4, <2>1
<1> QED BY <1>1, <1>5 DEF _check_action

\* What an answer lets _parse conclude is true of what was done.
LEMMA AnswersAreTrue ==
  ASSUME NEW done \in BOOLEAN, NEW response \in Answers(done)
  PROVE  /\ response # NoResponse
         /\ \A result \in _parse(response) :
              /\ result \in ApiErrors => ~done
              /\ result = "data" /\ response.status = "2xx" => done
<1>1. response.status \in Status /\ response.body \in Body
  BY DEF Answers, Status, Body
<1>2. response # NoResponse
  BY <1>1 DEF NoResponse, Status
<1>3. CASE done
  <2>1. \/ response.body \in {"text", "success"}
        \/ response.body = "object" /\ response.status # "2xx"
    BY <1>3 DEF Answers
  <2>2. response.status # "429"
    BY <1>3 DEF Answers
  <2> QED BY <1>2, <1>3, <2>1, <2>2 DEF _parse, ApiErrors
<1>4. CASE ~done
  <2>1. \/ response.body \in {"text", "error"}
        \/ response.status = "429"
        \/ response.body = "object" /\ response.status # "2xx"
    BY <1>4 DEF Answers
  <2> QED BY <1>2, <1>4, <2>1 DEF _parse, ApiErrors
<1> QED BY <1>3, <1>4

Call == [at : {"start", "post", "wait", "sleep", "done"}, action : Asked,
         attempt : 0 .. MaxRetries, status : Status \cup {"none"},
         result : Results \cup {"none", "config"}]

Inv == TypeOK /\ RetryInv /\ WriteInv

LEMMA AttemptsBound ==
  ASSUME NEW action
  PROVE  Attempts(action) \in 1 .. MaxRetries + 1
  BY RetryAssumption DEF Attempts

LEMMA InitInv == Init => Inv
<1> SUFFICES ASSUME Init PROVE Inv
  OBVIOUS
<1>1. TypeOK
  BY RetryAssumption DEF Init, TypeOK
<1>2. RetryInv
  BY AttemptsBound, RetryAssumption DEF Init, RetryInv
<1> QED BY <1>1, <1>2 DEF Inv, WriteInv, Init, Carried, ApiErrors

LEMMA ParseType ==
  ASSUME NEW response
  PROVE  _parse(response) \subseteq Results
  BY DEF _parse, Results, ApiErrors

LEMMA AnswerType ==
  ASSUME NEW done \in BOOLEAN
  PROVE  Answers(done) \subseteq Response
  BY DEF Answers, Response, Status, Body

\* A failed attempt ends the call, or leaves one more attempt.
LEMMA FailStep ==
  ASSUME TypeOK, RetryInv, Fail
  PROVE  /\ call' \in Call
         /\ call'.action = call.action
         /\ RetryInv'
         /\ Attempts(call.action) = 1 =>
              call' = [call EXCEPT !.at = "done", !.result = "transport"]
<1>1. call \in Call /\ Attempts(call.action) \in 1 .. MaxRetries + 1
  BY AttemptsBound DEF TypeOK, Call
<1>2. CASE call.attempt + 1 >= Attempts(call.action)
  <2>1. call' = [call EXCEPT !.at = "done", !.result = "transport"]
    BY <1>2 DEF Fail, Return
  <2>2. call' \in Call /\ call'.at = "done"
    BY <1>1, <2>1 DEF Call, Results
  <2>3. call'.action = call.action /\ call'.attempt = call.attempt
    BY <1>1, <2>1 DEF Call
  <2> QED BY <2>1, <2>2, <2>3 DEF RetryInv
<1>3. CASE ~(call.attempt + 1 >= Attempts(call.action))
  <2>1. call' = [call EXCEPT !.at = "sleep"]
    BY <1>3 DEF Fail
  <2>2. call' \in Call /\ call'.action = call.action /\ call'.attempt = call.attempt
    BY <1>1, <2>1 DEF Call
  <2>3. call.attempt \in Nat /\ Attempts(call.action) # 1
    BY <1>1, <1>3, RetryAssumption DEF Call
  <2>4. call.attempt + 1 < Attempts(call.action)
    BY <1>1, <1>3, <2>3, RetryAssumption
  <2> QED BY <2>2, <2>3, <2>4 DEF RetryInv
<1> QED BY <1>2, <1>3

\* The loop never goes beyond its last attempt.
LEMMA LoopStep ==
  ASSUME TypeOK, RetryInv, [Next]_vars
  PROVE  TypeOK' /\ RetryInv' /\ call'.action = call.action
<1> USE DEF Call
<1>1. call \in Call /\ Attempts(call.action) \in 1 .. MaxRetries + 1
  BY AttemptsBound DEF TypeOK
<1>2. CASE Check
  BY <1>1, <1>2 DEF TypeOK, RetryInv, Check, Return
<1>3. CASE Post
  BY <1>1, <1>3 DEF TypeOK, RetryInv, Post, Response
<1>4. CASE ConnectFails \/ TimesOut
  BY <1>4, FailStep DEF TypeOK, ConnectFails, TimesOut
<1>5. CASE Receive
  <2>1. PICK result \in Results :
          IF result = "transport" THEN Fail
          ELSE call' = [call EXCEPT !.at = "done", !.result = result, !.status = answer.status]
    BY <1>5, ParseType DEF Receive
  <2>2. answer.status \in Status /\ UNCHANGED <<wire, answer, applied>>
    BY <1>5 DEF Receive, TypeOK, Response
  <2>3. CASE result = "transport"
    BY <2>1, <2>2, <2>3, FailStep DEF TypeOK
  <2>4. CASE result # "transport"
    <3>1. call' = [call EXCEPT !.at = "done", !.result = result, !.status = answer.status]
      BY <2>1, <2>4
    <3>2. /\ call' \in Call
          /\ call'.action = call.action /\ call'.attempt = call.attempt /\ call'.at = "done"
      BY <1>1, <2>2, <3>1
    <3> QED BY <2>2, <3>2 DEF TypeOK, RetryInv
  <2> QED BY <2>3, <2>4
<1>6. CASE Wake
  <2>1. call' = [call EXCEPT !.at = "post", !.attempt = @ + 1] /\ call.at = "sleep"
    BY <1>6 DEF Wake
  <2>2. call.attempt + 1 < Attempts(call.action)
    BY <2>1 DEF RetryInv
  <2>3. call.attempt + 1 \in 0 .. MaxRetries
    BY <1>1, <2>2, RetryAssumption
  <2>4. /\ call' \in Call
        /\ call'.action = call.action /\ call'.at = "post"
        /\ call'.attempt = call.attempt + 1
    BY <1>1, <2>1, <2>3
  <2> QED BY <1>6, <2>2, <2>4 DEF TypeOK, RetryInv, Wake
<1>7. ASSUME NEW n \in wire, NEW done \in BOOLEAN, Process(n, done)
      PROVE  TypeOK' /\ RetryInv' /\ call'.action = call.action
  BY <1>7, AnswerType DEF TypeOK, RetryInv, Process
<1>8. CASE UNCHANGED vars
  BY <1>8 DEF vars, TypeOK, RetryInv
<1>9. CASE Undecodable
  <2>1. call' \in Call /\ call'.action = call.action /\ call'.at = "done"
        /\ call'.attempt = call.attempt
    BY <1>1, <1>9 DEF Undecodable, Return, Results
  <2> QED BY <1>9, <2>1 DEF TypeOK, RetryInv, Undecodable
<1> QED BY <1>2, <1>3, <1>4, <1>5, <1>6, <1>7, <1>8, <1>9 DEF Next

\* A write has one attempt, and its answer tells what became of it.
LEMMA WriteStep ==
  ASSUME TypeOK, RetryInv, WriteInv, [Next]_vars
  PROVE  WriteInv'
<1> USE DEF Call, Return, IsWrite
<1>1. call \in Call /\ call' \in Call /\ call'.action = call.action
  BY LoopStep DEF TypeOK
<1> SUFFICES ASSUME call.action \in Writes PROVE WriteInv'
  BY <1>1 DEF WriteInv
<1>2. Attempts(call.action) = 1
  BY WritesAreNotRetried
<1>3. CASE Check
  BY <1>1, <1>3, WritesAreAllowed DEF WriteInv, Check, Carried, ApiErrors
<1>4. CASE Post
  BY <1>1, <1>4 DEF WriteInv, Post, Carried, ApiErrors
<1>5. CASE ConnectFails \/ TimesOut
  <2>1. call' = [call EXCEPT !.at = "done", !.result = "transport"]
    BY <1>2, <1>5, FailStep DEF ConnectFails, TimesOut
  <2>2. /\ call'.action = call.action /\ call'.attempt = call.attempt
        /\ call'.at = "done" /\ call'.result = "transport"
    BY <1>1, <2>1
  <2>3. wire' \subseteq wire /\ UNCHANGED <<answer, applied>>
    BY <1>5 DEF ConnectFails, TimesOut
  <2> QED BY <2>2, <2>3 DEF WriteInv, Carried, ApiErrors
<1>6. CASE Receive
  <2>1. PICK result \in _parse(answer) :
          IF result = "transport" THEN Fail
          ELSE call' = [call EXCEPT !.at = "done", !.result = result, !.status = answer.status]
    BY <1>6 DEF Receive
  <2>2. Carried(result, answer.status) /\ Carried("transport", call.status) /\ UNCHANGED <<wire, answer, applied>>
    BY <1>6, <2>1 DEF WriteInv, Receive, Carried, ApiErrors
  <2>5. result # "config" /\ result # "none"
    BY <2>1, ParseType DEF Results, ApiErrors
  <2>3. \/ call' = [call EXCEPT !.at = "done", !.result = "transport"]
        \/ call' = [call EXCEPT !.at = "done", !.result = result, !.status = answer.status]
    BY <1>2, <2>1, FailStep
  <2>4. /\ call'.attempt = call.attempt /\ call'.at = "done"
        /\ \/ call'.result = "transport"
           \/ call'.result = result /\ call'.status = answer.status
    BY <1>1, <2>3
  <2> QED BY <2>2, <2>4, <2>5 DEF WriteInv, Carried
<1>7. CASE Wake
  BY <1>7 DEF WriteInv, Wake
<1>8. ASSUME NEW n \in wire, NEW done \in BOOLEAN, Process(n, done)
      PROVE  WriteInv'
  <2>1. /\ wire = {0} /\ n = 0 /\ applied = 0
        /\ call.attempt = 0
        /\ wire' = {}
        /\ applied' = IF done THEN 1 ELSE 0
        /\ call' = call
    BY <1>8 DEF WriteInv, Process
  <2>2. call.at \in {"wait", "done"}
    BY <1>1, <2>1 DEF WriteInv
  <2>3. CASE call.at = "wait"
    <3>1. answer' \in Answers(done)
      BY <1>8, <2>1, <2>3 DEF Process
    <3>2. \A result \in _parse(answer') : Carried(result, answer.status)'
      BY <2>1, <3>1, AnswersAreTrue DEF Carried
    <3> QED BY <2>1, <2>3, <3>2 DEF WriteInv, Carried, ApiErrors
  <2>4. CASE call.at = "done"
    BY <2>1, <2>4 DEF WriteInv, Carried
  <2> QED BY <2>2, <2>3, <2>4
<1>9. CASE UNCHANGED vars
  BY <1>9 DEF vars, WriteInv, Carried
<1>10. CASE Undecodable
  <2>1. /\ call'.at = "done" /\ call'.result = "undecoded"
        /\ call'.attempt = call.attempt /\ call'.status = call.status
    BY <1>1, <1>10 DEF Undecodable
  <2> QED BY <1>10, <2>1 DEF WriteInv, Undecodable, Carried, ApiErrors
<1> QED BY <1>3, <1>4, <1>5, <1>6, <1>7, <1>8, <1>9, <1>10 DEF Next

\* The inductive invariant.
THEOREM CallInvariance == Spec => []Inv
<1>1. Init => Inv
  BY InitInv
<1>2. Inv /\ [Next]_vars => Inv'
  BY LoopStep, WriteStep DEF Inv
<1> QED BY <1>1, <1>2, PTL DEF Spec

\* A call stays well formed, and within its attempts, whoever answers it.
THEOREM CallTypeCorrect == Spec => [](TypeOK /\ RetryInv)
<1>1. Init => TypeOK /\ RetryInv
  BY InitInv DEF Inv
<1>2. TypeOK /\ RetryInv /\ [Next]_vars => (TypeOK /\ RetryInv)'
  BY LoopStep
<1> QED BY <1>1, <1>2, PTL DEF Spec

\* A write is carried out once at most, during its call and after it.
THEOREM WritesHappenOnce == Spec => []WriteAppliedOnce
<1>1. Inv => WriteAppliedOnce
  BY DEF Inv, WriteInv, WriteAppliedOnce
<1> QED BY <1>1, CallInvariance, PTL

\* A write that WHMCS has rejected did not happen, and will not.
THEOREM RejectionsAreFinal == Spec => []RejectedIsNotApplied
<1>1. Inv => RejectedIsNotApplied
  BY DEF Inv, WriteInv, RejectedIsNotApplied, Carried
<1> QED BY <1>1, CallInvariance, PTL

\* A write that was answered with the data of a 2xx answer has happened.
THEOREM SuccessesAreTrue == Spec => []SuccessIsApplied
<1>1. Inv => SuccessIsApplied
  BY DEF Inv, WriteInv, SuccessIsApplied, Carried
<1> QED BY <1>1, CallInvariance, PTL

\* The tables, row by row.
LEMMA Tables ==
  /\ DOMAIN _WHMCS_MAP = {"auth", "not_found", "validation", "rate_limited", "transport"}
  /\ _WHMCS_MAP["transport"].code = "upstream_unreachable"
  /\ _WHMCS_MAP["validation"].status = 400
  /\ \A kind \in DOMAIN _WHMCS_MAP : kind # "validation" => _WHMCS_MAP[kind].quotes = FALSE
  /\ \A kind \in DOMAIN Known : Known[kind].quotes = FALSE
<1>1. DOMAIN _WHMCS_MAP = {"auth", "not_found", "validation", "rate_limited", "transport"}
  BY DEF _WHMCS_MAP
<1>2. DOMAIN Known = {"api", "http404", "permission"}
  BY DEF Known
<1>3. \A kind \in DOMAIN Known : Known[kind].quotes = FALSE
  BY <1>2 DEF Known, Reply
<1>4. \A kind \in DOMAIN _WHMCS_MAP : kind # "validation" => _WHMCS_MAP[kind].quotes = FALSE
  BY <1>1 DEF _WHMCS_MAP, Reply
<1>5. _WHMCS_MAP["transport"].code = "upstream_unreachable" /\ _WHMCS_MAP["validation"].status = 400
  BY DEF _WHMCS_MAP, Reply
<1> QED BY <1>1, <1>3, <1>4, <1>5

\* The handler leaves the answer to an exception of the table to the table.
LEMMA TableIsUsed ==
  ASSUME NEW result \in DOMAIN _WHMCS_MAP
  PROVE  api_exception_handler(OfCall(result)) = _WHMCS_MAP[result]
<1>1. OfCall(result).kind = result /\ result # "application"
  BY Tables DEF OfCall
<1> QED BY <1>1 DEF api_exception_handler

\* A code that is not uncertain does not come from a transport error, nor from what
\* escapes the retry loop.
LEMMA CertainAnswers ==
  ASSUME Refused, Answered.code \notin Uncertain
  PROVE  call.result \notin {"transport", "undecoded"}
<1> SUFFICES ASSUME call.result \in {"transport", "undecoded"} PROVE FALSE
  OBVIOUS
<1>1. CASE call.result = "transport" /\ call.action = <<"Add", "Order">>
  BY <1>1 DEF Answered, Raised, Own, api_exception_handler, Reply, Uncertain
<1>2. CASE call.result = "transport" /\ call.action # <<"Add", "Order">>
  <2>1. Raised(call.action, call.result) = OfCall("transport")
    BY <1>2 DEF Raised
  <2>2. Answered = _WHMCS_MAP["transport"]
    BY <2>1, Tables, TableIsUsed DEF Answered
  <2> QED BY <2>2, Tables DEF Uncertain
<1>3. CASE call.result = "undecoded"
  <2>1. Raised(call.action, call.result) = OfCall("undecoded")
    BY <1>3 DEF Raised
  <2>2. OfCall("undecoded").kind \notin {"application"} \cup DOMAIN _WHMCS_MAP \cup DOMAIN Known
    BY Tables DEF OfCall, Known
  <2>3. Answered = Reply(500, "internal_error", FALSE)
    BY <2>1, <2>2 DEF Answered, api_exception_handler
  <2> QED BY <2>3 DEF Reply, Uncertain
<1> QED BY <1>1, <1>2, <1>3

\* WHMCS is quoted when it has rejected the parameters, and never else.
LEMMA QuotedAnswers ==
  ASSUME TypeOK, Refused, Answered.quotes = TRUE
  PROVE  call.result = "validation" /\ Answered.status = 400 /\ call.action # <<"Validate", "Login">>
<1>1. Raised(call.action, call.result) = OfCall(call.result)
  BY DEF Answered, Raised, Own, api_exception_handler, Reply
<1>2. Answered = api_exception_handler(OfCall(call.result))
  BY <1>1 DEF Answered
<1>3. call.result \in DOMAIN _WHMCS_MAP
  BY <1>2, Tables DEF OfCall, api_exception_handler, Reply
<1>4. Answered = _WHMCS_MAP[call.result]
  BY <1>2, <1>3, TableIsUsed
<1>5. call.result = "validation"
  BY <1>3, <1>4, Tables
<1>6. Answered.status = 400
  BY <1>4, <1>5, Tables
<1>7. call.action # <<"Validate", "Login">>
  BY <1>1, <1>5 DEF Raised, Own, OfCall
<1> QED BY <1>5, <1>6, <1>7

\* api_exception_handler: an error answer leaves open whether a write was made only
\* with one of three codes, and quotes WHMCS only about rejected parameters.
THEOREM OutcomesAreKnown == Spec => []OutcomeIsKnown
<1>1. Inv => OutcomeIsKnown
  <2> SUFFICES ASSUME Inv, Refused PROVE OutcomeIsKnown
    BY DEF OutcomeIsKnown
  <2>1. ASSUME IsWrite, Answered.code \notin Uncertain PROVE applied = 0 /\ wire = {}
    <3>1. call.result \notin {"transport", "undecoded"}
      BY <2>1, CertainAnswers
    <3>2. call.result \in Results \cup {"none", "config"}
      BY DEF Inv, TypeOK
    <3>3. Carried(call.result, call.status) /\ call.result # "config"
      BY <2>1 DEF Inv, WriteInv
    <3>4. call.result # "none" /\ call.result # "data"
      BY <2>1 DEF Inv, WriteInv, Refused
    <3>5. call.result \in ApiErrors
      BY <3>1, <3>2, <3>3, <3>4 DEF Results
    <3> QED BY <3>3, <3>5 DEF Carried
  <2> QED BY <2>1, QuotedAnswers DEF Inv, OutcomeIsKnown
<1> QED BY <1>1, CallInvariance, PTL

\* A write that has ended is one of the outcomes of WhmcsWrite.
EndInv ==
  Ended =>
    /\ applied \in {0, 1}
    /\ wire # {} => applied = 0
    /\ Outcome \in {"confirmed", "rejected", "unknown", "unconfirmed", "escaped"}
    /\ Outcome = "confirmed" => applied = 1
    /\ Outcome = "rejected" => applied = 0 /\ wire = {}

LEMMA OutcomeIsTrue == Inv => EndInv
<1> SUFFICES ASSUME Inv, Ended PROVE EndInv
  BY DEF EndInv
<1>1. call.result \in Results \cup {"none", "config"}
  BY DEF Inv, TypeOK
<1>2. WriteInv /\ IsWrite /\ call.at = "done"
  BY DEF Inv, Ended
<1>3. /\ applied \in {0, 1}
      /\ wire # {} => applied = 0
      /\ call.result # "none" /\ call.result # "config"
      /\ Carried(call.result, call.status)
  BY <1>2 DEF WriteInv
<1>4. call.result \in {"data", "transport", "undecoded"} \cup ApiErrors
  BY <1>1, <1>3 DEF Results
<1> QED BY <1>3, <1>4 DEF Carried, Outcome, EndInv

\* Every step of a call is a step of the write that its caller sees, or none.
LEMMA OneStep ==
  ASSUME Inv, EndInv', [Next]_vars
  PROVE  [Promise!Next]_(Promise!vars)
<1> USE DEF Promise!Next, Promise!vars
<1>1. /\ call \in Call /\ call' \in Call /\ call'.action = call.action
  BY LoopStep DEF Inv, TypeOK, Call
<1>2. IsWrite' <=> IsWrite
  BY <1>1 DEF IsWrite
<1>3. CASE ~Ended'
  <2>1. ~Ended
    <3> SUFFICES ASSUME Ended PROVE Ended'
      BY <1>3
    <3>1. call.at = "done"
      BY DEF Ended
    <3>2. UNCHANGED call
      BY <3>1 DEF Next, Check, Post, ConnectFails, TimesOut, Receive, Undecodable, Wake,
                      Process, vars
    <3> QED BY <3>2 DEF Ended, IsWrite
  <2> QED BY <1>3, <2>1
<1>4. CASE Ended' /\ ~Ended
  <2>1. /\ applied' \in {0, 1}
        /\ wire' # {} => applied' = 0
        /\ Outcome' \in {"confirmed", "rejected", "unknown", "unconfirmed", "escaped"}
        /\ Outcome' = "confirmed" => applied' = 1
        /\ Outcome' = "rejected" => applied' = 0 /\ wire' = {}
    BY <1>4 DEF EndInv
  <2>2. CASE Outcome' = "confirmed"
    BY <1>4, <2>1, <2>2 DEF Promise!Confirmed
  <2>3. CASE Outcome' = "rejected"
    BY <1>4, <2>1, <2>3 DEF Promise!Rejected
  <2>4. CASE Outcome' \in {"unknown", "unconfirmed", "escaped"}
    BY <1>4, <2>1, <2>4 DEF Promise!Unknown
  <2> QED BY <2>1, <2>2, <2>3, <2>4
<1>5. CASE Ended' /\ Ended
  <2>1. CASE UNCHANGED vars
    BY <1>5, <2>1 DEF vars, Outcome
  <2>2. CASE Next
    <3>1. call.at = "done"
      BY <1>5 DEF Ended
    <3>2. PICK n \in wire, done \in BOOLEAN : Process(n, done)
      BY <2>2, <3>1 DEF Next, Check, Post, ConnectFails, TimesOut, Receive, Undecodable, Wake
    <3>3. wire = {0} /\ n = 0 /\ applied = 0
      BY <1>5 DEF Inv, WriteInv, Ended
    <3>4. wire' = {} /\ applied' \in {0, 1} /\ call' = call
      BY <3>2, <3>3 DEF Process
    <3>5. Outcome' = Outcome
      BY <3>4 DEF Outcome
    <3> QED BY <1>5, <3>3, <3>4, <3>5 DEF Promise!Arrives
  <2> QED BY <2>1, <2>2
<1> QED BY <1>3, <1>4, <1>5

\* The retry loop, the answers and the allowlist together implement WhmcsWrite: what
\* create_order, record_payment and the others conclude from an exception is so.
THEOREM CallsAreOneStep == Spec => CallIsOneStep
<1>1. Init => Promise!Init
  BY DEF Init, Promise!Init, Ended
<1>2. Inv /\ EndInv' /\ [Next]_vars => [Promise!Next]_(Promise!vars)
  BY OneStep
<1> QED BY <1>1, <1>2, OutcomeIsTrue, CallInvariance, PTL DEF Spec, CallIsOneStep, Promise!Spec

-----------------------------------------------------------------------------
(* Calls end *)

Left == Attempts(call.action) - call.attempt

\* How many steps of its own a call has left, at most.
StepsLeft ==
  CASE call.at = "start" -> 3 * Left + 1
    [] call.at = "post"  -> 3 * Left
    [] call.at = "wait"  -> 3 * Left - 1
    [] call.at = "sleep" -> 3 * Left - 2
    [] call.at = "done"  -> 0

LEMMA LeftType ==
  ASSUME NEW c \in Call, c.attempt < Attempts(c.action)
  PROVE  Attempts(c.action) - c.attempt \in 1 .. MaxRetries + 1
<1>1. c.attempt \in Nat /\ Attempts(c.action) \in 1 .. MaxRetries + 1
  BY AttemptsBound, RetryAssumption DEF Call
<1> QED BY <1>1, RetryAssumption

\* Whatever is lost, late or garbled, a call gets nearer to its end with each step
\* that it takes, and WHMCS' steps do not set it back: there are no more than
\* 3 * MaxRetries + 4.
THEOREM CallsCountDown ==
  Spec => [][call' # call => /\ StepsLeft \in 1 .. 3 * MaxRetries + 4
                             /\ StepsLeft' \in 0 .. StepsLeft - 1]_vars
<1> DEFINE Down == call' # call => /\ StepsLeft \in 1 .. 3 * MaxRetries + 4
                                   /\ StepsLeft' \in 0 .. StepsLeft - 1
<1>1. ASSUME TypeOK, RetryInv, TypeOK', RetryInv', [Next]_vars
      PROVE  [Down]_vars
  <2> SUFFICES ASSUME call' # call
               PROVE  /\ StepsLeft \in 1 .. 3 * MaxRetries + 4
                      /\ StepsLeft' \in 0 .. StepsLeft - 1
    OBVIOUS
  <2>1. call \in Call /\ call' \in Call /\ call'.action = call.action
    BY <1>1, LoopStep DEF TypeOK, Call
  <2>2. Left \in 1 .. MaxRetries + 1 /\ Left' \in 1 .. MaxRetries + 1
    BY <1>1, <2>1, LeftType DEF Left, RetryInv
  <2>3. /\ call.at # "done"
        /\ \/ call'.at = "done"
           \/ /\ call'.attempt = call.attempt
              /\ \/ call.at = "start" /\ call'.at = "post"
                 \/ call.at = "post" /\ call'.at = "wait"
                 \/ call.at \in {"post", "wait"} /\ call'.at = "sleep"
           \/ call.at = "sleep" /\ call'.at = "post" /\ call'.attempt = call.attempt + 1
    BY <1>1, <2>1 DEF Next, Check, Post, ConnectFails, TimesOut, Receive, Undecodable, Wake,
       Process, vars, Fail, Return, Call
  <2>4. /\ call'.attempt = call.attempt => Left' = Left
        /\ call'.attempt = call.attempt + 1 => Left' = Left - 1
    BY <2>1, AttemptsBound, RetryAssumption DEF Left, Call
  <2>5. StepsLeft \in 1 .. 3 * MaxRetries + 4
    BY <2>1, <2>2, <2>3, RetryAssumption DEF StepsLeft, Call
  <2>6. StepsLeft' \in 0 .. StepsLeft - 1
    BY <2>1, <2>2, <2>3, <2>4, RetryAssumption DEF StepsLeft, Call
  <2> QED BY <2>5, <2>6
<1> QED BY <1>1, CallTypeCorrect, PTL DEF Spec
=============================================================================
