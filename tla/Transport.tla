------------------------------ MODULE Transport ------------------------------
(***************************************************************************)
(* One call of WhmcsClient.call: the allowlist (actions.py, client.py), and*)
(* the retries and the reading of answers in transport.py.  SyncTransport  *)
(* and AsyncTransport run the same loop.  WHMCS and whatever stands in     *)
(* front of it are external.                                               *)
(*                                                                         *)
(* The name of an action is split after its verb, because that is all that *)
(* decides whether it is retried.                                          *)
(***************************************************************************)
EXTENDS Naturals

CONSTANTS
  Asked,       \* the actions that callers may ask for
  MaxRetries   \* WHMCS.MAX_RETRIES

ASSUME RetryAssumption == MaxRetries \in Nat

VARIABLES
  call,     \* the call: where it is, its action, its attempt and its result
  wire,     \* attempts that were sent, and that WHMCS has not processed yet
  answer,   \* the answer of the attempt that is waited for, if there is one
  applied   \* WHMCS: how often the action was carried out

vars == <<call, wire, answer, applied>>

-----------------------------------------------------------------------------
(* The allowlist *)

Reads ==
  {<<"Whmcs", "Details">>, <<"Validate", "Login">>, <<"Domain", "Whois">>,
   <<"Domain", "GetNameservers">>, <<"Domain", "GetLockingStatus">>} \cup
  ({"Get"} \X
   {"Currencies", "PaymentMethods", "Clients", "ClientsDetails", "Contacts",
    "Emails", "Products", "Promotions", "TLDPricing", "Orders",
    "ClientsProducts", "ClientsAddons", "ClientsDomains", "Invoices", "Invoice",
    "Transactions", "Credits", "Quotes", "PayMethods", "Tickets", "Ticket",
    "SupportDepartments", "TicketAttachment", "Announcements"})

Writes ==
  ({"Add"} \X {"Client", "Contact", "Order", "CancelRequest", "InvoicePayment",
              "TicketReply"}) \cup
  ({"Update"} \X {"Client", "Contact", "Ticket"}) \cup
  ({"Accept"} \X {"Order", "Quote"}) \cup
  ({"Domain"} \X {"UpdateNameservers", "UpdateLockingStatus", "RequestEPP",
                 "Renew", "ToggleIdProtect"}) \cup
  {<<"Cancel", "Order">>, <<"Upgrade", "Product">>, <<"Module", "ChangePw">>,
   <<"Open", "Ticket">>}

ALLOWED_ACTIONS == Reads \cup Writes

FORBIDDEN_ACTIONS ==
  ({"Delete"} \X {"Client", "Order", "Ticket", "Quote"}) \cup
  ({"Module"} \X {"Terminate", "Suspend"}) \cup
  {<<"Add", "BannedIp">>, <<"Add", "Credit">>, <<"Decrypt", "Password">>,
   <<"Get", "ClientPassword">>, <<"Set", "ConfigurationValue">>,
   <<"Send", "AdminEmail">>}

_check_action(action) == action \notin FORBIDDEN_ACTIONS /\ action \in ALLOWED_ACTIONS

\* Fault: a write among the prefixes.
IDEMPOTENT_PREFIXES_WithAdd == {"Get", "List", "Validate", "Whmcs", "Add"}

\* "Domain Whois", with its blank, is the beginning of no action.
IDEMPOTENT_PREFIXES == {"Get", "List", "Validate", "Whmcs"}

_is_idempotent(action) == action[1] \in IDEMPOTENT_PREFIXES

\* Fault: the allowed retries plus two.
Attempts_OneTooMany(action) == IF _is_idempotent(action) THEN MaxRetries + 2 ELSE 1

\* Fault: everything is retried.
Attempts_Always(action) == MaxRetries + 1

Attempts(action) == IF _is_idempotent(action) THEN MaxRetries + 1 ELSE 1

-----------------------------------------------------------------------------
(* Answers *)

Status == {"2xx", "429", "4xx", "5xx"}

\* The body: WHMCS' envelope with "success" or with "error", another JSON
\* object, or no JSON object at all.
Body == {"success", "error", "object", "text"}

Response == [status : Status, body : Body]

NoResponse == [status |-> "none", body |-> "none"]

\* How _parse ends: data, an exception that WHMCS' words select (_classify), a
\* rate limit, or WhmcsTransportError.  What httpx raises of a body that it cannot
\* decode is none of these.
ApiErrors == {"auth", "not_found", "rate_limited", "validation"}

Results == {"data", "transport", "undecoded"} \cup ApiErrors

\* Fault: a page is taken for a refusal.
_parse_PageIsRefusal(response) ==
  CASE response.status = "429"              -> {"rate_limited"}
    [] response.body \in {"text", "error"}  -> ApiErrors
    [] OTHER                                -> {"data"}

\* Fault: only the status line tells an error.
_parse_StatusOnly(response) ==
  CASE response.status = "429"  -> {"rate_limited"}
    [] response.status = "5xx"  -> {"transport"}
    [] response.status = "4xx"  -> ApiErrors
    [] OTHER                    -> {"data"}

_parse(response) ==
  CASE response.status = "429"  -> {"rate_limited"}
    [] response.body = "text"   -> {"transport"}
    [] response.body = "error"  -> ApiErrors
    [] OTHER                    -> {"data"}

\* What may come back after WHMCS has carried out the action, or has not: its
\* own answer; an error page of PHP or of a proxy, or JSON of the proxy's own; a
\* throttling firewall.
Answers(done) ==
  (IF done THEN {[status |-> "2xx", body |-> "success"]}
           ELSE [status : Status, body : {"error"}] \cup [status : {"429"}, body : Body])
  \cup [status : Status \ {"429"}, body : {"text"}]
  \cup [status : {"4xx", "5xx"}, body : {"object"}]

-----------------------------------------------------------------------------

TypeOK ==
  /\ call \in [at : {"start", "post", "wait", "sleep", "done"}, action : Asked,
               attempt : 0 .. MaxRetries, status : Status \cup {"none"},
               result : Results \cup {"none", "config"}]
  /\ wire \subseteq 0 .. MaxRetries
  /\ answer \in Response \cup {NoResponse}
  /\ applied \in Nat

Init ==
  /\ call \in [at : {"start"}, action : Asked, attempt : {0}, status : {"none"},
               result : {"none"}]
  /\ wire = {}
  /\ answer = NoResponse
  /\ applied = 0

Return(result) == call' = [call EXCEPT !.at = "done", !.result = result]

\* WhmcsClient.call: an action that is not allowed is not even sent.
Check ==
  /\ call.at = "start"
  /\ IF _check_action(call.action) THEN call' = [call EXCEPT !.at = "post"]
                                   ELSE Return("config")
  /\ UNCHANGED <<wire, answer, applied>>

Post ==
  /\ call.at = "post"
  /\ wire' = wire \cup {call.attempt}
  /\ answer' = NoResponse
  /\ call' = [call EXCEPT !.at = "wait"]
  /\ UNCHANGED applied

\* Fault: one comparison too late.
Fail_OneTooLate ==
  IF call.attempt >= Attempts(call.action)
    THEN Return("transport")
    ELSE call' = [call EXCEPT !.at = "sleep"]

\* The except clause: after the last attempt the error is raised, before it the
\* loop sleeps.
Fail ==
  IF call.attempt + 1 >= Attempts(call.action)
    THEN Return("transport")
    ELSE call' = [call EXCEPT !.at = "sleep"]

\* httpx.TransportError: no connection ...
ConnectFails ==
  /\ call.at = "post"
  /\ Fail
  /\ UNCHANGED <<wire, answer, applied>>

\* ... or no answer: the request or its answer was lost, or comes too late.  The
\* attempt is over, in the asynchronous twin as well.
TimesOut ==
  /\ call.at = "wait"
  /\ Fail
  /\ wire' \in {wire, wire \ {call.attempt}}
  /\ UNCHANGED <<answer, applied>>

\* An answer is there, and is read.
Receive ==
  /\ call.at = "wait"
  /\ answer # NoResponse
  /\ \E result \in _parse(answer) :
       IF result = "transport" THEN Fail
       ELSE call' = [call EXCEPT !.at = "done", !.result = result, !.status = answer.status]
  /\ UNCHANGED <<wire, answer, applied>>

\* httpx.DecodingError, which is no TransportError: it leaves the loop at once.
Undecodable ==
  /\ call.at = "wait"
  /\ answer # NoResponse
  /\ Return("undecoded")
  /\ UNCHANGED <<wire, answer, applied>>

\* Fault: the attempts are not counted.
Wake_NotCounted ==
  /\ call.at = "sleep"
  /\ call' = [call EXCEPT !.at = "post"]
  /\ UNCHANGED <<wire, answer, applied>>

\* Exponential backoff.
Wake ==
  /\ call.at = "sleep"
  /\ call' = [call EXCEPT !.at = "post", !.attempt = @ + 1]
  /\ UNCHANGED <<wire, answer, applied>>

\* WHMCS processes an attempt, however late; it answers who is still waiting.
Process(n, done) ==
  /\ n \in wire
  /\ wire' = wire \ {n}
  /\ applied' = IF done THEN applied + 1 ELSE applied
  /\ answer' \in IF call.at = "wait" /\ call.attempt = n THEN Answers(done) ELSE {answer}
  /\ UNCHANGED call

Next ==
  \/ Check \/ Post \/ ConnectFails \/ TimesOut \/ Receive \/ Undecodable \/ Wake
  \/ \E n \in wire, done \in BOOLEAN : Process(n, done)

Spec == Init /\ [][Next]_vars

\* Every request has a timeout, and every sleep ends.
FairSpec == Spec /\ WF_vars(Check \/ Post \/ TimesOut \/ Receive \/ Undecodable \/ Wake)

-----------------------------------------------------------------------------
(* Properties *)

IsWrite == call.action \in Writes

\* transport.py: retries "only for idempotent actions, so a failed AddOrder is
\* never silently duplicated": whatever is lost or late, now or after the call.
WriteAppliedOnce == IsWrite => applied <= 1

\* A caller that sees WHMCS' error knows that nothing happened, and that nothing
\* is still under way: create_order's handler deletes its lock on that.
RejectedIsNotApplied ==
  IsWrite /\ call.result \in ApiErrors => applied = 0 /\ wire = {}

\* A caller that sees the data of a 2xx answer knows that it happened.  (_parse
\* does not look at the status of a JSON object: the data of a 4xx or a 5xx, which
\* only a proxy sends, is returned as well.)
SuccessIsApplied ==
  IsWrite /\ call.result = "data" /\ call.status = "2xx" => applied = 1

\* What keeps a write single: it has one attempt, which is under way, carried out
\* or dropped; and an answer is only as good as what it answers.
Carried(result, status) ==
  /\ result \in ApiErrors => applied = 0 /\ wire = {}
  /\ result = "data" /\ status = "2xx" => applied = 1

RetryInv ==
  /\ call.attempt < Attempts(call.action)
  /\ call.at = "sleep" => call.attempt + 1 < Attempts(call.action)

WriteInv ==
  IsWrite =>
    /\ call.attempt = 0 /\ call.at # "sleep"
    /\ wire \subseteq {0}
    /\ applied \in {0, 1}
    /\ wire # {} => applied = 0
    /\ call.at \in {"start", "post"} => wire = {} /\ applied = 0
    /\ call.at = "wait" /\ answer # NoResponse =>
         wire = {} /\ \A result \in _parse(answer) : Carried(result, answer.status)
    /\ call.at # "done" <=> call.result = "none"
    /\ call.result # "config"
    /\ Carried(call.result, call.status)

Ended == IsWrite /\ call.at = "done"

Outcome ==
  IF call.result = "transport" THEN "unknown"
  ELSE IF call.result = "undecoded" THEN "escaped"
  ELSE IF call.result = "data"
    THEN IF call.status = "2xx" THEN "confirmed" ELSE "unconfirmed"
  ELSE "rejected"

Promise == INSTANCE WhmcsWrite WITH
             outcome <- IF Ended THEN Outcome ELSE "none",
             applied <- IF Ended THEN applied ELSE 0,
             pending <- Ended /\ wire # {}

\* The exceptions of transport.py mean what the services that catch them take them
\* for: to its caller a write is one step, which was done, was not done, or is of
\* unknown outcome, and then WHMCS looks at it once at most.  The exception that
\* escapes them tells nothing, either.
CallIsOneStep == Promise!Spec

\* A call always comes to an end.
CallReturns == <>(call.at = "done")
=============================================================================
