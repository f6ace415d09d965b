------------------------------- MODULE Errors -------------------------------
(***************************************************************************)
(* What the storefront is told of a call that went wrong: the exceptions   *)
(* of apps/whmcs/exceptions.py, what the views make of two of them, and    *)
(* api_exception_handler of apps/core/exceptions.py.  It stands on top of  *)
(* Transport: what an error answer means depends on how _parse and the     *)
(* retry loop came to raise it.                                            *)
(*                                                                         *)
(* A request is taken to end with the call: it has made no change before   *)
(* it.                                                                     *)
(***************************************************************************)
EXTENDS Transport

\* An exception: "application" for ApplicationError, with its own status and
\* code; the kinds of WhmcsError as Transport names them; what Django and the
\* rest framework raise; anything else.
Own(status, code) == [kind |-> "application", status |-> status, code |-> code]

OfCall(result) == [kind |-> result, status |-> 500, code |-> "none"]

Reply(status, code, quotes) == [status |-> status, code |-> code, quotes |-> quotes]

\* Fault: WhmcsTransportError is not in the table.
_WHMCS_MAP_NoTransport ==
  [auth         |-> Reply(502, "upstream_auth_failed", FALSE),
   not_found    |-> Reply(404, "not_found", FALSE),
   validation   |-> Reply(400, "invalid_request", TRUE),
   rate_limited |-> Reply(429, "upstream_rate_limited", FALSE)]

\* Only the words of a validation error are WHMCS' own.
_WHMCS_MAP ==
  [auth         |-> Reply(502, "upstream_auth_failed", FALSE),
   not_found    |-> Reply(404, "not_found", FALSE),
   validation   |-> Reply(400, "invalid_request", TRUE),
   rate_limited |-> Reply(429, "upstream_rate_limited", FALSE),
   transport    |-> Reply(504, "upstream_unreachable", FALSE)]

\* The exceptions that are asked for one by one.
Known ==
  [api        |-> Reply(502, "upstream_error", FALSE),
   http404    |-> Reply(404, "not_found", FALSE),
   permission |-> Reply(403, "forbidden", FALSE)]

\* WhmcsConfigError and httpx.DecodingError, for two, are in no table: the
\* framework's handler returns None, and the answer is a plain 500.
api_exception_handler(exc) ==
  IF exc.kind = "application"               THEN Reply(exc.status, exc.code, FALSE)
  ELSE IF exc.kind \in DOMAIN _WHMCS_MAP    THEN _WHMCS_MAP[exc.kind]
  ELSE IF exc.kind \in DOMAIN Known         THEN Known[exc.kind]
  ELSE Reply(500, "internal_error", FALSE)

\* Fault: the generic handler of OrderListCreateView.post stands first.
Raised_GenericFirst(action, result) ==
  IF action = <<"Add", "Order">> THEN Own(400, "invalid_request")
  ELSE IF action = <<"Validate", "Login">> /\ result = "validation"
    THEN Own(401, "invalid_credentials")
  ELSE OfCall(result)

\* The exception that leaves the view, for a call that raised `result`: a POST
\* /orders/ of unknown outcome says so, a login that WHMCS rejects does not say
\* which half was wrong, and every other exception passes through.
Raised(action, result) ==
  IF action = <<"Add", "Order">> /\ result = "transport"
    THEN Own(400, "order_outcome_unknown")
  ELSE IF action = <<"Validate", "Login">> /\ result = "validation"
    THEN Own(401, "invalid_credentials")
  ELSE OfCall(result)

Refused == call.at = "done" /\ call.result # "data"

Answered == api_exception_handler(Raised(call.action, call.result))

-----------------------------------------------------------------------------

\* The two codes that tell a customer to look before trying again, and the plain
\* 500, which tells nothing.
Uncertain == {"upstream_unreachable", "order_outcome_unknown", "internal_error"}

\* Only an error answer with one of these three codes leaves open whether a change
\* was made: with any other, nothing was done and nothing is still under
\* way, whatever was lost, retried, garbled or answered by somebody else; and only
\* a 400, of parameters that WHMCS itself has rejected, quotes WHMCS.
OutcomeIsKnown ==
  Refused =>
    /\ IsWrite /\ Answered.code \notin Uncertain => applied = 0 /\ wire = {}
    /\ Answered.quotes = TRUE =>
         call.result = "validation" /\ Answered.status = 400 /\ call.action # <<"Validate", "Login">>
=============================================================================
