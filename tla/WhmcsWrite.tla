----------------------------- MODULE WhmcsWrite -----------------------------
(***************************************************************************)
(* What a service that calls a writing action of WHMCS may take the call   *)
(* for: one step, without attempts, answers or allowlists.  The action was *)
(* confirmed, and done; or rejected, and not done; or its outcome is not   *)
(* known, and WHMCS has done it, has not, or will look at it later.        *)
(* Orders and Payments take their calls for this: AddOrder,                *)
(* AddOrderRejected, AddOrderUnanswered, AddOrderUnconfirmed and           *)
(* AddOrderUndecodable there; record_payment, RecordRaises, RecordTimesOut *)
(* and RecordUnconfirmed here; and LateArrives of both.                    *)
(***************************************************************************)
EXTENDS Naturals

VARIABLES
  outcome,  \* how the call ended, or "none"
  applied,  \* how often the action was carried out, as far as the call tells
  pending   \* WHMCS will look at the call later

vars == <<outcome, applied, pending>>

Init == outcome = "none" /\ applied = 0 /\ pending = FALSE

Confirmed ==
  /\ outcome = "none" /\ outcome' = "confirmed"
  /\ applied' = 1
  /\ UNCHANGED pending

Rejected ==
  /\ outcome = "none" /\ outcome' = "rejected"
  /\ UNCHANGED <<applied, pending>>

\* A transport error, data that nothing confirms, or an exception of httpx that the
\* retry loop does not know.
Unknown ==
  /\ outcome = "none" /\ outcome' \in {"unknown", "unconfirmed", "escaped"}
  /\ \/ applied' \in {0, 1} /\ UNCHANGED pending
     \/ pending' = TRUE /\ UNCHANGED applied

Arrives ==
  /\ pending
  /\ pending' = FALSE
  /\ applied' \in {0, 1}
  /\ UNCHANGED outcome

Next == Confirmed \/ Rejected \/ Unknown \/ Arrives

Spec == Init /\ [][Next]_vars
=============================================================================
