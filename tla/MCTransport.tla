---------------------------- MODULE MCTransport ----------------------------
(* Instances of Transport and Errors for TLC: every allowed and every forbidden
   action. *)
EXTENDS Errors

AllActions == ALLOWED_ACTIONS \cup FORBIDDEN_ACTIONS \cup {<<"MadeUp", "Action">>}
=============================================================================
