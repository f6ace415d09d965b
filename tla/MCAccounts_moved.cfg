\* A client gets another email in WHMCS, and its owner logs in with that.
SPECIFICATION Spec
CONSTANTS
  Emails = {e1, e2}
  Staff = {}
  Clients = {c1}
  Passwords = {p1}
  Requests = {r1}
  MAX_ODD = 2
  Zero = Zero
  None = None
INVARIANTS
  ConfirmedIsLinked
