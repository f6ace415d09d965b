\* Two requests over two emails, one of them that of a member of staff.
SPECIFICATION Spec
CONSTANTS
  Emails = {e1, e2}
  Staff = {e2}
  Clients = {c1, c2}
  Passwords = {p1, p2}
  Requests = {r1, r2}
  MAX_ODD = 2
  Zero = Zero
  None = None
SYMMETRY Symmetry
INVARIANTS
  TypeOK
  LinkIsVouched
  LinkingSucceeds
PROPERTIES
  ChangeIsProven
