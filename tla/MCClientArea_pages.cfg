\* Two requests of one customer, two changes of WHMCS' data, and one operation
\* of each kind: the others gate, change and invalidate the same.
SPECIFICATION Spec
CONSTANTS
  small = small
  large = large
  server = server
  Requests = {q1, q2}
  Products = {small, large, server}
  GroupOf <- OnSale
  MaxChanges = 2
  None = None
  Offered = {"view", "upgrade", "get_nameservers", "open_ticket",
             "reply_to_ticket", "record_payment", "cancel_order",
             "update_profile"}
  Pages = {"services", "orders", "domains", "tickets", "profile"}
SYMMETRY Symmetry
INVARIANTS
  TypeOK
  PagesShowFinishedWrites
  OwnChangeIsShown
  GivenAwayIsLeftAlone
  UpgradesStayInGroup
