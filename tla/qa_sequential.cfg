SPECIFICATION Spec
CONSTANTS
  q1 = q1
  q2 = q2
  w1 = w1
  w2 = w2
  l1 = l1
  l2 = l2
  None = None
  Quotes = {q1}
  Workers = {w1}
  Links = {l1, l2}
  Prices = {1, 2}
  Targets = {"approved", "pending_approval", "rejected", "needs_revision"}
  Offered = {"status", "approve", "price", "link", "cancel", "notice", "delete", "connect", "refund", "fail"}
  MaxRequests = 4
  MaxCrashes = 0
  MaxLost = 1
SYMMETRY SymLinks
INVARIANTS OneLiveLink MailedOnce
PROPERTIES PaidUntilRelinked
CHECK_DEADLOCK FALSE
