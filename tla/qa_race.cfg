SPECIFICATION Spec
CONSTANTS
  q1 = q1
  q2 = q2
  w1 = w1
  w2 = w2
  l1 = l1
  l2 = l2
  None = None
  Quotes = {q1, q2}
  Workers = {w1, w2}
  Links = {l1, l2}
  Prices = {1}
  Targets = {"approved"}
  Offered = {"approve", "link", "cancel", "refund"}
  MaxRequests = 3
  MaxCrashes = 1
  MaxLost = 0
SYMMETRY Sym
INVARIANTS NoPhantomPayment LinkIsForItsQuote NoForgottenLink
PROPERTY PaidUntilRelinked
CHECK_DEADLOCK FALSE
