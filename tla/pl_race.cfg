SPECIFICATION Spec
CONSTANTS
  q1 = q1
  q2 = q2
  w1 = w1
  w2 = w2
  o1 = o1
  o2 = o2
  o3 = o3
  Dry = Dry
  None = None
  Keep = Keep
  Quotes = {q1, q2}
  Workers = {w1, w2}
  Orders = {o1, o2, o3}
  MaxRequests = 5
  MaxCrashes = 1
  MaxLost = 1
SYMMETRY Sym
INVARIANTS RealIdsAreTrue OneOpenOrder FewForgotten
PROPERTIES RealIdIsKept
