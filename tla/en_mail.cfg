CONSTANTS
  m1 = m1
  m2 = m2
  t1 = t1
  c1 = c1
  c2 = c2
  w1 = w1
  w2 = w2
  w3 = w3
  k1 = k1
  k2 = k2
  None = None
  Messages = {m1, m2}
  Threads = {t1}
  ThreadOf <- OneThread
  Convs = {c1, c2}
  Containers = {k1, k2}
  Workers = {w1, w2, w3}
  HomeOf <- TwoHomes
  Cap = 1
  MaxRequests = 3
  MaxOverlaps = 1
  MaxFaults = 1
SPECIFICATION Spec
SYMMETRY Sym
INVARIANTS RejectedHasNoQuote
PROPERTIES RejectionStands AnswersAccounted
CHECK_DEADLOCK FALSE
