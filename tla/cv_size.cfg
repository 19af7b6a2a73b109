CONSTANTS
  Products = {banner}
  Variants = {matt}
  Sizes = {a2, a3}
  Dear = {}
  Touches = {}
  None = none
  Workers = {w1}
  Messages <- SomeMessages
  Drafts <- FewDrafts
  MaxFiles = 0
  MaxTools = 1
  MaxQuotes = 2
  MaxRequests = 2
  MaxOverlaps = 0
  MaxFaults = 0
SPECIFICATION Spec
PROPERTIES ReusedOnlyIfIdentical
CHECK_DEADLOCK FALSE
