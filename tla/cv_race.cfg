CONSTANTS
  Products = {flyer}
  Variants = {gloss}
  Sizes = {a3}
  Dear = {}
  Touches = {ad, search}
  None = none
  Workers = {w1, w2}
  Messages <- FewMessages
  Drafts <- FewDrafts
  MaxFiles = 2
  MaxTools = 1
  MaxQuotes = 2
  MaxRequests = 3
  MaxOverlaps = 2
  MaxFaults = 1
SPECIFICATION Spec
SYMMETRY Sym
INVARIANTS TurnsKept FilesKept
PROPERTIES FirstTouchStands
CHECK_DEADLOCK FALSE
