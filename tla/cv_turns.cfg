CONSTANTS
  Products = {flyer, banner}
  Variants = {gloss, matt}
  Sizes = {a3}
  Dear = {banner}
  Touches = {}
  None = none
  Workers = {w1}
  Messages <- SomeMessages
  Drafts <- SomeDrafts
  MaxFiles = 1
  MaxTools = 1
  MaxQuotes = 2
  MaxRequests = 3
  MaxOverlaps = 0
  MaxFaults = 0
SPECIFICATION Spec
INVARIANTS CardWasEarned OneLivePerProduct TotalFollowsParts
PROPERTIES DecidedStands DesignIsAsked
CHECK_DEADLOCK FALSE
