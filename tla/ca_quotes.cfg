CONSTANTS
  None = none
  std = std
  low = low
  third = third
  Keys <- MCKeys
  Categories <- MCCategories
  RateIds = {std, low, third}
  RuleNames = {"double_sided", "soft_touch", "triplicate"}
  Start <- MCStart
  Rows <- MCRows
  Batches <- MCBatches
  RuleRows <- MCRuleRows
  RuleBatches <- MCRuleBatches
  Patches <- MCPatches
  TierEdits <- MCTierEdits
  Taxes <- MCTaxes
  Multipliers = {50, 150, none}
  Requests <- MCRequests
  MaxEdits = 2
SPECIFICATION Spec
INVARIANTS MinimumHolds StackCovers SheetsHold PeopleArePutFirst OneDefault
PROPERTIES ImportDoesWhatItSays
CHECK_DEADLOCK FALSE
