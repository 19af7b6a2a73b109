CONSTANTS
  Instances = {i1, i2}
  Releases <- SomeReleases
  key = key
  KeyRings <- Rings
  Edits <- SomeEdits
  Prompts <- SomePrompts
  None = none
  Lost = lost
  MaxBoots = 3
  MaxEdits = 1
  MaxMishaps = 1
SPECIFICATION Spec
SYMMETRY Sym
INVARIANT EditsSurvive
CHECK_DEADLOCK FALSE
