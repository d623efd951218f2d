SPECIFICATION Spec
CONSTANTS
  fields <- mcFields
  Optional <- mcOptional
  Appliers = {a, b}
  Initial <- mcInitial
  Edits <- mcEdits
  MaxEdits = 2
  MaxRuns = 3
INVARIANTS
  TypeOK
  QuietApplyMatches
  CreatedOnce
CHECK_DEADLOCK FALSE
