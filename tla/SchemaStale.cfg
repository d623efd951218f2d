SPECIFICATION Spec
CONSTANTS
  fields <- mcFields
  Optional <- mcOptional
  Appliers = {a, b}
  Initial <- mcInitial
  Edits <- mcEdits
  MaxEdits = 1
  MaxRuns = 1
PROPERTY UnrecoverableLeftAlone
CHECK_DEADLOCK FALSE
