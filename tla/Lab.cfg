\* Three commands on one lab, two releases of the image, two faults.
SPECIFICATION LabSpec
CONSTANTS
  MaxRelease = 2
  MaxJobs = 3
  MaxFaults = 2
INVARIANTS
  LabTypeOK
  VerifiedImage
  LabTestsConnect
  NoResidual
  TestsOwnVm
PROPERTY PreparedHasKey
CHECK_DEADLOCK FALSE
