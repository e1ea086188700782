\* Each call returns and Init runs once, so every behaviour ends.
CONSTANTS
  c1 = c1
  c2 = c2
  Calls <- MCCalls
  Methods = {"/svc/Invoke"}
  AppIDValue = "app"
  Codes = {"OK", "Unavailable"}
SYMMETRY CallSymmetry
SPECIFICATION Spec
CHECK_DEADLOCK FALSE
INVARIANT TypeOK
INVARIANT RecordsTaggedWithAppID
INVARIANT MeasurementsMatchRole
INVARIANT ErrorCodeRecordedOnce
