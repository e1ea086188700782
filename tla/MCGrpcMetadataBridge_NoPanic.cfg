\* A call whose input carries a trace key or content-type with no values.
CONSTANTS
  TraceIDs = {"t1", "t2", "ta"}
  TraceStates = {"ts1", "tsa"}
  Inputs <- MCInputs
  Ambients <- MCAmbients
SPECIFICATION Spec
CHECK_DEADLOCK FALSE
INVARIANT NoPanic
