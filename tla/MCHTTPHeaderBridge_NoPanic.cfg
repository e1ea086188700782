\* Each behaviour is one call of InternalMetadataToHTTPHeader; the call
\* returns (or panics), so the final state has no successor.
CONSTANTS
  TraceIDs = {"t1", "t2", "ta"}
  TraceStates = {"ts1", "tsa"}
  Inputs <- MCInputs
  Ambients <- MCAmbients
SPECIFICATION Spec
CHECK_DEADLOCK FALSE

INVARIANT NoPanic
