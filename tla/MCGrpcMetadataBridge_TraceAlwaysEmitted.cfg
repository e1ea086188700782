\* One call of InternalMetadataToGrpcMetadata per behaviour.
CONSTANTS
  TraceIDs = {"t1", "t2", "ta"}
  TraceStates = {"ts1", "tsa"}
  Inputs <- MCInputs
  Ambients <- MCAmbients
SPECIFICATION Spec
CHECK_DEADLOCK FALSE
INVARIANT TraceAlwaysEmitted
