\* Each behaviour is one call of InternalMetadataToGrpcMetadata; the call
\* returns, so the final state has no successor.
CONSTANTS
  TraceIDs = {"t1", "t2", "ta"}
  TraceStates = {"ts1", "tsa"}
  Inputs <- MCInputs
  Ambients <- MCAmbients
SPECIFICATION Spec
CHECK_DEADLOCK FALSE
INVARIANT TypeOK
INVARIANT TraceContextPropagated
PROPERTY TraceKeysWrittenOnlyByPropagator
