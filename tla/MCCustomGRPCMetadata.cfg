\* Each behaviour is one call of WithCustomGRPCMetadata; the call returns,
\* so the final state has no successor.
CONSTANTS
  TraceIDs = {"t1"}
  TraceStates = {"ts1"}
  Customs <- MCCustoms
  Priors <- MCPriors
SPECIFICATION Spec
CHECK_DEADLOCK FALSE
INVARIANT CustomMetadataApplied
