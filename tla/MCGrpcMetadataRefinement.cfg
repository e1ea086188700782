\* One call of InternalMetadataToGrpcMetadata, checked against its contract.
\* The call ends, so the final state has no successor.
CONSTANTS
  TraceIDs = {"t1", "t2", "ta"}
  TraceStates = {"ts1", "tsa"}
  Inputs <- MCInputs
  Ambients <- MCAmbients
SPECIFICATION Spec
CHECK_DEADLOCK FALSE
PROPERTY ContractSpec
