\* Each behaviour is one reply crossing the hop; it ends once the caller
\* has answered.
CONSTANTS
  HTTPStatuses <- MCHTTPStatuses
  Details <- MCDetails
  InternalStatuses <- MCInternalStatuses
SPECIFICATION Spec
CHECK_DEADLOCK FALSE
INVARIANT TypeOK
INVARIANT ErrorsStayErrors
INVARIANT CallerStatusMatchesSpecTable
INVARIANT ErrorInfoRecordsReply
