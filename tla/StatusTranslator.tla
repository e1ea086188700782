-------------------------- MODULE StatusTranslator --------------------------
(***************************************************************************)
(* The status/code translator of pkg/messaging/v1/util.go on the reply    *)
(* path of one invocation hop: the callee's reply becomes a gRPC status   *)
(* error (ErrorFromHTTPResponseCode for an HTTP app's status and body,    *)
(* ErrorFromInternalStatus for an internal status from the remote         *)
(* runtime), and the caller surfaces that error to its HTTP client with   *)
(* HTTPStatusFromCode.                                                    *)
(*                                                                         *)
(* A detail string is a sequence of bytes: "a" an ASCII byte, "L" the     *)
(* lead byte and "C" the continuation byte of a two-byte UTF-8 character. *)
(* len() and slicing in Go count bytes, so truncation is on bytes.        *)
(***************************************************************************)
EXTENDS Naturals, Sequences, SequencesExt

CONSTANTS
  HTTPStatuses,     \* status codes an HTTP app may reply with
  Details,          \* response bodies (byte sequences) passed as detail
  InternalStatuses  \* internalv1pb.Status values a remote runtime returns

(***************************************************************************)
(* google.golang.org/grpc/codes.                                           *)
(***************************************************************************)
OK                 == 0
Canceled           == 1
Unknown            == 2
InvalidArgument    == 3
DeadlineExceeded   == 4
NotFound           == 5
AlreadyExists      == 6
PermissionDenied   == 7
ResourceExhausted  == 8
FailedPrecondition == 9
Aborted            == 10
OutOfRange         == 11
Unimplemented      == 12
Internal           == 13
Unavailable        == 14
DataLoss           == 15
Unauthenticated    == 16

maxMetadataValueLen == 63
errorInfoDomain     == "dapr.io"

Nil == [nil |-> TRUE]

(***************************************************************************)
(* net/http.StatusText, restricted to the statuses the model enumerates;  *)
(* an unregistered status has the empty text.                             *)
(***************************************************************************)
StatusTextTable ==
  (100 :> "Continue") @@ (200 :> "OK") @@ (204 :> "No Content")
  @@ (300 :> "Multiple Choices") @@ (304 :> "Not Modified")
  @@ (400 :> "Bad Request") @@ (401 :> "Unauthorized") @@ (403 :> "Forbidden")
  @@ (404 :> "Not Found") @@ (408 :> "Request Timeout") @@ (409 :> "Conflict")
  @@ (412 :> "Precondition Failed") @@ (418 :> "I'm a teapot")
  @@ (429 :> "Too Many Requests") @@ (500 :> "Internal Server Error")
  @@ (501 :> "Not Implemented") @@ (502 :> "Bad Gateway")
  @@ (503 :> "Service Unavailable") @@ (504 :> "Gateway Timeout")

StatusText(code) ==
  IF code \in DOMAIN StatusTextTable THEN StatusTextTable[code] ELSE ""

\* strconv.Itoa for the non-negative statuses the model enumerates.
RECURSIVE Itoa(_)
Itoa(n) ==
  LET digit(d) == SubSeq("0123456789", d + 1, d + 1)
  IN  IF n < 10 THEN digit(n) ELSE Itoa(n \div 10) \o digit(n % 10)

\* Variant: grpc-gateway's 499 (Client Closed Request) for CANCELED.
GrpcToHTTPCanceled499 ==
  (OK :> 200) @@ (Canceled :> 499) @@ (Unknown :> 500)
  @@ (InvalidArgument :> 400) @@ (DeadlineExceeded :> 504) @@ (NotFound :> 404)
  @@ (AlreadyExists :> 409) @@ (PermissionDenied :> 403)
  @@ (Unauthenticated :> 401) @@ (ResourceExhausted :> 429)
  @@ (FailedPrecondition :> 400) @@ (Aborted :> 409) @@ (OutOfRange :> 400)
  @@ (Unimplemented :> 501) @@ (Internal :> 500) @@ (Unavailable :> 503)
  @@ (DataLoss :> 500)

\* Variant: the "similarly named" 412 for FAILED_PRECONDITION.
GrpcToHTTPPrecondition412 ==
  (OK :> 200) @@ (Canceled :> 408) @@ (Unknown :> 500)
  @@ (InvalidArgument :> 400) @@ (DeadlineExceeded :> 504) @@ (NotFound :> 404)
  @@ (AlreadyExists :> 409) @@ (PermissionDenied :> 403)
  @@ (Unauthenticated :> 401) @@ (ResourceExhausted :> 429)
  @@ (FailedPrecondition :> 412) @@ (Aborted :> 409) @@ (OutOfRange :> 400)
  @@ (Unimplemented :> 501) @@ (Internal :> 500) @@ (Unavailable :> 503)
  @@ (DataLoss :> 500)

\* The switch of HTTPStatusFromCode, one entry per case.
GrpcToHTTP ==
  (OK :> 200) @@ (Canceled :> 408) @@ (Unknown :> 500)
  @@ (InvalidArgument :> 400) @@ (DeadlineExceeded :> 504) @@ (NotFound :> 404)
  @@ (AlreadyExists :> 409) @@ (PermissionDenied :> 403)
  @@ (Unauthenticated :> 401) @@ (ResourceExhausted :> 429)
  @@ (FailedPrecondition :> 400) @@ (Aborted :> 409) @@ (OutOfRange :> 400)
  @@ (Unimplemented :> 501) @@ (Internal :> 500) @@ (Unavailable :> 503)
  @@ (DataLoss :> 500)

HTTPStatusFromCode(code) ==
  IF code \in DOMAIN GrpcToHTTP THEN GrpcToHTTP[code] ELSE 500

\* The switch of CodeFromHTTPStatus after its 2xx test.
HTTPToGrpc ==
  (408 :> Canceled) @@ (500 :> Unknown) @@ (400 :> Internal)
  @@ (504 :> DeadlineExceeded) @@ (404 :> NotFound) @@ (409 :> AlreadyExists)
  @@ (403 :> PermissionDenied) @@ (401 :> Unauthenticated)
  @@ (429 :> ResourceExhausted) @@ (501 :> Unimplemented)
  @@ (503 :> Unavailable)

\* Variant: the success range closed at 300.
CodeFromHTTPStatusTo300(httpStatusCode) ==
  IF httpStatusCode >= 200 /\ httpStatusCode <= 300 THEN OK
  ELSE IF httpStatusCode \in DOMAIN HTTPToGrpc THEN HTTPToGrpc[httpStatusCode]
  ELSE Unknown

CodeFromHTTPStatus(httpStatusCode) ==
  IF httpStatusCode >= 200 /\ httpStatusCode < 300 THEN OK
  ELSE IF httpStatusCode \in DOMAIN HTTPToGrpc THEN HTTPToGrpc[httpStatusCode]
  ELSE Unknown

(***************************************************************************)
(* Byte strings.  ValidUTF8 is the check proto.Marshal applies to every   *)
(* string field of a proto3 message (ErrorInfo's metadata values).        *)
(***************************************************************************)
ValidUTF8(b) ==
  \A i \in 1..Len(b) :
     /\ b[i] = "L" => i < Len(b) /\ b[i + 1] = "C"
     /\ b[i] = "C" => i > 1 /\ b[i - 1] = "L"

\* Variant: the limit taken as the 64 of the constant's comment.
TruncateDetail64(detail) ==
  IF Len(detail) >= 64 THEN SubSeq(detail, 1, 64) ELSE detail

\* detail = detail[:maxMetadataValueLen] when len(detail) >= 63.
TruncateDetail(detail) ==
  IF Len(detail) >= maxMetadataValueLen
  THEN SubSeq(detail, 1, maxMetadataValueLen) ELSE detail

\* status.(*Status).WithDetails: fails for an OK status, and when a detail
\* does not marshal (anypb.New rejects invalid UTF-8 in a string field).
WithDetails(st, info) ==
  IF st.code = OK \/ ~ValidUTF8(info.metadata.httpErrorMessage)
  THEN [ok |-> FALSE, st |-> st]
  ELSE [ok |-> TRUE, st |-> [st EXCEPT !.details = Append(@, info)]]

(***************************************************************************)
(* ErrorFromHTTPResponseCode.  A status error is a record of its code,    *)
(* message and details; an ErrorInfo detail carries the reason, domain    *)
(* and the two metadata entries http.code and http.error_message.         *)
(***************************************************************************)
ErrorFromHTTPResponseCode(code, detail) ==
  LET grpcCode       == CodeFromHTTPStatus(code)
      httpStatusText == StatusText(code)
      respStatus     == [nil |-> FALSE, code |-> grpcCode,
                         message |-> httpStatusText, details |-> <<>>]
      info == [reason   |-> httpStatusText,
               domain   |-> errorInfoDomain,
               metadata |-> [httpCode         |-> Itoa(code),
                             httpErrorMessage |-> TruncateDetail(detail)]]
      resps == WithDetails(respStatus, info)
  IN  IF grpcCode = OK THEN Nil
      ELSE IF resps.ok THEN resps.st ELSE respStatus

\* ErrorFromInternalStatus: status.ErrorProto, whose Err() is nil for OK.
ErrorFromInternalStatus(internalStatus) ==
  IF internalStatus.code = OK THEN Nil
  ELSE [nil |-> FALSE, code |-> internalStatus.code,
        message |-> internalStatus.message, details |-> internalStatus.details]

(***************************************************************************)
(* One reply crossing the hop.  reply is what the callee returned: an HTTP *)
(* app's status and body, or an internal status from the remote runtime.   *)
(* err is the gRPC status error the runtime builds from it (Nil for a     *)
(* success), callerStatus the HTTP status the caller answers with.        *)
(***************************************************************************)
VARIABLES reply, err, callerStatus, pc

vars == <<reply, err, callerStatus, pc>>

Replies ==
  [kind : {"http"}, status : HTTPStatuses, detail : Details]
  \cup [kind : {"internal"}, st : InternalStatuses]

Init ==
  /\ reply \in Replies
  /\ err = Nil
  /\ callerStatus = 0
  /\ pc = "reply"

\* The HTTP app replied: ErrorFromHTTPResponseCode(status, body).
ConvertHTTPReply ==
  /\ pc = "reply" /\ reply.kind = "http"
  /\ err' = ErrorFromHTTPResponseCode(reply.status, reply.detail)
  /\ pc' = "respond"
  /\ UNCHANGED <<reply, callerStatus>>

\* The remote runtime returned an internal status: ErrorFromInternalStatus.
ConvertInternalStatus ==
  /\ pc = "reply" /\ reply.kind = "internal"
  /\ err' = ErrorFromInternalStatus(reply.st)
  /\ pc' = "respond"
  /\ UNCHANGED <<reply, callerStatus>>

\* The caller answers its HTTP client: 200 for no error, otherwise
\* HTTPStatusFromCode of the error's code.
Respond ==
  /\ pc = "respond"
  /\ callerStatus' = IF err = Nil THEN 200 ELSE HTTPStatusFromCode(err.code)
  /\ pc' = "done"
  /\ UNCHANGED <<reply, err>>

Next == ConvertHTTPReply \/ ConvertInternalStatus \/ Respond

Spec == Init /\ [][Next]_vars

(***************************************************************************)
(* Properties.                                                            *)
(***************************************************************************)
IsSuccess(s) == 200 <= s /\ s < 300

ReplySucceeded ==
  IF reply.kind = "http" THEN IsSuccess(reply.status) ELSE reply.st.code = OK

ErrorInfos ==
  [reason : STRING, domain : STRING,
   metadata : [httpCode : STRING, httpErrorMessage : Seq({"a", "L", "C"})]]

StatusErrors ==
  [nil : {FALSE}, code : Nat, message : STRING, details : Seq(ErrorInfos)]

\* The caller only ever answers with a status net/http registers.
TypeOK ==
  /\ reply \in Replies
  /\ err \in {Nil} \cup StatusErrors
  /\ callerStatus \in {0} \cup DOMAIN StatusTextTable
  /\ pc \in {"reply", "respond", "done"}

\* A reply is surfaced to the caller as a success exactly when the callee
\* succeeded: no failed reply (of either kind, any status or code) turns
\* into a 2xx across CodeFromHTTPStatus/ErrorFromInternalStatus and
\* HTTPStatusFromCode, and every success arrives as 200.
ErrorsStayErrors ==
  pc = "done" =>
    IF ReplySucceeded THEN callerStatus = 200 ELSE ~IsSuccess(callerStatus)

\* The table of spec section 4.3, gRPC to HTTP: 409 for ALREADY_EXISTS and
\* ABORTED, 400 for INVALID_ARGUMENT, FAILED_PRECONDITION and OUT_OF_RANGE,
\* 500 for UNKNOWN, INTERNAL, DATA_LOSS and every code it does not list.
SpecTable ==
  { <<200, {OK}>>, <<400, {InvalidArgument, FailedPrecondition, OutOfRange}>>,
    <<401, {Unauthenticated}>>, <<403, {PermissionDenied}>>,
    <<404, {NotFound}>>, <<408, {Canceled}>>, <<409, {AlreadyExists, Aborted}>>,
    <<429, {ResourceExhausted}>>, <<500, {Unknown, Internal, DataLoss}>>,
    <<501, {Unimplemented}>>, <<503, {Unavailable}>>,
    <<504, {DeadlineExceeded}>> }

SpecHTTPForCode(c) ==
  IF \E row \in SpecTable : c \in row[2]
  THEN (CHOOSE row \in SpecTable : c \in row[2])[1] ELSE 500

\* The caller answers every error, whichever reply produced it, with the
\* HTTP status the spec's table gives for the error's gRPC code.
CallerStatusMatchesSpecTable ==
  (pc = "done" /\ err # Nil) => callerStatus = SpecHTTPForCode(err.code)

\* Every error built from an HTTP reply carries in its ErrorInfo detail a
\* prefix of the app's body of at most 63 bytes, and the ErrorInfo's reason
\* is the status message of the error it is attached to.
ErrorInfoRecordsReply ==
  (reply.kind = "http" /\ pc # "reply" /\ err # Nil) =>
    \A i \in DOMAIN err.details :
      LET msg == err.details[i].metadata.httpErrorMessage
      IN  /\ IsPrefix(msg, reply.detail)
          /\ Len(msg) <= maxMetadataValueLen
          /\ err.details[i].reason = err.message

\* Spec sections 4.3 and 8: an error built from a failed HTTP reply always
\* carries the ErrorInfo detail, with the body cut to 63 characters.
ErrorInfoAlwaysAttached ==
  (reply.kind = "http" /\ pc # "reply" /\ err # Nil) => Len(err.details) = 1

====
