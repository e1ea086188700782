-------------------------- MODULE GrpcMetadataOps --------------------------
(***************************************************************************)
(* The pure operators InternalMetadataToGrpcMetadata (pkg/messaging/v1/   *)
(* util.go) is built from: metadata.MD's Append and Set, the values and  *)
(* key name one loop iteration copies, and the two trace propagation     *)
(* functions the call ends with.  Shared by the step-wise model of the   *)
(* call (GrpcMetadataBridge) and its contract (GrpcMetadataContract).    *)
(***************************************************************************)
EXTENDS DaprMetadata, Functions

CONSTANT Inputs   \* internal metadata maps the call may receive

ASSUME \A in \in Inputs : \A k \in DOMAIN in : in[k] \in Seq(STRING)

\* strings.ToLower of every key an input can hold, evaluated once, and of
\* every key the bridge can pass to metadata.MD.
InputKeys == UNION {DOMAIN in : in \in Inputs}
KeyLower == [k \in InputKeys |-> ToLower(k)]
MDKeyLower ==
  LET ks == InputKeys \cup {DaprHeaderPrefix \o k : k \in InputKeys}
            \cup {DaprHeaderPrefix \o KeyLower[k] : k \in InputKeys}
            \cup {TraceparentHeader, TracestateHeader, GRPCTraceContextKey}
  IN  [k \in ks |-> ToLower(k)]
LowerMDKey(k) == IF k \in DOMAIN MDKeyLower THEN MDKeyLower[k] ELSE ToLower(k)

(***************************************************************************)
(* metadata.MD (google.golang.org/grpc/metadata): a map from lower-case   *)
(* keys to value lists.  Both lower-case the key; Append with no values   *)
(* is a no-op; Set replaces.                                              *)
(***************************************************************************)
\* Variant: the values replace what the key already holds.
MDAppendReplaces(m, key, vals) ==
  IF vals = <<>> THEN m ELSE (LowerMDKey(key) :> vals) @@ m

MDAppend(m, key, vals) ==
  LET k == LowerMDKey(key) IN
  IF vals = <<>> THEN m
  ELSE IF k \in DOMAIN m THEN [m EXCEPT ![k] = @ \o vals]
  ELSE m @@ (k :> vals)

MDSet(m, key, v) == (LowerMDKey(key) :> <<v>>) @@ m

\* md.Set for each pair SpanContextToHTTPHeaders emits.
MDSetAll(m, pairs) ==
  FoldLeft(LAMBDA acc, p : MDSet(acc, p[1], p[2]), m, pairs)

(***************************************************************************)
(* The trace propagation that ends the call.                              *)
(***************************************************************************)
\* Variant: the parsed traceparent loses the inbound tracestate.
processHTTPToGRPCTraceHeaderNoState(m, amb, tp, ts) ==
  LET parsed == SpanContextFromW3CString(tp)
      sc     == IF parsed.ok THEN parsed.sc ELSE amb
  IN  MDSet(MDSetAll(m, SpanContextToHTTPHeaders(sc)),
            GRPCTraceContextKey, BinaryFromSpanContext(sc))

\* Parsed traceparent (with its tracestate) or else the ambient span, set
\* both as W3C headers and as the binary grpc-trace-bin value.
processHTTPToGRPCTraceHeader(m, amb, tp, ts) ==
  LET parsed == SpanContextFromW3CString(tp)
      sc     == IF parsed.ok
                THEN [parsed.sc EXCEPT !.state = TraceStateFromW3CString(ts)]
                ELSE amb
  IN  MDSet(MDSetAll(m, SpanContextToHTTPHeaders(sc)),
            GRPCTraceContextKey, BinaryFromSpanContext(sc))

\* Empty token: the ambient span, dual-emitted.  Otherwise only if the
\* token is valid base64: W3C headers when it parses, and the decoded
\* bytes under grpc-trace-bin whether it parses or not.
processGRPCToGRPCTraceHeader(m, amb, bin) ==
  IF bin = ""
  THEN MDSet(MDSetAll(m, SpanContextToHTTPHeaders(amb)),
             GRPCTraceContextKey, BinaryFromSpanContext(amb))
  ELSE LET decoded == Base64Decode(bin)
           parsed  == SpanContextFromBinary(decoded.val)
       IN  IF ~decoded.ok THEN m
           ELSE MDSet(IF parsed.ok
                      THEN MDSetAll(m, SpanContextToHTTPHeaders(parsed.sc))
                      ELSE m,
                      GRPCTraceContextKey, decoded.val)

(***************************************************************************)
(* The loop body.                                                         *)
(***************************************************************************)
\* The values kept for a key: every value that decodes, decoded, for a key
\* whose original spelling ends in "-bin"; all values otherwise.
BinaryValues(vals) ==
  LET good == SelectSeq(vals, LAMBDA v : Base64Decode(v).ok)
  IN  [i \in 1..Len(good) |-> Base64Decode(good[i]).val]

CopiedValues(k, vals) ==
  IF HasSuffix(k, gRPCBinaryMetadataSuffix) THEN BinaryValues(vals) ELSE vals

\* Variant: the loop switches on the key as spelled in the input.
LoopKeyNameAsSpelled(k) == k

\* keyName := strings.ToLower(k)
LoopKeyName(k) == KeyLower[k]

\* The key a copied entry is stored under.
OutgoingKey(k, conversion) ==
  IF conversion /\ isPermanentHTTPHeader(k)
  THEN DaprHeaderPrefix \o LoopKeyName(k)
  ELSE LoopKeyName(k)

=============================================================================
