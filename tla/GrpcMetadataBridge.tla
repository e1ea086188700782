------------------------- MODULE GrpcMetadataBridge -------------------------
(***************************************************************************)
(* InternalMetadataToGrpcMetadata (pkg/messaging/v1/util.go): one call    *)
(* converting the internal metadata of an invocation into outgoing gRPC   *)
(* metadata, and the trace propagation it ends with                       *)
(* (processHTTPToGRPCTraceHeader or processGRPCToGRPCTraceHeader).        *)
(*                                                                         *)
(* The range loop over the Go map is one action per iteration, taking     *)
(* the keys in any order, as Go's randomised map iteration does.          *)
(***************************************************************************)
EXTENDS GrpcMetadataOps

CONSTANT Ambients    \* span contexts the call context may carry
ASSUME Ambients \subseteq SpanContexts \cup {EmptySpanContext}

VARIABLES
  internalMD,            \* the input map (read-only)
  ambient,               \* SpanFromContext(ctx).SpanContext()
  httpHeaderConversion,  \* the flag argument
  pending,               \* keys the range loop has not visited yet
  md,                    \* the metadata.MD being built
  traceparentValue, tracestateValue, grpctracebinValue,
  pc                     \* "loop" -> "done" | "panic"

vars == <<internalMD, ambient, httpHeaderConversion, pending, md,
          traceparentValue, tracestateValue, grpctracebinValue, pc>>

Init ==
  /\ internalMD \in Inputs
  /\ ambient \in Ambients
  /\ httpHeaderConversion \in BOOLEAN
  /\ pending = DOMAIN internalMD
  /\ md = <<>>
  /\ traceparentValue = "" /\ tracestateValue = "" /\ grpctracebinValue = ""
  /\ pc = "loop"

LoopStep(k) ==
  /\ pc = "loop"
  /\ k \in pending
  /\ pending' = pending \ {k}

IsTraceKey(k) ==
  LoopKeyName(k) \in {TraceparentHeader, TracestateHeader, GRPCTraceContextKey}

\* The three trace keys: remember the first value and continue.
CaptureTraceKey(k) ==
  LET keyName == LoopKeyName(k) IN
  /\ LoopStep(k)
  /\ IsTraceKey(k)
  /\ internalMD[k] # <<>>
  /\ traceparentValue' =
       IF keyName = TraceparentHeader THEN internalMD[k][1] ELSE traceparentValue
  /\ tracestateValue' =
       IF keyName = TracestateHeader THEN internalMD[k][1] ELSE tracestateValue
  /\ grpctracebinValue' =
       IF keyName = GRPCTraceContextKey THEN internalMD[k][1] ELSE grpctracebinValue
  /\ UNCHANGED <<internalMD, ambient, httpHeaderConversion, md, pc>>

\* listVal.GetValues()[0] of a trace key with no values: index out of
\* range, and the goroutine panics.
PanicOnEmptyTraceKey(k) ==
  /\ pc = "loop"
  /\ k \in pending
  /\ IsTraceKey(k)
  /\ internalMD[k] = <<>>
  /\ pc' = "panic"
  /\ UNCHANGED <<internalMD, ambient, httpHeaderConversion, pending, md,
                 traceparentValue, tracestateValue, grpctracebinValue>>

\* destination-app-id is dropped.
SkipDestinationID(k) ==
  /\ LoopStep(k)
  /\ LoopKeyName(k) = DestinationIDHeader
  /\ UNCHANGED <<internalMD, ambient, httpHeaderConversion, md,
                 traceparentValue, tracestateValue, grpctracebinValue, pc>>

\* Variant: md[key] = append(md[key], vals...) in place of md.Append,
\* which stores a key even when no value is kept.
CopyKeyInPlace(k) ==
  LET key == LowerMDKey(OutgoingKey(k, httpHeaderConversion)) IN
  /\ LoopStep(k)
  /\ LoopKeyName(k) \notin {TraceparentHeader, TracestateHeader,
                             GRPCTraceContextKey, DestinationIDHeader}
  /\ md' = (key :> ((IF key \in DOMAIN md THEN md[key] ELSE <<>>)
                     \o CopiedValues(k, internalMD[k]))) @@ md
  /\ UNCHANGED <<internalMD, ambient, httpHeaderConversion,
                 traceparentValue, tracestateValue, grpctracebinValue, pc>>

\* Any other key is appended to md.
CopyKey(k) ==
  /\ LoopStep(k)
  /\ LoopKeyName(k) \notin {TraceparentHeader, TracestateHeader,
                        GRPCTraceContextKey, DestinationIDHeader}
  /\ md' = MDAppend(md, OutgoingKey(k, httpHeaderConversion),
                    CopiedValues(k, internalMD[k]))
  /\ UNCHANGED <<internalMD, ambient, httpHeaderConversion,
                 traceparentValue, tracestateValue, grpctracebinValue, pc>>

\* A content-type entry with no values: IsGRPCProtocol indexes [0] of it
\* and panics after the loop.
ContentTypeEmpty ==
  ContentTypeHeader \in DOMAIN internalMD /\ internalMD[ContentTypeHeader] = <<>>

PanicInIsGRPCProtocol ==
  /\ pc = "loop"
  /\ pending = {}
  /\ ContentTypeEmpty
  /\ pc' = "panic"
  /\ UNCHANGED <<internalMD, ambient, httpHeaderConversion, pending, md,
                 traceparentValue, tracestateValue, grpctracebinValue>>

\* After the loop: the trace propagation chosen by the origin protocol.
PropagateTrace ==
  /\ pc = "loop"
  /\ pending = {}
  /\ ~ContentTypeEmpty
  /\ md' = IF IsGRPCProtocol(internalMD)
           THEN processGRPCToGRPCTraceHeader(md, ambient, grpctracebinValue)
           ELSE processHTTPToGRPCTraceHeader(md, ambient, traceparentValue,
                                             tracestateValue)
  /\ pc' = "done"
  /\ UNCHANGED <<internalMD, ambient, httpHeaderConversion, pending,
                 traceparentValue, tracestateValue, grpctracebinValue>>

Next ==
  \/ \E k \in DOMAIN internalMD :
       \/ CaptureTraceKey(k) \/ PanicOnEmptyTraceKey(k)
       \/ SkipDestinationID(k) \/ CopyKey(k)
  \/ PanicInIsGRPCProtocol
  \/ PropagateTrace

Spec == Init /\ [][Next]_vars

-----------------------------------------------------------------------------
(***************************************************************************)
(* What the call promises, stated over its input.                         *)
(***************************************************************************)
\* The first value of the input key that lower-cases to name ("" if none).
InboundValue(name) ==
  IF \E k \in DOMAIN internalMD : KeyLower[k] = name
  THEN internalMD[CHOOSE k \in DOMAIN internalMD : KeyLower[k] = name][1]
  ELSE ""

InboundToken == Base64Decode(InboundValue(GRPCTraceContextKey))

\* A gRPC-origin call whose grpc-trace-bin token is present but does not
\* decode to a span context.
MalformedToken ==
  /\ IsGRPCProtocol(internalMD)
  /\ InboundValue(GRPCTraceContextKey) # ""
  /\ ~(InboundToken.ok /\ SpanContextFromBinary(InboundToken.val).ok)

\* The span context the outgoing metadata must carry: the inbound one of
\* the origin protocol when it is valid, otherwise the ambient span.
ExpectedSpanContext ==
  IF IsGRPCProtocol(internalMD)
  THEN IF InboundValue(GRPCTraceContextKey) # ""
          /\ InboundToken.ok /\ SpanContextFromBinary(InboundToken.val).ok
       THEN SpanContextFromBinary(InboundToken.val).sc
       ELSE ambient
  ELSE LET parsed == SpanContextFromW3CString(InboundValue(TraceparentHeader))
       IN  IF parsed.ok
           THEN [parsed.sc EXCEPT
                   !.state = TraceStateFromW3CString(InboundValue(TracestateHeader))]
           ELSE ambient

OutgoingW3CHeaders ==
  { <<k, md[k]>> : k \in DOMAIN md \cap {TraceparentHeader, TracestateHeader} }

TypeOK ==
  /\ internalMD \in Inputs
  /\ ambient \in Ambients
  /\ httpHeaderConversion \in BOOLEAN
  /\ pending \subseteq DOMAIN internalMD
  /\ \A k \in DOMAIN md : md[k] \in Seq(STRING) /\ md[k] # <<>>
  /\ {traceparentValue, tracestateValue, grpctracebinValue} \subseteq STRING
  /\ pc \in {"loop", "done", "panic"}

(***************************************************************************)
(* Trace propagation (util.go processHTTPToGRPCTraceHeader and            *)
(* processGRPCToGRPCTraceHeader, after the key loop): whatever order the  *)
(* loop visits the keys in and whatever else the map holds, the returned  *)
(* metadata carries the inbound trace context of the origin protocol when *)
(* it is valid and the ambient span otherwise, both as grpc-trace-bin and *)
(* mirrored as traceparent/tracestate, each a single value.  Malformed    *)
(* gRPC tokens are left to TraceAlwaysEmitted.                            *)
(***************************************************************************)
TraceContextPropagated ==
  (pc = "done" /\ ~MalformedToken) =>
    /\ GRPCTraceContextKey \in DOMAIN md
    /\ md[GRPCTraceContextKey] = <<BinaryFromSpanContext(ExpectedSpanContext)>>
    /\ OutgoingW3CHeaders =
         { <<p[1], <<p[2]>> >> : p \in ToSet(SpanContextToHTTPHeaders(ExpectedSpanContext)) }

(***************************************************************************)
(* The key loop of InternalMetadataToGrpcMetadata never writes a trace    *)
(* key (in any spelling) into the outgoing metadata: they are written     *)
(* only by the trace propagation step; and destination-app-id is never    *)
(* forwarded.                                                              *)
(***************************************************************************)
ReservedKeys ==
  {TraceparentHeader, TracestateHeader, GRPCTraceContextKey}

TraceKeysWrittenOnlyByPropagator ==
  [][ /\ DestinationIDHeader \notin DOMAIN md'
      /\ pc' = "loop" =>
           \A r \in ReservedKeys : (r \in DOMAIN md') = (r \in DOMAIN md) ]_vars

(***************************************************************************)
(* Spec 4.2 and 7: decode failures are recovered by falling back to the   *)
(* ambient span, so with a valid ambient span every call emits a valid    *)
(* trace context, as a traceparent and a grpc-trace-bin naming the same   *)
(* trace.                                                                  *)
(***************************************************************************)
TraceAlwaysEmitted ==
  (pc = "done" /\ ambient # EmptySpanContext) =>
    /\ {TraceparentHeader, GRPCTraceContextKey} \subseteq DOMAIN md
    /\ SpanContextFromW3CString(md[TraceparentHeader][1]).ok
    /\ SpanContextFromBinary(md[GRPCTraceContextKey][1]).sc.id
         = SpanContextFromW3CString(md[TraceparentHeader][1]).sc.id
    /\ SpanContextFromBinary(md[GRPCTraceContextKey][1]).ok

(***************************************************************************)
(* Spec 4.1(d) and 8: a key that ends in "-bin" once lower-cased carries  *)
(* base64 values; each one that decodes is forwarded decoded, so the      *)
(* bytes survive the hop, and the rest are dropped.                       *)
(***************************************************************************)
BinaryValuesDecoded ==
  pc = "done" =>
    \A k \in DOMAIN internalMD :
      ( /\ HasSuffix(KeyLower[k], gRPCBinaryMetadataSuffix)
        /\ KeyLower[k] # GRPCTraceContextKey
        /\ BinaryValues(internalMD[k]) # <<>> )
      => md[KeyLower[k]] = BinaryValues(internalMD[k])

(***************************************************************************)
(* Spec 7: no function of the bridge fails on malformed metadata input;  *)
(* the conversion returns the outgoing metadata for every internal map.   *)
(* But a trace key or content-type carried with an                        *)
(* empty value list makes the loop (listVal.GetValues()[0]) or            *)
(* IsGRPCProtocol index past the end, and the call panics.                *)
(***************************************************************************)
NoPanic == pc # "panic"

=============================================================================
