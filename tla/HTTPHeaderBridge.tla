-------------------------- MODULE HTTPHeaderBridge --------------------------
(***************************************************************************)
(* InternalMetadataToHTTPHeader (pkg/messaging/v1/util.go): one call      *)
(* turning the internal metadata of an invocation into setHeader calls on *)
(* an HTTP request or response, ending with the trace propagation         *)
(* processGRPCToHTTPTraceHeaders or processHTTPToHTTPTraceHeaders.        *)
(*                                                                         *)
(* The observable result is the sequence of setHeader calls, kept in      *)
(* "headers" in the order they are made.  The range loop over the Go map  *)
(* is one action per iteration, in any key order.                         *)
(***************************************************************************)
EXTENDS DaprMetadata, SequencesExt

CONSTANTS
  Inputs,     \* internal metadata maps the call may receive
  Ambients    \* span contexts the call context may carry

ASSUME \A in \in Inputs : \A k \in DOMAIN in : in[k] \in Seq(STRING)
ASSUME Ambients \subseteq SpanContexts \cup {EmptySpanContext}

VARIABLES
  internalMD, ambient, pending,
  headers,    \* the setHeader(key, value) calls made so far
  traceparentValue, tracestateValue, grpctracebinValue,
  pc          \* "loop" -> "done" | "panic"

vars == <<internalMD, ambient, pending, headers,
          traceparentValue, tracestateValue, grpctracebinValue, pc>>

\* strings.ToLower of every key an input can hold, evaluated once.
InputKeys == UNION {DOMAIN in : in \in Inputs}
KeyLower == [k \in InputKeys |-> ToLower(k)]

(***************************************************************************)
(* The trace propagation that ends the call, as the setHeader calls it    *)
(* makes.                                                                  *)
(***************************************************************************)
\* Variant: no fallback to the ambient span when the token does not parse.
processGRPCToHTTPTraceHeadersNoFallback(amb, traceContext) ==
  LET decoded == Base64Decode(traceContext)
  IN  SpanContextToHTTPHeaders(SpanContextFromBinary(decoded.val).sc)

\* The decode error is ignored: a token that does not decode or parse
\* falls back to the ambient span.
processGRPCToHTTPTraceHeaders(amb, traceContext) ==
  LET decoded == Base64Decode(traceContext)
      parsed  == SpanContextFromBinary(decoded.val)
  IN  SpanContextToHTTPHeaders(IF parsed.ok THEN parsed.sc ELSE amb)

\* An inbound traceparent is passed through verbatim (with a non-empty
\* tracestate); without one the ambient span is emitted.
processHTTPToHTTPTraceHeaders(amb, traceparentVal, traceStateVal) ==
  IF traceparentVal = ""
  THEN SpanContextToHTTPHeaders(amb)
  ELSE << <<TraceparentHeader, traceparentVal>> >>
       \o (IF traceStateVal # "" THEN << <<TracestateHeader, traceStateVal>> >>
           ELSE <<>>)

(***************************************************************************)
(* The loop body.                                                         *)
(***************************************************************************)
\* Variant: only the first value of a multi-valued key is forwarded.
SetHeaderCallsFirstOnly(k) ==
  << <<ReservedGRPCMetadataToDaprPrefixHeader(KeyLower[k]), internalMD[k][1]>> >>

\* Variant: the key is forwarded as spelled, without strings.ToLower.
SetHeaderCallsAsSpelled(k) ==
  [i \in 1..Len(internalMD[k]) |->
     <<ReservedGRPCMetadataToDaprPrefixHeader(k), internalMD[k][i]>>]

\* One setHeader call per value, under the rewritten lower-case key.
SetHeaderCalls(k) ==
  [i \in 1..Len(internalMD[k]) |->
     <<ReservedGRPCMetadataToDaprPrefixHeader(KeyLower[k]), internalMD[k][i]>>]

Init ==
  /\ internalMD \in Inputs
  /\ ambient \in Ambients
  /\ pending = DOMAIN internalMD
  /\ headers = <<>>
  /\ traceparentValue = "" /\ tracestateValue = "" /\ grpctracebinValue = ""
  /\ pc = "loop"

LoopStep(k) ==
  /\ pc = "loop"
  /\ k \in pending
  /\ pending' = pending \ {k}

\* Keys without values are skipped before anything else.
SkipEmpty(k) ==
  /\ LoopStep(k)
  /\ internalMD[k] = <<>>
  /\ UNCHANGED <<internalMD, ambient, headers,
                 traceparentValue, tracestateValue, grpctracebinValue, pc>>

CaptureTraceKey(k) ==
  LET keyName == KeyLower[k] IN
  /\ LoopStep(k)
  /\ internalMD[k] # <<>>
  /\ keyName \in {TraceparentHeader, TracestateHeader, GRPCTraceContextKey}
  /\ traceparentValue' =
       IF keyName = TraceparentHeader THEN internalMD[k][1] ELSE traceparentValue
  /\ tracestateValue' =
       IF keyName = TracestateHeader THEN internalMD[k][1] ELSE tracestateValue
  /\ grpctracebinValue' =
       IF keyName = GRPCTraceContextKey THEN internalMD[k][1] ELSE grpctracebinValue
  /\ UNCHANGED <<internalMD, ambient, headers, pc>>

\* destination-app-id, keys ending in "-bin" and content-type are dropped.
DropKey(k) ==
  LET keyName == KeyLower[k] IN
  /\ LoopStep(k)
  /\ internalMD[k] # <<>>
  /\ \/ keyName = DestinationIDHeader
     \/ /\ keyName \notin {TraceparentHeader, TracestateHeader,
                           GRPCTraceContextKey, BaggageHeader}
        /\ HasSuffix(keyName, gRPCBinaryMetadataSuffix) \/ keyName = ContentTypeHeader
  /\ UNCHANGED <<internalMD, ambient, headers,
                 traceparentValue, tracestateValue, grpctracebinValue, pc>>

\* Variant: baggage forwarded like any other key, every value.
SetBaggageAllValues(k) ==
  /\ LoopStep(k)
  /\ internalMD[k] # <<>>
  /\ KeyLower[k] = BaggageHeader
  /\ headers' = headers \o [i \in 1..Len(internalMD[k]) |->
                              <<BaggageHeader, internalMD[k][i]>>]
  /\ UNCHANGED <<internalMD, ambient,
                 traceparentValue, tracestateValue, grpctracebinValue, pc>>

\* baggage: its first value only, under the canonical key.
SetBaggage(k) ==
  /\ LoopStep(k)
  /\ internalMD[k] # <<>>
  /\ KeyLower[k] = BaggageHeader
  /\ headers' = Append(headers, <<BaggageHeader, internalMD[k][1]>>)
  /\ UNCHANGED <<internalMD, ambient,
                 traceparentValue, tracestateValue, grpctracebinValue, pc>>

\* Every other key: each value set under the rewritten key.
SetHeaders(k) ==
  LET keyName == KeyLower[k] IN
  /\ LoopStep(k)
  /\ internalMD[k] # <<>>
  /\ keyName \notin {TraceparentHeader, TracestateHeader, GRPCTraceContextKey,
                     DestinationIDHeader, BaggageHeader, ContentTypeHeader}
  /\ ~HasSuffix(keyName, gRPCBinaryMetadataSuffix)
  /\ headers' = headers \o SetHeaderCalls(k)
  /\ UNCHANGED <<internalMD, ambient,
                 traceparentValue, tracestateValue, grpctracebinValue, pc>>

\* IsGRPCProtocol reads GetValues()[0] of content-type: an empty list
\* there is an index-out-of-range panic.
ContentTypeEmpty ==
  ContentTypeHeader \in DOMAIN internalMD /\ internalMD[ContentTypeHeader] = <<>>

PanicInIsGRPCProtocol ==
  /\ pc = "loop"
  /\ pending = {}
  /\ ContentTypeEmpty
  /\ pc' = "panic"
  /\ UNCHANGED <<internalMD, ambient, pending, headers,
                 traceparentValue, tracestateValue, grpctracebinValue>>

PropagateTrace ==
  /\ pc = "loop"
  /\ pending = {}
  /\ ~ContentTypeEmpty
  /\ headers' = headers \o
       (IF IsGRPCProtocol(internalMD)
        THEN processGRPCToHTTPTraceHeaders(ambient, grpctracebinValue)
        ELSE processHTTPToHTTPTraceHeaders(ambient, traceparentValue, tracestateValue))
  /\ pc' = "done"
  /\ UNCHANGED <<internalMD, ambient, pending,
                 traceparentValue, tracestateValue, grpctracebinValue>>

Next ==
  \/ \E k \in DOMAIN internalMD :
       \/ SkipEmpty(k) \/ CaptureTraceKey(k) \/ DropKey(k)
       \/ SetBaggage(k) \/ SetHeaders(k)
  \/ PanicInIsGRPCProtocol
  \/ PropagateTrace

Spec == Init /\ [][Next]_vars

-----------------------------------------------------------------------------
(***************************************************************************)
(* What the call promises, stated over its input.                         *)
(***************************************************************************)
\* The first value of the non-empty input key that lower-cases to name.
Captured(name) ==
  LET ks == {k \in DOMAIN internalMD : KeyLower[k] = name /\ internalMD[k] # <<>>}
  IN  IF ks = {} THEN {""} ELSE {internalMD[k][1] : k \in ks}

\* Spec 4.2, for the inbound values tp, ts, bin: gRPC origin: the decoded
\* binary token, or the ambient span when it does not decode or parse;
\* HTTP origin: the inbound traceparent and non-empty tracestate verbatim,
\* or the ambient span when there is none.
ExpectedTraceHeaders(tp, ts, bin) ==
  IF IsGRPCProtocol(internalMD)
  THEN LET tok == SpanContextFromBinary(Base64Decode(bin).val)
       IN  SpanContextToHTTPHeaders(IF tok.ok THEN tok.sc ELSE ambient)
  ELSE IF tp = ""
       THEN SpanContextToHTTPHeaders(ambient)
       ELSE << <<TraceparentHeader, tp>> >>
            \o (IF ts # "" THEN << <<TracestateHeader, ts>> >> ELSE <<>>)

\* Input keys the loop forwards as ordinary headers.
OrdinaryKeys ==
  { k \in DOMAIN internalMD :
      /\ internalMD[k] # <<>>
      /\ KeyLower[k] \notin {TraceparentHeader, TracestateHeader, GRPCTraceContextKey,
                             DestinationIDHeader, BaggageHeader, ContentTypeHeader}
      /\ ~HasSuffix(KeyLower[k], gRPCBinaryMetadataSuffix) }

\* The values of the setHeader calls made for key, in order.
ValuesSetFor(key) ==
  LET calls == SelectSeq(headers, LAMBDA h : h[1] = key)
  IN  [i \in 1..Len(calls) |-> calls[i][2]]

\* The header names the call may set: lower-case, rewritten input keys and
\* the trace and baggage headers; and the values it may set.
HeaderNames ==
  {ReservedGRPCMetadataToDaprPrefixHeader(KeyLower[k]) : k \in InputKeys}
  \cup {BaggageHeader, TraceparentHeader, TracestateHeader}
HeaderValues ==
  UNION {UNION {ToSet(in[k]) : k \in DOMAIN in} : in \in Inputs}
  \cup {SpanContextToW3CString(sc) : sc \in SpanContexts} \cup TraceStates

TypeOK ==
  /\ internalMD \in Inputs
  /\ ambient \in Ambients
  /\ pending \subseteq DOMAIN internalMD
  /\ headers \in Seq(HeaderNames \X HeaderValues)
  /\ {traceparentValue, tracestateValue, grpctracebinValue} \subseteq STRING
  /\ pc \in {"loop", "done", "panic"}

(***************************************************************************)
(* Trace propagation (util.go processGRPCToHTTPTraceHeaders and           *)
(* processHTTPToHTTPTraceHeaders, after the key loop): whatever the key   *)
(* order and whatever else the map holds, the traceparent/tracestate      *)
(* headers set are exactly those the origin protocol's inbound context    *)
(* calls for, each set once, and none is copied from the map by the loop. *)
(* When a trace key comes in several spellings ('Traceparent' and         *)
(* 'traceparent'), the map order decides whose first value is captured:   *)
(* the headers are those of one spelling's value for each trace key, the  *)
(* values of different trace keys are never mixed up.                     *)
(***************************************************************************)
TraceHeadersPropagated ==
  pc = "done" =>
    \E tp \in Captured(TraceparentHeader), ts \in Captured(TracestateHeader),
       bin \in Captured(GRPCTraceContextKey) :
      SelectSeq(headers, LAMBDA h : h[1] \in {TraceparentHeader, TracestateHeader})
        = ExpectedTraceHeaders(tp, ts, bin)

(***************************************************************************)
(* ReservedGRPCMetadataToDaprPrefixHeader and the loop's drops: no header *)
(* set on the HTTP message is a gRPC pseudo-header, a "grpc-" key, a      *)
(* binary "-bin" key, content-type or destination-app-id, in any case   *)
(* (HTTP header names are case-insensitive).                              *)
(***************************************************************************)
NoReservedHeaderSet ==
  \A i \in 1..Len(headers) :
    LET key == ToLower(headers[i][1]) IN
    /\ ~HasPrefix(key, ":")
    /\ ~HasPrefix(key, "grpc-")
    /\ ~HasSuffix(key, gRPCBinaryMetadataSuffix)
    /\ key \notin {ContentTypeHeader, DestinationIDHeader}

(***************************************************************************)
(* Every value of every ordinary key reaches the HTTP message, in order,  *)
(* under the key's rewritten name (the multi-value loop of util.go).      *)
(***************************************************************************)
UserHeadersForwarded ==
  pc = "done" =>
    \A k \in OrdinaryKeys :
      ValuesSetFor(ReservedGRPCMetadataToDaprPrefixHeader(KeyLower[k])) = internalMD[k]

(***************************************************************************)
(* Spec 4.1 (toTransportB): baggage is copied through under its canonical *)
(* key, and only values[0] is meaningful: the call sets one baggage       *)
(* header per non-empty spelling of the key, carrying that spelling's     *)
(* first value, in whatever order the map is visited.                     *)
(***************************************************************************)
BaggageForwarded ==
  pc = "done" =>
    \E order \in SetToSeqs({k \in DOMAIN internalMD :
                               KeyLower[k] = BaggageHeader /\ internalMD[k] # <<>>}) :
      ValuesSetFor(BaggageHeader) = [i \in 1..Len(order) |-> internalMD[order[i]][1]]

(***************************************************************************)
(* Spec 7: no function of this layer fails on malformed metadata input.   *)
(* The loop tolerates keys with no values (util.go:213); IsGRPCProtocol   *)
(* does not.                                                              *)
(***************************************************************************)
NoPanic == pc # "panic"

=============================================================================
