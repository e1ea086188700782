---------------------------- MODULE DaprMetadata ----------------------------
(***************************************************************************)
(* Data shared by both directions of the metadata bridge of               *)
(* pkg/messaging/v1/util.go: the reserved keys and media types, the       *)
(* string operations the bridge applies to keys, the encodings it         *)
(* decodes, and the trace-context codecs of pkg/diagnostics it calls.     *)
(*                                                                         *)
(* Keys and values are real strings, so lower-casing, prefix and suffix   *)
(* tests and the "dapr-" rewriting are computed, not assumed.  The        *)
(* encodings (base64, W3C traceparent, the binary span context) are       *)
(* modelled by what they do: each maps a value to a distinct string and   *)
(* its decoder accepts exactly the strings the encoder produces.          *)
(***************************************************************************)
EXTENDS Naturals, Sequences, SequencesExt

CONSTANTS
  TraceIDs,     \* trace ids of valid span contexts (strings)
  TraceStates   \* well-formed W3C tracestate values (strings)

ASSUME "" \notin TraceIDs /\ "" \notin TraceStates

(***************************************************************************)
(* Constants of util.go and of pkg/diagnostics/consts.                    *)
(***************************************************************************)
GRPCContentType          == "application/grpc"
ContentTypeHeader        == "content-type"
ContentLengthHeader      == "content-length"
DaprHeaderPrefix         == "dapr-"
gRPCBinaryMetadataSuffix == "-bin"
DestinationIDHeader      == "destination-app-id"

TraceparentHeader   == "traceparent"
TracestateHeader    == "tracestate"
BaggageHeader       == "baggage"
GRPCTraceContextKey == "grpc-trace-bin"

(***************************************************************************)
(* strings.HasPrefix, strings.HasSuffix and strings.ToLower (ASCII).      *)
(***************************************************************************)
HasPrefix(s, p) == IsPrefix(p, s)

HasSuffix(s, x) ==
  Len(s) >= Len(x) /\ SubSeq(s, Len(s) - Len(x) + 1, Len(s)) = x

LOCAL UpperLetters == "ABCDEFGHIJKLMNOPQRSTUVWXYZ"
LOCAL LowerLetters == "abcdefghijklmnopqrstuvwxyz"
LOCAL Char(s, i) == SubSeq(s, i, i)

LowerChar(c) ==
  IF \E i \in 1..26 : Char(UpperLetters, i) = c
  THEN Char(LowerLetters, CHOOSE i \in 1..26 : Char(UpperLetters, i) = c)
  ELSE c

RECURSIVE ToLower(_)
ToLower(s) ==
  IF s = "" THEN "" ELSE LowerChar(Char(s, 1)) \o ToLower(SubSeq(s, 2, Len(s)))

(***************************************************************************)
(* isPermanentHTTPHeader: an exact, case-sensitive match against the IANA *)
(* permanent request headers in their canonical capitalization.           *)
(***************************************************************************)
PermanentHTTPHeaders ==
  { "Accept", "Accept-Charset", "Accept-Language", "Accept-Ranges",
    "Connection", "Keep-Alive", "Proxy-Connection", "Transfer-Encoding",
    "Upgrade", "Cache-Control", "Content-Type", "Content-Length", "Cookie",
    "Date", "Expect", "From", "Host", "If-Match", "If-Modified-Since",
    "If-None-Match", "If-Schedule-Tag-Match", "If-Unmodified-Since",
    "Max-Forwards", "Origin", "Pragma", "Referer", "Via", "Warning" }

isPermanentHTTPHeader(hdr) == hdr \in PermanentHTTPHeaders

(***************************************************************************)
(* IsGRPCProtocol: the first value stored under the exact key             *)
(* "content-type" starts, case-sensitively, with "application/grpc".     *)
(***************************************************************************)
IsGRPCProtocol(internalMD) ==
  /\ ContentTypeHeader \in DOMAIN internalMD
  /\ HasPrefix(internalMD[ContentTypeHeader][1], GRPCContentType)

\* Variant: only the pseudo-headers are rewritten.
ReservedGRPCMetadataToDaprPrefixHeaderPseudoOnly(key) ==
  IF key \in {":method", ":scheme", ":path", ":authority"}
  THEN DaprHeaderPrefix \o SubSeq(key, 2, Len(key))
  ELSE key

(***************************************************************************)
(* ReservedGRPCMetadataToDaprPrefixHeader: gRPC pseudo-headers lose their *)
(* colon and gain "dapr-"; keys starting "grpc-" gain "dapr-".            *)
(***************************************************************************)
ReservedGRPCMetadataToDaprPrefixHeader(key) ==
  IF key \in {":method", ":scheme", ":path", ":authority"}
  THEN DaprHeaderPrefix \o SubSeq(key, 2, Len(key))
  ELSE IF HasPrefix(key, "grpc-") THEN DaprHeaderPrefix \o key
  ELSE key

(***************************************************************************)
(* base64.StdEncoding.  Encoding "" gives ""; every other encoding is     *)
(* tagged, so a value that is not an encoding fails to decode.            *)
(***************************************************************************)
Base64Encode(b) == IF b = "" THEN "" ELSE "b64:" \o b

Base64Decode(v) ==
  IF v = "" THEN [ok |-> TRUE, val |-> ""]
  ELSE IF HasPrefix(v, "b64:") THEN [ok |-> TRUE, val |-> SubSeq(v, 5, Len(v))]
  ELSE [ok |-> FALSE, val |-> ""]

(***************************************************************************)
(* Span contexts of the tracing SDK, and the codecs of pkg/diagnostics.   *)
(* The zero SpanContext is EmptySpanContext: SpanFromContext returns it   *)
(* when the call context carries no span.                                 *)
(***************************************************************************)
SpanContexts == [id : TraceIDs, state : TraceStates \cup {""}]
EmptySpanContext == [id |-> "", state |-> ""]

SpanContextToW3CString(sc) == "00-" \o sc.id \o "-01"

SpanContextFromW3CString(h) ==
  IF \E id \in TraceIDs : h = SpanContextToW3CString([id |-> id, state |-> ""])
  THEN [ok |-> TRUE,
        sc |-> [id |-> CHOOSE id \in TraceIDs :
                         h = SpanContextToW3CString([id |-> id, state |-> ""]),
                state |-> ""]]
  ELSE [ok |-> FALSE, sc |-> EmptySpanContext]

TraceStateFromW3CString(h) == IF h \in TraceStates THEN h ELSE ""

\* The binary format carries ids and flags but no tracestate; the zero
\* span context encodes to nil.
BinaryFromSpanContext(sc) ==
  IF sc = EmptySpanContext THEN "" ELSE "bin:" \o sc.id

SpanContextFromBinary(b) ==
  IF \E id \in TraceIDs : b = "bin:" \o id
  THEN [ok |-> TRUE, sc |-> [id |-> CHOOSE id \in TraceIDs : b = "bin:" \o id,
                             state |-> ""]]
  ELSE [ok |-> FALSE, sc |-> EmptySpanContext]

\* SpanContextToHTTPHeaders: the header/value pairs it sets, in order.
\* Nothing for the zero span context; tracestate only when non-empty.
SpanContextToHTTPHeaders(sc) ==
  IF sc = EmptySpanContext THEN <<>>
  ELSE << <<TraceparentHeader, SpanContextToW3CString(sc)>> >>
       \o (IF sc.state # "" THEN << <<TracestateHeader, sc.state>> >> ELSE <<>>)

=============================================================================
