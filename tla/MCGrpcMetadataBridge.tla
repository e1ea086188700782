----------------------- MODULE MCGrpcMetadataBridge -----------------------
(***************************************************************************)
(* Model of InternalMetadataToGrpcMetadata for TLC.  An input map is the  *)
(* union of one choice from each group below: the content type that      *)
(* selects the origin protocol, the inbound trace keys, and the ordinary  *)
(* keys.  Keys come spelled as net/http canonicalises them (HTTP origin)  *)
(* or lower-case (gRPC origin); the spec allows both.                     *)
(***************************************************************************)
EXTENDS GrpcMetadataBridge, TLC

\* A valid span context for W3C or binary encoding.
SC(id) == [id |-> id, state |-> ""]

MCAmbients == {EmptySpanContext, [id |-> "ta", state |-> "tsa"]}

ContentTypes ==
  { <<>>,
    "Content-Type" :> <<"application/json">>,
    "content-type" :> <<"application/grpc">>,
    "content-type" :> <<"application/grpc+proto", "application/json">>,
    "content-type" :> <<>> }

TraceKeys ==
  { <<>>,
    ("Traceparent" :> <<SpanContextToW3CString(SC("t1"))>>)
      @@ ("Tracestate" :> <<"ts1">>),
    "traceparent" :> <<"garbage", SpanContextToW3CString(SC("t2"))>>,
    "grpc-trace-bin" :> <<Base64Encode(BinaryFromSpanContext(SC("t2")))>>,
    "Grpc-Trace-Bin" :> <<"%%">>,
    "grpc-trace-bin" :> <<Base64Encode("junk")>>,
    ("grpc-trace-bin" :> <<Base64Encode(BinaryFromSpanContext(SC("t1")))>>)
      @@ ("traceparent" :> <<SpanContextToW3CString(SC("t2"))>>),
    ("traceparent" :> <<SpanContextToW3CString(SC("t1"))>>)
      @@ ("Tracestate" :> <<>>) }

OtherKeys ==
  { ("Accept" :> <<"v1">>) @@ ("x-data-bin" :> <<Base64Encode("b1"), "%%">>)
      @@ ("destination-app-id" :> <<"app">>) @@ ("baggage" :> <<"v1", "v2">>),
    ("accept" :> <<"v1">>) @@ ("Destination-App-Id" :> <<"app">>)
      @@ (":authority" :> <<"host">>) @@ ("x-empty" :> <<>>)
      @@ ("x-bad-bin" :> <<"%%">>) @@ ("X-Data-Bin" :> <<Base64Encode("b2")>>) }

MCInputs == { c @@ t @@ o : c \in ContentTypes, t \in TraceKeys, o \in OtherKeys }

=============================================================================
