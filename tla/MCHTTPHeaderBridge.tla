------------------------ MODULE MCHTTPHeaderBridge ------------------------
(***************************************************************************)
(* Model of InternalMetadataToHTTPHeader for TLC.  An input map is the    *)
(* union of one choice from each group: the content type that selects the *)
(* origin protocol, the inbound trace keys, and the ordinary keys.  Keys  *)
(* are spelled as net/http canonicalises them or lower-case; a key may    *)
(* hold an empty list, which the loop skips.  Some trace keys and baggage *)
(* come in two spellings, which the map visits in either order.           *)
(***************************************************************************)
EXTENDS HTTPHeaderBridge, TLC

SC(id) == [id |-> id, state |-> ""]

MCAmbients == {EmptySpanContext, [id |-> "ta", state |-> "tsa"]}

ContentTypes ==
  { <<>>,
    "Content-Type" :> <<"application/json">>,
    "content-type" :> <<"application/grpc">>,
    "content-type" :> <<>> }

TraceKeys ==
  { <<>>,
    ("Traceparent" :> <<SpanContextToW3CString(SC("t1"))>>)
      @@ ("Tracestate" :> <<"ts1">>),
    "traceparent" :> <<"garbage">>,
    "traceparent" :> <<>>,
    "grpc-trace-bin" :> <<Base64Encode(BinaryFromSpanContext(SC("t2"))), "%%">>,
    "grpc-trace-bin" :> <<"%%">>,
    "Grpc-Trace-Bin" :> <<Base64Encode("junk")>>,
    ("Traceparent" :> <<SpanContextToW3CString(SC("t1"))>>)
      @@ ("traceparent" :> <<"garbage">>) @@ ("tracestate" :> <<"ts1">>),
    ("grpc-trace-bin" :> <<Base64Encode(BinaryFromSpanContext(SC("t2")))>>)
      @@ ("Grpc-Trace-Bin" :> <<"%%">>) }

OtherKeys ==
  { ("Accept" :> <<"v1", "v2">>) @@ ("x-data-bin" :> <<Base64Encode("b1")>>)
      @@ ("destination-app-id" :> <<"app">>) @@ ("Baggage" :> <<"bg1", "bg2">>) @@ ("baggage" :> <<"bg3">>)
      @@ (":authority" :> <<"host">>),
    ("Grpc-Timeout" :> <<"1S">>) @@ (":path" :> <<"/m">>) @@ ("x-empty" :> <<>>)
      @@ ("baggage" :> <<"bg">>) @@ ("User-Agent" :> <<"u">>) }

MCInputs == { c @@ t @@ o : c \in ContentTypes, t \in TraceKeys, o \in OtherKeys }

=============================================================================
