--------------------- MODULE MCGrpcMetadataRefinement ----------------------
(***************************************************************************)
(* InternalMetadataToGrpcMetadata, step by step (GrpcMetadataBridge),     *)
(* implements its order-free contract (GrpcMetadataContract).  The        *)
(* inputs are built around keys that collide once lower-cased, where Go's *)
(* map order decides the result.                                          *)
(***************************************************************************)
EXTENDS GrpcMetadataBridge, TLC

SC(id) == [id |-> id, state |-> ""]

MCAmbients == {EmptySpanContext, [id |-> "ta", state |-> "tsa"]}

ContentTypes ==
  { <<>>,
    "content-type" :> <<"application/grpc">>,
    ("Content-Type" :> <<"application/json">>)
      @@ ("content-type" :> <<"application/grpc">>),
    "content-type" :> <<>> }

TraceKeys ==
  { <<>>,
    ("Traceparent" :> <<SpanContextToW3CString(SC("t1"))>>)
      @@ ("traceparent" :> <<"garbage">>) @@ ("Tracestate" :> <<"ts1">>),
    ("grpc-trace-bin" :> <<Base64Encode(BinaryFromSpanContext(SC("t2")))>>)
      @@ ("Grpc-Trace-Bin" :> <<"%%">>),
    ("Tracestate" :> <<"ts1">>) @@ ("tracestate" :> <<>>) }

OtherKeys ==
  { ("Accept" :> <<"v1">>) @@ ("accept" :> <<"v2", "v3">>)
      @@ ("x-empty" :> <<>>),
    ("x-data-bin" :> <<Base64Encode("b1"), "%%">>) @@ ("X-Data-Bin" :> <<"raw">>)
      @@ ("Destination-App-Id" :> <<"app">>) }

MCInputs == { c @@ t @@ o : c \in ContentTypes, t \in TraceKeys, o \in OtherKeys }

\* The contract's state, read off the step-wise call: the returned metadata
\* once the call has returned, and whether it is running, returned or
\* panicked.
Contract == INSTANCE GrpcMetadataContract
              WITH mdAbs   <- IF pc = "done" THEN md ELSE <<>>,
                   outcome <- IF pc = "loop" THEN "running" ELSE pc

(***************************************************************************)
(* Every behaviour of the call, in every order Go's map iteration can     *)
(* visit the keys, is a behaviour of the contract: the loop's captures    *)
(* and md.Append calls add up to one of the contract's results, it        *)
(* panics exactly on the inputs the contract names.                       *)
(***************************************************************************)
ContractSpec == Contract!Spec

=============================================================================
