----------------------- MODULE MCCustomGRPCMetadata ------------------------
(***************************************************************************)
(* Model of WithCustomGRPCMetadata for TLC.  The custom maps carry the     *)
(* skipped keys in several spellings, keys that differ only in case, and  *)
(* a trace key the context already carries; the context carries either   *)
(* no outgoing metadata or a trace context and a content-type.            *)
(***************************************************************************)
EXTENDS CustomGRPCMetadata, TLC

MCCustoms ==
  { <<>>,
    ("Content-Type" :> "application/json") @@ ("Foo" :> "v1")
      @@ ("foo" :> "v2") @@ ("traceparent" :> "tp2"),
    ("content-length" :> "10") @@ ("CONTENT-LENGTH" :> "11")
      @@ ("X-Id" :> "a") @@ ("x-id" :> "b") @@ ("content-type" :> "text/plain") }

MCPriors ==
  { <<>>,
    ("traceparent" :> <<"tp1">>) @@ ("content-type" :> <<"application/grpc">>) }

=============================================================================
