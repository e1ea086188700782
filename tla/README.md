# TLA+ models of the Dapr invocation protocol layer

This directory models the layer through which every cross-service call in
Dapr passes. The layer is the metadata bridge and the trace propagator
(`src/pkg/messaging/v1/util.go`), the status/code translator (same file) and
the gRPC metrics recorder (`src/unnamed/part_001`, package
`pkg/diagnostics`). The modules are checked with TLC. `PROJECT.json` lists
the components, runs, mutants, source map, findings and hazards.

## The system and how its parts interact

The runtime calls the layer on every invocation hop:

* **Metadata Bridge.** `InternalMetadataToGrpcMetadata` turns the
  protocol-neutral header map (`DaprInternalMetadata`, key → list of
  values) into outgoing gRPC metadata. `InternalMetadataToHTTPHeader` turns
  the same map into `setHeader(key, value)` calls.
  * Both loop over the Go map, so the key order is random.
  * Both lower-case keys, divert the three trace keys and drop
    `destination-app-id`.
  * The gRPC direction also does two things: it prefixes IANA permanent
    headers with `dapr-` when `httpHeaderConversion` is set, and it
    base64-decodes `-bin` keys.
  * The HTTP direction also does four things: it skips empty lists,
    forwards only the first `baggage` value, drops `-bin` keys and
    `content-type`, and rewrites reserved gRPC names.
* **Custom outgoing metadata.** `WithCustomGRPCMetadata` folds a plain
  key→value map (pubsub or binding metadata) into the outgoing context
  with `AppendToOutgoingContext`. It skips `content-type` and
  `content-length` case-insensitively.
* **Trace Propagator.** After the loop, each bridge calls one of four
  `process…Trace…` functions. `IsGRPCProtocol` (the first content-type value)
  picks which one. Each function emits the inbound trace context or the
  ambient span's context, as W3C headers and/or the binary `grpc-trace-bin`.
* **Status/Code Translator.** `CodeFromHTTPStatus` and `HTTPStatusFromCode`
  are two tables. `ErrorFromHTTPResponseCode` builds a gRPC status error
  with an ErrorInfo detail holding the HTTP code and the first 63 bytes of
  the body. `ErrorFromInternalStatus` wraps a status received from a remote
  runtime.
* **Metrics Recorder.** `grpcMetrics` holds measures, `appID`, `enabled`
  and `meter`, which `Init` sets. There are four interceptors. Each runs
  the handler and then records the call's measurements:
  * unary server calls: count, bytes and latency;
  * unary client calls: count, bytes and latency, or the health-probe pair
    for the app health-check method;
  * streams: count and latency, and only when `dapr-app-id` carries a value.

  Every interceptor also reports failures to `RecordErrorCode`.

## Modules and their correspondence to the code

| Module | Models | State | Actions |
|---|---|---|---|
| `DaprMetadata` | the constants of util.go and diagnostics/consts, `isPermanentHTTPHeader`, `IsGRPCProtocol`, `ReservedGRPCMetadataToDaprPrefixHeader`; the string, base64 and span-context codecs the bridge calls | — (operators) | — |
| `GrpcMetadataOps` | the pure parts of `InternalMetadataToGrpcMetadata`: `metadata.MD`'s `Append`/`Set`, the key name and values one iteration copies, `processHTTPToGRPCTraceHeader`, `processGRPCToGRPCTraceHeader` | — (operators) | — |
| `GrpcMetadataBridge` | `InternalMetadataToGrpcMetadata`, step by step | `internalMD`, `ambient`, `httpHeaderConversion`, `pending` (keys not yet visited), `md`, the three captured trace values, `pc` (`"loop"`, `"done"` or `"panic"`) | `CaptureTraceKey`, `PanicOnEmptyTraceKey`, `SkipDestinationID`, `CopyKey` (one loop iteration each, any key), `PanicInIsGRPCProtocol`, `PropagateTrace` |
| `GrpcMetadataContract` | what one call of `InternalMetadataToGrpcMetadata` promises, with no loop order | the input, `mdAbs` (the returned metadata), `outcome` | `Convert` (one atomic step), `Panic` |
| `HTTPHeaderBridge` | `InternalMetadataToHTTPHeader` with `processGRPCToHTTPTraceHeaders` and `processHTTPToHTTPTraceHeaders` | as above; `headers` is the sequence of `setHeader` calls; `pc` can also be `"panic"` | `SkipEmpty`, `CaptureTraceKey`, `DropKey`, `SetBaggage`, `SetHeaders`, `PanicInIsGRPCProtocol`, `PropagateTrace` |
| `CustomGRPCMetadata` | `WithCustomGRPCMetadata`, over `metadata.AppendToOutgoingContext` | `md` (the map argument), `ctxMD` (the context's outgoing metadata on entry), `outgoing` (what `FromOutgoingContext` returns for the current context), `pending`, `pc` | `SkipKey`, `AppendKey` (one loop iteration each, any key), `Return` |
| `StatusTranslator` | `HTTPStatusFromCode`, `CodeFromHTTPStatus`, `ErrorFromHTTPResponseCode`, `ErrorFromInternalStatus` on the reply path of one hop | `reply`, `err`, `callerStatus`, `pc` | `ConvertHTTPReply`, `ConvertInternalStatus`, `Respond` (the caller, which uses `HTTPStatusFromCode`) |
| `GrpcMetrics` | `newGRPCMetrics`, `Init`, `IsEnabled`, the five record functions, the four interceptors | `appID`, `enabled`, `meter`, `views`, `initPc`; per call: `call`, `pc`, `status`, `pending`, `errorCodes`; `records` | `InitStep` (each store of `Init`, then `Register`, which may fail), `Intercept`, `RunHandler`, `CheckEnabled`, `RecordMeasurement` (one `RecordWithOptions`), `RecordErrorCode` |

Each `MC*.tla` module extends its component and defines the inputs TLC
enumerates. Each `.cfg` gives the constants and the properties checked.

### The gRPC bridge and its contract

`GrpcMetadataContract` states the call as one step from the input map to
the result. The result is left open only where Go's map order leaks into it:
* input keys that lower-case to one outgoing name contribute their values as
  contiguous runs, and the runs may come in any order (`GroupOrders`);
* of several spellings of one trace key, the first value of any one of them
  is propagated (`Captured`).

The call panics exactly when a trace key or the `content-type` entry has no
values (`PanicInput`). `MCGrpcMetadataRefinement` instantiates the contract
`WITH mdAbs <- IF pc = "done" THEN md ELSE <<>>` and `outcome` read off
`pc`. It checks the contract's `Spec` as a property of the step-wise
model. Loop steps map to contract stutters, and `PropagateTrace` and the
two panics map to `Convert` and `Panic`.

### Abstractions

* **Keys and values** are real TLA+ strings, so lower-casing, prefix and
  suffix tests and the `dapr-` rewriting are computed.
  * `ToLower` is recursive per character. TLC evaluates it once per input
    key, in the `KeyLower` table.
  * `metadata.MD` lower-cases its keys, `Append` with no values is a no-op,
    and `Set` replaces.
* **Base64** is a tagged encoding (`b64:`). Only encodings decode.
* **Span contexts** come from `pkg/diagnostics`, which is outside src, so
  they are modelled from the spec. A span context is a trace id plus a
  tracestate.
  * The W3C form is `00-<id>-01`.
  * The binary form is `bin:<id>` and has no tracestate.
  * The zero span context encodes to nothing.
  * Each decoder accepts exactly the strings its encoder produces.
* **Detail bodies** are byte sequences: `a` is ASCII, and `L` `C` is a
  two-byte UTF-8 character. Go's `len` and slicing count bytes, and
  `proto.Marshal` (inside `WithDetails`) rejects invalid UTF-8.
  `http.StatusText` and `strconv.Itoa` are modelled for the statuses
  enumerated.
* **Metrics** keep which measure is recorded, with which tags and into
  which recorder (the configured meter, or the process default when
  `meter` is nil). They also keep whether the meter's views were registered
  at that moment. Latencies and byte values are left out.

## Runs

| Run | Result | What it shows |
|---|---|---|
| `grpc_bridge` | pass, 61k states | Holds for every key order. The outgoing `grpc-trace-bin` and W3C headers carry the inbound trace context: the parsed traceparent with its tracestate, or the binary token. If there is none, they carry the ambient span. The loop never adds, removes or pre-empts a trace key, and never forwards `destination-app-id`. |
| `grpc_trace_always_emitted` | violation | A malformed `grpc-trace-bin` gives no valid trace context, despite the ambient span. |
| `grpc_bin_values_decoded` | violation | `X-Data-Bin` is forwarded still base64-encoded. |
| `grpc_no_panic` | violation | A trace key with an empty value list panics at `GetValues()[0]` in the loop (util.go:150). An empty `content-type` list panics in `IsGRPCProtocol`. |
| `grpc_contract` | pass, 15k states | Over inputs whose keys collide once lower-cased (`Accept`/`accept`, `X-Data-Bin`/`x-data-bin`, `Traceparent`/`traceparent`, `Content-Type`/`content-type`), every order of the loop gives one of the contract's results, and the call panics exactly on the inputs the contract names. A replacing `md.Append` fails it. |
| `http_bridge` | pass, 168k states | The trace headers come from whichever spelling of each trace key map order captured last (`traceparent`/`Traceparent`, `grpc-trace-bin`/`Grpc-Trace-Bin`), or are the fallback ones. No header is set with a gRPC-reserved name. Every value of every ordinary key is forwarded under its rewritten lower-case name, and `baggage` emits one header per spelling, with that spelling's first value, in any map order (`BaggageForwarded`; the mutant `SetBaggageAllValues` forwards every value). |
| `http_no_panic` | violation | An empty `content-type` list panics in `IsGRPCProtocol`. |
| `status_reply_path` | pass, 384 states | A failed reply never reaches the caller as 2xx, and a success arrives as 200. The caller's status follows the gRPC→HTTP table of spec §4.3. The ErrorInfo holds a prefix of the body of at most 63 bytes. |
| `status_errorinfo_dropped` | violation | A body cut inside a multi-byte character loses the ErrorInfo. |
| `custom_metadata` | pass, 132 states | In every map order, the context's existing outgoing metadata stays first under each name. Every custom value is appended once under its lower-cased key, so keys that differ only in case share a name in either order. `content-type` and `content-length` add nothing in any spelling. |
| `metrics` | pass, 175k states | Two calls race `Init`. Every measurement carries the app id and has the measures and tags of its role. Every failed call that was measured reaches `RecordErrorCode` exactly once. |
| `metrics_aggregated` | violation | A call can record while `enabled` is true but the meter or the views are not in place yet, or after `Register` failed. |

Every property of a passing run has a mutant in `PROJECT.json`. A mutant
is a plausible bug in the mapped definition that makes TLC report the
property violated. Examples:
* dropping the tracestate;
* no ambient fallback;
* taking 64 from the comment for the 63-byte limit;
* the 412 that the code deliberately avoids;
* `Init` storing `enabled` first;
* no health-check branch;
* a streaming gate that tests only that the key is present;
* `md.Append` replacing a colliding key's values;
* a record function that waits for `Init`;
* a case-sensitive content-type/content-length skip.

## Bounds and why they suffice

* **Bridges.** Each input map is one choice from each of three groups:
  * content type: none, JSON, gRPC, or gRPC with several values (plus an
    empty list in the HTTP direction);
  * trace keys: valid W3C in canonical case, a garbage traceparent, and
    binary tokens that are valid, not base64, base64 of junk, or binary
    together with W3C; in the HTTP direction also two spellings of
    `traceparent` (one valid, one garbage) and of `grpc-trace-bin` (one
    valid, one not base64);
  * ordinary keys: permanent headers in both cases, `-bin` keys in both
    cases with good and bad values, pseudo-headers, `grpc-` keys (capitalised in the HTTP direction), empty
    lists, baggage (two spellings in the HTTP direction) and
    `destination-app-id`.

  The ambient span is either empty or valid. Empty trace-key and
  `content-type` lists are included, so both panics are reached.
* **Contract.** The refinement inputs pick one from each of three groups:
  * content types: none, gRPC, colliding spellings, or an empty list;
  * trace keys: none, two spellings of `traceparent` (one valid, one
    garbage), two spellings of `grpc-trace-bin`, or an empty `tracestate`;
  * ordinary keys: `Accept`/`accept` (which collide only without
    `httpHeaderConversion`) with an empty-list key, or `X-Data-Bin`/`x-data-bin`
    (one decoded, one not) with `Destination-App-Id`.

  Every group of two colliding keys is met in both orders. Every branch of the loop and
  of the four propagation functions is taken. The key order is left free.
* **Status.** The app statuses include:
  * 0, 1xx, both ends of 2xx and the statuses just outside them (199, 300);
  * every status `CodeFromHTTPStatus` names, and unnamed ones (304, 412,
    418, 502).

  The bodies are 0, 63, 64 and 100 bytes, with a two-byte character that
  straddles byte 63 or ends before it. The internal statuses carry every
  gRPC code and code 17.
* **Custom metadata.** The maps hold:
  * the skipped keys in three spellings;
  * two pairs of keys that differ only in case;
  * a `traceparent` that the context may already carry.

  The context carries no outgoing metadata, or a trace context with a
  content type. Each pair of colliding keys is appended in both orders.
* **Metrics.** There are two calls, each through any interceptor, with
  any method (including the health check) and any gate value (absent,
  empty, present), plus one `Init` whose `Register` may fail. Two calls
  are enough, because calls share only the recorder's fields, and `Init`
  interleaves with each of them. The calls are interchangeable, so the
  model is checked up to their permutation.

Each behaviour is one call or one reply, and it ends. The configs
therefore set `CHECK_DEADLOCK FALSE`.

## Fairness

No run assumes fairness. In `GrpcMetrics` no step of a call waits on
`Init` or on the other call: the interceptors read the recorder's fields
without a lock or a wait. So "every call returns" would follow from weak
fairness of the calls by construction, and would check nothing about the
code. The `metrics` run also uses a symmetry set, and TLC does not check
liveness soundly under symmetry.

The bridges and the translator are single calls of a loop over a finite
map, or a table lookup, so they end by construction. Their models claim
only safety too, and `GrpcMetadataContract` is a safety specification. Adding
weak fairness to the contract would make TLC evaluate `ENABLED` of the
contract's action through the refinement mapping, which is slow enough to
put the run out of reach.

## Not modelled

* `BufPool`, `IsJSONContentType` and `ProtobufToJSON` have no state or
  interplay worth checking. No modelled code calls `IsJSONContentType`.
* HTTP→gRPC codes: the spec's §4.3 table maps 400 to INVALID_ARGUMENT,
  but §8 documents 400 → INTERNAL as a known lossy pair.
  `CodeFromHTTPStatus` follows §8, and `status_reply_path` checks the
  caller's status against the table.
* The span attribute constants are not modelled.
* The Dockerfiles and the CI workflow are build configuration.
* In `grpc_bridge`, the inputs use one spelling per lower-case name, so
  `TraceContextPropagated` has a single expected value. Colliding
  spellings are checked against the contract in `grpc_contract`. The HTTP
  direction has no separate contract: `http_bridge` states its
  properties over every capture the map order allows.
* Memory models weaker than TSO are not modelled. On arm64 a call could
  see `enabled` before `appID`.

## Plan for later work

* An abstract "trace context crosses the hop" specification, with the
  HTTP→gRPC→HTTP composition of both bridges shown to refine it.
