----------------------------- MODULE GrpcMetrics -----------------------------
(***************************************************************************)
(* The gRPC metrics recorder of pkg/diagnostics (grpcMetrics): its Init   *)
(* and the four interceptors, each running the intercepted call and then  *)
(* recording that call's measurements, concurrently with one another and  *)
(* with Init.  Nothing in grpcMetrics orders Init before the interceptors *)
(* or guards its fields; each store and each load is a step of its own,   *)
(* with the loads seeing the stores in program order (amd64 TSO).         *)
(*                                                                         *)
(* A measurement is recorded with the recorder, appID, method and status  *)
(* read when it is recorded.  Latencies and byte counts are left out:     *)
(* the properties are about which measurements a call records, with which *)
(* tags and into which recorder.                                          *)
(***************************************************************************)
EXTENDS Naturals, Sequences, SequencesExt

CONSTANTS
  Calls,        \* the concurrent intercepted calls
  Methods,      \* full method names other than the health check
  AppIDValue,   \* the app id Init is given
  Codes         \* status.Code(err).String() a handler may end with

ASSUME "OK" \in Codes

appHealthCheckMethod == "/dapr.proto.runtime.v1.AppCallbackHealthCheck/HealthCheck"

\* No recorder: stats.RecordWithOptions then uses the process default.
NoMeter == "default"
Meter   == "meter"

\* The measures of newGRPCMetrics.
HealthMeasures == {"healthProbeCompletedCount", "healthProbeRoundtripLatency"}
BytesMeasures  == {"serverReceivedBytes", "serverSentBytes",
                   "clientSentBytes", "clientReceivedBytes"}
Measures == HealthMeasures \cup BytesMeasures \cup
            {"serverLatency", "serverCompletedRpcs",
             "clientRoundtripLatency", "clientCompletedRpcs"}

(***************************************************************************)
(* An intercepted call: which interceptor sees it, its method, and for a  *)
(* stream whether dapr-proxy-app-id is absent, present with no value, or  *)
(* present with a value.                                                  *)
(***************************************************************************)
Kinds == {"unaryServer", "unaryClient", "streamServer", "streamClient"}
Proxy == {"absent", "empty", "present"}

CallConfigs ==
  [kind : {"unaryServer", "unaryClient"}, method : Methods \cup {appHealthCheckMethod},
   proxy : {"absent"}]
  \cup [kind : {"streamServer", "streamClient"}, method : Methods, proxy : Proxy]

IsStream(cfg) == cfg.kind \in {"streamServer", "streamClient"}

(***************************************************************************)
(* The measurements each record function makes, in the order it makes   *)
(* them: ServerRequestSent, ClientRequestReceived, AppHealthProbeCompleted *)
(* StreamServerRequestSent, StreamClientRequestSent.                      *)
(***************************************************************************)
ServerRequestSent ==
  <<"serverCompletedRpcs", "serverReceivedBytes", "serverSentBytes", "serverLatency">>
ClientRequestReceived ==
  <<"clientCompletedRpcs", "clientRoundtripLatency", "clientSentBytes", "clientReceivedBytes">>
AppHealthProbeCompleted ==
  <<"healthProbeCompletedCount", "healthProbeRoundtripLatency">>
StreamServerRequestSent == <<"serverCompletedRpcs", "serverLatency">>
StreamClientRequestSent == <<"clientCompletedRpcs", "clientRoundtripLatency">>

\* Variant: UnaryClientInterceptor without its health-check branch.
UnaryClientRecordNoHealth(method) == ClientRequestReceived

\* UnaryClientInterceptor: the health-check method is recorded as a probe.
UnaryClientRecord(method) ==
  IF method = appHealthCheckMethod THEN AppHealthProbeCompleted
  ELSE ClientRequestReceived

\* The record function an interceptor calls after the handler returns.
RecordFunction(cfg) ==
  CASE cfg.kind = "unaryServer"  -> ServerRequestSent
    [] cfg.kind = "unaryClient"  -> UnaryClientRecord(cfg.method)
    [] cfg.kind = "streamServer" -> StreamServerRequestSent
    [] cfg.kind = "streamClient" -> StreamClientRequestSent

\* Variant: the streaming gate tests only that the key is present.
StreamGateKeyOnly(proxy) == proxy # "absent"

\* The streaming interceptors record only when md[GRPCProxyAppIDKey]
\* exists and holds at least one value.
StreamGate(proxy) == proxy = "present"

\* Variant: Init publishes enabled before the app id.
InitStepsEnabledFirst == <<"enabled", "appID", "meter", "register">>

\* grpcMetrics.Init: its three stores, then meter.Register of the views.
InitSteps == <<"appID", "enabled", "meter", "register">>

(***************************************************************************)
(* State.  The fields of the grpcMetrics value (appID, enabled, meter) and *)
(* whether the meter has the views registered; initPc indexes InitSteps.  *)
(* Per call: its configuration, its step, the handler's status, the      *)
(* measurements still to record, and RecordErrorCode calls made for it.  *)
(* records is everything recorded, with the tags and recorder it used.   *)
(***************************************************************************)
VARIABLES appID, enabled, meter, views, initPc,
          call, pc, status, pending, errorCodes, records

metricsVars == <<appID, enabled, meter, views, initPc>>
callVars    == <<call, pc, status, pending, errorCodes, records>>
vars        == <<metricsVars, callVars>>

\* newGRPCMetrics: enabled is false and appID and meter are unset.
Init ==
  /\ appID = "" /\ enabled = FALSE /\ meter = NoMeter
  /\ views = "unregistered" /\ initPc = 1
  /\ call \in [Calls -> CallConfigs]
  /\ pc = [c \in Calls |-> "start"]
  /\ status = [c \in Calls |-> "none"]
  /\ pending = [c \in Calls |-> <<>>]
  /\ errorCodes = [c \in Calls |-> 0]
  /\ records = {}

\* One store of grpcMetrics.Init, or its meter.Register, which may fail.
InitStep ==
  /\ initPc <= Len(InitSteps)
  /\ LET step == InitSteps[initPc] IN
       /\ appID'   = IF step = "appID" THEN AppIDValue ELSE appID
       /\ enabled' = IF step = "enabled" THEN TRUE ELSE enabled
       /\ meter'   = IF step = "meter" THEN Meter ELSE meter
       /\ IF step = "register" THEN views' \in {"registered", "failed"}
                               ELSE UNCHANGED views
  /\ initPc' = initPc + 1
  /\ UNCHANGED callVars

\* The interceptor is entered.  A streaming interceptor with no usable
\* dapr-proxy-app-id passes the stream straight to the handler.
Intercept(c) ==
  /\ pc[c] = "start"
  /\ pc' = [pc EXCEPT ![c] = IF IsStream(call[c]) /\ ~StreamGate(call[c].proxy)
                             THEN "bypass" ELSE "handler"]
  /\ UNCHANGED <<metricsVars, call, status, pending, errorCodes, records>>

\* The handler (or invoker) returns with some status.  On the bypass path
\* its result is returned as is.
RunHandler(c) ==
  /\ pc[c] \in {"handler", "bypass"}
  /\ \E code \in Codes : status' = [status EXCEPT ![c] = code]
  /\ pc' = [pc EXCEPT ![c] = IF pc[c] = "bypass" THEN "done" ELSE "check"]
  /\ UNCHANGED <<metricsVars, call, pending, errorCodes, records>>

\* The record function's IsEnabled test.
CheckEnabled(c) ==
  /\ pc[c] = "check"
  /\ pending' = [pending EXCEPT ![c] = IF enabled THEN RecordFunction(call[c])
                                       ELSE <<>>]
  /\ pc' = [pc EXCEPT ![c] = "recording"]
  /\ UNCHANGED <<metricsVars, call, status, errorCodes, records>>

\* One stats.RecordWithOptions: g.meter and g.appID are read now.  The
\* health probe has no method tag; byte counts have no status tag.
Measurement(c, m) ==
  [call   |-> c, measure |-> m, recorder |-> meter, app |-> appID,
   method |-> IF m \in HealthMeasures THEN "none" ELSE call[c].method,
   status |-> IF m \in BytesMeasures THEN "none" ELSE status[c],
   aggregated |-> meter = Meter /\ views = "registered"]

RecordMeasurement(c) ==
  /\ pc[c] = "recording" /\ pending[c] # <<>>
  /\ records' = records \cup {Measurement(c, Head(pending[c]))}
  /\ pending' = [pending EXCEPT ![c] = Tail(@)]
  /\ UNCHANGED <<metricsVars, call, pc, status, errorCodes>>

\* Variant: the interceptor does not return after RecordErrorCode.
RecordErrorCodeNoReturn(c) ==
  /\ pc[c] = "recording" /\ pending[c] = <<>>
  /\ errorCodes' = [errorCodes EXCEPT ![c] = IF status[c] # "OK" THEN @ + 1 ELSE @]
  /\ UNCHANGED <<metricsVars, call, pc, status, pending, records>>

\* After recording: RecordErrorCode(err) when the call failed.
RecordErrorCode(c) ==
  /\ pc[c] = "recording" /\ pending[c] = <<>>
  /\ errorCodes' = [errorCodes EXCEPT ![c] = IF status[c] # "OK" THEN @ + 1 ELSE @]
  /\ pc' = [pc EXCEPT ![c] = "done"]
  /\ UNCHANGED <<metricsVars, call, status, pending, records>>

\* The steps of one call's goroutine.
CallStep(c) ==
  \/ Intercept(c) \/ RunHandler(c) \/ CheckEnabled(c)
  \/ RecordMeasurement(c) \/ RecordErrorCode(c)

Next ==
  \/ InitStep
  \/ \E c \in Calls : CallStep(c)

Spec == Init /\ [][Next]_vars

(***************************************************************************)
(* Properties.                                                            *)
(***************************************************************************)
ServerMeasures == {"serverReceivedBytes", "serverSentBytes",
                   "serverLatency", "serverCompletedRpcs"}

IsHealthProbe(cfg) == cfg.kind = "unaryClient" /\ cfg.method = appHealthCheckMethod

Measurements ==
  [call : Calls, measure : Measures, recorder : {NoMeter, Meter},
   app : {"", AppIDValue}, method : Methods \cup {appHealthCheckMethod, "none"},
   status : Codes \cup {"none"}, aggregated : BOOLEAN]

TypeOK ==
  /\ appID \in {"", AppIDValue} /\ enabled \in BOOLEAN
  /\ meter \in {NoMeter, Meter}
  /\ views \in {"unregistered", "registered", "failed"}
  /\ initPc \in 1..Len(InitSteps) + 1
  /\ call \in [Calls -> CallConfigs]
  /\ pc \in [Calls -> {"start", "bypass", "handler", "check", "recording", "done"}]
  /\ status \in [Calls -> Codes \cup {"none"}]
  /\ pending \in [Calls -> Seq(Measures)]
  /\ errorCodes \in [Calls -> 0..1]
  /\ records \subseteq Measurements

\* Every measurement any call records, however its recording interleaves
\* with Init's stores, is tagged with the app id Init was given: a call
\* that finds the recorder enabled never records an empty app id.
RecordsTaggedWithAppID ==
  \A r \in records : r.app = AppIDValue

\* Spec section 8 on roles: a server interceptor records only server
\* measures and a client one only client measures; the health probe
\* records only probe measures, without a method tag, and nothing else
\* does; streams never record byte counts; every status tag is the status
\* the call ended with; and a non-probe unary call that recorded anything
\* recorded its byte counts.
MeasurementsMatchRole ==
  /\ \A r \in records :
       LET cfg == call[r.call] IN
       /\ (r.measure \in ServerMeasures) <=> cfg.kind \in {"unaryServer", "streamServer"}
       /\ (r.measure \in HealthMeasures) <=> IsHealthProbe(cfg)
       /\ r.measure \in HealthMeasures => r.method = "none"
       /\ IsStream(cfg) => r.measure \notin BytesMeasures
       /\ r.status \in {"none", status[r.call]}
  /\ \A c \in Calls :
       (/\ pc[c] = "done" /\ ~IsStream(call[c]) /\ ~IsHealthProbe(call[c])
        /\ \E r \in records : r.call = c)
         => \E r \in records : r.call = c /\ r.measure \in BytesMeasures

\* A failed call reaches the process-wide error-code counter exactly once
\* when its interceptor measures it (every unary call, and a stream that
\* carries a dapr-proxy-app-id value), whether or not metrics are enabled;
\* a stream without that value bypasses it entirely.
ErrorCodeRecordedOnce ==
  \A c \in Calls :
    pc[c] = "done" =>
      errorCodes[c] =
        IF status[c] # "OK" /\ (~IsStream(call[c]) \/ call[c].proxy = "present")
        THEN 1 ELSE 0

\* Spec sections 4.4 and 5: enabled is set at initialization and every
\* measurement of an enabled recorder goes into the views Init registers.
MeasurementsAggregated ==
  \A r \in records : r.aggregated

=============================================================================
