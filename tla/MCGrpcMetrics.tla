---------------------------- MODULE MCGrpcMetrics ----------------------------
(***************************************************************************)
(* Model of grpcMetrics for TLC: two concurrent calls, each through any of *)
(* the four interceptors, beside one run of Init.  The calls are          *)
(* interchangeable, so the model is checked up to their permutations.    *)
(***************************************************************************)
EXTENDS GrpcMetrics, TLC

CONSTANTS c1, c2

MCCalls == {c1, c2}

CallSymmetry == Permutations(MCCalls)

====
