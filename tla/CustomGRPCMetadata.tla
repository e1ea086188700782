------------------------- MODULE CustomGRPCMetadata -------------------------
(***************************************************************************)
(* WithCustomGRPCMetadata (pkg/messaging/v1/util.go): folds a plain       *)
(* key -> value map into the outgoing metadata of a call context,         *)
(* skipping content-type and content-length in any spelling.              *)
(*                                                                         *)
(* The context's outgoing metadata is kept as metadata.FromOutgoingContext *)
(* reads it: the metadata the context already carried, lower-cased, then *)
(* every AppendToOutgoingContext pair appended under its lower-cased key. *)
(* The range loop takes the map's keys in any order, one action each.     *)
(***************************************************************************)
EXTENDS DaprMetadata, SequencesExt

CONSTANTS
  Customs,   \* map[string]string arguments the call may receive
  Priors     \* outgoing metadata the context may already carry

VARIABLES
  md,        \* the md argument (read-only)
  ctxMD,     \* FromOutgoingContext of the ctx argument (read-only)
  outgoing,  \* metadata.FromOutgoingContext(ctx) of the current ctx
  pending,   \* keys the range loop has not visited yet
  pc         \* "loop" -> "done"

vars == <<md, ctxMD, outgoing, pending, pc>>

\* strings.ToLower of every key a custom map can hold, evaluated once.
CustomKeys == UNION {DOMAIN c : c \in Customs}
KeyLower == [k \in CustomKeys |-> ToLower(k)]

\* Variant: the skip test compares the key as spelled.
SkippedAsSpelled(k) == k \in {ContentTypeHeader, ContentLengthHeader}

\* strings.EqualFold(k, ContentTypeHeader) || strings.EqualFold(k,
\* ContentLengthHeader); both constants are lower-case.
Skipped(k) == KeyLower[k] \in {ContentTypeHeader, ContentLengthHeader}

\* metadata.AppendToOutgoingContext(ctx, k, v), as FromOutgoingContext
\* reads the result: v is appended under strings.ToLower(k).
AppendToOutgoingContext(out, k, v) ==
  LET n == KeyLower[k] IN
  IF n \in DOMAIN out THEN [out EXCEPT ![n] = @ \o <<v>>]
  ELSE out @@ (n :> <<v>>)

Init ==
  /\ md \in Customs
  /\ ctxMD \in Priors
  /\ outgoing = ctxMD
  /\ pending = DOMAIN md
  /\ pc = "loop"

\* The content-type and content-length keys are skipped.
SkipKey(k) ==
  /\ pc = "loop" /\ k \in pending
  /\ Skipped(k)
  /\ pending' = pending \ {k}
  /\ UNCHANGED <<md, ctxMD, outgoing, pc>>

\* Any other pair is appended to the outgoing context.
AppendKey(k) ==
  /\ pc = "loop" /\ k \in pending
  /\ ~Skipped(k)
  /\ outgoing' = AppendToOutgoingContext(outgoing, k, md[k])
  /\ pending' = pending \ {k}
  /\ UNCHANGED <<md, ctxMD, pc>>

\* return ctx
Return ==
  /\ pc = "loop" /\ pending = {}
  /\ pc' = "done"
  /\ UNCHANGED <<md, ctxMD, outgoing, pending>>

Next ==
  \/ \E k \in DOMAIN md : SkipKey(k) \/ AppendKey(k)
  \/ Return

Spec == Init /\ [][Next]_vars

-----------------------------------------------------------------------------
(***************************************************************************)
(* Spec 4.1 applyOutgoingOverrides: after the call, the receiver sees,    *)
(* under every lower-case name, what the context already carried, then    *)
(* the value of every custom key of that name (in some order, since keys  *)
(* differing only in case meet in Go's random map order), each exactly    *)
(* once; content-type and content-length, in any spelling, add nothing.   *)
(***************************************************************************)
CustomMetadataApplied ==
  LET appended == {k \in DOMAIN md :
                     ToLower(k) \notin {"content-type", "content-length"}} IN
  pc = "done" =>
    /\ DOMAIN outgoing = DOMAIN ctxMD \cup {KeyLower[k] : k \in appended}
    /\ \A n \in DOMAIN outgoing :
         LET ks    == {k \in appended : KeyLower[k] = n}
             start == IF n \in DOMAIN ctxMD THEN ctxMD[n] ELSE <<>>
         IN  \E order \in SetToSeqs(ks) :
               outgoing[n] = start \o [i \in 1..Len(order) |-> md[order[i]]]

=============================================================================
