------------------------ MODULE GrpcMetadataContract ------------------------
(***************************************************************************)
(* What one call of InternalMetadataToGrpcMetadata (pkg/messaging/v1/     *)
(* util.go) promises, as a single atomic step from the input map to the   *)
(* returned metadata.MD, with no reference to the order of its loop.     *)
(*                                                                         *)
(* The result is left open exactly where Go's map order leaks into it:    *)
(*  - input keys that lower-case to one outgoing name contribute their    *)
(*    values as contiguous runs, the runs in any order;                   *)
(*  - of several spellings of one trace key, the first value of any one   *)
(*    is the one propagated.                                              *)
(* The call panics exactly when a trace key or the content-type entry     *)
(* has no values, and otherwise returns.  The contract is a safety        *)
(* specification: the call is a loop over a finite map, so it ends.       *)
(***************************************************************************)
EXTENDS GrpcMetadataOps, SequencesExt

CONSTANT Ambients

VARIABLES internalMD, ambient, httpHeaderConversion,
          mdAbs,      \* the returned metadata (<<>> until the call returns)
          outcome     \* "running" | "done" | "panic"

absvars == <<internalMD, ambient, httpHeaderConversion, mdAbs, outcome>>

TraceNames == {TraceparentHeader, TracestateHeader, GRPCTraceContextKey}

\* Input keys the loop copies, and the outgoing name each is stored under.
CopiedKeys ==
  {k \in DOMAIN internalMD :
     LoopKeyName(k) \notin TraceNames \cup {DestinationIDHeader}}
OutName(k) == LowerMDKey(OutgoingKey(k, httpHeaderConversion))
Group(n) == {k \in CopiedKeys : OutName(k) = n}

\* One order of the colliding keys of every outgoing name.
GroupOrders ==
  LET names == {OutName(k) : k \in CopiedKeys} IN
  {o \in [names -> UNION {SetToSeqs(Group(n)) : n \in names}] :
     \A n \in names : o[n] \in SetToSeqs(Group(n))}

\* The copied metadata for one such choice; names with no value kept are
\* absent.
CopiedMD(o) ==
  LET vals(n) == FlattenSeq([i \in 1..Len(o[n]) |->
                   CopiedValues(o[n][i], internalMD[o[n][i]])])
      kept == {n \in DOMAIN o : vals(n) # <<>>}
  IN  [n \in kept |-> vals(n)]

\* The values a trace name may be read as: the first value of any
\* spelling, or "" when the input has none.
Captured(name) ==
  LET ks == {k \in DOMAIN internalMD : LoopKeyName(k) = name} IN
  IF ks = {} THEN {""} ELSE {internalMD[k][1] : k \in ks}

PanicInput ==
  \/ \E k \in DOMAIN internalMD :
       LoopKeyName(k) \in TraceNames /\ internalMD[k] = <<>>
  \/ ContentTypeHeader \in DOMAIN internalMD
     /\ internalMD[ContentTypeHeader] = <<>>

Init ==
  /\ internalMD \in Inputs
  /\ ambient \in Ambients
  /\ httpHeaderConversion \in BOOLEAN
  /\ mdAbs = <<>>
  /\ outcome = "running"

Convert ==
  /\ outcome = "running"
  /\ outcome' = "done"
  /\ ~PanicInput
  /\ \E o \in GroupOrders, tp \in Captured(TraceparentHeader),
        ts \in Captured(TracestateHeader), bin \in Captured(GRPCTraceContextKey) :
       mdAbs' = IF IsGRPCProtocol(internalMD)
                THEN processGRPCToGRPCTraceHeader(CopiedMD(o), ambient, bin)
                ELSE processHTTPToGRPCTraceHeader(CopiedMD(o), ambient, tp, ts)
  /\ UNCHANGED <<internalMD, ambient, httpHeaderConversion>>

Panic ==
  /\ outcome = "running"
  /\ PanicInput
  /\ outcome' = "panic"
  /\ UNCHANGED <<internalMD, ambient, httpHeaderConversion, mdAbs>>

Next == Convert \/ Panic

Spec == Init /\ [][Next]_absvars

=============================================================================
