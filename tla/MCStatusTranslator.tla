------------------------- MODULE MCStatusTranslator -------------------------
(***************************************************************************)
(* Model of the reply path for TLC.  App statuses cover each class, both  *)
(* ends of the 2xx range and the statuses just outside it, every status   *)
(* CodeFromHTTPStatus names and some it does not.  Bodies cover the       *)
(* truncation boundary (63, 64 and 100 bytes) with ASCII only and with a  *)
(* two-byte character straddling or ending at byte 63.  Internal statuses *)
(* carry every gRPC code and one outside the registered range.            *)
(***************************************************************************)
EXTENDS StatusTranslator, TLC

Bytes(n, b) == [i \in 1..n |-> b]

MCHTTPStatuses ==
  {0, 100, 199, 200, 204, 299, 300, 304, 400, 401, 403, 404, 408, 409, 412,
   418, 429, 500, 501, 502, 503, 504}

MCDetails ==
  { <<>>, Bytes(63, "a"), Bytes(100, "a"),
    Bytes(62, "a") \o <<"L", "C">>,
    Bytes(61, "a") \o <<"L", "C">> \o <<"a">> }

MCInternalStatuses == [code : 0..17, message : {"m"}, details : {<<>>}]

====
