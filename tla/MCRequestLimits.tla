-------------------------- MODULE MCRequestLimits --------------------------
(***************************************************************************)
(* Three requests under one X-Request-ID, one with another body, two of    *)
(* them served by one process.                                             *)
(***************************************************************************)
EXTENDS RequestLimits, TLC

CONSTANTS q1, q2, q3, p1, p2

Ids == [q \in {q1, q2, q3} |-> "id"]
Bodies == q1 :> "body" @@ q2 :> "body" @@ q3 :> "other"
Servers == q1 :> p1 @@ q2 :> p2 @@ q3 :> p1
=============================================================================
