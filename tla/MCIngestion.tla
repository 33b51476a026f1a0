----------------------------- MODULE MCIngestion -----------------------------
(* Requests of Ingestion: q1 and q2 send one batch, q3 another batch of the *)
(* same agent, q4 the first batch under another agent id; q5 has no token   *)
(* and the body of q6 is not a batch.                                       *)
EXTENDS Ingestion, TLC

CONSTANTS q1, q2, q3, q4, q5, q6, a1, a2, b1, b2

MCAgentOf == q1 :> a1 @@ q2 :> a1 @@ q3 :> a1 @@ q4 :> a2 @@ q5 :> a2 @@ q6 :> a2
MCBatchOf == q1 :> b1 @@ q2 :> b1 @@ q3 :> b2 @@ q4 :> b1 @@ q5 :> b2 @@ q6 :> b2
=============================================================================
