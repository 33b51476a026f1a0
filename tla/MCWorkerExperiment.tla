------------------------- MODULE MCWorkerExperiment -------------------------
(* A round with one worker, then one with both. *)
EXTENDS WorkerExperiment, MCDelivery

CONSTANTS w1, w2

MCRounds == <<{w1}, {w1, w2}>>
=============================================================================
