-------------------------- MODULE WorkerExperiment --------------------------
(***************************************************************************)
(* The worker comparison of tools/performance_runner.py driven against     *)
(* module Delivery: with its workers paused the group builds up a backlog, *)
(* the relay is paused in turn, and the harness times how long the workers *)
(* take to drain it.  Each round starts from an empty database and Redis.  *)
(*                                                                         *)
(* docker pause freezes a process; the call it had sent still completes.   *)
(* Durations are not modelled: a deadline may pass at any time.            *)
(***************************************************************************)
EXTENDS Delivery

CONSTANTS
    Rounds,    \* the worker containers of each repetition, in order
    MaxLate    \* bound: requests answered after k6, in a round

ASSUME RoundsAssumption ==
    /\ Rounds \in Seq(SUBSET Workers \ {{}})
    /\ Rounds # <<>>
    /\ MaxLate \in Nat
    /\ Relays \cap Workers = {}
    /\ IsFiniteSet(Events)

VARIABLES
    step,       \* the call of the harness in progress
    round,      \* repetition, an index of Rounds
    up,         \* processes whose container exists
    paused,     \* processes that are frozen
    inFlight,   \* frozen processes whose last call has yet to complete
    late,       \* batches accepted in this round but not during its k6
    backlog,    \* backlog of the last queue_state
    misread,    \* the last queue_state did not see the group
    initial,    \* initial["backlog"]
    counted,    \* the events behind the accepted count
    failure     \* the exception that ended the run

experiment == <<step, round, up, paused, inFlight, late, backlog, misread, initial,
                counted, failure>>
allVars == <<vars, experiment>>

ExperimentInit ==
    /\ Init
    /\ step = "reset"
    /\ round = 1
    /\ up = {}
    /\ paused = {}
    /\ inFlight = {}
    /\ late = 0
    /\ backlog = 0
    /\ misread = FALSE
    /\ initial = 0
    /\ counted = {}
    /\ failure = "none"

-----------------------------------------------------------------------------
(* The processes under docker. *)

(* p runs, or completes the call it had sent when it was frozen. *)
Runs(p) ==
    /\ p \in up
    /\ p \in paused => p \in inFlight
    /\ inFlight' = inFlight \ {p}
    /\ UNCHANGED <<step, round, up, paused, late, backlog, misread, initial, counted,
                   failure>>

(* k6 posts during its run; the API may answer a last request after it. *)
Ingest ==
    /\ \E e \in Events : Accept(e)
    /\ \/ step = "k6" /\ UNCHANGED late
       \/ step \notin {"k6", "ended"} /\ late < MaxLate /\ late' = late + 1
    /\ UNCHANGED <<step, round, up, paused, inFlight, backlog, misread, initial, counted,
                   failure>>

System ==
    \/ Ingest
    \/ \E r \in Relays : (RelayStep(r) \/ RelayFails(r)) /\ Runs(r)
    \/ \E w \in Workers : (WorkerStep(w) \/ WorkerCrashes(w)) /\ Runs(w)
    \/ \E m \in Ids : IdleElapses(m) /\ UNCHANGED experiment

-----------------------------------------------------------------------------
(* The harness: run_worker_experiment. *)

Goto(s) == step' = s /\ UNCHANGED <<round, failure>>

(* docker compose pause: some of the processes have a call in flight. *)
Pause(S) ==
    /\ paused' = paused \cup (S \cap up)
    /\ \E I \in SUBSET (S \cap up) : inFlight' = inFlight \cup I

(* stop and rm of the containers: open transactions roll back.  (The code  *)
(* ignores a failure of both; the containers it would leave are left out.) *)
StopAll ==
    /\ up' = {} /\ paused' = {} /\ inFlight' = {}
    /\ held' = [r \in Relays |-> {}]
    /\ sent' = [r \in Relays |-> {}]
    /\ pc' = [w \in Workers |-> "down"]
    /\ phase' = [w \in Workers |-> "fresh"]
    /\ todo' = [w \in Workers |-> {}]
    /\ msg' = [w \in Workers |-> 0]
    /\ stop' = [w \in Workers |-> FALSE]

(* reset_state: stop and rm, TRUNCATE, FLUSHDB.  The faults are counted by *)
(* the round.                                                              *)
ResetState ==
    /\ step = "reset"
    /\ Goto("up_workers")
    /\ StopAll
    /\ outbox' = [e \in Events |-> "absent"]
    /\ publicationAttempts' = [e \in Events |-> 0]
    /\ processed' = {}
    /\ fleetState' = [a \in Agents |-> NoBatch]
    /\ incidents' = {}
    /\ deadLetters' = {}
    /\ applied' = [e \in Events |-> 0]
    /\ stream' = <<>> /\ group' = FALSE /\ lastDelivered' = 0 /\ pel' = <<>>
    /\ idle' = {} /\ dlq' = {}
    /\ relayFaults' = 0 /\ late' = 0
    /\ UNCHANGED <<workerFaults, backlog, misread, initial, counted>>

UpWorkers ==
    /\ step = "up_workers"
    /\ Goto("wait_group")
    /\ up' = up \cup Rounds[round]
    /\ UNCHANGED <<vars, paused, inFlight, late, backlog, misread, initial, counted>>

WaitForWorkerGroup ==
    /\ step = "wait_group"
    /\ group
    /\ Goto("pause_workers")
    /\ UNCHANGED <<vars, up, paused, inFlight, late, backlog, misread, initial, counted>>

PauseWorkers ==
    /\ step = "pause_workers"
    /\ Goto("up_relay")
    /\ Pause(Workers)
    /\ UNCHANGED <<vars, up, late, backlog, misread, initial, counted>>

UpRelay ==
    /\ step = "up_relay"
    /\ Goto("k6")
    /\ up' = up \cup Relays
    /\ UNCHANGED <<vars, paused, inFlight, late, backlog, misread, initial, counted>>

(* run_k6 returns. *)
K6Ends ==
    /\ step = "k6"
    /\ Goto("wait_outbox")
    /\ UNCHANGED <<vars, up, paused, inFlight, late, backlog, misread, initial, counted>>

(* Mutant: the relay is paused without waiting for it. *)
WaitForOutboxNot ==
    /\ step = "wait_outbox"
    /\ Goto("pause_relay")
    /\ UNCHANGED <<vars, up, paused, inFlight, late, backlog, misread, initial, counted>>

WaitForOutbox ==
    /\ step = "wait_outbox"
    /\ \A e \in Events : outbox[e] # "unpublished"
    /\ Goto("pause_relay")
    /\ UNCHANGED <<vars, up, paused, inFlight, late, backlog, misread, initial, counted>>

PauseRelay ==
    /\ step = "pause_relay"
    /\ Goto("backlog")
    /\ Pause(Relays)
    /\ UNCHANGED <<vars, up, late, backlog, misread, initial, counted>>

(* pending and lag of the group. *)
Unsettled == Cardinality(Pending) + (Len(stream) - lastDelivered)

(* queue_state: an XINFO that fails counts as an empty group.  (So does a  *)
(* lag of NULL, which Redis gives for streams with deleted entries only.)  *)
QueueState(failed) == IF failed THEN 0 ELSE Unsettled

InitialBacklog ==
    /\ step = "backlog"
    /\ Goto("accepted")
    /\ misread' \in BOOLEAN
    /\ initial' = QueueState(misread')
    /\ UNCHANGED <<vars, up, paused, inFlight, late, backlog, counted>>

(* The count of telemetry_batches, compared with the backlog. *)
CountAccepted ==
    /\ step = "accepted"
    /\ counted' = Accepted
    /\ \/ initial = Cardinality(Accepted) /\ Goto("unpause")
       \/ /\ initial # Cardinality(Accepted)
          /\ step' = "close" /\ failure' = "mismatch" /\ UNCHANGED round
    /\ UNCHANGED <<vars, up, paused, inFlight, late, backlog, misread, initial>>

(* Mutant: the relay is unpaused, not the workers. *)
UnpauseRelay ==
    /\ step = "unpause"
    /\ Goto("queue_state")
    /\ paused' = paused \ Relays
    /\ inFlight' = inFlight \ Relays
    /\ misread' = FALSE
    /\ UNCHANGED <<vars, up, late, backlog, initial, counted>>

Unpause ==
    /\ step = "unpause"
    /\ Goto("queue_state")
    /\ paused' = paused \ Workers
    /\ inFlight' = inFlight \ Workers
    /\ misread' = FALSE
    /\ UNCHANGED <<vars, up, late, backlog, initial, counted>>

(* A round of the drain's loop reads the backlog, then the processed count; *)
(* the next round forgets both.                                            *)
SampleBacklog ==
    /\ step = "queue_state"
    /\ Goto("processed")
    /\ misread' \in BOOLEAN
    /\ backlog' = QueueState(misread')
    /\ UNCHANGED <<vars, up, paused, inFlight, late, initial, counted>>

(* Mutant: the backlog is not looked at. *)
DrainedProcessedOnly ==
    Cardinality(processed) = Cardinality(counted)

Drained == backlog = 0 /\ Cardinality(processed) = Cardinality(counted)

SampleProcessed ==
    /\ step = "processed"
    /\ \/ Drained /\ Goto("result") /\ UNCHANGED <<backlog, misread>>
       \/ ~Drained /\ Goto("queue_state") /\ backlog' = 0 /\ misread' = FALSE
    /\ UNCHANGED <<vars, up, paused, inFlight, late, initial, counted>>

(* finish_result, and stop of the workers and the relay. *)
FinishResult ==
    /\ step = "result"
    /\ IF round < Len(Rounds)
         THEN step' = "reset" /\ round' = round + 1
         ELSE step' = "close" /\ UNCHANGED round
    /\ backlog' = 0 /\ misread' = FALSE /\ initial' = 0 /\ counted' = {}
    /\ StopAll
    /\ UNCHANGED <<database, redis, relayFaults, workerFaults, late, failure>>

(* A wait's deadline passes before the wait looks again, k6 fails, or a    *)
(* command does.                                                           *)
Raise ==
    /\ step \notin {"close", "ended"}
    /\ step' = "close"
    /\ failure' = "error"
    /\ UNCHANGED <<vars, round, up, paused, inFlight, late, backlog, misread, initial,
                   counted>>

(* close, in main's finally: docker compose down. *)
Close ==
    /\ step = "close"
    /\ Goto("ended")
    /\ StopAll
    /\ UNCHANGED <<database, redis, relayFaults, workerFaults, late, backlog, misread,
                   initial, counted>>

Harness ==
    \/ ResetState \/ UpWorkers \/ WaitForWorkerGroup \/ PauseWorkers \/ UpRelay
    \/ K6Ends \/ WaitForOutbox \/ PauseRelay \/ InitialBacklog \/ CountAccepted
    \/ Unpause \/ SampleBacklog \/ SampleProcessed \/ FinishResult \/ Close

ExperimentNext == System \/ Harness \/ Raise

ExperimentSpec == ExperimentInit /\ [][ExperimentNext]_allVars

(* Processes run unless they are frozen, the harness goes on, time passes. *)
(* That a deadline passes is not assumed: the drain has to end by itself.  *)
ExperimentFairness ==
    /\ WF_allVars(Harness)
    /\ \A r \in Relays : WF_allVars(RelayStep(r) /\ Runs(r))
    /\ \A w \in Workers : WF_allVars(WorkerStep(w) /\ Runs(w))
    /\ \A m \in 1 .. MaxIds :
         WF_allVars(m \in Ids /\ IdleElapses(m) /\ UNCHANGED experiment)

FairExperimentSpec == ExperimentSpec /\ ExperimentFairness

-----------------------------------------------------------------------------
(* Properties. *)

(* A recorded drain is complete though its two counts are read at different *)
(* moments and duplicates or late batches may make them agree by accident: *)
(* the processed events are the counted ones, each applied once and none   *)
(* dead-lettered.  Nothing is left in the group either, unless a copy of a *)
(* publication repeated in this round reached the stream late, or the last *)
(* reading of the backlog was a failure taken for none.                    *)
DrainIsComplete ==
    step = "result" =>
        /\ processed = counted
        /\ \A e \in counted : applied[e] = 1
        /\ deadLetters = {}
        /\ relayFaults = 0 /\ ~misread => Pending = {} /\ lastDelivered = Len(stream)

(* The harness refuses a round for its backlog only when, in this round, a *)
(* publication failed and was repeated, a request outlived its k6, or the  *)
(* backlog could not be read.                                              *)
MismatchMeansFault == failure = "mismatch" => relayFaults > 0 \/ late > 0 \/ misread

(* The workers drain the backlog they were paused over, also when a frozen *)
(* worker had already been given entries: without a failed publication the *)
(* loop ends other than by its deadline.                                   *)
RoundsDrain ==
    (step = "queue_state" /\ relayFaults = 0) ~> (step \notin {"queue_state", "processed"})
=============================================================================
