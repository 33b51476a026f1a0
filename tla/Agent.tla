-------------------------------- MODULE Agent --------------------------------
(***************************************************************************)
(* One telemetry agent: the loop of agent/main.py, its SQLite spool        *)
(* (agent/spool.py) and the retries of agent/client.py, against an API     *)
(* that commits a batch, refuses it, or commits it and loses the answer.   *)
(*                                                                         *)
(* The spool is the sequence of its rows in the order of created_at.  Rows *)
(* are appended, except that a clock set back may put a new row before     *)
(* older ones.  Whether a row's next_attempt_at has passed is kept, and    *)
(* not the time itself.                                                    *)
(***************************************************************************)
EXTENDS Integers, Sequences, FiniteSets, SequencesExt

CONSTANTS
    BatchSize,        \* batch_size
    MaxSpoolBatches,  \* max_spool_batches
    MaxSpoolBytes,    \* max_spool_bytes, in samples
    OverflowAttempt,  \* attempts at which base * 2 ** attempt overflows (1024)
    MaxCreated,       \* bound: batches created
    MaxClockSteps,    \* bound: times the wall clock is set back
    MaxStops          \* bound: crashes, collector failures, termination signals

ASSUME AgentAssumption ==
    /\ BatchSize \in Nat \ {0}
    /\ MaxSpoolBatches \in Nat \ {0}
    /\ MaxSpoolBytes \in Nat \ {0}
    /\ OverflowAttempt \in Nat \ {0}
    /\ MaxCreated \in Nat
    /\ MaxClockSteps \in Nat
    /\ MaxStops \in Nat

VARIABLES
    pc,        \* where run stands
    stop,      \* the termination event
    samples,   \* samples in memory
    spool,     \* rows by created_at: batch id, payload_bytes, attempts
    delayed,   \* ids of rows whose next_attempt_at has not passed
    pending,   \* the row being delivered, <<>> for none
    created,   \* batches created; their ids are 1 .. created
    evicted,   \* history: ids deleted by enqueue
    accepted,  \* the API: ids of committed batches
    clockSteps, stops

vars == <<pc, stop, samples, spool, delayed, pending, created, evicted, accepted,
          clockSteps, stops>>

BatchIds == 1 .. MaxCreated
Row == [id : BatchIds, bytes : 1 .. BatchSize, attempts : 0 .. OverflowAttempt]
Ids(rows) == {rows[i].id : i \in DOMAIN rows}

-----------------------------------------------------------------------------
(* The spool. *)

(* The samples of the rows, each named by its batch and its place there:   *)
(* batch_id is the primary key.                                            *)
SamplesOf(rows) == UNION {{rows[i].id} \X (1 .. rows[i].bytes) : i \in DOMAIN rows}

TotalBytes(rows) == Cardinality(SamplesOf(rows))

Fits(rows) ==
    /\ Len(rows) <= MaxSpoolBatches
    /\ TotalBytes(rows) <= MaxSpoolBytes

(* Mutant: one row is deleted at most. *)
EvictOne(rows) == IF Fits(rows) THEN rows ELSE Tail(rows)

(* Mutant: the newest row is deleted. *)
EvictNewest(rows) == IF Fits(rows) THEN rows ELSE Front(rows)

(* The oldest rows are deleted one by one until the rest fits. *)
Newer(rows, n) == SubSeq(rows, n + 1, Len(rows))

Dropped(rows) ==
    CHOOSE n \in 0 .. Len(rows) :
        /\ Fits(Newer(rows, n))
        /\ \A i \in 0 .. n - 1 : ~Fits(Newer(rows, i))

Evict(rows) == Newer(rows, Dropped(rows))

(* One transaction: the insert and the deletions.  A clock set back places *)
(* the row by its smaller created_at.                                      *)
Enqueue(bytes) ==
    LET row == [id |-> created + 1, bytes |-> bytes, attempts |-> 0] IN
    \E at \in 1 .. Len(spool) + 1 :
        /\ \/ at = Len(spool) + 1 /\ UNCHANGED clockSteps
           \/ /\ at <= Len(spool) /\ clockSteps < MaxClockSteps
              /\ clockSteps' = clockSteps + 1
        /\ LET rows == InsertAt(spool, at, row)
               kept == Evict(rows) IN
            /\ spool' = kept
            /\ evicted' = evicted \cup (Ids(rows) \ Ids(kept))
            /\ delayed' = delayed \cap Ids(kept)
        /\ created' = created + 1

(* DELETE ... WHERE batch_id = ?. *)
Without(rows, b) ==
    IF b \in Ids(rows)
      THEN RemoveAt(rows, CHOOSE i \in DOMAIN rows : rows[i].id = b) ELSE rows

(* Mutant: a failed batch is not tried again. *)
ReadyOnce(i) ==
    /\ spool[i].attempts = 0
    /\ \A j \in 1 .. i - 1 : spool[j].attempts # 0

(* The oldest row whose delay has elapsed. *)
Ready(i) ==
    /\ spool[i].id \notin delayed
    /\ \A j \in 1 .. i - 1 : spool[j].id \in delayed

-----------------------------------------------------------------------------
Init ==
    /\ pc = "down"
    /\ stop = FALSE
    /\ samples = 0
    /\ spool = <<>>
    /\ delayed = {}
    /\ pending = <<>>
    /\ created = 0
    /\ evicted = {}
    /\ accepted = {}
    /\ clockSteps = 0
    /\ stops = 0

(* The spool file is reopened as it was left. *)
Start ==
    /\ pc = "down"
    /\ pc' = "collect"
    /\ UNCHANGED <<stop, samples, spool, delayed, pending, created, evicted,
                   accepted, clockSteps, stops>>

(* collect_sample, and a batch when there are enough of them.  Past the    *)
(* bound on batches no sample is taken.                                    *)
Collect ==
    /\ pc = "collect"
    /\ pc' = "ready"
    /\ \/ /\ created < MaxCreated
          /\ \/ /\ samples + 1 < BatchSize
                /\ samples' = samples + 1
                /\ UNCHANGED <<spool, delayed, created, evicted, clockSteps>>
             \/ /\ samples + 1 >= BatchSize
                /\ Enqueue(samples + 1)
                /\ samples' = 0
       \/ /\ created = MaxCreated
          /\ UNCHANGED <<samples, spool, delayed, created, evicted, clockSteps>>
    /\ UNCHANGED <<stop, pending, accepted, stops>>

(* collect_sample raises: psutil fails where no handler of the collector   *)
(* is, or a reading is outside the contract.  run leaves its loop, and the *)
(* samples it holds are flushed.                                           *)
CollectFails ==
    /\ pc = "collect"
    /\ stops < MaxStops
    /\ stops' = stops + 1
    /\ pc' = "flush"
    /\ UNCHANGED <<stop, samples, spool, delayed, pending, created, evicted, accepted,
                   clockSteps>>

NextReady ==
    /\ pc = "ready"
    /\ \/ \E i \in DOMAIN spool :
            /\ Ready(i)
            /\ pending' = <<spool[i]>>
            /\ pc' = "send"
       \/ /\ \A i \in DOMAIN spool : ~Ready(i)
          /\ pc' = "wait"
          /\ UNCHANGED pending
    /\ UNCHANGED <<stop, samples, spool, delayed, created, evicted, accepted,
                   clockSteps, stops>>

(* The API commits the batch, or finds it committed, and the answer comes. *)
SendSucceeds ==
    /\ pc = "send"
    /\ accepted' = accepted \cup {pending[1].id}
    /\ pc' = "sent"
    /\ UNCHANGED <<stop, samples, spool, delayed, pending, created, evicted,
                   clockSteps, stops>>

(* The request fails, or its answer is late or lost after the commit. *)
SendFails ==
    /\ pc = "send"
    /\ accepted' \in {accepted, accepted \cup {pending[1].id}}
    /\ pc' = "failed"
    /\ UNCHANGED <<stop, samples, spool, delayed, pending, created, evicted,
                   clockSteps, stops>>

MarkSent ==
    /\ pc = "sent"
    /\ spool' = Without(spool, pending[1].id)
    /\ delayed' = delayed \ {pending[1].id}
    /\ pending' = <<>>
    /\ pc' = "wait"
    /\ UNCHANGED <<stop, samples, created, evicted, accepted, clockSteps, stops>>

(* Mutant: a failed batch is given up. *)
MarkFailedDrops ==
    /\ pc = "failed"
    /\ pending[1].attempts < OverflowAttempt
    /\ spool' = Without(spool, pending[1].id)
    /\ delayed' = delayed \ {pending[1].id}
    /\ pending' = <<>>
    /\ pc' = "wait"
    /\ UNCHANGED <<stop, samples, created, evicted, accepted, clockSteps, stops>>

(* mark_failed with a delay drawn from 0 to the capped exponential.        *)
MarkFailed ==
    /\ pc = "failed"
    /\ pending[1].attempts < OverflowAttempt
    /\ LET b == pending[1].id IN
        /\ spool' = [i \in DOMAIN spool |->
                       IF spool[i].id = b
                         THEN [spool[i] EXCEPT !.attempts = @ + 1] ELSE spool[i]]
        /\ delayed' \in {delayed, delayed \cup {b}}
    /\ pending' = <<>>
    /\ pc' = "wait"
    /\ UNCHANGED <<stop, samples, created, evicted, accepted, clockSteps, stops>>

(* full_jitter_delay raises OverflowError: run leaves its loop. *)
DelayOverflows ==
    /\ pc = "failed"
    /\ pending[1].attempts >= OverflowAttempt
    /\ pending' = <<>>
    /\ pc' = "flush"
    /\ UNCHANGED <<stop, samples, spool, delayed, created, evicted, accepted,
                   clockSteps, stops>>

(* The interval passes, or the termination event is set. *)
Wait ==
    /\ pc = "wait"
    /\ pc' = IF stop THEN "flush" ELSE "collect"
    /\ UNCHANGED <<stop, samples, spool, delayed, pending, created, evicted,
                   accepted, clockSteps, stops>>

(* The finally block: an incomplete batch goes to the spool. *)
Flush ==
    /\ pc = "flush"
    /\ \/ samples > 0 /\ Enqueue(samples)
       \/ samples = 0 /\ UNCHANGED <<spool, delayed, created, evicted, clockSteps>>
    /\ samples' = 0
    /\ stop' = FALSE
    /\ pc' = "down"
    /\ UNCHANGED <<pending, accepted, stops>>

AgentStep ==
    \/ Start \/ Collect \/ NextReady \/ SendSucceeds \/ SendFails \/ MarkSent
    \/ MarkFailed \/ DelayOverflows \/ Wait \/ Flush

-----------------------------------------------------------------------------
(* The environment. *)

Terminate ==
    /\ stops < MaxStops
    /\ pc # "down" /\ ~stop
    /\ stop' = TRUE
    /\ stops' = stops + 1
    /\ UNCHANGED <<pc, samples, spool, delayed, pending, created, evicted, accepted,
                   clockSteps>>

(* Killed at any point: what is in memory is gone. *)
Crash ==
    /\ stops < MaxStops
    /\ pc # "down"
    /\ pc' = "down"
    /\ stop' = FALSE
    /\ samples' = 0
    /\ pending' = <<>>
    /\ stops' = stops + 1
    /\ UNCHANGED <<spool, delayed, created, evicted, accepted, clockSteps>>

DelayElapses(b) ==
    /\ b \in delayed
    /\ delayed' = delayed \ {b}
    /\ UNCHANGED <<pc, stop, samples, spool, pending, created, evicted, accepted,
                   clockSteps, stops>>

Next ==
    \/ AgentStep \/ CollectFails \/ Terminate \/ Crash
    \/ (\E b \in BatchIds : DelayElapses(b))

Spec == Init /\ [][Next]_vars

(* The agent runs and is restarted, delays end, and an API that is tried   *)
(* for ever answers for ever.                                              *)
Fairness ==
    /\ WF_vars(AgentStep)
    /\ \A b \in BatchIds : WF_vars(DelayElapses(b))
    /\ \A b \in BatchIds : SF_vars(pending # <<>> /\ pending[1].id = b /\ SendSucceeds)

FairSpec == Spec /\ Fairness

-----------------------------------------------------------------------------
(* Properties. *)

TypeOK ==
    /\ pc \in {"down", "collect", "ready", "send", "sent", "failed", "wait", "flush"}
    /\ stop \in BOOLEAN
    /\ samples \in 0 .. BatchSize - 1
    /\ spool \in Seq(Row)
    /\ delayed \subseteq Ids(spool)
    /\ pending \in {<<>>} \cup {<<row>> : row \in Row}
    /\ (pending # <<>>) <=> pc \in {"send", "sent", "failed"}
    /\ created \in 0 .. MaxCreated
    /\ evicted \subseteq 1 .. created
    /\ accepted \subseteq 1 .. created
    /\ clockSteps \in 0 .. MaxClockSteps
    /\ stops \in 0 .. MaxStops

(* The spool keeps its bounds at every commit, restarts and partial        *)
(* batches included (enqueue).                                             *)
SpoolBounded == Fits(spool)

(* A batch leaves the spool only when the API has committed it or when     *)
(* enqueue has evicted it: a lost answer, a crash between the answer and   *)
(* mark_sent or a restart loses none.                                      *)
NoSilentLoss == 1 .. created \subseteq Ids(spool) \cup accepted \cup evicted

(* Without a clock set back, a full spool gives up its oldest batches and  *)
(* no more of them than the bounds ask for.                                *)
EvictsOldest ==
    [][ \A b \in evicted' \ evicted :
          /\ clockSteps' = 0 => \A c \in Ids(spool') : b < c
          /\ Len(spool') + 1 > MaxSpoolBatches
               \/ TotalBytes(spool') + BatchSize > MaxSpoolBytes ]_vars

(* Every batch is eventually committed by the API, unless it is evicted.   *)
BatchesArrive ==
    \A b \in BatchIds : (b \in Ids(spool)) ~> (b \in accepted \cup evicted)

-----------------------------------------------------------------------------
(* The inductive invariant behind the safety properties. *)

(* Rows are of batches that were created, in the order of creation unless  *)
(* the clock was set back.                                                 *)
SpoolInv ==
    /\ Ids(spool) \subseteq 1 .. created
    /\ clockSteps = 0 =>
         \A i, j \in DOMAIN spool : i < j => spool[i].id < spool[j].id

(* Every row is there once, and the row being delivered is one of them. *)
PendingInv ==
    /\ \A i, j \in DOMAIN spool : spool[i].id = spool[j].id => i = j
    /\ pending # <<>> => \E i \in DOMAIN spool : spool[i] = pending[1]

(* What is about to be marked as sent is committed, and there is room for  *)
(* the samples in memory in one more batch.                                *)
DeliveryInv ==
    /\ pc = "sent" => pending[1].id \in accepted
    /\ samples > 0 => created < MaxCreated

AgentInv ==
    TypeOK /\ SpoolInv /\ DeliveryInv /\ SpoolBounded /\ NoSilentLoss /\ PendingInv

-----------------------------------------------------------------------------
(* What a docstring says of this code, and it does not do.                 *)

(* agent/main.py: "Collect until terminated".  At 1024 failed attempts of  *)
(* one batch the delay overflows a float and run ends by itself.           *)
RunsUntilTerminated == pc = "flush" => stop
=============================================================================
