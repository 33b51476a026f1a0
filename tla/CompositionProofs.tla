------------------------- MODULE CompositionProofs -------------------------
(***************************************************************************)
(* Proofs about the two systems built on Delivery: RedisRestart, where     *)
(* Redis comes back with the state it last flushed, and WorkerExperiment,  *)
(* where the harness pauses, counts, drains and resets the processes.      *)
(***************************************************************************)
EXTENDS RedisRestart, WorkerExperiment, DeliveryProofs

USE EntriesAssumption, BatchAssumption, BoundsAssumption

-----------------------------------------------------------------------------
(* Redis restarts. *)

(* The invariant holds of the empty, never flushed Redis. *)
LEMMA RedisInitInv == RedisInit => RedisInv
<1> SUFFICES ASSUME RedisInit PROVE RedisInv
  OBVIOUS
<1>1. InductiveInvariant
  BY InitInductive DEF RedisInit
<1>2. /\ synced.stream = <<>> /\ synced.group = FALSE /\ synced.last = 0
      /\ synced.pel = <<>> /\ synced.dlq = {}
  BY DEF RedisInit
<1>3. SyncedInv
  <2>1. synced.stream \in Seq(Entries) /\ Len(synced.stream) = 0
    BY <1>2
  <2>2. 1 .. synced.last = {} /\ 1 .. Len(synced.stream) = {}
    BY <1>2, <2>1
  <2>3. synced.pel \in [1 .. synced.last -> 0 .. MaxDelivery]
    BY <1>2, <2>2
  <2>4. synced.group \in BOOLEAN /\ synced.last \in 0 .. Len(synced.stream)
    <3>1. synced.group \in BOOLEAN
      BY <1>2, Zenon
    <3>2. synced.last \in 0 .. Len(synced.stream)
      BY <1>2, <2>1
    <3>3. QED
      BY <3>1, <3>2
  <2>5. synced.dlq \subseteq 1 .. synced.last /\ (~synced.group => synced.last = 0)
    BY <1>2
  <2>6. QED
    BY <2>1, <2>2, <2>3, <2>4, <2>5, Zenon DEF SyncedInv
<1>4. AckedInv
  BY <1>2 DEF RedisInit, Init, AckedInv
<1>5. QED
  BY <1>1, <1>3, <1>4 DEF InductiveInvariant, RedisInv, KeptInv

(* An entry becomes acknowledged when it is processed or dead-lettered,    *)
(* and an event is never dead-lettered.                                    *)
LEMMA NextAcked ==
  ASSUME TypeOK, GroupInv, WorkerInv, SyncedInv, AckedInv, [Next]_vars, UNCHANGED synced
  PROVE  AckedInv'
<1>1. ASSUME NEW m \in 1 .. lastDelivered', pel'[m] = 0
      PROVE  stream'[m] \in processed' \cup Foreign
  <2>1. CASE m \in 1 .. lastDelivered /\ pel[m] = 0
    <3>0. m \in Ids
      BY <2>1 DEF TypeOK, RedisType, Ids
    <3>1. stream'[m] = stream[m]
      BY <3>0, StreamGrows
    <3>2. QED
      BY <2>1, <3>1, RecordsGrow DEF AckedInv
  <2>2. ASSUME NEW w \in Workers, pc[w] \in {"ack", "dlack"}, msg[w] = m
        PROVE  stream'[m] \in processed' \cup Foreign
    <3>1. stream'[m] = Entry(w)
      BY <2>2, HandledIsDelivered, StreamGrows DEF Entry
    <3>2. QED
      BY <2>2, <3>1, RecordsGrow DEF WorkerInv, Foreign
  <2>3. QED
    BY <1>1, <2>1, <2>2, PelSteps
<1>2. \A m \in 1 .. synced.last :
        synced.pel[m] = 0 => synced.stream[m] \in processed' \cup Foreign
  BY RecordsGrow DEF AckedInv
<1>3. QED
  BY <1>1, <1>2 DEF AckedInv

(* A step of Delivery keeps Delivery's part. *)
LEMMA NextKept == KeptInv /\ [Next]_vars => KeptInv'
<1> SUFFICES ASSUME KeptInv, [Next]_vars PROVE KeptInv'
  OBVIOUS
<1> USE DEF KeptInv
<1>1. TypeOK' /\ GroupInv'
  BY NextType
<1>2. RelayInv' /\ StreamInv'
  BY <1>1, NextRelayInv
<1>3. CopiesInv' /\ WorkerInv'
  BY <1>1, NextCopies, NextWorkerInv
<1>4. EffectsExactlyOnce' /\ EffectsMatchProcessed' /\ OnlyAcceptedApplied'
  BY NextEffects DEF EffectsInv
<1>5. QED
  BY <1>1, <1>2, <1>3, <1>4

(* And the rest: the stream only grows beyond the flushed file. *)
LEMMA DeliveryStep == RedisInv /\ [Next]_vars /\ UNCHANGED synced => RedisInv'
<1> SUFFICES ASSUME RedisInv, [Next]_vars, UNCHANGED synced PROVE RedisInv'
  OBVIOUS
<1> USE DEF RedisInv
<1>1. SyncedInv'
  BY StreamGrows DEF SyncedInv, KeptInv
<1>2. AckedInv'
  BY NextAcked DEF KeptInv
<1>3. QED
  BY <1>1, <1>2, NextKept

(* A flush changes nothing but the file. *)
LEMMA FsyncStep == RedisInv /\ Fsync => RedisInv'
<1> SUFFICES ASSUME RedisInv, Fsync PROVE RedisInv'
  OBVIOUS
<1>1. UNCHANGED vars
  BY DEF Fsync
<1>2. /\ synced'.stream = stream /\ synced'.group = group /\ synced'.last = lastDelivered
      /\ synced'.pel = pel /\ synced'.dlq = dlq
  BY DEF Fsync
<1>3. SyncedInv'
  BY <1>1, <1>2 DEF RedisInv, KeptInv, SyncedInv, TypeOK, RedisType, GroupInv, Ids, vars, redis
<1>4. AckedInv'
  BY <1>1, <1>2 DEF RedisInv, AckedInv, vars, database, redis
<1>5. QED
  BY <1>1, <1>3, <1>4, NextKept DEF RedisInv

(* Redis comes back with fewer entries, deliveries and acknowledgements,   *)
(* and every process starts over; the database is as it was.               *)
LEMMA RestartStep == RedisInv /\ Restart => RedisInv'
<1> SUFFICES ASSUME RedisInv, Restart PROVE RedisInv'
  OBVIOUS
<1> USE DEF RedisInv, KeptInv
<1>1. /\ stream' = synced.stream /\ group' = synced.group /\ lastDelivered' = synced.last
      /\ pel' = synced.pel /\ idle' = {} /\ dlq' = synced.dlq
      /\ synced' = synced
  BY DEF Restart
<1>2. UNCHANGED <<outbox, publicationAttempts, processed, fleetState, incidents,
                  deadLetters, applied, workerFaults>>
  BY DEF Restart, database
<1>3. /\ \A w \in Workers : pc'[w] = "down" /\ todo'[w] = {} /\ msg'[w] = 0
      /\ \A r \in Relays : held'[r] = {} /\ sent'[r] = {}
      /\ relayFaults < MaxRelayFaults /\ relayFaults' = relayFaults + 1
  BY DEF Restart
<1>4. \A m \in Ids' : m \in Ids /\ stream'[m] = stream[m]
  BY <1>1 DEF SyncedInv, Ids
<1>5. TypeOK'
  <2>1. DatabaseType'
    BY <1>2 DEF TypeOK, DatabaseType
  <2>2. RedisType'
    BY <1>1 DEF SyncedInv, RedisType
  <2>3. RelayType'
    <3>1. held' \in [Relays -> SUBSET Events] /\ sent' \in [Relays -> SUBSET Events]
      BY DEF Restart
    <3>2. relayFaults' \in 0 .. MaxRelayFaults
      BY <1>3 DEF TypeOK, RelayType
    <3>3. QED
      BY <3>1, <3>2 DEF RelayType
  <2>4. WorkerType'
    <3>1. synced.last \in Nat
      BY DEF SyncedInv
    <3>2. QED
      BY <1>1, <3>1 DEF Restart, TypeOK, WorkerType, PCs
  <2>5. QED
    BY <2>1, <2>2, <2>3, <2>4 DEF TypeOK
<1>6. GroupInv' /\ WorkerInv'
  BY <1>1, <1>3 DEF SyncedInv, GroupInv, WorkerInv
<1>7. RelayInv'
  BY <1>3 DEF RelayInv
<1>8. StreamInv'
  BY <1>2, <1>4 DEF StreamInv, InStream
<1>9. CopiesInv'
  <2> SUFFICES ASSUME NEW e \in Events
               PROVE  Cardinality(Copies(e)') <= relayFaults' + (IF Sent(e)' THEN 1 ELSE 0)
    BY DEF CopiesInv
  <2>1. Copies(e)' \subseteq Copies(e)
    BY <1>4 DEF Copies
  <2>2. IsFiniteSet(Copies(e)) /\ Cardinality(Copies(e)) \in Nat
    BY CopiesFinite
  <2>3. Cardinality(Copies(e)') \in Nat /\ Cardinality(Copies(e)') <= Cardinality(Copies(e))
    BY <2>1, <2>2, FS_Subset, FS_CardinalityType
  <2>4. Cardinality(Copies(e)) <= 1 + relayFaults /\ relayFaults \in Nat
    BY CopiesBound DEF CopiesBoundedByFailures, TypeOK, RelayType
  <2>5. QED
    BY <1>3, <2>2, <2>3, <2>4
<1>10. EffectsExactlyOnce' /\ EffectsMatchProcessed' /\ OnlyAcceptedApplied'
  BY <1>2 DEF EffectsExactlyOnce, EffectsMatchProcessed, OnlyAcceptedApplied, Accepted
<1>11. SyncedInv'
  BY <1>1 DEF SyncedInv, Ids
<1>12. AckedInv'
  BY <1>1, <1>2 DEF AckedInv
<1>13. QED
  BY <1>5, <1>6, <1>7, <1>8, <1>9, <1>10, <1>11, <1>12

(* The inductive invariant of Delivery with a forgetful Redis. *)
THEOREM RedisInductive == RedisSpec => []RedisInv
<1>1. RedisInv /\ [RedisNext]_redisVars => RedisInv'
  <2> SUFFICES ASSUME RedisInv, [RedisNext]_redisVars PROVE RedisInv'
    OBVIOUS
  <2>1. CASE UNCHANGED redisVars
    BY <2>1, DeliveryStep DEF redisVars
  <2>2. QED
    BY <2>1, DeliveryStep, FsyncStep, RestartStep DEF RedisNext
<1>2. QED
  BY <1>1, RedisInitInv, PTL DEF RedisSpec

(* What was flushed is processed, or still to be delivered or pending. *)
THEOREM FlushedSurvives == RedisSpec => []FlushedEventSurvives
<1>1. RedisInv => FlushedEventSurvives
  <2> SUFFICES ASSUME RedisInv, NEW i \in DOMAIN synced.stream,
                      synced.stream[i] \notin processed \cup Foreign
               PROVE  \E m \in Ids : stream[m] = synced.stream[i] /\ ~Acked(m)
    BY DEF FlushedEventSurvives
  <2>1. i \in Ids /\ stream[i] = synced.stream[i]
    BY DEF RedisInv, SyncedInv
  <2>2. ~Acked(i)
    BY <2>1 DEF RedisInv, AckedInv, Acked
  <2>3. QED
    BY <2>1, <2>2
<1>2. QED
  BY <1>1, RedisInductive, PTL

(* Redelivery of what Redis forgot applies no event twice, and the tables  *)
(* still hold the consequences of the processed events only.               *)
THEOREM RestartEffects == RedisSpec => [](EffectsExactlyOnce /\ EffectsMatchProcessed)
<1>1. RedisInv => EffectsExactlyOnce /\ EffectsMatchProcessed
  BY DEF RedisInv, KeptInv
<1>2. QED
  BY <1>1, RedisInductive, PTL

(* A restart of Redis is one more failed publication to the relays: an     *)
(* event has one copy in the stream, and one per failure or restart more.  *)
THEOREM RestartPublication == RedisSpec => []CopiesBoundedByFailures
<1>1. RedisInv => CopiesBoundedByFailures
  BY CopiesBound DEF RedisInv, KeptInv
<1>2. QED
  BY <1>1, RedisInductive, PTL

-----------------------------------------------------------------------------
(* The inductive invariant of the worker comparison. *)

(* The group is created but nothing is published; the workers are frozen   *)
(* and the backlog builds up; the workers drain what was counted.          *)
Preparing == {"up_workers", "wait_group", "pause_workers"}
Loading   == {"up_relay", "k6", "wait_outbox", "pause_relay", "backlog", "accepted"}
Draining  == {"unpause", "queue_state", "processed", "result"}
Stopped   == {"reset", "close", "ended"}

ExperimentType ==
    /\ step \in Preparing \cup Loading \cup Draining \cup Stopped
    /\ round \in 1 .. Len(Rounds)
    /\ late \in Nat
    /\ initial \in Nat
    /\ counted \subseteq Events
    /\ step \notin {"close", "ended"} => failure = "none"

(* Delivery's invariant.  Stopping the containers drops a publication      *)
(* without a relay failure, so that copies are bounded within a round only. *)
DeliveryParts ==
    /\ TypeOK /\ GroupInv /\ RelayInv /\ StreamInv /\ RetentionInv
    /\ WorkerInv /\ EffectsExactlyOnce /\ EffectsMatchProcessed /\ AckedMeansSettled
    /\ NoEarlyDeadLetter /\ OnlyAcceptedApplied

RoundCopies == step \notin Stopped => CopiesInv

EventsOnly == \A m \in Ids : stream[m] \in Events

PreparingInv == step \in Preparing => stream = <<>> /\ up \cap Relays = {}

(* A frozen worker may still be given entries but handles none. *)
LoadingInv ==
    step \in Loading =>
        /\ up \cap Workers \subseteq paused
        /\ \A w \in Workers : /\ pc[w] \in {"down", "idle"}
                              /\ w \in inFlight => todo[w] = {}
        /\ \A m \in 1 .. lastDelivered : pel[m] > 0

OutboxInv ==
    step \in {"pause_relay", "backlog", "accepted"} /\ late = 0 =>
        \A e \in Events : outbox[e] # "unpublished"

(* The backlog is at most what is in the stream, which can outgrow it only *)
(* by late or repeated rows, unless the reading failed.                    *)
BacklogInv ==
    step = "accepted" =>
        /\ initial <= Len(stream)
        /\ late = 0 /\ relayFaults = 0 /\ ~misread => initial = Len(stream)

(* A frozen relay may still add a row, or lock a late one, but not both. *)
DrainingInv ==
    /\ step \in {"backlog", "accepted"} \cup Draining => up \cap Relays \subseteq paused
    /\ step \in Draining =>
        /\ processed \subseteq counted
        /\ \A m \in Ids : stream[m] \in counted
        /\ \A r \in Relays \cap inFlight : held[r] \subseteq counted
        /\ relayFaults = 0 => \A e \in counted : InStream(e)

(* Without repeated rows a group that was read as empty, and was, stays so. *)
DrainedInv ==
    /\ step \in {"processed", "result"} /\ backlog = 0 /\ relayFaults = 0 /\ ~misread =>
         Pending = {} /\ lastDelivered = Len(stream)
    /\ step = "result" => backlog = 0 /\ processed = counted

ExperimentInv ==
    /\ ExperimentType /\ DeliveryParts /\ RoundCopies /\ EventsOnly /\ PreparingInv
    /\ LoadingInv /\ OutboxInv /\ BacklogInv /\ DrainingInv /\ DrainedInv
    /\ MismatchMeansFault

-----------------------------------------------------------------------------
(* The worker comparison: its Delivery. *)

USE RoundsAssumption

(* Delivery's part survives its own steps, and those of the harness that   *)
(* leave it alone.                                                         *)
LEMMA NextParts ==
  ASSUME DeliveryParts, [Next]_vars
  PROVE  DeliveryParts' /\ (CopiesInv => CopiesInv')
<1> USE DEF DeliveryParts
<1>1. TypeOK' /\ GroupInv'
  BY NextType
<1>2. RelayInv' /\ StreamInv' /\ RetentionInv'
  BY <1>1, NextRelayInv, NextDeadLetters DEF RetentionInv, PublishedInStream
<1>3. WorkerInv' /\ (CopiesInv => CopiesInv')
  BY <1>1, NextWorkerInv, NextCopies
<1>4. EffectsExactlyOnce' /\ EffectsMatchProcessed' /\ OnlyAcceptedApplied'
  BY NextEffects DEF EffectsInv
<1>5. AckedMeansSettled' /\ NoEarlyDeadLetter'
  BY NextSettled, NextNoEarlyDeadLetter
<1>6. QED
  BY <1>1, <1>2, <1>3, <1>4, <1>5

(* Containers that are gone hold no rows and no entries. *)
LEMMA StopAllTypes ==
  ASSUME RelayType, WorkerType, StopAll, relayFaults' \in {0, relayFaults},
         workerFaults' = workerFaults, lastDelivered' \in Nat
  PROVE  RelayType' /\ WorkerType' /\ RelayInv' /\ WorkerInv'
<1>1. /\ \A w \in Workers : pc'[w] = "down" /\ todo'[w] = {} /\ msg'[w] = 0
      /\ \A r \in Relays : held'[r] = {} /\ sent'[r] = {}
  BY DEF StopAll
<1>2. RelayType'
  BY DEF StopAll, RelayType
<1>3. WorkerType'
  BY <1>1 DEF StopAll, WorkerType, PCs
<1>4. RelayInv' /\ WorkerInv'
  BY <1>1 DEF RelayInv, WorkerInv
<1>5. QED
  BY <1>2, <1>3, <1>4

(* Stopping the containers leaves the database and Redis as they are. *)
LEMMA StopAllParts ==
  ASSUME DeliveryParts, StopAll, UNCHANGED <<database, redis, relayFaults, workerFaults>>
  PROVE  DeliveryParts'
<1> USE DEF DeliveryParts
<1>1. UNCHANGED <<outbox, publicationAttempts, processed, fleetState, incidents,
                  deadLetters, applied, stream, group, lastDelivered, pel, idle, dlq>>
  BY DEF database, redis
<1>2. lastDelivered' \in Nat
  BY <1>1 DEF TypeOK, RedisType
<1>3. RelayType' /\ WorkerType' /\ RelayInv' /\ WorkerInv'
  BY <1>2, StopAllTypes DEF TypeOK
<1>4. DatabaseType' /\ RedisType'
  BY <1>1 DEF TypeOK, DatabaseType, RedisType, Pending
<1>5. GroupInv'
  BY <1>1 DEF GroupInv, StopAll
<1>6. StreamInv' /\ RetentionInv' /\ AckedMeansSettled' /\ NoEarlyDeadLetter'
  BY <1>1 DEF StreamInv, RetentionInv, InStream, Ids, AckedMeansSettled, Acked,
              NoEarlyDeadLetter
<1>7. EffectsExactlyOnce' /\ EffectsMatchProcessed' /\ OnlyAcceptedApplied'
  BY <1>1 DEF EffectsExactlyOnce, EffectsMatchProcessed, OnlyAcceptedApplied, Accepted
<1>8. QED
  BY <1>3, <1>4, <1>5, <1>6, <1>7 DEF TypeOK

(* TRUNCATE and FLUSHDB make the empty tables and streams of Init. *)
LEMMA ResetParts ==
  ASSUME DeliveryParts, ResetState
  PROVE  DeliveryParts' /\ CopiesInv' /\ EventsOnly' /\ stream' = <<>>
<1> USE DEF DeliveryParts
<1>1. /\ stream' = <<>> /\ Len(stream') = 0 /\ Ids' = {}
      /\ lastDelivered' = 0 /\ pel' = <<>> /\ 1 .. lastDelivered' = {}
      /\ group' = FALSE /\ idle' = {} /\ dlq' = {} /\ deadLetters' = {} /\ processed' = {}
      /\ \A w \in Workers : pc'[w] = "down"
  BY DEF ResetState, StopAll, Ids
<1>2. StopAll /\ relayFaults' = 0 /\ workerFaults' = workerFaults /\ lastDelivered' \in Nat
  BY <1>1 DEF ResetState
<1>3. RelayType' /\ WorkerType' /\ RelayInv' /\ WorkerInv'
  BY <1>2, StopAllTypes DEF TypeOK
<1>4. DatabaseType'
  BY DEF ResetState, DatabaseType
<1>5. RedisType'
  <2>1. stream' \in Seq(Entries)
    BY <1>1
  <2>2. pel' \in [1 .. lastDelivered' -> 0 .. MaxDelivery]
    BY <1>1
  <2>3. group' \in BOOLEAN
    BY <1>1, Zenon
  <2>4. QED
    BY <1>1, <2>1, <2>2, <2>3 DEF RedisType
<1>6. GroupInv' /\ StreamInv' /\ RetentionInv' /\ EventsOnly'
  <2>1. \A e \in Events : outbox'[e] = "absent"
    BY DEF ResetState
  <2>2. QED
    BY <1>1, <2>1 DEF GroupInv, StreamInv, RetentionInv, EventsOnly, InStream
<1>7. AckedMeansSettled' /\ NoEarlyDeadLetter'
  BY <1>1 DEF AckedMeansSettled, NoEarlyDeadLetter
<1>8. EffectsExactlyOnce' /\ EffectsMatchProcessed' /\ OnlyAcceptedApplied'
  BY DEF ResetState, EffectsExactlyOnce, EffectsMatchProcessed, OnlyAcceptedApplied
<1>9. CopiesInv'
  <2> SUFFICES ASSUME NEW e \in Events
               PROVE  Cardinality(Copies(e)') <= relayFaults' + (IF Sent(e)' THEN 1 ELSE 0)
    BY DEF CopiesInv
  <2>1. Copies(e)' = {} /\ relayFaults' \in Nat
    BY <1>1, <1>3 DEF Copies, RelayType
  <2>2. Cardinality(Copies(e)') = 0
    BY <2>1, FS_EmptySet
  <2>3. QED
    BY <2>1, <2>2
<1>10. QED
  BY <1>1, <1>3, <1>4, <1>5, <1>6, <1>7, <1>8, <1>9 DEF TypeOK
-----------------------------------------------------------------------------
(* Counting. *)

(* Without a failed publication the stream holds each of its events once. *)
LEMMA StreamCount ==
  ASSUME TypeOK, CopiesInv, EventsOnly, relayFaults = 0
  PROVE  Cardinality({e \in Events : InStream(e)}) = Len(stream)
<1> DEFINE S == {e \in Events : InStream(e)}
           f == [m \in Ids |-> stream[m]]
<1>1. Len(stream) \in Nat
  BY DEF TypeOK, RedisType
<1>2. ASSUME NEW m \in Ids, NEW n \in Ids, stream[m] = stream[n] PROVE m = n
  <2> DEFINE C == Copies(stream[m])
  <2>1. stream[m] \in Events /\ m \in C /\ n \in C
    BY <1>2 DEF EventsOnly, Copies
  <2>2. IsFiniteSet(C) /\ Cardinality(C) \in Nat
    BY CopiesFinite
  <2>3. Cardinality(C) <= 1
    BY <2>1, CopiesBound DEF CopiesBoundedByFailures
  <2> HIDE DEF C
  <2>4. Cardinality(C \ {m}) = Cardinality(C) - 1 /\ IsFiniteSet(C \ {m})
    BY <2>1, <2>2, FS_RemoveElement
  <2>5. Cardinality(C \ {m}) \in Nat
    BY <2>4, FS_CardinalityType
  <2>6. Cardinality(C \ {m}) = 0
    BY <2>2, <2>3, <2>4, <2>5
  <2>7. C \ {m} = {}
    BY <2>4, <2>6, FS_EmptySet
  <2>8. QED
    BY <2>1, <2>7
<1>3. f \in [Ids -> S] /\ IsInjective(f)
  BY <1>2 DEF EventsOnly, InStream, IsInjective
<1>4. \A e \in S : \E m \in Ids : f[m] = e
  BY DEF InStream
<1>5. f \in Bijection(Ids, S)
  BY <1>3, <1>4 DEF Bijection, Injection, Surjection
<1>6. ExistsBijection(1 .. Len(stream), S)
  BY <1>5 DEF ExistsBijection, Ids
<1>7. QED
  BY <1>1, <1>6, FS_CountingElements

(* The backlog of the group is what it still has to settle: all of the     *)
(* stream before the first acknowledgement, and nothing only when every    *)
(* entry is delivered and acknowledged.                                    *)
LEMMA UnsettledCounts ==
  ASSUME TypeOK
  PROVE  /\ Unsettled \in Nat
         /\ (\A m \in 1 .. lastDelivered : pel[m] > 0) => Unsettled = Len(stream)
         /\ Unsettled = 0 => Pending = {} /\ lastDelivered = Len(stream)
<1>1. Len(stream) \in Nat /\ lastDelivered \in Nat /\ lastDelivered <= Len(stream)
  BY DEF TypeOK, RedisType
<1>2. IsFiniteSet(1 .. lastDelivered) /\ Cardinality(1 .. lastDelivered) = lastDelivered
  BY <1>1, FS_Interval
<1>3. Pending \subseteq 1 .. lastDelivered
  BY DEF Pending
<1>4. IsFiniteSet(Pending) /\ Cardinality(Pending) \in Nat
  BY <1>2, <1>3, FS_Subset, FS_CardinalityType
<1>5. (\A m \in 1 .. lastDelivered : pel[m] > 0) => Pending = 1 .. lastDelivered
  BY DEF Pending
<1>6. Cardinality(Pending) = 0 => Pending = {}
  BY <1>4, FS_EmptySet
<1>7. Unsettled = Cardinality(Pending) + (Len(stream) - lastDelivered)
  BY DEF Unsettled
<1>8. (\A m \in 1 .. lastDelivered : pel[m] > 0) => Cardinality(Pending) = lastDelivered
  BY <1>2, <1>5
<1>9. QED
  BY <1>1, <1>4, <1>6, <1>7, <1>8

(* An empty outbox: the accepted events are those of the stream. *)
LEMMA AllPublished ==
  ASSUME TypeOK, StreamInv, RetentionInv, \A e \in Events : outbox[e] # "unpublished"
  PROVE  Accepted = {e \in Events : InStream(e)}
  BY DEF Accepted, StreamInv, RetentionInv, TypeOK, DatabaseType

(* When as many events were accepted as the stream has entries, all of     *)
(* them are in it.                                                         *)
LEMMA CountsAgree ==
  ASSUME TypeOK, StreamInv, CopiesInv, EventsOnly, relayFaults = 0,
         Cardinality(Accepted) <= Len(stream)
  PROVE  \A e \in Accepted : InStream(e)
<1> DEFINE S == {e \in Events : InStream(e)}
<1>1. IsFiniteSet(Accepted)
  <2>1. Accepted \subseteq Events
    BY DEF Accepted
  <2>2. QED
    BY <2>1, FS_Subset
<1>2. S \in SUBSET Accepted
  BY DEF StreamInv, Accepted
<1>3. Cardinality(S) = Len(stream)
  BY StreamCount
<1> HIDE DEF S
<1>4. /\ Cardinality(S) <= Cardinality(Accepted)
      /\ Cardinality(S) = Cardinality(Accepted) => S = Accepted
  BY <1>1, <1>2, FS_Subset
<1>5. Cardinality(Accepted) \in Nat /\ Cardinality(S) \in Nat
  <2>1. IsFiniteSet(S)
    BY <1>1, <1>2, FS_Subset
  <2>2. QED
    BY <1>1, <2>1, FS_CardinalityType
<1>6. Cardinality(S) = Cardinality(Accepted)
  BY <1>3, <1>4, <1>5
<1>7. S = Accepted
  BY <1>4, <1>6
<1>8. QED
  BY <1>7 DEF S

-----------------------------------------------------------------------------
(* What a step of a process may touch. *)

(* A worker touches neither the stream nor the outbox nor another worker. *)
LEMMA WorkerEffects ==
  ASSUME TypeOK, NEW w \in Workers, WorkerStep(w) \/ WorkerCrashes(w)
  PROVE  /\ UNCHANGED <<stream, outbox, held, relayFaults>>
         /\ \A v \in Workers : v # w => pc'[v] = pc[v] /\ todo'[v] = todo[v]
<1>1. UNCHANGED <<stream, outbox, held, relayFaults>>
  BY DEF WorkerStep, database, redis, relay, Start, Exit, Claim, Read, Handle,
         InsertProcessed, ApplyEvent, RejectEvent, OrphanEscapes, Ack, CheckAttempts,
         DeadLetterXAdd, DeadLetterRow, DeadLetterAck, WorkerCrashes
<1>2. ASSUME NEW v \in Workers, v # w PROVE pc'[v] = pc[v]
  BY <1>2 DEF WorkerStep, worker, Start, Exit, Claim, Read, Handle, InsertProcessed,
         ApplyEvent, RejectEvent, OrphanEscapes, Ack, CheckAttempts, DeadLetterXAdd,
         DeadLetterRow, DeadLetterAck, WorkerCrashes, Die, Done, TypeOK, WorkerType
<1>3. ASSUME NEW v \in Workers, v # w PROVE todo'[v] = todo[v]
  BY <1>3 DEF WorkerStep, worker, Start, Exit, Claim, Read, Handle, InsertProcessed,
         ApplyEvent, RejectEvent, OrphanEscapes, Ack, CheckAttempts, DeadLetterXAdd,
         DeadLetterRow, DeadLetterAck, WorkerCrashes, Die, Done, TypeOK, WorkerType
<1>4. QED
  BY <1>1, <1>2, <1>3

(* A relay touches neither the group nor a worker nor another relay, adds  *)
(* only a row it holds, and leaves no row more to publish.                 *)
LEMMA RelayEffects ==
  ASSUME TypeOK, NEW r \in Relays, RelayStep(r) \/ RelayFails(r)
  PROVE  /\ UNCHANGED <<processed, lastDelivered, pel, pc, todo>>
         /\ relayFaults' = 0 => relayFaults = 0
         /\ \A q \in Relays : q # r => held'[q] = held[q]
         /\ \A e \in Events : outbox'[e] = "unpublished" => outbox[e] = "unpublished"
         /\ \/ stream' = stream
            \/ \E e \in held[r] \ sent[r] : stream' = Append(stream, e)
<1> USE DEF database, redis, relay, worker, SelectRows, XAddRow, CommitRows, RelayFails
<1>1. UNCHANGED <<processed, lastDelivered, pel, pc, todo>>
  BY DEF RelayStep
<1>2. relayFaults' = 0 => relayFaults = 0
  BY DEF RelayStep, TypeOK, RelayType
<1>3. \A q \in Relays : q # r => held'[q] = held[q]
  BY DEF RelayStep, TypeOK, RelayType
<1>4. \A e \in Events : outbox'[e] = "unpublished" => outbox[e] = "unpublished"
  BY DEF RelayStep, TypeOK, DatabaseType
<1>5. \/ stream' = stream
      \/ \E e \in held[r] \ sent[r] : stream' = Append(stream, e)
  BY DEF RelayStep
<1>6. QED
  BY <1>1, <1>2, <1>3, <1>4, <1>5

(* The last call of a frozen worker that had no entries is not an XACK. *)
LEMMA LastCall ==
  ASSUME TypeOK, GroupInv, NEW w \in Workers, WorkerStep(w) \/ WorkerCrashes(w),
         pc[w] \in {"down", "idle"}, todo[w] = {},
         \A m \in 1 .. lastDelivered : pel[m] > 0
  PROVE  /\ pc'[w] \in {"down", "idle"}
         /\ \A m \in 1 .. lastDelivered' : pel'[m] > 0
<1> USE DEF TypeOK, WorkerType, RedisType
<1>1. CASE Start(w)
  BY <1>1 DEF Start, GroupInv
<1>2. CASE Claim(w)
  <2>1. pc' = pc /\ lastDelivered' = lastDelivered
    BY <1>2 DEF Claim
  <2>2. \A m \in 1 .. lastDelivered : pel'[m] > 0
    BY <1>2 DEF Claim
  <2>3. QED
    BY <2>1, <2>2
<1>3. CASE Read(w)
  BY <1>3 DEF Read
<1>4. CASE Exit(w) \/ WorkerCrashes(w)
  BY <1>4 DEF Exit, WorkerCrashes, Die, redis
<1>5. QED
  BY <1>1, <1>2, <1>3, <1>4
     DEF WorkerStep, Handle, InsertProcessed, ApplyEvent, RejectEvent, OrphanEscapes, Ack,
         CheckAttempts, DeadLetterXAdd, DeadLetterRow, DeadLetterAck

(* Before a publication fails, a row still to be sent is not in the stream. *)
LEMMA NotYetSent ==
  ASSUME TypeOK, RelayInv, CopiesInv, relayFaults = 0,
         NEW r \in Relays, NEW e \in held[r] \ sent[r]
  PROVE  ~InStream(e)
<1>1. e \in Events /\ ~Sent(e)
  BY DEF Sent, RelayInv, TypeOK, RelayType
<1>2. IsFiniteSet(Copies(e)) /\ Cardinality(Copies(e)) \in Nat
  BY CopiesFinite
<1>3. Cardinality(Copies(e)) <= 0
  BY <1>1 DEF CopiesInv
<1>4. Cardinality(Copies(e)) = 0
  BY <1>2, <1>3
<1>5. Copies(e) = {}
  BY <1>2, <1>4, FS_EmptySet
<1>6. QED
  BY <1>5 DEF InStream, Copies
-----------------------------------------------------------------------------
(* The steps of the processes. *)

(* What a step of Delivery within a round keeps whoever takes it. *)
LEMMA SystemParts ==
  ASSUME ExperimentInv, Next, step' = step
  PROVE  /\ DeliveryParts' /\ RoundCopies'
         /\ \A x : InStream(x) => InStream(x)'
         /\ Len(stream) \in Nat /\ Len(stream') \in Nat /\ Len(stream) <= Len(stream')
<1> USE DEF ExperimentInv
<1>1. DeliveryParts' /\ (CopiesInv => CopiesInv')
  BY NextParts
<1>2. RoundCopies'
  BY <1>1 DEF RoundCopies
<1>3. \A m \in Ids : m \in Ids' /\ stream'[m] = stream[m]
  BY StreamGrows DEF DeliveryParts
<1>4. \A x : InStream(x) => InStream(x)'
  BY <1>3 DEF InStream
<1>5. Len(stream) \in Nat /\ Len(stream') \in Nat
  BY <1>1 DEF DeliveryParts, TypeOK, RedisType
<1>6. Len(stream) <= Len(stream')
  <2>1. CASE Len(stream) = 0
    BY <1>5, <2>1
  <2>2. CASE Len(stream) # 0
    <3>1. Len(stream) \in Ids'
      BY <1>3, <1>5, <2>2 DEF Ids
    <3>2. QED
      BY <1>5, <3>1 DEF Ids
  <2>3. QED
    BY <2>1, <2>2
<1>7. QED
  BY <1>1, <1>2, <1>4, <1>5, <1>6

(* A batch is accepted: during k6, or late. *)
LEMMA IngestStep == ASSUME ExperimentInv, Ingest PROVE ExperimentInv'
<1> USE DEF ExperimentInv
<1>1. /\ UNCHANGED <<step, round, up, paused, inFlight, backlog, misread, initial, counted,
                   failure>>
      /\ \/ step = "k6" /\ late' = late
         \/ step # "k6" /\ late' = late + 1
  BY DEF Ingest
<1>2. UNCHANGED <<processed, stream, lastDelivered, pel, held, relayFaults, pc, todo>>
  BY DEF Ingest, Accept, redis, relay, worker
<1>3. Next
  BY DEF Ingest, Next
<1>4. DeliveryParts' /\ RoundCopies'
  BY <1>1, <1>3, SystemParts
<1>5. late' \in Nat /\ (late' = 0 => late = 0 /\ step = "k6")
  BY <1>1 DEF ExperimentType
<1>6. ExperimentType' /\ EventsOnly' /\ PreparingInv' /\ LoadingInv'
  BY <1>1, <1>2, <1>5 DEF ExperimentType, EventsOnly, Ids, PreparingInv, LoadingInv
<1>7. OutboxInv' /\ BacklogInv' /\ MismatchMeansFault'
  <2>1. OutboxInv' /\ BacklogInv'
    BY <1>1, <1>2, <1>5 DEF OutboxInv, BacklogInv
  <2>2. MismatchMeansFault'
    BY <1>1, <1>2, <1>5 DEF MismatchMeansFault, ExperimentType
  <2>3. QED
    BY <2>1, <2>2
<1>8. DrainingInv' /\ DrainedInv'
  BY <1>1, <1>2 DEF DrainingInv, DrainedInv, InStream, Ids, Pending
<1>9. QED
  BY <1>4, <1>6, <1>7, <1>8

(* A relay runs, or completes its last call.  After the count it can only  *)
(* add a counted row, and before any failure not even that.                *)
LEMMA RelayRuns ==
  ASSUME ExperimentInv, NEW r \in Relays, RelayStep(r) \/ RelayFails(r), Runs(r)
  PROVE  ExperimentInv'
<1> USE DEF ExperimentInv
<1>1. /\ UNCHANGED <<step, round, up, paused, late, backlog, misread, initial, counted, failure>>
      /\ r \in up /\ (r \in paused => r \in inFlight) /\ inFlight' = inFlight \ {r}
  BY DEF Runs
<1>2. Next
  BY DEF Next
<1>3. /\ DeliveryParts' /\ RoundCopies'
      /\ \A x : InStream(x) => InStream(x)'
      /\ Len(stream) \in Nat /\ Len(stream') \in Nat /\ Len(stream) <= Len(stream')
  BY <1>1, <1>2, SystemParts
<1>4. /\ UNCHANGED <<processed, lastDelivered, pel, pc, todo>>
      /\ relayFaults' = 0 => relayFaults = 0
      /\ \A q \in Relays : q # r => held'[q] = held[q]
      /\ \A e \in Events : outbox'[e] = "unpublished" => outbox[e] = "unpublished"
      /\ \/ stream' = stream
         \/ \E e \in held[r] \ sent[r] : stream' = Append(stream, e)
  BY RelayEffects DEF DeliveryParts
<1>5. ASSUME NEW S, \A m \in Ids : stream[m] \in S, held[r] \subseteq S
      PROVE  \A m \in Ids' : stream'[m] \in S
  <2>1. CASE stream' = stream
    BY <1>5, <2>1 DEF Ids
  <2>2. ASSUME NEW e \in held[r] \ sent[r], stream' = Append(stream, e)
        PROVE  \A m \in Ids' : stream'[m] \in S
    <3>1. stream \in Seq(Entries) /\ e \in S
      BY <1>5 DEF DeliveryParts, TypeOK, RedisType
    <3>2. \A m \in 1 .. Len(stream) : stream[m] \in S
      BY <1>5 DEF Ids
    <3> HIDE DEF ExperimentInv
    <3>3. \A m \in 1 .. Len(stream') : stream'[m] \in S
      BY <2>2, <3>1, <3>2
    <3>4. QED
      BY <3>3 DEF Ids
  <2>3. QED
    BY <1>4, <2>1, <2>2
<1>6. ExperimentType' /\ MismatchMeansFault'
  <2>1. ExperimentType'
    BY <1>1 DEF ExperimentType
  <2>2. relayFaults \in Nat /\ relayFaults' \in Nat
    BY <1>3 DEF DeliveryParts, TypeOK, RelayType
  <2>3. MismatchMeansFault'
    BY <1>1, <1>4, <2>2 DEF MismatchMeansFault
  <2>4. QED
    BY <2>1, <2>3
<1>7. EventsOnly'
  <2>1. held[r] \subseteq Events
    BY DEF DeliveryParts, TypeOK, RelayType
  <2>2. QED
    BY <1>5, <2>1 DEF EventsOnly
<1>8. PreparingInv' /\ LoadingInv' /\ OutboxInv'
  <2>1. PreparingInv'
    BY <1>1 DEF PreparingInv
  <2>2. LoadingInv'
    BY <1>1, <1>4 DEF LoadingInv
  <2>3. OutboxInv'
    BY <1>1, <1>4 DEF OutboxInv
  <2>4. QED
    BY <2>1, <2>2, <2>3
<1>9. BacklogInv'
  <2> SUFFICES ASSUME step = "accepted"
               PROVE  /\ initial <= Len(stream')
                      /\ late = 0 /\ relayFaults' = 0 /\ ~misread => initial = Len(stream')
    BY <1>1 DEF BacklogInv
  <2>1. initial <= Len(stream')
    BY <1>3 DEF BacklogInv, ExperimentType
  <2>2. ASSUME late = 0, relayFaults' = 0, ~misread PROVE initial = Len(stream')
    <3>1. held[r] = {}
      BY <2>2 DEF OutboxInv, DeliveryParts, RelayInv, TypeOK, RelayType
    <3>2. stream' = stream
      BY <1>4, <3>1
    <3>3. QED
      BY <1>4, <2>2, <3>2 DEF BacklogInv
  <2>3. QED
    BY <2>1, <2>2
<1>10. ASSUME step \in Draining
       PROVE  /\ \A m \in Ids' : stream'[m] \in counted
              /\ \A q \in Relays \cap inFlight' : held'[q] \subseteq counted
              /\ relayFaults' = 0 => stream' = stream /\ \A e \in counted : InStream(e)'
  <2>1. held[r] \subseteq counted /\ \A m \in Ids : stream[m] \in counted
    BY <1>1, <1>10 DEF DrainingInv
  <2>2. \A q \in Relays \cap inFlight' : held'[q] \subseteq counted
    BY <1>1, <1>4, <1>10 DEF DrainingInv
  <2>3. ASSUME relayFaults' = 0 PROVE stream' = stream /\ \A e \in counted : InStream(e)'
    <3>1. relayFaults = 0 /\ \A e \in counted : InStream(e)
      BY <1>4, <1>10, <2>3 DEF DrainingInv
    <3>2. CopiesInv
      BY <1>10 DEF RoundCopies, Draining, Stopped
    <3>3. \A e \in held[r] \ sent[r] : ~InStream(e)
      BY <3>1, <3>2, NotYetSent DEF DeliveryParts
    <3>4. held[r] \ sent[r] = {}
      BY <2>1, <3>1, <3>3
    <3>5. QED
      BY <1>3, <1>4, <3>1, <3>4
  <2>4. QED
    BY <1>5, <2>1, <2>2, <2>3
<1>11. DrainingInv'
  BY <1>1, <1>4, <1>10 DEF DrainingInv
<1>12. DrainedInv'
  <2>1. {"processed", "result"} \subseteq Draining
    BY DEF Draining
  <2>2. Pending' = Pending
    BY <1>4 DEF Pending
  <2>3. QED
    BY <1>1, <1>4, <1>10, <2>1, <2>2 DEF DrainedInv
<1>13. QED
  BY <1>3, <1>6, <1>7, <1>8, <1>9, <1>11, <1>12

(* A worker runs, or completes its last call.  What it commits is an entry *)
(* of the stream.                                                          *)
LEMMA WorkerRuns ==
  ASSUME ExperimentInv, NEW w \in Workers, WorkerStep(w) \/ WorkerCrashes(w), Runs(w)
  PROVE  ExperimentInv'
<1> USE DEF ExperimentInv
<1>1. /\ UNCHANGED <<step, round, up, paused, late, backlog, misread, initial, counted, failure>>
      /\ w \in up /\ (w \in paused => w \in inFlight) /\ inFlight' = inFlight \ {w}
  BY DEF Runs
<1>2. Next
  BY DEF Next
<1>3. DeliveryParts' /\ RoundCopies'
  BY <1>1, <1>2, SystemParts
<1>4. /\ UNCHANGED <<stream, outbox, held, relayFaults>>
      /\ \A v \in Workers : v # w => pc'[v] = pc[v] /\ todo'[v] = todo[v]
  BY WorkerEffects DEF DeliveryParts
<1>5. ExperimentType' /\ EventsOnly' /\ PreparingInv' /\ OutboxInv' /\ BacklogInv'
        /\ MismatchMeansFault'
  BY <1>1, <1>4 DEF ExperimentType, EventsOnly, Ids, PreparingInv, OutboxInv, BacklogInv,
                    MismatchMeansFault
<1>6. LoadingInv'
  <2> SUFFICES ASSUME step \in Loading
               PROVE  /\ \A v \in Workers : /\ pc'[v] \in {"down", "idle"}
                                            /\ v \in inFlight' => todo'[v] = {}
                      /\ \A m \in 1 .. lastDelivered' : pel'[m] > 0
    BY <1>1 DEF LoadingInv
  <2>1. /\ pc[w] \in {"down", "idle"} /\ todo[w] = {}
        /\ \A m \in 1 .. lastDelivered : pel[m] > 0
    BY <1>1 DEF LoadingInv
  <2>2. pc'[w] \in {"down", "idle"} /\ \A m \in 1 .. lastDelivered' : pel'[m] > 0
    BY <2>1, LastCall DEF DeliveryParts
  <2>3. QED
    BY <1>1, <1>4, <2>2 DEF LoadingInv
<1>7. processed' \subseteq processed \cup {stream[m] : m \in Ids}
  <2>1. CASE ApplyEvent(w)
    <3>1. processed' = processed \cup {stream[msg[w]]}
      BY <2>1 DEF ApplyEvent, Entry
    <3>2. msg[w] \in Ids
      BY <2>1, HandledIsDelivered DEF DeliveryParts, ApplyEvent
    <3>3. QED
      BY <3>1, <3>2
  <2>2. CASE ~ApplyEvent(w)
    <3>1. processed' = processed
      BY <2>2 DEF WorkerStep, database, Start, Exit, Claim, Read, Handle, InsertProcessed,
                  RejectEvent, OrphanEscapes, Ack, CheckAttempts, DeadLetterXAdd,
                  DeadLetterRow, DeadLetterAck, WorkerCrashes
    <3>2. QED
      BY <3>1
  <2>3. QED
    BY <2>1, <2>2
<1>8. DrainingInv'
  <2>1. step \in Draining => processed' \subseteq counted
    BY <1>7 DEF DrainingInv
  <2>2. Ids' = Ids /\ \A x : InStream(x) => InStream(x)'
    BY <1>4 DEF InStream, Ids
  <2>3. QED
    BY <1>1, <1>4, <2>1, <2>2 DEF DrainingInv
<1>9. DrainedInv'
  <2>1. ASSUME step \in {"processed", "result"}, backlog = 0, relayFaults = 0, ~misread
        PROVE  Pending' = {} /\ lastDelivered' = Len(stream)
    <3>1. Pending = {} /\ lastDelivered = Len(stream)
      BY <2>1 DEF DrainedInv
    <3>2. \A m \in 1 .. lastDelivered : Acked(m)
      BY <3>1 DEF Pending, Acked, DeliveryParts, TypeOK, RedisType
    <3>3. \A m \in 1 .. lastDelivered : m <= lastDelivered' /\ pel'[m] = 0
      BY <1>2, <3>2, AckedStays DEF DeliveryParts
    <3>4. Len(stream) \in Nat /\ lastDelivered' \in Nat /\ lastDelivered' <= Len(stream)
      BY <1>3, <1>4 DEF DeliveryParts, TypeOK, RedisType
    <3>5. lastDelivered' = Len(stream)
      BY <3>1, <3>3, <3>4
    <3>6. QED
      BY <3>1, <3>3, <3>5 DEF Pending
  <2>2. ASSUME step = "result" PROVE backlog = 0 /\ processed' = counted
    <3>1. processed' \subseteq counted
      BY <1>1, <1>8, <2>2 DEF DrainingInv, Draining
    <3>2. processed \subseteq processed'
      BY <1>2, RecordsGrow
    <3>3. QED
      BY <2>2, <3>1, <3>2 DEF DrainedInv
  <2>3. QED
    BY <1>1, <1>4, <2>1, <2>2 DEF DrainedInv
<1>10. QED
  BY <1>3, <1>5, <1>6, <1>8, <1>9

(* The idle clock marks entries and does nothing else. *)
LEMMA IdleStep ==
  ASSUME ExperimentInv, NEW m \in Ids, IdleElapses(m), UNCHANGED experiment
  PROVE  ExperimentInv'
<1> USE DEF ExperimentInv
<1>1. UNCHANGED <<step, round, up, paused, inFlight, late, backlog, misread, initial, counted,
                failure>>
  BY DEF experiment
<1>2. UNCHANGED <<outbox, processed, stream, lastDelivered, pel, held, relayFaults, pc, todo>>
  BY DEF IdleElapses, database, relay, worker
<1>3. Next
  BY DEF Next
<1>4. DeliveryParts' /\ RoundCopies'
  BY <1>1, <1>3, SystemParts
<1>5. ExperimentType' /\ EventsOnly' /\ PreparingInv' /\ LoadingInv'
  BY <1>1, <1>2 DEF ExperimentType, EventsOnly, Ids, PreparingInv, LoadingInv
<1>6. OutboxInv' /\ BacklogInv' /\ MismatchMeansFault'
  BY <1>1, <1>2 DEF OutboxInv, BacklogInv, MismatchMeansFault
<1>7. DrainingInv' /\ DrainedInv'
  BY <1>1, <1>2 DEF DrainingInv, DrainedInv, InStream, Ids, Pending
<1>8. QED
  BY <1>4, <1>5, <1>6, <1>7
-----------------------------------------------------------------------------
(* The steps of the harness. *)

(* A round starts from empty tables and streams. *)
LEMMA ResetStep == ASSUME ExperimentInv, ResetState PROVE ExperimentInv'
<1> USE DEF ExperimentInv
<1>1. DeliveryParts' /\ CopiesInv' /\ EventsOnly' /\ stream' = <<>>
  BY ResetParts
<1>2. /\ step' = "up_workers" /\ up' = {}
      /\ step = "reset" /\ late' = 0
      /\ UNCHANGED <<round, failure, initial, counted>>
  BY DEF ResetState, Goto, StopAll
<1>3. ExperimentType' /\ RoundCopies' /\ PreparingInv' /\ MismatchMeansFault'
  BY <1>1, <1>2 DEF ExperimentType, RoundCopies, PreparingInv, Preparing, MismatchMeansFault
<1>4. LoadingInv' /\ OutboxInv' /\ BacklogInv' /\ DrainingInv' /\ DrainedInv'
  BY <1>2 DEF LoadingInv, Loading, OutboxInv, BacklogInv, DrainingInv, Draining, DrainedInv
<1>5. QED
  BY <1>1, <1>3, <1>4

(* A step that stops everything leaves nothing to account for. *)
LEMMA StopStep ==
  ASSUME ExperimentInv, FinishResult \/ Close
  PROVE  ExperimentInv'
<1> USE DEF ExperimentInv
<1>1. StopAll /\ UNCHANGED <<database, redis, relayFaults, workerFaults, late, failure>>
  BY DEF FinishResult, Close, Goto
<1>2. DeliveryParts'
  BY <1>1, StopAllParts
<1>3. step' \in Stopped
  BY DEF FinishResult, Close, Goto, Stopped
<1>4. ExperimentType'
  <2>1. Len(Rounds) \in Nat
    OBVIOUS
  <2>2. round' \in 1 .. Len(Rounds)
    BY <2>1 DEF FinishResult, Close, Goto, ExperimentType
  <2>3. initial' \in Nat /\ counted' \subseteq Events
    BY DEF FinishResult, Close, ExperimentType
  <2>4. step' \notin {"close", "ended"} => failure' = "none"
    BY <1>1 DEF FinishResult, Close, Goto, ExperimentType
  <2>5. QED
    BY <1>1, <1>3, <2>2, <2>3, <2>4 DEF ExperimentType
<1>5. EventsOnly' /\ MismatchMeansFault' /\ RoundCopies'
  <2>1. failure = "none" \/ UNCHANGED <<relayFaults, late, misread>>
    BY DEF FinishResult, Close, ExperimentType
  <2>2. MismatchMeansFault'
    BY <1>1, <2>1 DEF MismatchMeansFault
  <2>3. QED
    BY <1>1, <1>3, <2>2 DEF EventsOnly, Ids, redis, RoundCopies
<1>6. PreparingInv' /\ LoadingInv' /\ OutboxInv' /\ BacklogInv' /\ DrainingInv' /\ DrainedInv'
  BY <1>3 DEF Stopped, PreparingInv, Preparing, LoadingInv, Loading, OutboxInv, BacklogInv,
              DrainingInv, Draining, DrainedInv
<1>7. QED
  BY <1>2, <1>4, <1>5, <1>6

(* What a step of the harness that leaves Delivery alone keeps. *)
LEMMA AloneParts ==
  ASSUME ExperimentInv, UNCHANGED vars, step \in Stopped => step' \in Stopped
  PROVE  /\ DeliveryParts' /\ RoundCopies' /\ EventsOnly'
         /\ UNCHANGED <<outbox, processed, stream, lastDelivered, pel, held, relayFaults,
                        pc, todo>>
<1> USE DEF ExperimentInv
<1>1. UNCHANGED <<outbox, processed, stream, lastDelivered, pel, held, relayFaults, pc, todo>>
  BY DEF vars, database, redis, relay, worker
<1>2. DeliveryParts' /\ (CopiesInv => CopiesInv')
  BY NextParts
<1>3. RoundCopies' /\ EventsOnly'
  BY <1>1, <1>2 DEF RoundCopies, EventsOnly, Ids
<1>4. QED
  BY <1>1, <1>2, <1>3

(* The containers of the workers come up over an empty stream, and are     *)
(* paused before anything is published.                                    *)
LEMMA PreparingStep ==
  ASSUME ExperimentInv, UpWorkers \/ WaitForWorkerGroup \/ PauseWorkers
  PROVE  ExperimentInv'
<1> USE DEF ExperimentInv
<1>1. /\ UNCHANGED <<vars, round, failure, late, backlog, misread, initial, counted>>
      /\ step \in Preparing
      /\ step' \in {"wait_group", "pause_workers", "up_relay"}
      /\ step' = "up_relay" => PauseWorkers
  BY DEF UpWorkers, WaitForWorkerGroup, PauseWorkers, Goto, Preparing
<1>2. /\ DeliveryParts' /\ RoundCopies' /\ EventsOnly'
      /\ UNCHANGED <<outbox, processed, stream, lastDelivered, pel, held, relayFaults,
                     pc, todo>>
  BY <1>1, AloneParts DEF Preparing, Stopped
<1>3. ExperimentType' /\ MismatchMeansFault'
  BY <1>1, <1>2 DEF ExperimentType, Preparing, Loading, MismatchMeansFault
<1>4. PreparingInv'
  <2>1. Rounds[round] \subseteq Workers
    BY DEF ExperimentType
  <2>2. up' = up \/ up' = up \cup Rounds[round]
    BY DEF UpWorkers, WaitForWorkerGroup, PauseWorkers
  <2>3. up' \cap Relays = {}
    BY <1>1, <2>1, <2>2 DEF PreparingInv
  <2>4. QED
    BY <1>1, <1>2, <2>3 DEF PreparingInv
<1>5. LoadingInv'
  <2> SUFFICES ASSUME PauseWorkers
               PROVE  /\ up' \cap Workers \subseteq paused'
                      /\ \A w \in Workers : pc'[w] \in {"down", "idle"} /\ todo'[w] = {}
                      /\ \A m \in 1 .. lastDelivered' : pel'[m] > 0
    BY <1>1 DEF LoadingInv, Loading
  <2>1. up' \cap Workers \subseteq paused'
    BY DEF PauseWorkers, Pause
  <2>2. lastDelivered = 0
    BY <1>1 DEF PreparingInv, DeliveryParts, TypeOK, RedisType
  <2>3. \A w \in Workers : todo[w] = {} /\ msg[w] = 0
    BY <2>2 DEF DeliveryParts, TypeOK, WorkerType
  <2>4. \A w \in Workers : pc[w] \in {"down", "idle"}
    BY <2>3 DEF DeliveryParts, TypeOK, WorkerType
  <2>5. QED
    BY <1>2, <2>1, <2>2, <2>3, <2>4
<1>6. OutboxInv' /\ BacklogInv' /\ DrainingInv' /\ DrainedInv'
  BY <1>1 DEF OutboxInv, BacklogInv, DrainingInv, Draining, DrainedInv
<1>7. QED
  BY <1>2, <1>3, <1>4, <1>5, <1>6

(* The relay comes up, the outbox empties, the relay is paused and the     *)
(* backlog is read: the workers stay frozen.                               *)
LEMMA LoadingStep ==
  ASSUME ExperimentInv, UpRelay \/ K6Ends \/ WaitForOutbox \/ PauseRelay \/ InitialBacklog
  PROVE  ExperimentInv'
<1> USE DEF ExperimentInv
<1>1. /\ UNCHANGED <<vars, round, failure, late, backlog, counted>>
      /\ step \in Loading /\ step' \in Loading \ {"up_relay"}
      /\ step' = "pause_relay" => WaitForOutbox
      /\ step' = "backlog" => PauseRelay
      /\ step' = "accepted" => InitialBacklog
  BY DEF UpRelay, K6Ends, WaitForOutbox, PauseRelay, InitialBacklog, Goto, Loading
<1>2. /\ DeliveryParts' /\ RoundCopies' /\ EventsOnly'
      /\ UNCHANGED <<outbox, processed, stream, lastDelivered, pel, held, relayFaults,
                     pc, todo>>
  BY <1>1, AloneParts DEF Loading, Stopped
<1>3. Unsettled \in Nat /\ Unsettled = Len(stream)
  BY <1>1, UnsettledCounts DEF LoadingInv, DeliveryParts
<1>4. ExperimentType' /\ MismatchMeansFault'
  <2>1. initial' \in Nat
    BY <1>3 DEF UpRelay, K6Ends, WaitForOutbox, PauseRelay, InitialBacklog, QueueState,
                ExperimentType
  <2>2. failure = "none"
    BY <1>1 DEF ExperimentType, Loading
  <2>3. QED
    BY <1>1, <1>2, <2>1, <2>2 DEF ExperimentType, MismatchMeansFault
<1>5. PreparingInv'
  BY <1>1 DEF PreparingInv, Preparing, Loading
<1>6. LoadingInv'
  <2>1. up' \cap Workers = up \cap Workers /\ paused \subseteq paused'
    BY DEF UpRelay, K6Ends, WaitForOutbox, PauseRelay, InitialBacklog, Pause
  <2>2. inFlight' \cap Workers \subseteq inFlight
    BY DEF UpRelay, K6Ends, WaitForOutbox, PauseRelay, InitialBacklog, Pause
  <2>3. QED
    BY <1>1, <1>2, <2>1, <2>2 DEF LoadingInv
<1>7. OutboxInv'
  BY <1>1, <1>2 DEF OutboxInv, WaitForOutbox, PauseRelay, InitialBacklog, Goto
<1>8. BacklogInv'
  <2>1. step' = "accepted" => initial' = IF misread' THEN 0 ELSE Len(stream)
    BY <1>1, <1>3 DEF InitialBacklog, QueueState
  <2>2. Len(stream) \in Nat
    BY <1>3
  <2>3. QED
    BY <1>2, <2>1, <2>2 DEF BacklogInv
<1>9. DrainingInv'
  <2>1. step' = "backlog" => up' \cap Relays \subseteq paused'
    BY <1>1 DEF PauseRelay, Pause
  <2>2. step' = "accepted" => up' \cap Relays \subseteq paused'
    BY <1>1 DEF InitialBacklog, DrainingInv
  <2>3. QED
    BY <1>1, <2>1, <2>2 DEF DrainingInv, Draining, Loading
<1>10. DrainedInv'
  BY <1>1 DEF DrainedInv, Loading
<1>11. QED
  BY <1>2, <1>4, <1>5, <1>6, <1>7, <1>8, <1>9, <1>10

(* The batches are counted.  Without a fault or a late request they are    *)
(* as many as the backlog; when they are as many, and no publication has   *)
(* failed, they are the events of the stream.                              *)
LEMMA CountStep == ASSUME ExperimentInv, CountAccepted PROVE ExperimentInv'
<1> USE DEF ExperimentInv
<1>1. /\ UNCHANGED <<vars, round, up, paused, inFlight, late, backlog, misread, initial>>
      /\ step = "accepted" /\ counted' = Accepted
  BY DEF CountAccepted, Goto
<1>2. \/ initial = Cardinality(Accepted) /\ step' = "unpause" /\ failure' = failure
      \/ initial # Cardinality(Accepted) /\ step' = "close" /\ failure' = "mismatch"
  BY DEF CountAccepted, Goto
<1>3. /\ DeliveryParts' /\ RoundCopies' /\ EventsOnly'
      /\ UNCHANGED <<outbox, processed, stream, lastDelivered, pel, held, relayFaults,
                     pc, todo>>
  BY <1>1, AloneParts DEF Stopped
<1>4. ExperimentType'
  BY <1>1, <1>2 DEF ExperimentType, Draining, Stopped, Accepted
<1>5. CopiesInv
  BY <1>1 DEF RoundCopies, Stopped
<1>6. late = 0 /\ relayFaults = 0 /\ ~misread => initial = Cardinality(Accepted)
  <2> SUFFICES ASSUME late = 0, relayFaults = 0, ~misread PROVE initial = Cardinality(Accepted)
    OBVIOUS
  <2>1. Accepted = {e \in Events : InStream(e)}
    BY <1>1, AllPublished DEF OutboxInv, DeliveryParts
  <2>2. Cardinality(Accepted) = Len(stream)
    BY <1>5, <2>1, StreamCount DEF DeliveryParts
  <2>3. QED
    BY <1>1, <2>2 DEF BacklogInv
<1>7. MismatchMeansFault'
  <2>1. late \in Nat /\ relayFaults \in Nat
    BY DEF ExperimentType, DeliveryParts, TypeOK, RelayType
  <2>2. QED
    BY <1>1, <1>2, <1>3, <1>6, <2>1 DEF MismatchMeansFault
<1>8. ASSUME step' = "unpause" PROVE DrainingInv'
  <2>1. processed \subseteq Accepted
    BY DEF DeliveryParts, OnlyAcceptedApplied
  <2>2. \A m \in Ids : stream[m] \in Accepted
    BY DEF EventsOnly, DeliveryParts, StreamInv, InStream, Accepted
  <2>3. \A r \in Relays : held[r] \subseteq Accepted
    BY DEF DeliveryParts, RelayInv, TypeOK, RelayType, Accepted
  <2>4. ASSUME relayFaults = 0 PROVE \A e \in Accepted : InStream(e)
    <3>1. Cardinality(Accepted) <= Len(stream)
      BY <1>1, <1>2, <1>8 DEF BacklogInv
    <3>2. QED
      BY <1>5, <2>4, <3>1, CountsAgree DEF DeliveryParts
  <2>5. up \cap Relays \subseteq paused
    BY <1>1 DEF DrainingInv
  <2>6. QED
    BY <1>1, <1>3, <2>1, <2>2, <2>3, <2>4, <2>5 DEF DrainingInv, InStream, Ids
<1>9. step' = "close" => DrainingInv'
  BY DEF DrainingInv, Draining
<1>10. PreparingInv' /\ LoadingInv' /\ OutboxInv' /\ BacklogInv' /\ DrainedInv'
  BY <1>2 DEF PreparingInv, Preparing, LoadingInv, Loading, OutboxInv, BacklogInv, DrainedInv
<1>11. QED
  BY <1>2, <1>3, <1>4, <1>7, <1>8, <1>9, <1>10

(* The workers are unpaused, and the drain is sampled: first the backlog,  *)
(* then the count of what was processed, which is part of what was counted. *)
LEMMA DrainingStep ==
  ASSUME ExperimentInv, Unpause \/ SampleBacklog \/ SampleProcessed
  PROVE  ExperimentInv'
<1> USE DEF ExperimentInv
<1>1. /\ UNCHANGED <<vars, round, failure, up, late, initial, counted>>
      /\ step \in Draining /\ step' \in Draining \ {"unpause"}
      /\ step' = "processed" => SampleBacklog
      /\ step' = "result" => SampleProcessed /\ Drained
  BY DEF Unpause, SampleBacklog, SampleProcessed, Goto, Draining
<1>2. /\ DeliveryParts' /\ RoundCopies' /\ EventsOnly'
      /\ UNCHANGED <<outbox, processed, stream, lastDelivered, pel, held, relayFaults,
                     pc, todo>>
  BY <1>1, AloneParts DEF Draining, Stopped
<1>3. ExperimentType' /\ MismatchMeansFault'
  <2>1. failure = "none"
    BY <1>1 DEF ExperimentType, Draining
  <2>2. QED
    BY <1>1, <1>2, <2>1 DEF ExperimentType, MismatchMeansFault
<1>4. PreparingInv' /\ LoadingInv' /\ OutboxInv' /\ BacklogInv'
  BY <1>1 DEF PreparingInv, Preparing, LoadingInv, Loading, Draining, OutboxInv, BacklogInv
<1>5. DrainingInv'
  <2>1. Relays \cap paused' = Relays \cap paused /\ inFlight' \subseteq inFlight
    BY DEF Unpause, SampleBacklog, SampleProcessed
  <2>2. QED
    BY <1>1, <1>2, <2>1 DEF DrainingInv, InStream, Ids
<1>6. DrainedInv'
  <2>1. ASSUME step' = "processed", backlog' = 0, ~misread'
        PROVE  Pending = {} /\ lastDelivered = Len(stream)
    <3>1. Unsettled = 0
      BY <1>1, <2>1 DEF SampleBacklog, QueueState
    <3>2. QED
      BY <3>1, UnsettledCounts DEF DeliveryParts
  <2>2. ASSUME step' = "result"
        PROVE  step = "processed" /\ UNCHANGED <<backlog, misread>> /\ backlog = 0
    BY <1>1, <2>2 DEF SampleProcessed, Drained, Goto
  <2>3. ASSUME step' = "result" PROVE processed = counted
    <3>1. Cardinality(processed) = Cardinality(counted)
      BY <1>1, <2>3 DEF Drained
    <3>2. processed \in SUBSET counted
      BY <1>1 DEF DrainingInv
    <3>3. IsFiniteSet(counted)
      BY FS_Subset DEF ExperimentType
    <3>4. QED
      BY <3>1, <3>2, <3>3, FS_Subset
  <2>4. Pending' = Pending
    BY <1>2 DEF Pending
  <2>5. QED
    BY <1>1, <1>2, <2>1, <2>2, <2>3, <2>4 DEF DrainedInv
<1>7. QED
  BY <1>2, <1>3, <1>4, <1>5, <1>6

(* A deadline passes or a command fails. *)
LEMMA RaiseStep == ASSUME ExperimentInv, Raise PROVE ExperimentInv'
<1> USE DEF ExperimentInv
<1>1. /\ UNCHANGED <<vars, round, late, initial, counted>>
      /\ step' = "close" /\ failure' = "error"
  BY DEF Raise
<1>2. DeliveryParts' /\ RoundCopies' /\ EventsOnly'
  BY <1>1, AloneParts DEF Stopped
<1>3. ExperimentType' /\ MismatchMeansFault'
  BY <1>1 DEF ExperimentType, Stopped, MismatchMeansFault
<1>4. PreparingInv' /\ LoadingInv' /\ OutboxInv' /\ BacklogInv' /\ DrainingInv' /\ DrainedInv'
  BY <1>1 DEF PreparingInv, Preparing, LoadingInv, Loading, OutboxInv, BacklogInv,
              DrainingInv, Draining, DrainedInv
<1>5. QED
  BY <1>2, <1>3, <1>4

(* The invariant holds before the first reset. *)
LEMMA ExperimentInitInv == ExperimentInit => ExperimentInv
<1> SUFFICES ASSUME ExperimentInit PROVE ExperimentInv
  OBVIOUS
<1> USE DEF ExperimentInit
<1>1. DeliveryParts
  BY InitInductive DEF InductiveInvariant, DeliveryParts
<1>2. EventsOnly
  BY DEF Init, EventsOnly, Ids
<1>3. ExperimentType /\ RoundCopies /\ MismatchMeansFault
  <2>1. Len(Rounds) \in Nat /\ Len(Rounds) # 0
    OBVIOUS
  <2>2. QED
    BY <2>1 DEF ExperimentType, Stopped, RoundCopies, MismatchMeansFault
<1>4. PreparingInv /\ LoadingInv /\ OutboxInv /\ BacklogInv /\ DrainingInv /\ DrainedInv
  BY DEF PreparingInv, Preparing, LoadingInv, Loading, OutboxInv, BacklogInv, DrainingInv,
         Draining, DrainedInv
<1>5. QED
  BY <1>1, <1>2, <1>3, <1>4 DEF ExperimentInv

(* The inductive invariant of the worker comparison, for every number of   *)
(* relays, workers, rounds, events, late requests and faults.              *)
THEOREM ExperimentInductive == ExperimentSpec => []ExperimentInv
<1>1. ExperimentInv /\ [ExperimentNext]_allVars => ExperimentInv'
  <2> SUFFICES ASSUME ExperimentInv, [ExperimentNext]_allVars PROVE ExperimentInv'
    OBVIOUS
  <2>1. CASE UNCHANGED allVars
    <3>1. UNCHANGED <<vars, step, round, up, paused, inFlight, late, backlog, misread,
                      initial, counted, failure>>
      BY <2>1 DEF allVars, experiment
    <3>2. /\ DeliveryParts' /\ RoundCopies' /\ EventsOnly'
          /\ UNCHANGED <<outbox, processed, stream, lastDelivered, pel, held, relayFaults,
                         pc, todo>>
      BY <3>1, AloneParts
    <3>3. ExperimentType' /\ PreparingInv' /\ LoadingInv' /\ OutboxInv' /\ BacklogInv'
            /\ DrainingInv' /\ DrainedInv' /\ MismatchMeansFault'
      BY <3>1, <3>2
         DEF ExperimentInv, ExperimentType, PreparingInv, LoadingInv, OutboxInv, BacklogInv,
             DrainingInv, DrainedInv, MismatchMeansFault, InStream, Ids, Pending
    <3>4. QED
      BY <3>2, <3>3 DEF ExperimentInv
  <2>2. CASE System
    BY <2>2, IngestStep, RelayRuns, WorkerRuns, IdleStep DEF System
  <2>3. CASE Harness
    BY <2>3, ResetStep, StopStep, PreparingStep, LoadingStep, CountStep, DrainingStep
       DEF Harness
  <2>4. QED
    BY <2>1, <2>2, <2>3, RaiseStep DEF ExperimentNext
<1>2. QED
  BY <1>1, ExperimentInitInv, PTL DEF ExperimentSpec

(* run_worker_experiment rejects a backlog only after a failed publication *)
(* or a late request of the same round, or a queue_state that failed.      *)
THEOREM MismatchFault == ExperimentSpec => []MismatchMeansFault
<1>1. ExperimentInv => MismatchMeansFault
  BY DEF ExperimentInv
<1>2. QED
  BY <1>1, ExperimentInductive, PTL

(* A drain that run_worker_experiment records is complete: processed and   *)
(* counted events are the same, each applied once, none dead-lettered; and *)
(* the group is empty unless a publication of the round failed, or the     *)
(* last queue_state did.                                                   *)
THEOREM DrainComplete == ExperimentSpec => []DrainIsComplete
<1>1. ExperimentInv => DrainIsComplete
  <2> SUFFICES ASSUME ExperimentInv, step = "result"
               PROVE  /\ processed = counted
                      /\ \A e \in counted : applied[e] = 1
                      /\ deadLetters = {}
                      /\ relayFaults = 0 /\ ~misread =>
                           Pending = {} /\ lastDelivered = Len(stream)
    BY DEF DrainIsComplete
  <2> USE DEF ExperimentInv
  <2>1. processed = counted /\ backlog = 0 /\ counted \subseteq Events
    BY DEF DrainedInv, ExperimentType
  <2>2. \A e \in counted : applied[e] = 1
    BY <2>1 DEF DeliveryParts, EffectsExactlyOnce
  <2>3. deadLetters = {}
    <3>1. \A m \in deadLetters : m \in Ids /\ stream[m] \in Foreign
      BY DEF DeliveryParts, RetentionInv, NoEarlyDeadLetter, TypeOK, RedisType, Ids, Foreign
    <3>2. QED
      BY <3>1 DEF EventsOnly
  <2>4. relayFaults = 0 /\ ~misread => Pending = {} /\ lastDelivered = Len(stream)
    BY <2>1 DEF DrainedInv
  <2>5. QED
    BY <2>1, <2>2, <2>3, <2>4
<1>2. QED
  BY <1>1, ExperimentInductive, PTL
=============================================================================
