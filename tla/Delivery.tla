------------------------------ MODULE Delivery ------------------------------
(***************************************************************************)
(* Asynchronous delivery of accepted telemetry: the PostgreSQL outbox, the *)
(* relay that publishes it to a Redis Stream (worker/relay.py), and the    *)
(* consumer group of workers that turn every event into one fleet-state    *)
(* update and its incidents (worker/main.py).                              *)
(*                                                                         *)
(* A step of a relay or a worker is one awaited call to PostgreSQL or      *)
(* Redis together with the local code up to the next one.  Between two     *)
(* steps every other process may run, the process may crash, and Redis's   *)
(* idle clock may pass reclaim_idle_ms.  Rows written by an open database  *)
(* transaction become visible in one step, its commit.                     *)
(*                                                                         *)
(* Entries of the stream are identified by their position.  The cache      *)
(* invalidation that precedes the acknowledgement of a processed message   *)
(* is the subject of module FleetCache.                                    *)
(***************************************************************************)
EXTENDS Integers, Sequences, FiniteSets

CONSTANTS
    Events,           \* outbox event ids, one per accepted telemetry batch
    Malformed,        \* foreign entries that decode_event rejects
    Unsupported,      \* foreign entries with an unknown event_type
    Orphan,           \* foreign entries whose batch row does not exist
    Relays, Workers,  \* processes; two relays overlap during a rollout
    Agents,           \* agent ids
    Batch,            \* the telemetry batch of an event: agent and samples
    CpuThreshold, MemoryThreshold,
    CreatedAt,        \* created_at of an event's outbox row
    RelayLimit,       \* rows taken by one publish_once (100 in the code)
    ReadCount,        \* entries taken by one XREADGROUP or XAUTOCLAIM (10)
    MaxDelivery,      \* max_delivery_attempts
    MaxRelayFaults,   \* bound: relay failures explored
    MaxWorkerFaults   \* bound: worker crashes and termination signals explored

Foreign == Malformed \cup Unsupported \cup Orphan
Entries == Events \cup Foreign
IncidentTypes == {"high_cpu", "high_memory"}
NoBatch == "no row"

ASSUME EntriesAssumption ==
    /\ Events \cap Foreign = {}
    /\ Malformed \cap Unsupported = {}
    /\ Malformed \cap Orphan = {}
    /\ Unsupported \cap Orphan = {}
    /\ NoBatch \notin Events

ASSUME BatchAssumption ==
    /\ \A e \in Events : Batch[e].agent \in Agents
    /\ CreatedAt \in [Events -> Nat]

ASSUME BoundsAssumption ==
    /\ MaxDelivery \in Nat \ {0}
    /\ RelayLimit \in Nat \ {0}
    /\ ReadCount \in Nat \ {0}
    /\ MaxRelayFaults \in Nat
    /\ MaxWorkerFaults \in Nat

VARIABLES
    (* PostgreSQL *)
    outbox,        \* outbox[e]: no row yet, or published_at null or set
    publicationAttempts,
    processed,     \* keys of processed_events
    fleetState,    \* fleetState[a]: last_batch_id of the agent's row
    incidents,     \* open incidents, by deduplication key
    deadLetters,   \* keys of dead_letters: stream message ids
    (* Redis *)
    stream,        \* the telemetry stream
    group,         \* whether the consumer group exists
    lastDelivered, \* the group's last-delivered-id
    pel,           \* pel[m]: times_delivered of a pending m, 0 once acknowledged
    idle,          \* pending entries idle for at least reclaim_idle_ms
    dlq,           \* source ids present in the dead-letter stream
    (* relays *)
    held,          \* rows locked by the open transaction of publish_once
    sent,          \* the rows among them already added to the stream
    relayFaults,
    (* workers *)
    pc,            \* the call the worker is about to make
    phase,         \* which of run's two loops: reclaimed or fresh entries
    todo,          \* entries returned by the last call, not yet handled
    msg,           \* the entry being handled, 0 for none
    stop,          \* the termination event
    workerFaults,
    (* history *)
    applied        \* applied[e]: how often the effects of e were committed

database == <<outbox, publicationAttempts, processed, fleetState, incidents,
              deadLetters, applied>>
redis    == <<stream, group, lastDelivered, pel, idle, dlq>>
relay    == <<held, sent, relayFaults>>
worker   == <<pc, phase, todo, msg, stop, workerFaults>>
vars     == <<database, redis, relay, worker>>

-----------------------------------------------------------------------------
(* Derived state. *)

Ids      == 1 .. Len(stream)
Pending  == {m \in 1 .. lastDelivered : pel[m] > 0}
Acked(m) == m \in 1 .. lastDelivered /\ pel[m] = 0
Accepted == {e \in Events : outbox[e] # "absent"}
Entry(w) == stream[msg[w]]
Copies(e) == {m \in Ids : stream[m] = e}

(* The first n members of a set of numbers. *)
FirstOf(S, n) == {s \in S : Cardinality({t \in S : t < s}) < n}

(* ORDER BY created_at LIMIT n: rows of equal created_at in any order. *)
OldestRows(S) ==
    {R \in SUBSET S :
        /\ Cardinality(R) = IF Cardinality(S) < RelayLimit
                               THEN Cardinality(S) ELSE RelayLimit
        /\ \A r \in R, s \in S \ R : CreatedAt[r] <= CreatedAt[s]}

(* max(samples, key=observed_at): the first of the latest samples. *)
Latest(samples) ==
    samples[CHOOSE i \in DOMAIN samples :
              /\ \A j \in DOMAIN samples : samples[j].at <= samples[i].at
              /\ \A j \in 1 .. i - 1 : samples[j].at < samples[i].at]

(* The incident conditions an event's latest sample meets. *)
Conditions(e) ==
    LET latest == Latest(Batch[e].samples) IN
    {t \in IncidentTypes :
        \/ t = "high_cpu"    /\ latest.cpu >= CpuThreshold
        \/ t = "high_memory" /\ latest.memory >= MemoryThreshold}

-----------------------------------------------------------------------------
Init ==
    /\ outbox = [e \in Events |-> "absent"]
    /\ publicationAttempts = [e \in Events |-> 0]
    /\ processed = {}
    /\ fleetState = [a \in Agents |-> NoBatch]
    /\ incidents = {}
    /\ deadLetters = {}
    /\ stream = <<>>
    /\ group = FALSE
    /\ lastDelivered = 0
    /\ pel = <<>>
    /\ idle = {}
    /\ dlq = {}
    /\ held = [r \in Relays |-> {}]
    /\ sent = [r \in Relays |-> {}]
    /\ relayFaults = 0
    /\ pc = [w \in Workers |-> "down"]
    /\ phase = [w \in Workers |-> "fresh"]
    /\ todo = [w \in Workers |-> {}]
    /\ msg = [w \in Workers |-> 0]
    /\ stop = [w \in Workers |-> FALSE]
    /\ workerFaults = 0
    /\ applied = [e \in Events |-> 0]

-----------------------------------------------------------------------------
(* Producers. *)

(* ingest_batch commits the batch and its outbox row.  created_at is the   *)
(* start of that transaction, so rows commit in any order of created_at.   *)
Accept(e) ==
    /\ outbox[e] = "absent"
    /\ outbox' = [outbox EXCEPT ![e] = "unpublished"]
    /\ UNCHANGED <<publicationAttempts, processed, fleetState, incidents,
                   deadLetters, applied, redis, relay, worker>>

(* Another producer adds an entry no relay would: external to the code.    *)
Inject(x) ==
    /\ \A m \in Ids : stream[m] # x
    /\ stream' = Append(stream, x)
    /\ UNCHANGED <<database, group, lastDelivered, pel, idle, dlq, relay, worker>>

-----------------------------------------------------------------------------
(* The relay: publish_once. *)

Locked == UNION {held[r] : r \in Relays}

(* Mutant: rows locked by another relay are not skipped. *)
SelectableLocked == {e \in Events : outbox[e] = "unpublished"}

Selectable == {e \in Events : outbox[e] = "unpublished"} \ Locked

SelectRows(r) ==
    /\ held[r] = {}
    /\ Selectable # {}
    /\ \E R \in OldestRows(Selectable) : held' = [held EXCEPT ![r] = R]
    /\ UNCHANGED <<database, redis, sent, relayFaults, worker>>

XAddRow(r) ==
    /\ \E e \in held[r] \ sent[r] :
        /\ \A f \in held[r] \ sent[r] : CreatedAt[e] <= CreatedAt[f]
        /\ stream' = Append(stream, e)
        /\ sent' = [sent EXCEPT ![r] = @ \cup {e}]
    /\ UNCHANGED <<database, group, lastDelivered, pel, idle, dlq, held,
                   relayFaults, worker>>

CommitRows(r) ==
    /\ held[r] # {}
    /\ sent[r] = held[r]
    /\ outbox' = [e \in Events |-> IF e \in held[r] THEN "published" ELSE outbox[e]]
    /\ publicationAttempts' =
         [e \in Events |-> publicationAttempts[e] + (IF e \in held[r] THEN 1 ELSE 0)]
    /\ held' = [held EXCEPT ![r] = {}]
    /\ sent' = [sent EXCEPT ![r] = {}]
    /\ UNCHANGED <<processed, fleetState, incidents, deadLetters, applied, redis,
                   relayFaults, worker>>

(* XADD or the commit raises, or the process dies: the transaction rolls   *)
(* back, whatever has reached the stream stays there, and a later poll     *)
(* starts over.                                                            *)
RelayFails(r) ==
    /\ relayFaults < MaxRelayFaults
    /\ held[r] # {}
    /\ held' = [held EXCEPT ![r] = {}]
    /\ sent' = [sent EXCEPT ![r] = {}]
    /\ relayFaults' = relayFaults + 1
    /\ UNCHANGED <<database, redis, worker>>

RelayStep(r) == SelectRows(r) \/ XAddRow(r) \/ CommitRows(r)

-----------------------------------------------------------------------------
(* The worker: run. *)

(* Process start: XGROUP CREATE at id 0, BUSYGROUP ignored. *)
Start(w) ==
    /\ pc[w] = "down"
    /\ pc' = [pc EXCEPT ![w] = "idle"]
    /\ group' = TRUE
    /\ lastDelivered' = IF group THEN lastDelivered ELSE 0
    /\ UNCHANGED <<database, stream, pel, idle, dlq, relay, phase, todo, msg,
                   stop, workerFaults>>

LoopTop(w) == pc[w] = "idle" /\ todo[w] = {} /\ phase[w] = "fresh"

(* The while condition is tested only here. *)
Exit(w) ==
    /\ LoopTop(w)
    /\ stop[w]
    /\ pc' = [pc EXCEPT ![w] = "down"]
    /\ stop' = [stop EXCEPT ![w] = FALSE]
    /\ UNCHANGED <<database, redis, relay, phase, todo, msg, workerFaults>>

(* Mutant: pending entries are never reclaimed. *)
ClaimNothing(w) ==
    /\ LoopTop(w)
    /\ ~stop[w]
    /\ phase' = [phase EXCEPT ![w] = "claimed"]
    /\ UNCHANGED <<database, redis, relay, pc, todo, msg, stop, workerFaults>>

(* Mutant: the loop's condition is not tested. *)
ClaimIgnoresStop(w) ==
    /\ LoopTop(w)
    /\ phase' = [phase EXCEPT ![w] = "claimed"]
    /\ LET claimed == FirstOf(idle, ReadCount) IN
        /\ pel' = [m \in 1 .. lastDelivered |->
                     IF m \in claimed /\ pel[m] < MaxDelivery
                       THEN pel[m] + 1 ELSE pel[m]]
        /\ idle' = idle \ claimed
        /\ todo' = [todo EXCEPT ![w] = claimed]
    /\ UNCHANGED <<database, stream, group, lastDelivered, dlq, relay, pc, msg,
                   stop, workerFaults>>

(* XAUTOCLAIM from 0-0: the first idle entries, whoever they belong to.    *)
(* A claim counts as a delivery and restarts the idle clock.  Counts at or *)
(* above the limit are not told apart.                                     *)
Claim(w) ==
    /\ LoopTop(w)
    /\ ~stop[w]
    /\ LET claimed == FirstOf(idle, ReadCount) IN
        /\ pel' = [m \in 1 .. lastDelivered |->
                     IF m \in claimed /\ pel[m] < MaxDelivery
                       THEN pel[m] + 1 ELSE pel[m]]
        /\ idle' = idle \ claimed
        /\ todo' = [todo EXCEPT ![w] = claimed]
    /\ phase' = [phase EXCEPT ![w] = "claimed"]
    /\ UNCHANGED <<database, stream, group, lastDelivered, dlq, relay, pc, msg,
                   stop, workerFaults>>

(* XREADGROUP with ">": the next entries, or none after blocking 500 ms.   *)
Read(w) ==
    /\ pc[w] = "idle" /\ todo[w] = {} /\ phase[w] = "claimed"
    /\ LET last == IF Len(stream) - lastDelivered < ReadCount
                     THEN Len(stream) ELSE lastDelivered + ReadCount IN
        /\ lastDelivered' = last
        /\ pel' = [m \in 1 .. last |-> IF m <= lastDelivered THEN pel[m] ELSE 1]
        /\ todo' = [todo EXCEPT ![w] = lastDelivered + 1 .. last]
    /\ phase' = [phase EXCEPT ![w] = "fresh"]
    /\ UNCHANGED <<database, stream, group, idle, dlq, relay, pc, msg, stop,
                   workerFaults>>

(* Mutant: the entry is acknowledged before it is processed. *)
HandleAcksFirst(w) ==
    /\ pc[w] = "idle"
    /\ \E m \in todo[w] :
        /\ \A n \in todo[w] : m <= n
        /\ msg' = [msg EXCEPT ![w] = m]
        /\ todo' = [todo EXCEPT ![w] = @ \ {m}]
        /\ pc' = [pc EXCEPT ![w] =
                    IF stream[m] \in Malformed THEN "attempts" ELSE "insert"]
        /\ pel' = [pel EXCEPT ![m] = 0]
        /\ idle' = idle \ {m}
    /\ UNCHANGED <<database, stream, group, lastDelivered, dlq, relay, phase, stop,
                   workerFaults>>

(* handle_message begins: decode_event raises for a malformed entry.       *)
Handle(w) ==
    /\ pc[w] = "idle"
    /\ \E m \in todo[w] :
        /\ \A n \in todo[w] : m <= n
        /\ msg' = [msg EXCEPT ![w] = m]
        /\ todo' = [todo EXCEPT ![w] = @ \ {m}]
        /\ pc' = [pc EXCEPT ![w] =
                    IF stream[m] \in Malformed THEN "attempts" ELSE "insert"]
    /\ UNCHANGED <<database, redis, relay, phase, stop, workerFaults>>

(* The next entry of the batch, after this one is done with. *)
Done(w) ==
    /\ pc' = [pc EXCEPT ![w] = "idle"]
    /\ msg' = [msg EXCEPT ![w] = 0]

-----------------------------------------------------------------------------
(* process_event: one transaction. *)

(* Mutant: a concurrent insert of the same key does not wait. *)
InsertNeverBlocked(w) == FALSE

(* INSERT INTO processed_events ... ON CONFLICT DO NOTHING waits while     *)
(* another open transaction has inserted the same key.                     *)
InsertBlocked(w) ==
    \E v \in Workers \ {w} : pc[v] = "apply" /\ Entry(v) = Entry(w)

(* Mutant: a conflict does not end the transaction. *)
InsertIgnoresConflict(w) ==
    /\ pc[w] = "insert"
    /\ ~InsertBlocked(w)
    /\ pc' = [pc EXCEPT ![w] = "apply"]
    /\ UNCHANGED <<database, redis, relay, phase, todo, msg, stop, workerFaults>>

(* Mutant: the insert commits in a transaction of its own. *)
InsertCommits(w) ==
    /\ pc[w] = "insert"
    /\ ~InsertBlocked(w)
    /\ pc' = [pc EXCEPT ![w] = IF Entry(w) \in processed THEN "ack" ELSE "apply"]
    /\ processed' = processed \cup {Entry(w)}
    /\ UNCHANGED <<outbox, publicationAttempts, fleetState, incidents, deadLetters,
                   applied, redis, relay, phase, todo, msg, stop, workerFaults>>

InsertProcessed(w) ==
    /\ pc[w] = "insert"
    /\ ~InsertBlocked(w)
    /\ pc' = [pc EXCEPT ![w] = IF Entry(w) \in processed THEN "ack" ELSE "apply"]
    /\ UNCHANGED <<database, redis, relay, phase, todo, msg, stop, workerFaults>>

(* The rest of the transaction and its commit. *)
ApplyEvent(w) ==
    /\ pc[w] = "apply"
    /\ Entry(w) \in Events
    /\ LET e == Entry(w)
           a == Batch[e].agent IN
        /\ processed' = processed \cup {e}
        /\ fleetState' = [fleetState EXCEPT ![a] = e]
        /\ incidents' = incidents \cup ({a} \X Conditions(e))
        /\ applied' = [applied EXCEPT ![e] = @ + 1]
    /\ pc' = [pc EXCEPT ![w] = "ack"]
    /\ UNCHANGED <<outbox, publicationAttempts, deadLetters, redis, relay, phase,
                   todo, msg, stop, workerFaults>>

(* ValueError inside the transaction: it rolls back. *)
RejectEvent(w) ==
    /\ pc[w] = "apply"
    /\ Entry(w) \in Unsupported
    /\ pc' = [pc EXCEPT ![w] = "attempts"]
    /\ UNCHANGED <<database, redis, relay, phase, todo, msg, stop, workerFaults>>

(* A worker process is gone: its transaction rolls back and the entries it *)
(* was given stay pending.                                                 *)
Die(w) ==
    /\ pc' = [pc EXCEPT ![w] = "down"]
    /\ phase' = [phase EXCEPT ![w] = "fresh"]
    /\ todo' = [todo EXCEPT ![w] = {}]
    /\ msg' = [msg EXCEPT ![w] = 0]
    /\ stop' = [stop EXCEPT ![w] = FALSE]

(* scalar_one raises NoResultFound, which handle_message does not catch.   *)
OrphanEscapes(w) ==
    /\ pc[w] = "apply"
    /\ Entry(w) \in Orphan
    /\ Die(w)
    /\ UNCHANGED <<database, redis, relay, workerFaults>>

-----------------------------------------------------------------------------
(* The end of handle_message. *)

XAck(m) ==
    /\ pel' = [pel EXCEPT ![m] = 0]
    /\ idle' = idle \ {m}

Ack(w) ==
    /\ pc[w] = "ack"
    /\ XAck(msg[w])
    /\ Done(w)
    /\ UNCHANGED <<database, stream, group, lastDelivered, dlq, relay, phase,
                   todo, stop, workerFaults>>

(* Mutant: the delivery in progress is counted twice. *)
DeliveryAttemptsPlusOne(m) == pel[m] + 1

(* Mutant: the counter of the first delivery is used for ever. *)
DeliveryAttemptsOnce(m) == 1

(* XPENDING reports one attempt for an entry no longer pending.            *)
DeliveryAttempts(m) == IF pel[m] > 0 THEN pel[m] ELSE 1

CheckAttempts(w) ==
    /\ pc[w] = "attempts"
    /\ \/ /\ DeliveryAttempts(msg[w]) >= MaxDelivery
          /\ pc' = [pc EXCEPT ![w] = "dlq"]
          /\ UNCHANGED msg
       \/ /\ DeliveryAttempts(msg[w]) < MaxDelivery
          /\ Done(w)
    /\ UNCHANGED <<database, redis, relay, phase, todo, stop, workerFaults>>

(* Mutant: no row is written. *)
DeadLetterXAddOnly(w) ==
    /\ pc[w] = "dlq"
    /\ dlq' = dlq \cup {msg[w]}
    /\ pc' = [pc EXCEPT ![w] = "dlack"]
    /\ UNCHANGED <<database, stream, group, lastDelivered, pel, idle, relay,
                   phase, todo, msg, stop, workerFaults>>

(* dead_letter: the dead-letter stream, then the row, then the XACK. *)
DeadLetterXAdd(w) ==
    /\ pc[w] = "dlq"
    /\ dlq' = dlq \cup {msg[w]}
    /\ pc' = [pc EXCEPT ![w] = "row"]
    /\ UNCHANGED <<database, stream, group, lastDelivered, pel, idle, relay,
                   phase, todo, msg, stop, workerFaults>>

(* Mutant: the entry is not acknowledged after its row is written. *)
DeadLetterRowOnly(w) ==
    /\ pc[w] = "row"
    /\ deadLetters' = deadLetters \cup {msg[w]}
    /\ Done(w)
    /\ UNCHANGED <<outbox, publicationAttempts, processed, fleetState, incidents,
                   applied, redis, relay, phase, todo, stop, workerFaults>>

DeadLetterRow(w) ==
    /\ pc[w] = "row"
    /\ deadLetters' = deadLetters \cup {msg[w]}
    /\ pc' = [pc EXCEPT ![w] = "dlack"]
    /\ UNCHANGED <<outbox, publicationAttempts, processed, fleetState, incidents,
                   applied, redis, relay, phase, todo, msg, stop, workerFaults>>

DeadLetterAck(w) ==
    /\ pc[w] = "dlack"
    /\ XAck(msg[w])
    /\ Done(w)
    /\ UNCHANGED <<database, stream, group, lastDelivered, dlq, relay, phase,
                   todo, stop, workerFaults>>

WorkerStep(w) ==
    \/ Start(w) \/ Exit(w) \/ Claim(w) \/ Read(w) \/ Handle(w)
    \/ InsertProcessed(w) \/ ApplyEvent(w) \/ RejectEvent(w) \/ OrphanEscapes(w)
    \/ Ack(w) \/ CheckAttempts(w)
    \/ DeadLetterXAdd(w) \/ DeadLetterRow(w) \/ DeadLetterAck(w)

-----------------------------------------------------------------------------
(* The environment. *)

(* A connection error or a kill at any point of the loop. *)
WorkerCrashes(w) ==
    /\ workerFaults < MaxWorkerFaults
    /\ pc[w] # "down"
    /\ Die(w)
    /\ workerFaults' = workerFaults + 1
    /\ UNCHANGED <<database, redis, relay>>

(* SIGTERM or SIGINT sets the event and nothing else. *)
Terminate(w) ==
    /\ workerFaults < MaxWorkerFaults
    /\ pc[w] # "down"
    /\ ~stop[w]
    /\ stop' = [stop EXCEPT ![w] = TRUE]
    /\ workerFaults' = workerFaults + 1
    /\ UNCHANGED <<database, redis, relay, pc, phase, todo, msg>>

(* reclaim_idle_ms pass since the last delivery of a pending entry, whether *)
(* its worker is gone or merely slow.                                      *)
IdleElapses(m) ==
    /\ m \in Pending \ idle
    /\ idle' = idle \cup {m}
    /\ UNCHANGED <<database, stream, group, lastDelivered, pel, dlq, relay, worker>>

Next ==
    \/ \E e \in Events : Accept(e)
    \/ \E x \in Foreign : Inject(x)
    \/ \E r \in Relays : RelayStep(r) \/ RelayFails(r)
    \/ \E w \in Workers : WorkerStep(w) \/ WorkerCrashes(w) \/ Terminate(w)
    \/ \E m \in Ids : IdleElapses(m)

Spec == Init /\ [][Next]_vars

(* A copy of every row per failed publication, and the foreign entries.    *)
MaxIds == Cardinality(Events) * (1 + MaxRelayFaults) + Cardinality(Foreign)

(* Processes keep running and are restarted by the orchestrator, and time  *)
(* passes.  Nothing is assumed of the producers or of the faults.          *)
Fairness ==
    /\ \A r \in Relays : WF_vars(RelayStep(r))
    /\ \A w \in Workers : WF_vars(WorkerStep(w))
    /\ \A m \in 1 .. MaxIds : WF_vars(m \in Ids /\ IdleElapses(m))

FairSpec == Spec /\ Fairness

-----------------------------------------------------------------------------
(* Properties. *)

PCs == {"down", "idle", "insert", "apply", "ack", "attempts", "dlq", "row", "dlack"}

DatabaseType ==
    /\ outbox \in [Events -> {"absent", "unpublished", "published"}]
    /\ publicationAttempts \in [Events -> Nat]
    /\ processed \subseteq Events
    /\ fleetState \in [Agents -> Events \cup {NoBatch}]
    /\ incidents \subseteq Agents \X IncidentTypes
    /\ deadLetters \subseteq Nat \ {0}
    /\ applied \in [Events -> Nat]

RedisType ==
    /\ stream \in Seq(Entries)
    /\ group \in BOOLEAN
    /\ lastDelivered \in 0 .. Len(stream)
    /\ pel \in [1 .. lastDelivered -> 0 .. MaxDelivery]
    /\ idle \subseteq Pending
    /\ dlq \subseteq 1 .. lastDelivered

RelayType ==
    /\ held \in [Relays -> SUBSET Events]
    /\ sent \in [Relays -> SUBSET Events]
    /\ relayFaults \in 0 .. MaxRelayFaults

WorkerType ==
    /\ pc \in [Workers -> PCs]
    /\ phase \in [Workers -> {"fresh", "claimed"}]
    /\ todo \in [Workers -> SUBSET (1 .. lastDelivered)]
    /\ msg \in [Workers -> 0 .. lastDelivered]
    /\ \A w \in Workers : (msg[w] = 0) <=> (pc[w] \in {"down", "idle"})
    /\ stop \in [Workers -> BOOLEAN]
    /\ workerFaults \in 0 .. MaxWorkerFaults

(* Every variable keeps its type; the group's cursor and pending entries   *)
(* stay inside the stream, and a worker only handles delivered entries.    *)
TypeOK == DatabaseType /\ RedisType /\ RelayType /\ WorkerType

(* The effects of an event are committed exactly once however often it is  *)
(* published, redelivered, reclaimed or abandoned by a crash: the row of   *)
(* processed_events and the effects commit together (process_event).       *)
EffectsExactlyOnce ==
    \A e \in Events : applied[e] = IF e \in processed THEN 1 ELSE 0

(* The fleet-state and incident tables contain the consequences of the     *)
(* processed events and nothing else: an open incident for every condition *)
(* some processed event's latest sample met, a row for every agent heard   *)
(* of, and no trace of an event whose transaction rolled back.             *)
EffectsMatchProcessed ==
    /\ incidents = UNION {{Batch[e].agent} \X Conditions(e) : e \in processed}
    /\ \A a \in Agents :
         IF \E e \in processed : Batch[e].agent = a
           THEN fleetState[a] \in processed /\ Batch[fleetState[a]].agent = a
           ELSE fleetState[a] = NoBatch

(* XACK is the last thing done with an entry: an acknowledged entry is an  *)
(* event in processed_events, or it is inspectable both in the dead-letter *)
(* stream and in dead_letters.                                             *)
AckedMeansSettled ==
    \A m \in 1 .. lastDelivered :
        Acked(m) => \/ stream[m] \in processed
                    \/ m \in dlq /\ m \in deadLetters /\ stream[m] \in Foreign

(* An accepted event is never lost between the outbox and its effects: it  *)
(* is still to be published, or some copy of it is still to be delivered   *)
(* or pending, or it is processed.                                         *)
NoAcceptedEventLost ==
    \A e \in Accepted :
        \/ outbox[e] = "unpublished"
        \/ e \in processed
        \/ \E m \in Ids : stream[m] = e /\ ~Acked(m)

(* Nothing is applied that the API did not accept: entries of other        *)
(* producers never reach processed_events, and a row is only added to the  *)
(* stream once its ingestion has committed.                                *)
OnlyAcceptedApplied == processed \subseteq Accepted

(* An entry reaches the dead-letter stream only after max_delivery_attempts *)
(* deliveries, also when two workers count its attempts at the same time,  *)
(* and a deliverable event never does.                                     *)
NoEarlyDeadLetter ==
    \A m \in dlq \cup deadLetters :
        /\ stream[m] \in Malformed \cup Unsupported
        /\ pel[m] \in {0, MaxDelivery}

(* FOR UPDATE SKIP LOCKED keeps overlapping relays apart: an event is added *)
(* to the stream once, plus once for every failed publication.             *)
CopiesBoundedByFailures ==
    \A e \in Events : Cardinality(Copies(e)) <= 1 + relayFaults

(* Every accepted event is eventually processed.                           *)
AcceptedIsProcessed == \A e \in Events : (e \in Accepted) ~> (e \in processed)

Parked(x) == \E m \in deadLetters \cap dlq : stream[m] = x /\ Acked(m)
InStream(x) == \E m \in Ids : stream[m] = x

(* An entry that process_event rejects with a ValueError, for it cannot be *)
(* parsed or has an unknown type, eventually leaves the group for the      *)
(* dead-letter stream and table.  (An orphan raises another exception and  *)
(* never does.)                                                            *)
FailuresAreDeadLettered ==
    \A x \in Malformed \cup Unsupported : InStream(x) ~> Parked(x)

(* QUEUE_PENDING returns to zero and stays there once producers stop: no   *)
(* duplicate, abandoned or rejected entry stays in the group for ever.     *)
BacklogDrains == <>[](lastDelivered = Len(stream) /\ Pending = {})

(* A worker told to stop exits, though the while condition is tested only  *)
(* at the loop's top: it first reads fresh entries, handles all it was     *)
(* given and may wait for another worker's transaction.                    *)
TerminatedExits == \A w \in Workers : stop[w] ~> pc[w] = "down"

-----------------------------------------------------------------------------
(* The inductive invariant behind the safety properties. *)

(* No worker is past XGROUP CREATE before the group exists. *)
GroupInv ==
    ~group => lastDelivered = 0 /\ \A w \in Workers : pc[w] = "down"

(* Open publications hold disjoint sets of unpublished rows, and what they *)
(* have sent is in the stream.                                             *)
RelayInv ==
    /\ \A r \in Relays : /\ sent[r] \subseteq held[r]
                         /\ \A e \in held[r] : outbox[e] = "unpublished"
                         /\ \A e \in sent[r] : InStream(e)
    /\ \A r, q \in Relays : r # q => held[r] \cap held[q] = {}

(* The stream holds accepted events only. *)
StreamInv == \A e \in Events : InStream(e) => outbox[e] # "absent"

(* Every published row is in the stream, and every dead letter's source. *)
RetentionInv ==
    /\ \A e \in Events : outbox[e] = "published" => InStream(e)
    /\ deadLetters \subseteq 1 .. lastDelivered

Sent(e) == outbox[e] = "published" \/ \E r \in Relays : e \in sent[r]

(* A row that is published, or sent by an open publication, has one copy   *)
(* more than failures account for; any other row has not.                  *)
CopiesInv ==
    \A e \in Events :
        Cardinality(Copies(e)) <= relayFaults + (IF Sent(e) THEN 1 ELSE 0)

(* Where a worker stands in handle_message tells what it has already       *)
(* written, and what two workers cannot both be about to write.            *)
WorkerInv ==
    /\ \A w \in Workers :
        /\ pc[w] = "ack" => Entry(w) \in processed
        /\ pc[w] = "apply" => Entry(w) \notin processed
        /\ pc[w] \in {"attempts", "dlq", "row", "dlack"}
             => Entry(w) \in Malformed \cup Unsupported
        /\ pc[w] \in {"dlq", "row", "dlack"} => pel[msg[w]] \in {0, MaxDelivery}
        /\ pc[w] \in {"row", "dlack"} => msg[w] \in dlq
        /\ pc[w] = "dlack" => msg[w] \in deadLetters
    /\ \A v, w \in Workers :
        v # w /\ pc[v] = "apply" /\ pc[w] = "apply" => Entry(v) # Entry(w)

(* The safety properties and what it takes to preserve them. *)
InductiveInvariant ==
    /\ TypeOK /\ GroupInv /\ RelayInv /\ StreamInv /\ RetentionInv /\ CopiesInv
    /\ WorkerInv /\ EffectsExactlyOnce /\ EffectsMatchProcessed /\ AckedMeansSettled
    /\ NoEarlyDeadLetter /\ OnlyAcceptedApplied

=============================================================================
