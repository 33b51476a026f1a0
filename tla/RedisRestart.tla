---------------------------- MODULE RedisRestart ----------------------------
(***************************************************************************)
(* Delivery over the Redis the deployment runs: appendonly yes with        *)
(* appendfsync everysec (compose.yaml, deploy/kubernetes).  What was not   *)
(* yet flushed is lost when the host of Redis goes down.                   *)
(***************************************************************************)
EXTENDS Delivery

VARIABLE synced   \* the append-only file as last flushed

redisVars == <<vars, synced>>

RedisInit ==
    /\ Init
    /\ synced = [stream |-> <<>>, group |-> FALSE, last |-> 0, pel |-> <<>>,
                 dlq |-> {}]

(* The flush of every second. *)
Fsync ==
    /\ synced' = [stream |-> stream, group |-> group, last |-> lastDelivered,
                  pel |-> pel, dlq |-> dlq]
    /\ UNCHANGED vars

(* Redis comes back with the flushed file.  Every client's connection      *)
(* breaks: workers exit and open publications roll back.  (One with no     *)
(* call to Redis left would not notice, and commits just before instead.)  *)
(* Restarts share the bound on relay failures.                             *)
Restart ==
    /\ relayFaults < MaxRelayFaults
    /\ relayFaults' = relayFaults + 1
    /\ stream' = synced.stream
    /\ group' = synced.group
    /\ lastDelivered' = synced.last
    /\ pel' = synced.pel
    /\ idle' = {}
    /\ dlq' = synced.dlq
    /\ held' = [r \in Relays |-> {}]
    /\ sent' = [r \in Relays |-> {}]
    /\ pc' = [w \in Workers |-> "down"]
    /\ phase' = [w \in Workers |-> "fresh"]
    /\ todo' = [w \in Workers |-> {}]
    /\ msg' = [w \in Workers |-> 0]
    /\ stop' = [w \in Workers |-> FALSE]
    /\ UNCHANGED <<database, workerFaults, synced>>

RedisNext == (Next /\ UNCHANGED synced) \/ Fsync \/ Restart

RedisSpec == RedisInit /\ [][RedisNext]_redisVars

(* What was flushed is not lost: an event whose entry was in the flushed   *)
(* file is processed, or a copy of it is still to be delivered or pending, *)
(* even when the acknowledgements of others are forgotten.                 *)
FlushedEventSurvives ==
    \A i \in DOMAIN synced.stream :
        \/ synced.stream[i] \in processed \cup Foreign
        \/ \E m \in Ids : stream[m] = synced.stream[i] /\ ~Acked(m)

-----------------------------------------------------------------------------
(* The inductive invariant behind the safety properties.  Of Delivery's,   *)
(* RetentionInv and what rests on it do not survive a restart.             *)

(* The flushed file is a state of Redis, and the stream extends it. *)
SyncedInv ==
    /\ synced.stream \in Seq(Entries)
    /\ synced.group \in BOOLEAN
    /\ synced.last \in 0 .. Len(synced.stream)
    /\ synced.pel \in [1 .. synced.last -> 0 .. MaxDelivery]
    /\ synced.dlq \subseteq 1 .. synced.last
    /\ ~synced.group => synced.last = 0
    /\ \A m \in 1 .. Len(synced.stream) : m \in Ids /\ stream[m] = synced.stream[m]

(* An acknowledgement, flushed or not, was not given to an event that is   *)
(* still to be processed: the database forgets nothing.                    *)
AckedInv ==
    /\ \A m \in 1 .. lastDelivered : pel[m] = 0 => stream[m] \in processed \cup Foreign
    /\ \A m \in 1 .. synced.last :
         synced.pel[m] = 0 => synced.stream[m] \in processed \cup Foreign

(* What Delivery keeps through a restart. *)
KeptInv ==
    /\ TypeOK /\ GroupInv /\ RelayInv /\ StreamInv /\ CopiesInv /\ WorkerInv
    /\ EffectsExactlyOnce /\ EffectsMatchProcessed /\ OnlyAcceptedApplied

RedisInv == KeptInv /\ SyncedInv /\ AckedInv
=============================================================================
