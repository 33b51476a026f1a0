--------------------------- MODULE DeliveryProofs ---------------------------
(***************************************************************************)
(* Proofs about Delivery, for every value of its constants: its inductive  *)
(* invariant, the safety properties that follow from it, and that Delivery *)
(* implements EventLedger.                                                 *)
(***************************************************************************)
EXTENDS DeliveryLedger, FiniteSetTheorems, TLAPS

USE EntriesAssumption, BatchAssumption, BoundsAssumption

-----------------------------------------------------------------------------
(* Facts about the operators. *)

(* XAUTOCLAIM returns idle entries only. *)
LEMMA FirstOfSubset == ASSUME NEW S, NEW n PROVE FirstOf(S, n) \subseteq S
  BY DEF FirstOf

(* publish_once locks selectable rows only. *)
LEMMA OldestRowsSubset == ASSUME NEW S, NEW R \in OldestRows(S) PROVE R \subseteq S
  BY DEF OldestRows

(* Only the two incident types are ever opened. *)
LEMMA ConditionsType == ASSUME NEW e PROVE Conditions(e) \subseteq IncidentTypes
  BY DEF Conditions

(* A worker inside handle_message works on a delivered entry. *)
LEMMA HandledIsDelivered ==
  ASSUME TypeOK, NEW w \in Workers, pc[w] \notin {"down", "idle"}
  PROVE  /\ msg[w] \in 1 .. lastDelivered
         /\ msg[w] \in Ids
         /\ Entry(w) \in Entries
<1>1. msg[w] \in 1 .. lastDelivered
  BY DEF TypeOK, WorkerType, RedisType
<1>2. msg[w] \in Ids
  BY <1>1 DEF TypeOK, RedisType, Ids
<1>3. QED
  BY <1>1, <1>2 DEF TypeOK, RedisType, Ids, Entry

(* XACK leaves a pending-entries list of the right shape. *)
LEMMA XAckType ==
  ASSUME RedisType, NEW m, XAck(m)
  PROVE  /\ pel' \in [1 .. lastDelivered -> 0 .. MaxDelivery]
         /\ idle' \subseteq {n \in 1 .. lastDelivered : pel'[n] > 0}
<1>1. 0 \in 0 .. MaxDelivery
  OBVIOUS
<1>2. pel' \in [1 .. lastDelivered -> 0 .. MaxDelivery]
  BY <1>1 DEF XAck, RedisType
<1>3. QED
  BY <1>2 DEF XAck, RedisType, Pending

-----------------------------------------------------------------------------
(* Types. *)

(* The types hold initially. *)
LEMMA InitType == Init => TypeOK /\ GroupInv
<1> SUFFICES ASSUME Init PROVE TypeOK /\ GroupInv
  OBVIOUS
<1>1. DatabaseType
  BY DEF Init, DatabaseType
<1>2. RedisType
  <2>1. stream \in Seq(Entries) /\ Len(stream) = 0
    BY DEF Init
  <2>2. pel \in [1 .. lastDelivered -> 0 .. MaxDelivery]
    <3>1. pel = <<>> /\ 1 .. lastDelivered = {}
      BY DEF Init
    <3>2. QED
      BY <3>1
  <2>3. group \in BOOLEAN /\ lastDelivered = 0 /\ idle = {} /\ dlq = {}
    BY DEF Init
  <2>4. QED
    BY <2>1, <2>2, <2>3 DEF RedisType
<1>3. RelayType
  BY DEF Init, RelayType
<1>4. WorkerType /\ GroupInv
  BY DEF Init, WorkerType, GroupInv, PCs
<1>5. QED
  BY <1>1, <1>2, <1>3, <1>4 DEF TypeOK

(* Every step of a worker keeps the types. *)
LEMMA WorkerStepType ==
  ASSUME TypeOK, GroupInv, NEW w \in Workers,
         WorkerStep(w) \/ WorkerCrashes(w) \/ Terminate(w)
  PROVE  TypeOK' /\ GroupInv'
<1> USE DEF TypeOK, database, redis, relay, worker
<1>0. RelayType'
  BY DEF RelayType, WorkerStep, Start, Exit, Claim, Read, Handle, InsertProcessed,
         ApplyEvent, RejectEvent, OrphanEscapes, Ack, CheckAttempts, DeadLetterXAdd,
         DeadLetterRow, DeadLetterAck, WorkerCrashes, Terminate
<1>1. CASE Start(w)
  <2>1. RedisType'
    BY <1>1 DEF Start, RedisType, Pending, GroupInv
  <2>2. DatabaseType'
    BY <1>1 DEF Start, DatabaseType, RedisType, GroupInv
  <2>3. WorkerType' /\ GroupInv'
    BY <1>1 DEF Start, WorkerType, RedisType, GroupInv, PCs
  <2>4. QED
    BY <1>0, <2>1, <2>2, <2>3
<1>2. CASE Exit(w)
  <2>1. RedisType'
    BY <1>2 DEF Exit, LoopTop, RedisType, Pending
  <2>2. DatabaseType'
    BY <1>2 DEF Exit, LoopTop, DatabaseType, RedisType
  <2>3. WorkerType' /\ GroupInv'
    BY <1>2 DEF Exit, LoopTop, WorkerType, RedisType, GroupInv, PCs
  <2>4. QED
    BY <1>0, <2>1, <2>2, <2>3
<1>3. CASE Claim(w)
  <2>0. FirstOf(idle, ReadCount) \subseteq idle
    BY FirstOfSubset
  <2>1. RedisType'
    <3>1. /\ pel' = [m \in 1 .. lastDelivered |->
                     IF m \in FirstOf(idle, ReadCount) /\ pel[m] < MaxDelivery
                       THEN pel[m] + 1 ELSE pel[m]]
          /\ idle' = idle \ FirstOf(idle, ReadCount)
          /\ UNCHANGED <<stream, group, lastDelivered, dlq>>
      BY <1>3 DEF Claim
    <3>2. pel' \in [1 .. lastDelivered -> 0 .. MaxDelivery]
      BY <3>1, BoundsAssumption DEF RedisType
    <3>3. \A m \in 1 .. lastDelivered : pel[m] > 0 => pel'[m] > 0
      BY <3>1 DEF RedisType
    <3>4. idle' \subseteq {m \in 1 .. lastDelivered : pel'[m] > 0}
      BY <3>1, <3>3 DEF RedisType, Pending
    <3>5. QED
      BY <3>1, <3>2, <3>4 DEF RedisType, Pending
  <2>2. DatabaseType'
    BY <1>3, <2>0 DEF Claim, LoopTop, DatabaseType, RedisType
  <2>3. WorkerType' /\ GroupInv'
    BY <1>3, <2>0 DEF Claim, LoopTop, WorkerType, RedisType, GroupInv, PCs, Pending
  <2>4. QED
    BY <1>0, <2>1, <2>2, <2>3
<1>4. CASE Read(w)
  <2>1. RedisType'
    BY <1>4 DEF Read, RedisType, Pending
  <2>2. DatabaseType'
    BY <1>4 DEF Read, DatabaseType, RedisType
  <2>3. WorkerType' /\ GroupInv'
    BY <1>4 DEF Read, WorkerType, RedisType, GroupInv, PCs
  <2>4. QED
    BY <1>0, <2>1, <2>2, <2>3
<1>5. CASE Handle(w)
  <2>1. RedisType'
    BY <1>5 DEF Handle, RedisType, Pending
  <2>2. DatabaseType'
    BY <1>5 DEF Handle, DatabaseType, RedisType
  <2>3. WorkerType' /\ GroupInv'
    BY <1>5 DEF Handle, WorkerType, RedisType, GroupInv, PCs
  <2>4. QED
    BY <1>0, <2>1, <2>2, <2>3
<1>6. CASE InsertProcessed(w)
  <2>1. RedisType'
    BY <1>6 DEF InsertProcessed, RedisType, Pending
  <2>2. DatabaseType'
    BY <1>6 DEF InsertProcessed, DatabaseType, RedisType
  <2>3. WorkerType' /\ GroupInv'
    BY <1>6 DEF InsertProcessed, WorkerType, RedisType, GroupInv, PCs
  <2>4. QED
    BY <1>0, <2>1, <2>2, <2>3
<1>7. CASE ApplyEvent(w)
  <2>0. msg[w] \in 1 .. lastDelivered /\ Entry(w) \in Entries
    BY <1>7, HandledIsDelivered DEF ApplyEvent
  <2>1. RedisType'
    BY <1>7, <2>0 DEF ApplyEvent, RedisType, Pending
  <2>2. DatabaseType'
    <3>1. {Batch[Entry(w)].agent} \X Conditions(Entry(w)) \subseteq Agents \X IncidentTypes
      BY <1>7, ConditionsType DEF ApplyEvent
    <3>2. incidents' \subseteq Agents \X IncidentTypes
      BY <1>7, <3>1 DEF ApplyEvent, DatabaseType
    <3>3. QED
      BY <1>7, <3>2 DEF ApplyEvent, DatabaseType
  <2>3. WorkerType' /\ GroupInv'
    BY <1>7, <2>0 DEF ApplyEvent, WorkerType, RedisType, GroupInv, PCs
  <2>4. QED
    BY <1>0, <2>1, <2>2, <2>3
<1>8. CASE RejectEvent(w)
  <2>1. RedisType'
    BY <1>8 DEF RejectEvent, RedisType, Pending
  <2>2. DatabaseType'
    BY <1>8 DEF RejectEvent, DatabaseType, RedisType
  <2>3. WorkerType' /\ GroupInv'
    BY <1>8 DEF RejectEvent, WorkerType, RedisType, GroupInv, PCs
  <2>4. QED
    BY <1>0, <2>1, <2>2, <2>3
<1>9. CASE OrphanEscapes(w)
  <2>1. RedisType'
    BY <1>9 DEF OrphanEscapes, Die, RedisType, Pending
  <2>2. DatabaseType'
    BY <1>9 DEF OrphanEscapes, Die, DatabaseType, RedisType
  <2>3. WorkerType' /\ GroupInv'
    BY <1>9 DEF OrphanEscapes, Die, WorkerType, RedisType, GroupInv, PCs
  <2>4. QED
    BY <1>0, <2>1, <2>2, <2>3
<1>10. CASE Ack(w)
  <2>0. msg[w] \in 1 .. lastDelivered /\ Entry(w) \in Entries
    BY <1>10, HandledIsDelivered DEF Ack
  <2>1. RedisType'
    BY <1>10, XAckType DEF Ack, RedisType, Pending
  <2>2. DatabaseType'
    BY <1>10, <2>0 DEF Ack, XAck, Done, DatabaseType, RedisType
  <2>3. WorkerType' /\ GroupInv'
    BY <1>10, <2>0 DEF Ack, XAck, Done, WorkerType, RedisType, GroupInv, PCs
  <2>4. QED
    BY <1>0, <2>1, <2>2, <2>3
<1>11. CASE CheckAttempts(w)
  <2>0. msg[w] \in 1 .. lastDelivered /\ Entry(w) \in Entries
    BY <1>11, HandledIsDelivered DEF CheckAttempts
  <2>1. RedisType'
    BY <1>11, <2>0 DEF CheckAttempts, Done, RedisType, Pending
  <2>2. DatabaseType'
    BY <1>11, <2>0 DEF CheckAttempts, Done, DatabaseType, RedisType
  <2>3. WorkerType' /\ GroupInv'
    <3>1. CASE pc' = [pc EXCEPT ![w] = "dlq"] /\ UNCHANGED msg
      BY <1>11, <3>1 DEF CheckAttempts, WorkerType, GroupInv, PCs
    <3>2. CASE Done(w)
      BY <1>11, <3>2 DEF CheckAttempts, Done, WorkerType, RedisType, GroupInv, PCs
    <3>3. QED
      BY <1>11, <3>1, <3>2 DEF CheckAttempts
  <2>4. QED
    BY <1>0, <2>1, <2>2, <2>3
<1>12. CASE DeadLetterXAdd(w)
  <2>0. msg[w] \in 1 .. lastDelivered /\ Entry(w) \in Entries
    BY <1>12, HandledIsDelivered DEF DeadLetterXAdd
  <2>1. RedisType'
    BY <1>12, <2>0 DEF DeadLetterXAdd, RedisType, Pending
  <2>2. DatabaseType'
    BY <1>12, <2>0 DEF DeadLetterXAdd, DatabaseType, RedisType
  <2>3. WorkerType' /\ GroupInv'
    BY <1>12, <2>0 DEF DeadLetterXAdd, WorkerType, RedisType, GroupInv, PCs
  <2>4. QED
    BY <1>0, <2>1, <2>2, <2>3
<1>13. CASE DeadLetterRow(w)
  <2>0. msg[w] \in 1 .. lastDelivered /\ Entry(w) \in Entries
    BY <1>13, HandledIsDelivered DEF DeadLetterRow
  <2>1. RedisType'
    BY <1>13, <2>0 DEF DeadLetterRow, RedisType, Pending
  <2>2. DatabaseType'
    <3>1. msg[w] \in Nat \ {0}
      BY <2>0 DEF RedisType
    <3>2. QED
      BY <1>13, <3>1 DEF DeadLetterRow, DatabaseType
  <2>3. WorkerType' /\ GroupInv'
    BY <1>13, <2>0 DEF DeadLetterRow, WorkerType, RedisType, GroupInv, PCs
  <2>4. QED
    BY <1>0, <2>1, <2>2, <2>3
<1>14. CASE DeadLetterAck(w)
  <2>0. msg[w] \in 1 .. lastDelivered /\ Entry(w) \in Entries
    BY <1>14, HandledIsDelivered DEF DeadLetterAck
  <2>1. RedisType'
    BY <1>14, XAckType DEF DeadLetterAck, RedisType, Pending
  <2>2. DatabaseType'
    BY <1>14, <2>0 DEF DeadLetterAck, XAck, Done, DatabaseType, RedisType
  <2>3. WorkerType' /\ GroupInv'
    BY <1>14, <2>0 DEF DeadLetterAck, XAck, Done, WorkerType, RedisType, GroupInv, PCs
  <2>4. QED
    BY <1>0, <2>1, <2>2, <2>3
<1>15. CASE WorkerCrashes(w)
  <2>1. RedisType'
    BY <1>15 DEF WorkerCrashes, Die, RedisType, Pending
  <2>2. DatabaseType'
    BY <1>15 DEF WorkerCrashes, Die, DatabaseType, RedisType
  <2>3. WorkerType' /\ GroupInv'
    BY <1>15 DEF WorkerCrashes, Die, WorkerType, RedisType, GroupInv, PCs
  <2>4. QED
    BY <1>0, <2>1, <2>2, <2>3
<1>16. CASE Terminate(w)
  <2>1. RedisType'
    BY <1>16 DEF Terminate, RedisType, Pending
  <2>2. DatabaseType'
    BY <1>16 DEF Terminate, DatabaseType, RedisType
  <2>3. WorkerType' /\ GroupInv'
    BY <1>16 DEF Terminate, WorkerType, RedisType, GroupInv, PCs
  <2>4. QED
    BY <1>0, <2>1, <2>2, <2>3
<1>17. QED
  BY <1>1, <1>2, <1>3, <1>4, <1>5, <1>6, <1>7, <1>8, <1>9, <1>10, <1>11, <1>12, <1>13, <1>14, <1>15, <1>16 DEF WorkerStep

(* Every step of a relay keeps the types. *)
LEMMA RelayStepType ==
  ASSUME TypeOK, GroupInv, NEW r \in Relays, RelayStep(r) \/ RelayFails(r)
  PROVE  TypeOK' /\ GroupInv'
<1> USE DEF TypeOK, database, redis, relay, worker
<1>1. CASE SelectRows(r)
  <2>0. \A R \in OldestRows(Selectable) : R \in SUBSET Events
    BY OldestRowsSubset DEF Selectable
  <2>1. RedisType'
    BY <1>1, <2>0 DEF SelectRows, RedisType, Pending
  <2>2. DatabaseType'
    BY <1>1, <2>0 DEF SelectRows, DatabaseType, RedisType
  <2>3. RelayType'
    BY <1>1, <2>0 DEF SelectRows, RelayType
  <2>4. WorkerType' /\ GroupInv'
    BY <1>1, <2>0 DEF SelectRows, WorkerType, RedisType, GroupInv, PCs
  <2>5. QED
    BY <2>1, <2>2, <2>3, <2>4
<1>2. CASE XAddRow(r)
  <2>1. RedisType'
    <3>1. PICK e \in held[r] \ sent[r] : stream' = Append(stream, e)
      BY <1>2 DEF XAddRow
    <3>2. e \in Entries
      BY <3>1 DEF RelayType, Entries
    <3>3. stream' \in Seq(Entries) /\ Len(stream') = Len(stream) + 1
      BY <3>1, <3>2 DEF RedisType
    <3>4. QED
      BY <1>2, <3>3 DEF XAddRow, RedisType, Pending
  <2>2. DatabaseType'
    BY <1>2 DEF XAddRow, DatabaseType, RedisType
  <2>3. RelayType'
    BY <1>2 DEF XAddRow, RelayType
  <2>4. WorkerType' /\ GroupInv'
    BY <1>2 DEF XAddRow, WorkerType, RedisType, GroupInv, PCs
  <2>5. QED
    BY <2>1, <2>2, <2>3, <2>4
<1>3. CASE CommitRows(r)
  <2>1. RedisType'
    BY <1>3 DEF CommitRows, RedisType, Pending
  <2>2. DatabaseType'
    BY <1>3 DEF CommitRows, DatabaseType, RedisType
  <2>3. RelayType'
    BY <1>3 DEF CommitRows, RelayType
  <2>4. WorkerType' /\ GroupInv'
    BY <1>3 DEF CommitRows, WorkerType, RedisType, GroupInv, PCs
  <2>5. QED
    BY <2>1, <2>2, <2>3, <2>4
<1>4. CASE RelayFails(r)
  <2>1. RedisType'
    BY <1>4 DEF RelayFails, RedisType, Pending
  <2>2. DatabaseType'
    BY <1>4 DEF RelayFails, DatabaseType, RedisType
  <2>3. RelayType'
    BY <1>4 DEF RelayFails, RelayType
  <2>4. WorkerType' /\ GroupInv'
    BY <1>4 DEF RelayFails, WorkerType, RedisType, GroupInv, PCs
  <2>5. QED
    BY <2>1, <2>2, <2>3, <2>4
<1>5. QED
  BY <1>1, <1>2, <1>3, <1>4 DEF RelayStep

(* Every step of a producer or of the idle clock keeps the types. *)
LEMMA EnvironmentStepType ==
  ASSUME TypeOK, GroupInv,
         \/ \E e \in Events : Accept(e)
         \/ \E x \in Foreign : Inject(x)
         \/ \E m \in Ids : IdleElapses(m)
  PROVE  TypeOK' /\ GroupInv'
<1> USE DEF TypeOK, database, redis, relay, worker
<1>1. ASSUME NEW e \in Events, Accept(e) PROVE TypeOK' /\ GroupInv'
  BY <1>1 DEF Accept, DatabaseType, RedisType, RelayType, WorkerType, GroupInv, Pending
<1>2. ASSUME NEW x \in Foreign, Inject(x) PROVE TypeOK' /\ GroupInv'
  <2>1. stream' \in Seq(Entries) /\ Len(stream') = Len(stream) + 1
    BY <1>2 DEF Inject, RedisType, Entries
  <2>2. RedisType'
    BY <1>2, <2>1 DEF Inject, RedisType, Pending
  <2>3. QED
    BY <1>2, <2>2 DEF Inject, DatabaseType, RelayType, WorkerType, GroupInv
<1>3. ASSUME NEW m \in Ids, IdleElapses(m) PROVE TypeOK' /\ GroupInv'
  BY <1>3 DEF IdleElapses, DatabaseType, RedisType, RelayType, WorkerType, GroupInv, Pending
<1>4. QED
  BY <1>1, <1>2, <1>3

(* Stuttering changes nothing the invariants mention. *)
LEMMA NextType == TypeOK /\ GroupInv /\ [Next]_vars => TypeOK' /\ GroupInv'
<1> SUFFICES ASSUME TypeOK, GroupInv, [Next]_vars PROVE TypeOK' /\ GroupInv'
  OBVIOUS
<1>1. CASE UNCHANGED vars
  BY <1>1 DEF vars, database, redis, relay, worker, TypeOK, DatabaseType, RedisType,
              RelayType, WorkerType, GroupInv, Pending
<1>2. QED
  BY <1>1, EnvironmentStepType, RelayStepType, WorkerStepType DEF Next

(* Type correctness: in every reachable state the group's cursor, its      *)
(* pending entries and the entries a worker handles lie in the stream.     *)
THEOREM TypeCorrect == Spec => []TypeOK
<1>1. Spec => [](TypeOK /\ GroupInv)
  BY InitType, NextType, PTL DEF Spec
<1>2. QED
  BY <1>1, PTL

-----------------------------------------------------------------------------
(* The stream and the relays. *)

(* Entries are never removed from the stream nor changed. *)
LEMMA StreamGrows ==
  ASSUME TypeOK, [Next]_vars
  PROVE  \A m \in Ids : m \in Ids' /\ stream'[m] = stream[m]
<1>1. CASE UNCHANGED stream
  BY <1>1 DEF Ids
<1>2. ASSUME NEW x, stream' = Append(stream, x)
      PROVE  \A m \in Ids : m \in Ids' /\ stream'[m] = stream[m]
  BY <1>2 DEF TypeOK, RedisType, Ids
<1>3. QED
  BY <1>1, <1>2
     DEF Next, vars, redis, RelayStep, WorkerStep, Accept, Inject, SelectRows, XAddRow,
         CommitRows, RelayFails, Start, Exit, Claim, Read, Handle, InsertProcessed,
         ApplyEvent, RejectEvent, OrphanEscapes, Ack, CheckAttempts, DeadLetterXAdd,
         DeadLetterRow, DeadLetterAck, WorkerCrashes, Terminate, IdleElapses

(* Every published row is in the stream. *)
PublishedInStream == \A e \in Events : outbox[e] = "published" => InStream(e)

(* The relays and the producers keep what is known of the outbox and the   *)
(* stream.                                                                 *)
LEMMA RelayStepInv ==
  ASSUME TypeOK, TypeOK', RelayInv, StreamInv, [Next]_vars,
         NEW r \in Relays, RelayStep(r) \/ RelayFails(r)
  PROVE  RelayInv' /\ StreamInv' /\ (PublishedInStream => PublishedInStream')
<1>0. \A x : InStream(x) => InStream(x)'
  BY StreamGrows DEF InStream
<1>1. CASE SelectRows(r)
  <2>1. PICK R : R \subseteq Selectable /\ held' = [held EXCEPT ![r] = R]
    BY <1>1, OldestRowsSubset DEF SelectRows
  <2>2. \A q \in Relays : R \cap held[q] = {}
    BY <2>1 DEF Selectable, Locked
  <2>3. \A q \in Relays : held'[q] = IF q = r THEN R ELSE held[q]
    BY <2>1 DEF TypeOK, RelayType
  <2>4. held[r] = {} /\ sent' = sent /\ outbox' = outbox /\ stream' = stream
    BY <1>1 DEF SelectRows, database, redis
  <2>5. RelayInv'
    BY <2>1, <2>2, <2>3, <2>4 DEF RelayInv, Selectable, InStream, Ids
  <2>6. QED
    BY <2>4, <2>5 DEF StreamInv, PublishedInStream, InStream, Ids
<1>2. CASE XAddRow(r)
  <2>1. PICK e \in held[r] \ sent[r] : /\ stream' = Append(stream, e)
                                       /\ sent' = [sent EXCEPT ![r] = @ \cup {e}]
    BY <1>2 DEF XAddRow
  <2>2. held' = held /\ outbox' = outbox
    BY <1>2 DEF XAddRow, database
  <2>3. InStream(e)'
    <3>1. Len(stream) + 1 \in Ids' /\ stream'[Len(stream) + 1] = e
      BY <2>1 DEF Ids, TypeOK, RedisType
    <3>2. QED
      BY <3>1 DEF InStream
  <2>4. \A x \in Events : InStream(x)' => InStream(x) \/ x = e
    BY <2>1 DEF InStream, Ids, TypeOK, RedisType
  <2>5. \A q \in Relays : sent'[q] = IF q = r THEN sent[r] \cup {e} ELSE sent[q]
    BY <2>1 DEF TypeOK, RelayType
  <2>6. RelayInv'
    BY <1>0, <2>2, <2>3, <2>5 DEF RelayInv
  <2>7. StreamInv' /\ (PublishedInStream => PublishedInStream')
    BY <1>0, <2>2, <2>4 DEF StreamInv, PublishedInStream, RelayInv
  <2>8. QED
    BY <2>6, <2>7
<1>3. CASE CommitRows(r)
  <2>1. stream' = stream /\ \A x : InStream(x)' <=> InStream(x)
    BY <1>3 DEF CommitRows, redis, InStream, Ids
  <2>2. /\ \A q \in Relays : held'[q] = IF q = r THEN {} ELSE held[q]
        /\ \A q \in Relays : sent'[q] = IF q = r THEN {} ELSE sent[q]
    BY <1>3 DEF CommitRows, TypeOK, RelayType
  <2>3. \A e \in Events : outbox'[e] = IF e \in held[r] THEN "published" ELSE outbox[e]
    BY <1>3 DEF CommitRows
  <2>4. held[r] = sent[r] /\ \A q \in Relays : held[q] \subseteq Events
    BY <1>3 DEF CommitRows, TypeOK, RelayType
  <2>5. RelayInv'
    BY <2>1, <2>2, <2>3, <2>4 DEF RelayInv
  <2>6. StreamInv' /\ (PublishedInStream => PublishedInStream')
    BY <2>1, <2>3, <2>4 DEF StreamInv, PublishedInStream, RelayInv
  <2>7. QED
    BY <2>5, <2>6
<1>4. CASE RelayFails(r)
  BY <1>4 DEF RelayFails, database, redis, RelayInv, StreamInv, PublishedInStream, InStream, Ids, TypeOK,
              RelayType
<1>5. QED
  BY <1>1, <1>2, <1>3, <1>4 DEF RelayStep

(* So do all other steps. *)
LEMMA NextRelayInv ==
  ASSUME TypeOK, TypeOK', RelayInv, StreamInv, [Next]_vars
  PROVE  RelayInv' /\ StreamInv' /\ (PublishedInStream => PublishedInStream')
<1>0. \A x : InStream(x) => InStream(x)'
  BY StreamGrows DEF InStream
<1>1. ASSUME NEW e \in Events, Accept(e) PROVE RelayInv' /\ StreamInv' /\ (PublishedInStream => PublishedInStream')
  BY <1>1 DEF Accept, redis, relay, RelayInv, StreamInv, PublishedInStream, InStream, Ids, TypeOK, DatabaseType,
              RelayType
<1>2. ASSUME NEW x \in Foreign, Inject(x) PROVE RelayInv' /\ StreamInv' /\ (PublishedInStream => PublishedInStream')
  <2>1. \A e \in Events : InStream(e)' => InStream(e)
    BY <1>2 DEF Inject, InStream, Ids, TypeOK, RedisType
  <2>2. QED
    BY <1>0, <1>2, <2>1 DEF Inject, database, relay, RelayInv, StreamInv, PublishedInStream, TypeOK, RelayType
<1>3. CASE UNCHANGED <<outbox, stream, held, sent>>
  BY <1>3 DEF RelayInv, StreamInv, PublishedInStream, InStream, Ids
<1>4. QED
  BY <1>1, <1>2, <1>3, RelayStepInv
     DEF Next, vars, database, redis, relay, WorkerStep, Start, Exit, Claim, Read, Handle,
         InsertProcessed, ApplyEvent, RejectEvent, OrphanEscapes, Ack, CheckAttempts,
         DeadLetterXAdd, DeadLetterRow, DeadLetterAck, WorkerCrashes, Terminate,
         IdleElapses

(* The copies of an event are positions of the stream: finitely many. *)
LEMMA CopiesFinite ==
  ASSUME TypeOK, NEW e PROVE IsFiniteSet(Copies(e)) /\ Cardinality(Copies(e)) \in Nat
<1>1. Len(stream) \in Nat
  BY DEF TypeOK, RedisType
<1>2. IsFiniteSet(Ids)
  BY <1>1, FS_Interval DEF Ids
<1>3. Copies(e) \subseteq Ids
  BY DEF Copies
<1>4. QED
  BY <1>2, <1>3, FS_Subset, FS_CardinalityType

(* A copy is added only for a row that no open publication has sent and    *)
(* that is not published, and only a failure takes the mark off a row: the *)
(* locks keep publications apart.                                          *)
LEMMA NextCopies ==
  ASSUME TypeOK, TypeOK', RelayInv, CopiesInv, [Next]_vars
  PROVE  CopiesInv'
<1> SUFFICES ASSUME NEW e \in Events
             PROVE  Cardinality(Copies(e)') <= relayFaults' + (IF Sent(e)' THEN 1 ELSE 0)
  BY DEF CopiesInv
<1>0. /\ relayFaults \in Nat /\ relayFaults' \in Nat
      /\ IsFiniteSet(Copies(e)) /\ Cardinality(Copies(e)) \in Nat
      /\ Cardinality(Copies(e)) <= relayFaults + (IF Sent(e) THEN 1 ELSE 0)
  BY CopiesFinite DEF CopiesInv, TypeOK, RelayType
<1>1. CASE Copies(e)' = Copies(e) /\ relayFaults' = relayFaults /\ (Sent(e) => Sent(e)')
  BY <1>0, <1>1
<1>2. ASSUME NEW r \in Relays, RelayFails(r)
      PROVE  Copies(e)' = Copies(e) /\ relayFaults' = relayFaults + 1
  BY <1>2 DEF RelayFails, redis, Copies, Ids
<1>3. ASSUME NEW r \in Relays, XAddRow(r)
      PROVE  Cardinality(Copies(e)') <= relayFaults' + (IF Sent(e)' THEN 1 ELSE 0)
  <2>1. PICK f \in held[r] \ sent[r] : /\ stream' = Append(stream, f)
                                       /\ sent' = [sent EXCEPT ![r] = @ \cup {f}]
    BY <1>3 DEF XAddRow
  <2>2. relayFaults' = relayFaults /\ outbox' = outbox
    BY <1>3 DEF XAddRow, database
  <2>3. /\ Len(stream) \in Nat
        /\ Ids' = Ids \cup {Len(stream) + 1}
        /\ \A m \in Ids : stream'[m] = stream[m]
        /\ stream'[Len(stream) + 1] = f
    BY <2>1 DEF TypeOK, RedisType, Ids
  <2>4. \A q \in Relays : sent'[q] = IF q = r THEN sent[r] \cup {f} ELSE sent[q]
    BY <2>1 DEF TypeOK, RelayType
  <2>5. CASE e # f
    <3>1. Copies(e)' = Copies(e)
      BY <2>3, <2>5 DEF Copies
    <3>2. Sent(e) => Sent(e)'
      BY <2>2, <2>4 DEF Sent
    <3>3. QED
      BY <1>1, <2>2, <3>1, <3>2
  <2>6. CASE e = f
    <3>1. ~Sent(e)
      BY <2>1, <2>6 DEF Sent, RelayInv
    <3>2. Sent(e)'
      BY <2>4, <2>6 DEF Sent
    <3>3. Copies(e)' = Copies(e) \cup {Len(stream) + 1} /\ Len(stream) + 1 \notin Copies(e)
      BY <2>3, <2>6 DEF Copies, Ids
    <3>4. Cardinality(Copies(e)') = Cardinality(Copies(e)) + 1
      BY <1>0, <3>3, FS_AddElement
    <3>5. QED
      BY <1>0, <2>2, <3>1, <3>2, <3>4
  <2>7. QED
    BY <2>5, <2>6
<1>4. ASSUME NEW x \in Foreign, Inject(x)
      PROVE  Copies(e)' = Copies(e) /\ relayFaults' = relayFaults /\ (Sent(e) => Sent(e)')
  <2>1. Copies(e)' = Copies(e)
    BY <1>4 DEF Inject, Copies, Ids, TypeOK, RedisType
  <2>2. QED
    BY <1>4, <2>1 DEF Inject, database, relay, Sent
<1>5. ASSUME NEW r \in Relays, CommitRows(r)
      PROVE  Copies(e)' = Copies(e) /\ relayFaults' = relayFaults /\ (Sent(e) => Sent(e)')
  <2>1. stream' = stream /\ relayFaults' = relayFaults /\ held[r] = sent[r]
    BY <1>5 DEF CommitRows, redis
  <2>2. /\ \A q \in Relays : sent'[q] = IF q = r THEN {} ELSE sent[q]
        /\ outbox'[e] = IF e \in held[r] THEN "published" ELSE outbox[e]
    BY <1>5 DEF CommitRows, TypeOK, RelayType
  <2>3. QED
    BY <2>1, <2>2 DEF Sent, Copies, Ids
<1>6. ASSUME NEW f \in Events, Accept(f)
      PROVE  Copies(e)' = Copies(e) /\ relayFaults' = relayFaults /\ (Sent(e) => Sent(e)')
  BY <1>6 DEF Accept, redis, relay, Sent, Copies, Ids, TypeOK, DatabaseType
<1>7. CASE UNCHANGED <<stream, relayFaults, sent, outbox>>
  BY <1>1, <1>7 DEF Sent, Copies, Ids
<1>8. QED
  BY <1>0, <1>1, <1>2, <1>3, <1>4, <1>5, <1>6, <1>7
     DEF Next, vars, database, redis, relay, RelayStep, WorkerStep, SelectRows, Start, Exit,
         Claim, Read, Handle, InsertProcessed, ApplyEvent, RejectEvent, OrphanEscapes, Ack,
         CheckAttempts, DeadLetterXAdd, DeadLetterRow, DeadLetterAck, WorkerCrashes,
         Terminate, IdleElapses

(* The bound on the copies of an event is what CopiesInv says of it. *)
LEMMA CopiesBound == TypeOK /\ CopiesInv => CopiesBoundedByFailures
<1> SUFFICES ASSUME TypeOK, CopiesInv, NEW e \in Events
             PROVE  Cardinality(Copies(e)) <= 1 + relayFaults
  BY DEF CopiesBoundedByFailures
<1>1. relayFaults \in Nat /\ Cardinality(Copies(e)) \in Nat
  BY CopiesFinite DEF TypeOK, RelayType
<1>2. QED
  BY <1>1 DEF CopiesInv

-----------------------------------------------------------------------------
(* The workers. *)

(* The effects of the processed events. *)
EffectsInv == EffectsExactlyOnce /\ EffectsMatchProcessed /\ OnlyAcceptedApplied

(* Only the commit of process_event touches the effects, and it commits an *)
(* accepted event that is not yet processed.                               *)
LEMMA NextEffects ==
  ASSUME TypeOK, WorkerInv, StreamInv, EffectsInv, [Next]_vars
  PROVE  EffectsInv'
<1> USE DEF EffectsInv
<1>0. \A e \in Events : outbox[e] # "absent" => outbox'[e] # "absent"
  BY DEF Next, vars, database, RelayStep, WorkerStep, Accept, Inject, SelectRows, XAddRow,
         CommitRows, RelayFails, Start, Exit, Claim, Read, Handle, InsertProcessed,
         ApplyEvent, RejectEvent, OrphanEscapes, Ack, CheckAttempts, DeadLetterXAdd,
         DeadLetterRow, DeadLetterAck, WorkerCrashes, Terminate, IdleElapses, TypeOK,
         DatabaseType
<1>1. ASSUME NEW w \in Workers, ApplyEvent(w) PROVE EffectsInv'
  <2> DEFINE e == Entry(w)
             a == Batch[e].agent
  <2>1. e \in Events /\ e \notin processed /\ a \in Agents
    BY <1>1 DEF ApplyEvent, WorkerInv
  <2>2. e \in Accepted
    BY <1>1, <2>1, HandledIsDelivered DEF ApplyEvent, StreamInv, InStream, Entry, Accepted
  <2>3. /\ processed' = processed \cup {e}
        /\ fleetState' = [fleetState EXCEPT ![a] = e]
        /\ incidents' = incidents \cup ({a} \X Conditions(e))
        /\ applied' = [applied EXCEPT ![e] = @ + 1]
        /\ outbox' = outbox
    BY <1>1 DEF ApplyEvent
  <2> HIDE DEF e, a
  <2>4. EffectsExactlyOnce'
    BY <2>1, <2>3 DEF EffectsExactlyOnce, TypeOK, DatabaseType
  <2>5. OnlyAcceptedApplied'
    BY <2>2, <2>3 DEF OnlyAcceptedApplied, Accepted
  <2>6. incidents' = UNION {{Batch[f].agent} \X Conditions(f) : f \in processed'}
    BY <2>3 DEF EffectsMatchProcessed, a
  <2>7. ASSUME NEW b \in Agents
        PROVE  IF \E f \in processed' : Batch[f].agent = b
                 THEN fleetState'[b] \in processed' /\ Batch[fleetState'[b]].agent = b
                 ELSE fleetState'[b] = NoBatch
    BY <2>1, <2>3 DEF EffectsMatchProcessed, TypeOK, DatabaseType, a
  <2>8. EffectsMatchProcessed'
    BY <2>6, <2>7 DEF EffectsMatchProcessed
  <2>9. QED
    BY <2>4, <2>5, <2>8
<1>2. CASE UNCHANGED <<processed, fleetState, incidents, applied>>
  BY <1>0, <1>2 DEF EffectsExactlyOnce, EffectsMatchProcessed, OnlyAcceptedApplied, Accepted,
                    TypeOK, DatabaseType
<1>3. QED
  BY <1>1, <1>2
     DEF Next, vars, database, RelayStep, WorkerStep, Accept, Inject, SelectRows, XAddRow,
         CommitRows, RelayFails, Start, Exit, Claim, Read, Handle, InsertProcessed,
         RejectEvent, OrphanEscapes, Ack, CheckAttempts, DeadLetterXAdd,
         DeadLetterRow, DeadLetterAck, WorkerCrashes, Terminate, IdleElapses

(* What happens to a pending-entries list in one step: entries are counted *)
(* up to the limit, delivered for the first time, or acknowledged by the   *)
(* worker that has settled them.                                           *)
LEMMA PelSteps ==
  ASSUME TypeOK, GroupInv, [Next]_vars
  PROVE  /\ \A m \in 1 .. lastDelivered :
              /\ m \in 1 .. lastDelivered'
              /\ pel[m] \in {0, MaxDelivery} => pel'[m] \in {0, MaxDelivery}
         /\ \A m \in 1 .. lastDelivered' : pel'[m] = 0 =>
              \/ m \in 1 .. lastDelivered /\ pel[m] = 0
              \/ \E w \in Workers : pc[w] \in {"ack", "dlack"} /\ msg[w] = m
<1> DEFINE Goal ==
         /\ \A m \in 1 .. lastDelivered :
              /\ m \in 1 .. lastDelivered'
              /\ pel[m] \in {0, MaxDelivery} => pel'[m] \in {0, MaxDelivery}
         /\ \A m \in 1 .. lastDelivered' : pel'[m] = 0 =>
              \/ m \in 1 .. lastDelivered /\ pel[m] = 0
              \/ \E w \in Workers : pc[w] \in {"ack", "dlack"} /\ msg[w] = m
<1>1. CASE UNCHANGED <<lastDelivered, pel>>
  BY <1>1
<1>2. ASSUME NEW w \in Workers, Start(w) PROVE Goal
  BY <1>2 DEF Start, GroupInv, TypeOK, RedisType
<1>3. ASSUME NEW w \in Workers, Claim(w) PROVE Goal
  <2>1. FirstOf(idle, ReadCount) \subseteq Pending
    BY FirstOfSubset DEF TypeOK, RedisType
  <2>2. QED
    BY <1>3, <2>1 DEF Claim, Pending, TypeOK, RedisType
<1>4. ASSUME NEW w \in Workers, Read(w) PROVE Goal
  BY <1>4 DEF Read, TypeOK, RedisType
<1>5. ASSUME NEW w \in Workers, Ack(w) \/ DeadLetterAck(w) PROVE Goal
  BY <1>5 DEF Ack, DeadLetterAck, XAck, TypeOK, RedisType
<1>6. QED
  BY <1>1, <1>2, <1>3, <1>4, <1>5
     DEF Next, vars, redis, RelayStep, WorkerStep, Accept, Inject, SelectRows, XAddRow,
         CommitRows, RelayFails, Exit, Handle, InsertProcessed, ApplyEvent,
         RejectEvent, OrphanEscapes, CheckAttempts, DeadLetterXAdd,
         DeadLetterRow, WorkerCrashes, Terminate, IdleElapses

(* Nothing recorded as processed or dead-lettered is ever forgotten. *)
LEMMA RecordsGrow ==
  ASSUME [Next]_vars
  PROVE  processed \subseteq processed' /\ dlq \subseteq dlq' /\ deadLetters \subseteq deadLetters'
  BY DEF Next, vars, database, redis, RelayStep, WorkerStep, Accept, Inject, SelectRows, XAddRow,
         CommitRows, RelayFails, Start, Exit, Claim, Read, Handle, InsertProcessed,
         ApplyEvent, RejectEvent, OrphanEscapes, Ack, CheckAttempts, DeadLetterXAdd,
         DeadLetterRow, DeadLetterAck, WorkerCrashes, Terminate, IdleElapses

(* An entry becomes acknowledged only after it is settled. *)
LEMMA NextSettled ==
  ASSUME TypeOK, GroupInv, WorkerInv, AckedMeansSettled, [Next]_vars
  PROVE  AckedMeansSettled'
<1> SUFFICES ASSUME NEW m \in 1 .. lastDelivered', pel'[m] = 0
             PROVE  \/ stream'[m] \in processed'
                    \/ m \in dlq' /\ m \in deadLetters' /\ stream'[m] \in Foreign
  BY DEF AckedMeansSettled, Acked
<1>1. CASE m \in 1 .. lastDelivered /\ pel[m] = 0
  <2>1. stream'[m] = stream[m]
    BY <1>1, StreamGrows DEF TypeOK, RedisType, Ids
  <2>2. QED
    BY <1>1, <2>1, RecordsGrow DEF AckedMeansSettled, Acked
<1>2. ASSUME NEW w \in Workers, pc[w] \in {"ack", "dlack"}, msg[w] = m
      PROVE  \/ stream'[m] \in processed'
             \/ m \in dlq' /\ m \in deadLetters' /\ stream'[m] \in Foreign
  <2>1. stream'[m] = Entry(w)
    BY <1>2, HandledIsDelivered, StreamGrows DEF Entry
  <2>2. QED
    BY <1>2, <2>1, RecordsGrow DEF WorkerInv, Foreign
<1>3. QED
  BY <1>1, <1>2, PelSteps

(* What a dead letter names stays delivered. *)
LEMMA NextDeadLetters ==
  ASSUME TypeOK, GroupInv, deadLetters \subseteq 1 .. lastDelivered, [Next]_vars
  PROVE  deadLetters' \subseteq 1 .. lastDelivered'
<1>1. \A m \in deadLetters' : \/ m \in deadLetters
                              \/ \E w \in Workers : pc[w] = "row" /\ msg[w] = m
  BY DEF Next, vars, database, RelayStep, WorkerStep, Accept, Inject, SelectRows, XAddRow,
         CommitRows, RelayFails, Start, Exit, Claim, Read, Handle, InsertProcessed,
         ApplyEvent, RejectEvent, OrphanEscapes, Ack, CheckAttempts, DeadLetterXAdd,
         DeadLetterRow, DeadLetterAck, WorkerCrashes, Terminate, IdleElapses
<1>2. \A m \in deadLetters' : m \in 1 .. lastDelivered
  BY <1>1, HandledIsDelivered
<1>3. QED
  BY <1>2, PelSteps

(* A dead-lettered entry has used up its deliveries. *)
LEMMA NextNoEarlyDeadLetter ==
  ASSUME TypeOK, GroupInv, WorkerInv, RetentionInv, NoEarlyDeadLetter, [Next]_vars
  PROVE  NoEarlyDeadLetter'
<1> SUFFICES ASSUME NEW m \in dlq' \cup deadLetters'
             PROVE  /\ stream'[m] \in Malformed \cup Unsupported
                    /\ pel'[m] \in {0, MaxDelivery}
  BY DEF NoEarlyDeadLetter
<1>1. \/ m \in dlq \cup deadLetters
      \/ \E w \in Workers : pc[w] \in {"dlq", "row"} /\ msg[w] = m
  BY DEF Next, vars, database, redis, RelayStep, WorkerStep, Accept, Inject, SelectRows, XAddRow,
         CommitRows, RelayFails, Start, Exit, Claim, Read, Handle, InsertProcessed,
         ApplyEvent, RejectEvent, OrphanEscapes, Ack, CheckAttempts, DeadLetterXAdd,
         DeadLetterRow, DeadLetterAck, WorkerCrashes, Terminate, IdleElapses
<1>2. /\ m \in 1 .. lastDelivered
      /\ stream[m] \in Malformed \cup Unsupported
      /\ pel[m] \in {0, MaxDelivery}
  <2>1. CASE m \in dlq \cup deadLetters
    BY <2>1 DEF NoEarlyDeadLetter, RetentionInv, TypeOK, RedisType
  <2>2. CASE \E w \in Workers : pc[w] \in {"dlq", "row"} /\ msg[w] = m
    BY <2>2, HandledIsDelivered DEF WorkerInv, Entry
  <2>3. QED
    BY <1>1, <2>1, <2>2
<1>3. stream'[m] = stream[m]
  BY <1>2, StreamGrows DEF TypeOK, RedisType, Ids
<1>4. QED
  BY <1>2, <1>3, PelSteps

(* A step leaves an acknowledged entry acknowledged. *)
LEMMA AckedStays ==
  ASSUME TypeOK, GroupInv, [Next]_vars, NEW m \in 1 .. lastDelivered, Acked(m)
  PROVE  m <= lastDelivered' /\ pel'[m] = 0
<1> USE DEF TypeOK, RedisType, WorkerType
<1>1. pel[m] = 0 /\ m \notin idle
  BY DEF Acked, Pending
<1>2. CASE UNCHANGED <<lastDelivered, pel>>
  BY <1>1, <1>2
<1>3. ASSUME NEW w \in Workers, Start(w) PROVE lastDelivered' = lastDelivered /\ pel' = pel
  BY <1>3 DEF Start, GroupInv
<1>4. ASSUME NEW w \in Workers, Claim(w) PROVE m <= lastDelivered' /\ pel'[m] = 0
  <2>1. m \notin FirstOf(idle, ReadCount)
    BY <1>1, FirstOfSubset
  <2>2. QED
    BY <1>1, <1>4, <2>1 DEF Claim
<1>5. ASSUME NEW w \in Workers, Read(w) PROVE m <= lastDelivered' /\ pel'[m] = 0
  BY <1>1, <1>5 DEF Read
<1>6. ASSUME NEW w \in Workers, Ack(w) \/ DeadLetterAck(w)
      PROVE  lastDelivered' = lastDelivered /\ pel'[m] = 0
  BY <1>1, <1>6 DEF Ack, DeadLetterAck, XAck
<1>7. QED
  BY <1>1, <1>2, <1>3, <1>4, <1>5, <1>6
     DEF Next, vars, redis, RelayStep, WorkerStep, Accept, Inject, SelectRows, XAddRow,
         CommitRows, RelayFails, Exit, Handle, InsertProcessed, ApplyEvent, RejectEvent,
         OrphanEscapes, CheckAttempts, DeadLetterXAdd, DeadLetterRow, WorkerCrashes,
         Terminate, IdleElapses

(* WorkerInv for one worker, and for two. *)
Placed(w) ==
    /\ pc[w] = "ack" => Entry(w) \in processed
    /\ pc[w] = "apply" => Entry(w) \notin processed
    /\ pc[w] \in {"attempts", "dlq", "row", "dlack"}
         => Entry(w) \in Malformed \cup Unsupported
    /\ pc[w] \in {"dlq", "row", "dlack"} => pel[msg[w]] \in {0, MaxDelivery}
    /\ pc[w] \in {"row", "dlack"} => msg[w] \in dlq
    /\ pc[w] = "dlack" => msg[w] \in deadLetters

Apart(v, w) ==
    v # w /\ pc[v] = "apply" /\ pc[w] = "apply" => Entry(v) # Entry(w)

(* The entry a worker handles stays the same while it stays in place. *)
LEMMA EntryKept ==
  ASSUME TypeOK, [Next]_vars, NEW v \in Workers,
         pc[v] \notin {"down", "idle"}, msg'[v] = msg[v]
  PROVE  Entry(v)' = Entry(v)
  BY HandledIsDelivered, StreamGrows DEF Entry

(* Other processes cannot invalidate what a worker relies on: the insert   *)
(* into processed_events locks out a second transaction for the event.     *)
LEMMA UnmovedPlaced ==
  ASSUME TypeOK, GroupInv, WorkerInv, [Next]_vars,
         NEW v \in Workers, pc'[v] = pc[v], msg'[v] = msg[v]
  PROVE  Placed(v)'
<1>1. Placed(v)
  BY DEF WorkerInv, Placed
<1>2. CASE pc[v] \in {"down", "idle"}
  BY <1>2 DEF Placed
<1>3. CASE pc[v] \notin {"down", "idle"}
  <2>1. Entry(v)' = Entry(v) /\ msg[v] \in 1 .. lastDelivered
    BY <1>3, EntryKept, HandledIsDelivered
  <2>2. pc[v] = "apply" => Entry(v) \notin processed'
    <3>1. CASE processed' = processed
      BY <1>1, <3>1 DEF Placed
    <3>2. ASSUME NEW w \in Workers, ApplyEvent(w), pc[v] = "apply"
          PROVE  Entry(v) \notin processed'
      <4>1. v # w
        BY <3>2 DEF ApplyEvent, TypeOK, WorkerType, PCs
      <4>2. Entry(v) # Entry(w)
        BY <3>2, <4>1 DEF ApplyEvent, WorkerInv
      <4>3. QED
        BY <1>1, <3>2, <4>2 DEF ApplyEvent, Placed
    <3>3. QED
      BY <3>1, <3>2
         DEF Next, vars, database, RelayStep, WorkerStep, Accept, Inject, SelectRows, XAddRow,
             CommitRows, RelayFails, Start, Exit, Claim, Read, Handle, InsertProcessed,
             RejectEvent, OrphanEscapes, Ack, CheckAttempts, DeadLetterXAdd,
             DeadLetterRow, DeadLetterAck, WorkerCrashes, Terminate, IdleElapses
  <2>3. pel[msg[v]] \in {0, MaxDelivery} => pel'[msg[v]] \in {0, MaxDelivery}
    BY <2>1, PelSteps
  <2>4. QED
    BY <1>1, <2>1, <2>2, <2>3, RecordsGrow DEF Placed
<1>4. QED
  BY <1>2, <1>3

(* A worker's own step leaves it where what it relies on holds. *)
LEMMA MovedPlaced ==
  ASSUME TypeOK, TypeOK', GroupInv, WorkerInv, [Next]_vars, NEW w \in Workers,
         WorkerStep(w) \/ WorkerCrashes(w) \/ Terminate(w)
  PROVE  /\ Placed(w)'
         /\ \A v \in Workers : v # w => pc'[v] = pc[v] /\ msg'[v] = msg[v]
         /\ pc'[w] = "apply" => msg'[w] = msg[w] /\ (pc[w] = "apply" \/ InsertProcessed(w))
<1> DEFINE Goal ==
         /\ Placed(w)'
         /\ \A v \in Workers : v # w => pc'[v] = pc[v] /\ msg'[v] = msg[v]
         /\ pc'[w] = "apply" => msg'[w] = msg[w] /\ (pc[w] = "apply" \/ InsertProcessed(w))
<1> USE DEF TypeOK, WorkerType, worker
<1>1. Placed(w)
  BY DEF WorkerInv, Placed
<1>2. CASE pc'[w] \in {"down", "idle"} /\ \A v \in Workers : v # w => pc'[v] = pc[v] /\ msg'[v] = msg[v]
  BY <1>2 DEF Placed
<1>3. CASE Start(w) \/ Exit(w) \/ OrphanEscapes(w) \/ WorkerCrashes(w)
  BY <1>2, <1>3 DEF Start, Exit, OrphanEscapes, WorkerCrashes, Die
<1>4. CASE Claim(w) \/ Read(w) \/ Terminate(w)
  BY <1>4, UnmovedPlaced DEF Claim, Read, Terminate
<1>5. CASE Ack(w) \/ DeadLetterAck(w)
  BY <1>2, <1>5 DEF Ack, DeadLetterAck, Done
<1>6. CASE Handle(w)
  <2>1. PICK m \in todo[w] :
          /\ msg' = [msg EXCEPT ![w] = m]
          /\ pc' = [pc EXCEPT ![w] = IF stream[m] \in Malformed THEN "attempts" ELSE "insert"]
    BY <1>6 DEF Handle
  <2>2. stream' = stream
    BY <1>6 DEF Handle, redis
  <2>3. QED
    BY <2>1, <2>2 DEF Placed, Entry
<1>7. CASE InsertProcessed(w)
  <2>1. Entry(w)' = Entry(w) /\ processed' = processed
    BY <1>7 DEF InsertProcessed, Entry, redis, database
  <2>2. QED
    BY <1>7, <2>1 DEF InsertProcessed, Placed
<1>8. CASE ApplyEvent(w)
  <2>1. Entry(w)' = Entry(w) /\ Entry(w) \in processed'
    BY <1>8 DEF ApplyEvent, Entry, redis
  <2>2. QED
    BY <1>8, <2>1 DEF ApplyEvent, Placed
<1>9. CASE RejectEvent(w)
  <2>1. Entry(w)' = Entry(w)
    BY <1>9 DEF RejectEvent, Entry, redis
  <2>2. QED
    BY <1>9, <2>1 DEF RejectEvent, Placed
<1>10. CASE CheckAttempts(w)
  <2>1. CASE Done(w)
    BY <1>2, <1>10, <2>1 DEF Done
  <2>2. CASE /\ DeliveryAttempts(msg[w]) >= MaxDelivery
             /\ pc' = [pc EXCEPT ![w] = "dlq"]
             /\ UNCHANGED msg
    <3>1. Entry(w)' = Entry(w) /\ pel' = pel
      BY <1>10, <2>2 DEF CheckAttempts, Entry, redis
    <3>2. pel[msg[w]] \in {0, MaxDelivery}
      <4>1. msg[w] \in 1 .. lastDelivered
        BY <1>10, HandledIsDelivered DEF CheckAttempts
      <4>2. pel[msg[w]] \in 0 .. MaxDelivery
        BY <4>1 DEF RedisType
      <4>3. QED
        BY <2>2, <4>2 DEF DeliveryAttempts
    <3>3. QED
      BY <1>1, <1>10, <2>2, <3>1, <3>2 DEF CheckAttempts, Placed
  <2>3. QED
    BY <1>10, <2>1, <2>2 DEF CheckAttempts
<1>11. CASE DeadLetterXAdd(w)
  <2>1. Entry(w)' = Entry(w) /\ pel' = pel /\ msg[w] \in dlq'
    BY <1>11 DEF DeadLetterXAdd, Entry
  <2>2. QED
    BY <1>1, <1>11, <2>1 DEF DeadLetterXAdd, Placed
<1>12. CASE DeadLetterRow(w)
  <2>1. Entry(w)' = Entry(w) /\ pel' = pel /\ dlq' = dlq /\ msg[w] \in deadLetters'
    BY <1>12 DEF DeadLetterRow, Entry, redis
  <2>2. QED
    BY <1>1, <1>12, <2>1 DEF DeadLetterRow, Placed
<1>13. QED
  BY <1>3, <1>4, <1>5, <1>6, <1>7, <1>8, <1>9, <1>10, <1>11, <1>12 DEF WorkerStep

(* Every step keeps the workers' places consistent. *)
LEMMA NextWorkerInv ==
  ASSUME TypeOK, TypeOK', GroupInv, WorkerInv, [Next]_vars
  PROVE  WorkerInv'
<1> SUFFICES \A v, w \in Workers : Placed(v)' /\ Apart(v, w)'
  BY DEF WorkerInv, Placed, Apart
<1>1. ASSUME NEW v \in Workers, NEW w \in Workers, pc'[v] = pc[v], msg'[v] = msg[v],
             pc'[w] = pc[w], msg'[w] = msg[w]
      PROVE  Apart(v, w)'
  BY <1>1, EntryKept DEF Apart, WorkerInv
<1>2. CASE UNCHANGED <<pc, msg>>
  BY <1>1, <1>2, UnmovedPlaced
<1>3. ASSUME NEW u \in Workers, WorkerStep(u) \/ WorkerCrashes(u) \/ Terminate(u)
      PROVE  \A v, w \in Workers : Placed(v)' /\ Apart(v, w)'
  <2>1. \A v \in Workers : v # u => pc'[v] = pc[v] /\ msg'[v] = msg[v]
    BY <1>3, MovedPlaced
  <2>2. \A v \in Workers : Placed(v)'
    BY <1>3, <2>1, MovedPlaced, UnmovedPlaced
  <2>3. ASSUME NEW v \in Workers, v # u, pc'[u] = "apply", pc'[v] = "apply"
        PROVE  Entry(u)' # Entry(v)'
    <3>1. msg'[u] = msg[u] /\ (pc[u] = "apply" \/ InsertProcessed(u)) /\ pc[v] = "apply"
      BY <1>3, <2>1, <2>3, MovedPlaced
    <3>2. Entry(u)' = Entry(u) /\ Entry(v)' = Entry(v)
      BY <2>1, <2>3, <3>1, EntryKept DEF InsertProcessed
    <3>3. Entry(u) # Entry(v)
      BY <2>3, <3>1 DEF WorkerInv, InsertProcessed, InsertBlocked
    <3>4. QED
      BY <3>2, <3>3
  <2>4. QED
    BY <1>1, <2>1, <2>2, <2>3 DEF Apart
<1>4. QED
  BY <1>2, <1>3
     DEF Next, vars, worker, RelayStep, Accept, Inject, SelectRows, XAddRow, CommitRows,
         RelayFails, IdleElapses

-----------------------------------------------------------------------------
(* The theorems. *)

(* The empty stream has no copies. *)
LEMMA InitCopies == Init => CopiesInv
<1> SUFFICES ASSUME Init, NEW e \in Events
             PROVE  Cardinality(Copies(e)) <= relayFaults + (IF Sent(e) THEN 1 ELSE 0)
  BY DEF CopiesInv
<1>1. Copies(e) = {} /\ relayFaults = 0
  BY DEF Init, Copies, Ids
<1>2. Cardinality(Copies(e)) = 0
  BY <1>1, FS_EmptySet
<1>3. QED
  BY <1>1, <1>2

(* The inductive invariant holds initially: nothing is accepted, nothing   *)
(* is in the stream and every worker is down.                              *)
LEMMA InitInductive == Init => InductiveInvariant
<1> SUFFICES ASSUME Init PROVE InductiveInvariant
  OBVIOUS
<1>1. TypeOK /\ GroupInv
  BY InitType
<1>2. RelayInv /\ StreamInv /\ RetentionInv
  BY DEF Init, RelayInv, StreamInv, RetentionInv, InStream, Ids
<1>3. WorkerInv
  BY DEF Init, WorkerInv
<1>4. EffectsExactlyOnce /\ EffectsMatchProcessed /\ OnlyAcceptedApplied
  BY DEF Init, EffectsExactlyOnce, EffectsMatchProcessed, OnlyAcceptedApplied
<1>5. AckedMeansSettled /\ NoEarlyDeadLetter
  BY DEF Init, AckedMeansSettled, NoEarlyDeadLetter
<1>6. CopiesInv
  BY InitCopies
<1>7. QED
  BY <1>1, <1>2, <1>3, <1>4, <1>5, <1>6 DEF InductiveInvariant

(* Every step preserves it. *)
LEMMA NextInductive == InductiveInvariant /\ [Next]_vars => InductiveInvariant'
<1> SUFFICES ASSUME InductiveInvariant, [Next]_vars PROVE InductiveInvariant'
  OBVIOUS
<1> USE DEF InductiveInvariant
<1>1. TypeOK' /\ GroupInv'
  BY NextType
<1>2. RelayInv' /\ StreamInv' /\ RetentionInv'
  BY <1>1, NextRelayInv, NextDeadLetters DEF RetentionInv, PublishedInStream
<1>3. WorkerInv'
  BY <1>1, NextWorkerInv
<1>4. EffectsExactlyOnce' /\ EffectsMatchProcessed' /\ OnlyAcceptedApplied'
  BY NextEffects DEF EffectsInv
<1>5. AckedMeansSettled' /\ NoEarlyDeadLetter'
  BY NextSettled, NextNoEarlyDeadLetter
<1>6. CopiesInv'
  BY <1>1, NextCopies
<1>7. QED
  BY <1>1, <1>2, <1>3, <1>4, <1>5, <1>6

(* The conjunction of the safety properties and their strengthening is an  *)
(* invariant of every number of relays, workers, events and faults.        *)
THEOREM Inductive == Spec => []InductiveInvariant
  BY InitInductive, NextInductive, PTL DEF Spec

(* However often an event is published, redelivered, reclaimed or given up *)
(* by a crashing worker, process_event commits its effects once.           *)
THEOREM ExactlyOnce == Spec => []EffectsExactlyOnce
<1>1. InductiveInvariant => EffectsExactlyOnce
  BY DEF InductiveInvariant
<1>2. QED
  BY <1>1, Inductive, PTL

(* The tables hold the consequences of the processed events, no others.    *)
THEOREM EffectsMatch == Spec => []EffectsMatchProcessed
<1>1. InductiveInvariant => EffectsMatchProcessed
  BY DEF InductiveInvariant
<1>2. QED
  BY <1>1, Inductive, PTL

(* An acknowledged entry is processed, or is dead-lettered in both places. *)
THEOREM AckedSettled == Spec => []AckedMeansSettled
<1>1. InductiveInvariant => AckedMeansSettled
  BY DEF InductiveInvariant
<1>2. QED
  BY <1>1, Inductive, PTL

(* Dead letters are entries that cannot be handled and have used up their  *)
(* deliveries.                                                             *)
THEOREM DeadLettersLate == Spec => []NoEarlyDeadLetter
<1>1. InductiveInvariant => NoEarlyDeadLetter
  BY DEF InductiveInvariant
<1>2. QED
  BY <1>1, Inductive, PTL

(* An accepted event is to be published, or in the stream unacknowledged,  *)
(* or processed: published events are in the stream, and acknowledged ones *)
(* are processed because dead letters are never events.                    *)
THEOREM NothingLost == Spec => []NoAcceptedEventLost
<1>1. InductiveInvariant => NoAcceptedEventLost
  <2> SUFFICES ASSUME InductiveInvariant, NEW e \in Accepted,
                      outbox[e] # "unpublished", e \notin processed
               PROVE  \E m \in Ids : stream[m] = e /\ ~Acked(m)
    BY DEF NoAcceptedEventLost
  <2> USE DEF InductiveInvariant
  <2>1. e \in Events /\ outbox[e] = "published"
    BY DEF Accepted, TypeOK, DatabaseType
  <2>2. PICK m \in Ids : stream[m] = e
    BY <2>1 DEF RetentionInv, InStream
  <2>3. ~Acked(m)
    BY <2>1, <2>2 DEF AckedMeansSettled, Acked
  <2>4. QED
    BY <2>2, <2>3
<1>2. QED
  BY <1>1, Inductive, PTL

(* However relays overlap, an event is in the stream once, plus once for   *)
(* every failed publication.                                               *)
THEOREM CopiesBounded == Spec => []CopiesBoundedByFailures
<1>1. InductiveInvariant => CopiesBoundedByFailures
  BY CopiesBound DEF InductiveInvariant
<1>2. QED
  BY <1>1, Inductive, PTL

(* Delivery implements EventLedger.  A commit of process_event is Apply, a *)
(* row of dead_letters is Park, the commit of an ingestion is Accept, and  *)
(* all other steps leave the ledger alone.                                 *)
THEOREM Refinement == Spec => ImplementsLedger
<1>1. Init => Ledger!Init
  BY DEF Init, Ledger!Init, Accepted, ParkedEntries
<1>2. ASSUME InductiveInvariant, InductiveInvariant', [Next]_vars
      PROVE  [Ledger!Next]_(Ledger!vars)
  <2> USE <1>2 DEF InductiveInvariant
  <2> DEFINE Quiet == UNCHANGED <<Accepted, processed, fleetState, incidents, ParkedEntries>>
  <2>1. \A m \in deadLetters : stream'[m] = stream[m]
    <3>1. deadLetters \subseteq Ids
      BY DEF RetentionInv, TypeOK, RedisType, Ids
    <3>2. QED
      BY <3>1, StreamGrows
  <2>2. deadLetters' = deadLetters => ParkedEntries' = ParkedEntries
    BY <2>1 DEF ParkedEntries
  <2>3. ASSUME NEW e \in Events, Accept(e) PROVE Ledger!Accept(e)
    <3>1. Accepted' = Accepted \cup {e}
      BY <2>3 DEF Accept, Accepted, TypeOK, DatabaseType
    <3>2. QED
      BY <2>2, <2>3, <3>1 DEF Accept, Ledger!Accept
  <2>4. ASSUME NEW w \in Workers, ApplyEvent(w) PROVE Ledger!Apply(Entry(w))
    <3>1. Entry(w) \in Events /\ Entry(w) \in Accepted \ processed
      <4>1. Entry(w) \in Events /\ Entry(w) \notin processed
        BY <2>4 DEF ApplyEvent, WorkerInv
      <4>2. Entry(w) \in processed'
        BY <2>4 DEF ApplyEvent
      <4>3. outbox' = outbox
        BY <2>4 DEF ApplyEvent
      <4>4. QED
        BY <4>1, <4>2, <4>3 DEF OnlyAcceptedApplied, Accepted
    <3>2. AgentOf[Entry(w)] = Batch[Entry(w)].agent /\ Met[Entry(w)] = Conditions(Entry(w))
      BY <3>1 DEF AgentOf, Met
    <3>3. Accepted' = Accepted
      BY <2>4 DEF ApplyEvent, Accepted
    <3>4. QED
      BY <2>2, <2>4, <3>1, <3>2, <3>3 DEF ApplyEvent, Ledger!Apply
  <2>5. ASSUME NEW w \in Workers, DeadLetterRow(w) PROVE Ledger!Park(Entry(w)) /\ Entry(w) \in Foreign
    <3>1. ParkedEntries' = ParkedEntries \cup {Entry(w)}
      BY <2>1, <2>5 DEF DeadLetterRow, ParkedEntries, Entry, redis
    <3>2. Accepted' = Accepted
      BY <2>5 DEF DeadLetterRow, Accepted
    <3>3. Entry(w) \in Foreign
      BY <2>5 DEF DeadLetterRow, WorkerInv, Foreign
    <3>4. QED
      BY <2>5, <3>1, <3>2, <3>3 DEF DeadLetterRow, Ledger!Park
  <2>6. ASSUME NEW r \in Relays, CommitRows(r) PROVE Quiet
    <3>1. \A e \in Events : outbox'[e] = "absent" <=> outbox[e] = "absent"
      BY <2>6 DEF CommitRows, RelayInv
    <3>2. Accepted' = Accepted
      BY <3>1 DEF Accepted
    <3>3. QED
      BY <2>2, <2>6, <3>2 DEF CommitRows
  <2>7. CASE UNCHANGED <<outbox, processed, fleetState, incidents, deadLetters>>
    BY <2>2, <2>7 DEF Accepted, Ledger!vars
  <2>8. Quiet => UNCHANGED Ledger!vars
    BY DEF Ledger!vars
  <2>9. (\E w \in Workers : ApplyEvent(w)) => Ledger!Next
    BY <2>4 DEF Ledger!Next, ApplyEvent
  <2>10. (\E w \in Workers : DeadLetterRow(w)) \/ (\E e \in Events : Accept(e)) => Ledger!Next
    BY <2>3, <2>5 DEF Ledger!Next
  <2> HIDE DEF Quiet
  <2>11. QED
    BY <2>6, <2>7, <2>8, <2>9, <2>10
       DEF Next, vars, database, RelayStep, WorkerStep, Inject, SelectRows, XAddRow,
           RelayFails, Start, Exit, Claim, Read, Handle, InsertProcessed, RejectEvent,
           OrphanEscapes, Ack, CheckAttempts, DeadLetterXAdd, DeadLetterAck,
           WorkerCrashes, Terminate, IdleElapses
<1>3. QED
  BY <1>1, <1>2, Inductive, PTL DEF Spec, ImplementsLedger, Ledger!Spec
=============================================================================
