-------------------------- MODULE IngestionProofs ---------------------------
(***************************************************************************)
(* Proofs about Ingestion: any number of concurrent requests, agents and   *)
(* batches, and any failures.                                              *)
(***************************************************************************)
EXTENDS Ingestion, FiniteSetTheorems, TLAPS

USE IngestionAssumption

(* Nothing is stored and no request has begun. *)
LEMMA InitInv == Init => IngestionInv
  BY DEF Init, IngestionInv, TypeOK, OneEventPerBatch, OpenInsertInv, CommittedInv, Stored,
         InTransaction, Answers

(* Types. *)
LEMMA NextType == TypeOK /\ [Next]_vars => TypeOK'
<1> SUFFICES ASSUME TypeOK, [Next]_vars PROVE TypeOK'
  OBVIOUS
<1> USE DEF TypeOK, Goto, InTransaction, Answers
<1>1. ASSUME NEW q \in Requests, Commit(q) PROVE TypeOK'
  BY <1>1 DEF Commit
<1>2. ASSUME NEW q \in Requests, InsertBatch(q) PROVE TypeOK'
  BY <1>2 DEF InsertBatch, Stored
<1>3. ASSUME NEW q \in Requests,
             Authorize(q) \/ Validate(q) \/ UpsertAgent(q) \/ Respond(q) \/ Fail(q)
      PROVE  TypeOK'
  BY <1>3 DEF Authorize, Validate, UpsertAgent, Respond, Fail
<1>4. CASE UNCHANGED vars
  BY <1>4 DEF vars
<1>5. QED
  BY <1>1, <1>2, <1>3, <1>4 DEF Next, Step

(* A step before or after the transaction's writes: no row changes, and    *)
(* the request comes neither from nor to its commit.                       *)
Elsewhere(q) == Authorize(q) \/ Validate(q) \/ UpsertAgent(q)

(* The insert waits for an open one of the same batch, and the commit      *)
(* stores a batch that no other open transaction inserted.                 *)
LEMMA NextOpenInsert ==
  ASSUME IngestionInv, [Next]_vars
  PROVE  OpenInsertInv'
<1> USE DEF IngestionInv, TypeOK, OpenInsertInv, Goto, Stored
<1>1. ASSUME NEW q \in Requests, InsertBatch(q) PROVE OpenInsertInv'
  <2>1. /\ \A p \in Requests : p # q => state'[p] = state[p] /\ inserted'[p] = inserted[p]
        /\ inserted'[q] <=> ~Stored(BatchOf[q])
        /\ batches' = batches
    BY <1>1 DEF InsertBatch
  <2>2. \A p \in Requests : p # q /\ BatchOf[p] = BatchOf[q]
          => ~(state'[p] = "commit" /\ inserted'[p])
    BY <1>1, <2>1 DEF InsertBatch, BatchLocked
  <2>3. \A p \in Requests : state'[p] = "commit" => (inserted'[p] <=> ~Stored(BatchOf[p])')
    BY <2>1
  <2>4. \A p, r \in Requests :
          /\ state'[p] = "commit" /\ inserted'[p] /\ state'[r] = "commit" /\ inserted'[r]
          /\ BatchOf[p] = BatchOf[r]
          => p = r
    BY <2>1, <2>2
  <2>5. QED
    BY <2>3, <2>4
<1>2. ASSUME NEW q \in Requests, Commit(q) PROVE OpenInsertInv'
  <2>1. /\ \A p \in Requests : state'[p] = IF p = q THEN "respond" ELSE state[p]
        /\ inserted' = inserted
        /\ \A b \in Batches : batches'[b] = IF b = BatchOf[q] /\ inserted[q]
                                             THEN AgentOf[q] ELSE batches[b]
    BY <1>2 DEF Commit
  <2>2. state[q] = "commit" /\ AgentOf[q] # NoRow
    BY <1>2 DEF Commit
  <2>3. QED
    BY <2>1, <2>2
<1>3. ASSUME NEW q \in Requests, Elsewhere(q) \/ Respond(q) \/ Fail(q) PROVE OpenInsertInv'
  <2>1. UNCHANGED <<inserted, batches>>
        /\ \A p \in Requests : state'[p] = "commit" => state[p] = "commit"
    BY <1>3 DEF Elsewhere, Authorize, Validate, UpsertAgent, Respond, Fail
  <2>2. QED
    BY <2>1
<1>4. CASE UNCHANGED vars
  BY <1>4 DEF vars
<1>5. QED
  BY <1>1, <1>2, <1>3, <1>4 DEF Next, Step, Elsewhere

(* What a committed request wrote stays. *)
LEMMA NextCommitted ==
  ASSUME IngestionInv, [Next]_vars
  PROVE  CommittedInv'
<1> USE DEF IngestionInv, TypeOK, CommittedInv, Goto, Stored
<1>1. ASSUME NEW q \in Requests, InsertBatch(q) PROVE CommittedInv'
  <2>1. /\ \A p \in Requests : p # q => state'[p] = state[p] /\ inserted'[p] = inserted[p]
        /\ state'[q] = "commit"
        /\ UNCHANGED <<agents, batches>>
    BY <1>1 DEF InsertBatch
  <2>2. QED
    BY <2>1
<1>2. ASSUME NEW q \in Requests, Commit(q) PROVE CommittedInv'
  <2>1. /\ \A p \in Requests : state'[p] = IF p = q THEN "respond" ELSE state[p]
        /\ inserted' = inserted
        /\ \A b \in Batches : batches'[b] = IF b = BatchOf[q] /\ inserted[q]
                                             THEN AgentOf[q] ELSE batches[b]
        /\ \A a \in Agents : agents'[a] = IF a = AgentOf[q] THEN TRUE ELSE agents[a]
    BY <1>2 DEF Commit
  <2>2. /\ AgentOf[q] # NoRow
        /\ inserted[q] <=> ~Stored(BatchOf[q])
    BY <1>2 DEF Commit, OpenInsertInv
  <2>3. \A p \in Requests : state'[p] \in {"respond", "accepted", "duplicate"} =>
          /\ batches'[BatchOf[p]] # NoRow /\ agents'[AgentOf[p]]
          /\ inserted'[p] => batches'[BatchOf[p]] = AgentOf[p]
    <3> TAKE p \in Requests
    <3>1. CASE p = q
      BY <2>1, <2>2, <3>1
    <3>2. CASE p # q
      BY <2>1, <2>2, <3>2
    <3>3. QED
      BY <3>1, <3>2
  <2>4. \A p \in Requests : state'[p] = "accepted" => inserted'[p]
    BY <2>1
  <2>5. \A p, r \in Requests :
          /\ state'[p] \in {"respond", "accepted"} /\ inserted'[p]
          /\ state'[r] \in {"respond", "accepted"} /\ inserted'[r]
          /\ BatchOf[p] = BatchOf[r]
          => p = r
    <3>1. \A p \in Requests : p # q /\ state'[p] \in {"respond", "accepted"} /\ inserted'[q]
            => BatchOf[p] # BatchOf[q]
      BY <2>1, <2>2
    <3>2. QED
      BY <2>1, <3>1
  <2>6. QED
    BY <2>3, <2>4, <2>5
<1>3. ASSUME NEW q \in Requests, Respond(q) PROVE CommittedInv'
  <2>1. /\ state[q] = "respond"
        /\ \A p \in Requests : state'[p] = IF p = q
                                 THEN IF inserted[q] THEN "accepted" ELSE "duplicate"
                                 ELSE state[p]
        /\ UNCHANGED <<inserted, agents, batches>>
    BY <1>3 DEF Respond
  <2>2. QED
    BY <2>1
<1>4. ASSUME NEW q \in Requests, Elsewhere(q) \/ Fail(q) PROVE CommittedInv'
  <2>1. /\ UNCHANGED <<inserted, agents, batches>>
        /\ \A p \in Requests : state'[p] \in {"respond", "accepted", "duplicate"}
             => state'[p] = state[p]
    BY <1>4 DEF Elsewhere, Authorize, Validate, UpsertAgent, Fail
  <2>2. QED
    BY <2>1
<1>5. CASE UNCHANGED vars
  BY <1>5 DEF vars
<1>6. QED
  BY <1>1, <1>2, <1>3, <1>4, <1>5 DEF Next, Step, Elsewhere

(* Only a commit writes rows, and it adds the event with the batch. *)
LEMMA NextOneEvent ==
  ASSUME IngestionInv, [Next]_vars
  PROVE  OneEventPerBatch'
<1> USE DEF IngestionInv, TypeOK, OneEventPerBatch, Stored
<1>1. ASSUME NEW q \in Requests, Commit(q) PROVE OneEventPerBatch'
  BY <1>1 DEF Commit, OpenInsertInv
<1>2. CASE UNCHANGED <<batches, outbox>>
  BY <1>2
<1>3. QED
  BY <1>1, <1>2 DEF Next, Step, vars, Authorize, Validate, UpsertAgent, InsertBatch, Respond,
                    Fail

(* The inductive invariant of any interleaving of requests. *)
THEOREM IngestionInductive == Spec => []IngestionInv
<1>1. IngestionInv /\ [Next]_vars => IngestionInv'
  <2> SUFFICES ASSUME IngestionInv, [Next]_vars PROVE IngestionInv'
    OBVIOUS
  <2>1. TypeOK'
    BY NextType DEF IngestionInv
  <2>2. QED
    BY <2>1, NextOneEvent, NextOpenInsert, NextCommitted DEF IngestionInv
<1>2. QED
  BY <1>1, InitInv, PTL DEF Spec

(* A stored batch has one outbox event, however its retries interleave and *)
(* fail (ingest_batch).                                                    *)
THEOREM EventPerBatch == Spec => []OneEventPerBatch
<1>1. IngestionInv => OneEventPerBatch
  BY DEF IngestionInv
<1>2. QED
  BY <1>1, IngestionInductive, PTL

(* The accepted requests of an agent have different batches, all of them   *)
(* stored for that agent.                                                  *)
LEMMA AcceptedCount ==
  ASSUME IngestionInv, NEW a \in Agents
  PROVE  Cardinality({q \in Requests : state[q] = "accepted" /\ AgentOf[q] = a})
           <= BatchCount(a)
<1> DEFINE S == {q \in Requests : state[q] = "accepted" /\ AgentOf[q] = a}
           T == {b \in Batches : batches[b] = a}
           f == [q \in S |-> BatchOf[q]]
<1>1. IsFiniteSet(T)
  BY FS_Subset
<1>2. \A q \in S : BatchOf[q] \in T
  BY DEF IngestionInv, CommittedInv
<1>3. \A p, q \in S : BatchOf[p] = BatchOf[q] => p = q
  BY DEF IngestionInv, CommittedInv
<1>4. f \in Injection(S, T)
  BY <1>2, <1>3 DEF Injection, IsInjective
<1>5. Cardinality(S) <= Cardinality(T)
  BY <1>1, <1>4, FS_Injection
<1>6. QED
  BY <1>5 DEF BatchCount

(* The answers and the fleet list tell the truth about what is stored      *)
(* (ingest_batch, list_agents).                                            *)
THEOREM TrueAnswers == Spec => []AnswersAreTrue
<1>1. IngestionInv => AnswersAreTrue
  <2> SUFFICES ASSUME IngestionInv PROVE AnswersAreTrue
    OBVIOUS
  <2>1. /\ \A q \in Requests : state[q] \in {"respond", "accepted", "duplicate"}
             => Stored(BatchOf[q]) /\ AgentOf[q] \in ListAgents
        /\ \A q \in Requests : state[q] = "accepted" => batches[BatchOf[q]] = AgentOf[q]
        /\ \A p, q \in Requests : state[p] = "accepted" /\ state[q] = "accepted"
             /\ BatchOf[p] = BatchOf[q] => p = q
    BY DEF IngestionInv, CommittedInv, ListAgents
  <2>2. QED
    BY <2>1, AcceptedCount DEF AnswersAreTrue, ListAgents
<1>2. QED
  BY <1>1, IngestionInductive, PTL
=============================================================================
