------------------------------ MODULE Ingestion ------------------------------
(***************************************************************************)
(* POST /v1/telemetry/batches (api/routes.py) at the grain of its SQL      *)
(* statements: concurrent requests, among them retries of one batch whose  *)
(* first request is still running or whose answer was lost.  Rows written  *)
(* by a transaction are seen, and their locks released, when it ends.      *)
(***************************************************************************)
EXTENDS Integers, FiniteSets

CONSTANTS
    Requests,    \* HTTP requests with a JSON body
    Agents, Batches,
    AgentOf,     \* agent_id of a request
    BatchOf,     \* batch_id of a request
    Authorized,  \* requests carrying the agent token
    Valid        \* requests whose body is a TelemetryBatch

NoRow == "no row"

ASSUME IngestionAssumption ==
    /\ AgentOf \in [Requests -> Agents]
    /\ BatchOf \in [Requests -> Batches]
    /\ Authorized \subseteq Requests
    /\ Valid \subseteq Requests
    /\ NoRow \notin Agents
    /\ IsFiniteSet(Batches)   \* batch ids are UUIDs

VARIABLES
    state,     \* state[q]: the next statement of the request, or its answer
    inserted,  \* inserted[q]: the batch insert returned a row
    agents,    \* agents[a]: whether the agent row exists
    batches,   \* batches[b]: agent_id of the row of telemetry_batches, if any
    outbox     \* outbox[b]: rows of outbox_events for the batch

vars == <<state, inserted, agents, batches, outbox>>

InTransaction == {"agent", "batch", "commit"}
Answers == {"accepted", "duplicate", "unauthorized", "invalid", "error"}
Stored(b) == batches[b] # NoRow

Init ==
    /\ state = [q \in Requests |-> "new"]
    /\ inserted = [q \in Requests |-> FALSE]
    /\ agents = [a \in Agents |-> FALSE]
    /\ batches = [b \in Batches |-> NoRow]
    /\ outbox = [b \in Batches |-> 0]

Goto(q, s) == state' = [state EXCEPT ![q] = s]

(* require_agent_token runs before the handler. *)
Authorize(q) ==
    /\ state[q] = "new"
    /\ Goto(q, IF q \in Authorized THEN "body" ELSE "unauthorized")
    /\ UNCHANGED <<inserted, agents, batches, outbox>>

(* The body is checked against TelemetryBatch: 422, or the handler runs.   *)
Validate(q) ==
    /\ state[q] = "body"
    /\ Goto(q, IF q \in Valid THEN "agent" ELSE "invalid")
    /\ UNCHANGED <<inserted, agents, batches, outbox>>

(* Mutant: a failed transaction keeps its locks. *)
AgentLockLeaks(q) ==
    \E p \in Requests \ {q} :
        state[p] \in {"batch", "commit", "error"} /\ AgentOf[p] = AgentOf[q]

(* The upsert waits for the row lock of another open transaction. *)
AgentLocked(q) ==
    \E p \in Requests \ {q} : state[p] \in {"batch", "commit"} /\ AgentOf[p] = AgentOf[q]

UpsertAgent(q) ==
    /\ state[q] = "agent"
    /\ ~AgentLocked(q)
    /\ Goto(q, "batch")
    /\ UNCHANGED <<inserted, agents, batches, outbox>>

(* Mutant: no unique key on batch_id. *)
BatchNeverLocked(q) == FALSE

(* ON CONFLICT DO NOTHING waits for an open insert of the same key. *)
BatchLocked(q) ==
    \E p \in Requests \ {q} :
        state[p] = "commit" /\ inserted[p] /\ BatchOf[p] = BatchOf[q]

InsertBatch(q) ==
    /\ state[q] = "batch"
    /\ ~BatchLocked(q)
    /\ inserted' = [inserted EXCEPT ![q] = ~Stored(BatchOf[q])]
    /\ Goto(q, "commit")
    /\ UNCHANGED <<agents, batches, outbox>>

(* Mutant: the event is added for a duplicate too. *)
CommitAlwaysQueues(q) ==
    /\ state[q] = "commit"
    /\ agents' = [agents EXCEPT ![AgentOf[q]] = TRUE]
    /\ batches' = [batches EXCEPT ![BatchOf[q]] = IF inserted[q] THEN AgentOf[q] ELSE @]
    /\ outbox' = [outbox EXCEPT ![BatchOf[q]] = @ + 1]
    /\ Goto(q, "respond")
    /\ UNCHANGED inserted

(* The outbox row is flushed by the commit. *)
Commit(q) ==
    /\ state[q] = "commit"
    /\ agents' = [agents EXCEPT ![AgentOf[q]] = TRUE]
    /\ batches' = [batches EXCEPT ![BatchOf[q]] = IF inserted[q] THEN AgentOf[q] ELSE @]
    /\ outbox' = [outbox EXCEPT ![BatchOf[q]] = @ + (IF inserted[q] THEN 1 ELSE 0)]
    /\ Goto(q, "respond")
    /\ UNCHANGED inserted

Respond(q) ==
    /\ state[q] = "respond"
    /\ Goto(q, IF inserted[q] THEN "accepted" ELSE "duplicate")
    /\ UNCHANGED <<inserted, agents, batches, outbox>>

(* A statement fails or times out, or the process dies: the transaction    *)
(* rolls back.  After the commit only the answer is lost.                  *)
Fail(q) ==
    /\ state[q] \in InTransaction \cup {"respond"}
    /\ Goto(q, "error")
    /\ UNCHANGED <<inserted, agents, batches, outbox>>

Step(q) ==
    \/ Authorize(q) \/ Validate(q)
    \/ UpsertAgent(q) \/ InsertBatch(q) \/ Commit(q) \/ Respond(q)

(* GET /v1/fleet/agents: the agents, and the number of batches of each.    *)
ListAgents == {a \in Agents : agents[a]}
BatchCount(a) == Cardinality({b \in Batches : batches[b] = a})

Next == \E q \in Requests : Step(q) \/ Fail(q)

Spec == Init /\ [][Next]_vars

(* The event loop and the database serve every request. *)
FairSpec == Spec /\ \A q \in Requests : WF_vars(Step(q))

-----------------------------------------------------------------------------
(* Properties. *)

TypeOK ==
    /\ state \in [Requests -> {"new", "body", "respond"} \cup InTransaction \cup Answers]
    /\ inserted \in [Requests -> BOOLEAN]
    /\ agents \in [Agents -> BOOLEAN]
    /\ batches \in [Batches -> Agents \cup {NoRow}]
    /\ outbox \in [Batches -> Nat]

(* A stored batch has exactly one outbox event, and none exists without    *)
(* its batch, for all interleavings of retries and failures.               *)
OneEventPerBatch ==
    \A b \in Batches : outbox[b] = IF Stored(b) THEN 1 ELSE 0

(* A 202 answer is given only for a batch that is stored with its event,   *)
(* and "accepted" to one request of each batch at most, that of the agent  *)
(* the batch is stored for.  So the fleet list never shows an agent with   *)
(* fewer batches than it has accepted answers (ingest_batch, list_agents). *)
AnswersAreTrue ==
    /\ \A q \in Requests : state[q] \in {"respond", "accepted", "duplicate"}
         => Stored(BatchOf[q]) /\ AgentOf[q] \in ListAgents
    /\ \A q \in Requests : state[q] = "accepted" => batches[BatchOf[q]] = AgentOf[q]
    /\ \A p, q \in Requests : state[p] = "accepted" /\ state[q] = "accepted"
         /\ BatchOf[p] = BatchOf[q] => p = q
    /\ \A a \in ListAgents :
         Cardinality({q \in Requests : state[q] = "accepted" /\ AgentOf[q] = a})
           <= BatchCount(a)

(* Every request is answered: the two locks are always taken in the same   *)
(* order, so requests cannot wait for one another in a circle.             *)
RequestsEnd == \A q \in Requests : <>(state[q] \in Answers)

-----------------------------------------------------------------------------
(* The inductive invariant behind the safety properties. *)

(* An open transaction's insert is the only one of its batch, and what it  *)
(* found stays true until it ends.                                         *)
OpenInsertInv ==
    /\ \A q \in Requests : state[q] = "commit" => (inserted[q] <=> ~Stored(BatchOf[q]))
    /\ \A p, q \in Requests :
         /\ state[p] = "commit" /\ inserted[p] /\ state[q] = "commit" /\ inserted[q]
         /\ BatchOf[p] = BatchOf[q]
         => p = q

(* A committed request has its rows; the one whose insert counted is the   *)
(* only one of its batch.                                                  *)
CommittedInv ==
    /\ \A q \in Requests : state[q] \in {"respond", "accepted", "duplicate"} =>
         /\ Stored(BatchOf[q]) /\ agents[AgentOf[q]]
         /\ inserted[q] => batches[BatchOf[q]] = AgentOf[q]
    /\ \A q \in Requests : state[q] = "accepted" => inserted[q]
    /\ \A p, q \in Requests :
         /\ state[p] \in {"respond", "accepted"} /\ inserted[p]
         /\ state[q] \in {"respond", "accepted"} /\ inserted[q]
         /\ BatchOf[p] = BatchOf[q]
         => p = q

IngestionInv == TypeOK /\ OneEventPerBatch /\ OpenInsertInv /\ CommittedInv
=============================================================================
