----------------------------- MODULE FleetCache -----------------------------
(***************************************************************************)
(* The cache-aside read of fleet state (api/routes.py, list_fleet_state)   *)
(* against the workers that change the table and delete the cached list    *)
(* (worker/main.py, handle_message).  A list is the set of events whose    *)
(* effects it shows.  Redelivery after a crash is as in module Delivery.   *)
(***************************************************************************)
EXTENDS Integers, FiniteSets

CONSTANTS
    Events,      \* events that change the fleet state
    Readers,     \* concurrent GET /v1/fleet/state requests
    MaxCrashes   \* bound: worker crashes

ASSUME CacheAssumption == MaxCrashes \in Nat

VARIABLES
    committed,  \* events whose effects are in fleet_state
    stage,      \* stage[e]: what the worker handling e does next
    crashes,
    cache,      \* the cached list as a singleton, {} when absent or expired
    reader,     \* reader[r]: the next call of the request
    result,     \* result[r]: the list the request has read
    header,     \* header[r]: X-Cache as set so far
    (* history *)
    deleted,    \* events whose invalidation has been carried out
    after       \* the value of deleted when the cached list was set

vars == <<committed, stage, crashes, cache, reader, result, header, deleted, after>>
workerVars == <<committed, stage, crashes, deleted>>
readerVars == <<reader, result, header>>

Init ==
    /\ committed = {}
    /\ stage = [e \in Events |-> "pending"]
    /\ crashes = 0
    /\ cache = {}
    /\ reader = [r \in Readers |-> "get"]
    /\ result = [r \in Readers |-> {}]
    /\ header = [r \in Readers |-> "none"]
    /\ deleted = {}
    /\ after = {}

-----------------------------------------------------------------------------
(* The worker. *)

(* Mutant: a redelivered event is acknowledged without invalidation. *)
ProcessReturnsEarly(e) ==
    /\ stage[e] = "pending"
    /\ committed' = committed \cup {e}
    /\ stage' = [stage EXCEPT ![e] = IF e \in committed THEN "ack" ELSE "delete"]
    /\ UNCHANGED <<crashes, cache, readerVars, deleted, after>>

(* process_event: the commit, or the early return of a redelivered event. *)
Process(e) ==
    /\ stage[e] = "pending"
    /\ committed' = committed \cup {e}
    /\ stage' = [stage EXCEPT ![e] = "delete"]
    /\ UNCHANGED <<crashes, cache, readerVars, deleted, after>>

DeleteCache(e) ==
    /\ stage[e] = "delete"
    /\ cache' = {}
    /\ deleted' = deleted \cup {e}
    /\ stage' = [stage EXCEPT ![e] = "ack"]
    /\ UNCHANGED <<committed, crashes, readerVars, after>>

Ack(e) ==
    /\ stage[e] = "ack"
    /\ stage' = [stage EXCEPT ![e] = "acked"]
    /\ UNCHANGED <<committed, crashes, cache, readerVars, deleted, after>>

(* The worker or its connection dies; the entry is delivered again. *)
WorkerCrashes(e) ==
    /\ crashes < MaxCrashes
    /\ stage[e] \in {"delete", "ack"}
    /\ stage' = [stage EXCEPT ![e] = "pending"]
    /\ crashes' = crashes + 1
    /\ UNCHANGED <<committed, cache, readerVars, deleted, after>>

-----------------------------------------------------------------------------
(* The reader. *)

Goto(r, c) == reader' = [reader EXCEPT ![r] = c]

(* GET, HINCRBY hits. *)
Hit(r) ==
    /\ reader[r] = "get"
    /\ \E list \in cache : result' = [result EXCEPT ![r] = list]
    /\ header' = [header EXCEPT ![r] = "HIT"]
    /\ Goto(r, "done")
    /\ UNCHANGED <<workerVars, cache, after>>

(* GET, HINCRBY misses. *)
Miss(r) ==
    /\ reader[r] = "get"
    /\ cache = {}
    /\ Goto(r, "select")
    /\ UNCHANGED <<workerVars, cache, result, header, after>>

(* Redis raises in either call. *)
Bypass(r) ==
    /\ reader[r] = "get"
    /\ header' = [header EXCEPT ![r] = "BYPASS"]
    /\ Goto(r, "select")
    /\ UNCHANGED <<workerVars, cache, result, after>>

Select(r) ==
    /\ reader[r] = "select"
    /\ result' = [result EXCEPT ![r] = committed]
    /\ Goto(r, "set")
    /\ UNCHANGED <<workerVars, cache, header, after>>

(* SET with ex: whatever has been committed or deleted in between. *)
SetCache(r) ==
    /\ reader[r] = "set"
    /\ cache' = {result[r]}
    /\ after' = deleted
    /\ header' = [header EXCEPT ![r] = IF @ = "none" THEN "MISS" ELSE @]
    /\ Goto(r, "done")
    /\ UNCHANGED <<workerVars, result>>

SetFails(r) ==
    /\ reader[r] = "set"
    /\ header' = [header EXCEPT ![r] = "BYPASS"]
    /\ Goto(r, "done")
    /\ UNCHANGED <<workerVars, cache, result, after>>

(* The next request. *)
Again(r) ==
    /\ reader[r] = "done"
    /\ Goto(r, "get")
    /\ result' = [result EXCEPT ![r] = {}]
    /\ header' = [header EXCEPT ![r] = "none"]
    /\ UNCHANGED <<workerVars, cache, after>>

(* Mutant: the list is cached without a time to live. *)
ExpireNever ==
    /\ cache = {Events}
    /\ cache' = {}
    /\ UNCHANGED <<workerVars, readerVars, after>>

(* cache_ttl_seconds pass since the list was set. *)
Expire ==
    /\ cache # {}
    /\ cache' = {}
    /\ UNCHANGED <<workerVars, readerVars, after>>

WorkerStep(e) == Process(e) \/ DeleteCache(e) \/ Ack(e)

ReaderStep(r) ==
    Hit(r) \/ Miss(r) \/ Bypass(r) \/ Select(r) \/ SetCache(r) \/ SetFails(r) \/ Again(r)

Next ==
    \/ \E e \in Events : WorkerStep(e) \/ WorkerCrashes(e)
    \/ \E r \in Readers : ReaderStep(r)
    \/ Expire

Spec == Init /\ [][Next]_vars

(* Workers run and entries expire, ex being set at every SET.  Requests    *)
(* may stall at any call.                                                  *)
FairSpec ==
    /\ Spec
    /\ \A e \in Events : WF_vars(WorkerStep(e))
    /\ WF_vars(Expire)

-----------------------------------------------------------------------------
(* Properties. *)

TypeOK ==
    /\ committed \subseteq Events
    /\ stage \in [Events -> {"pending", "delete", "ack", "acked"}]
    /\ crashes \in 0 .. MaxCrashes
    /\ cache \in {{}} \cup {{list} : list \in SUBSET Events}
    /\ reader \in [Readers -> {"get", "select", "set", "done"}]
    /\ result \in [Readers -> SUBSET Events]
    /\ header \in [Readers -> {"none", "HIT", "MISS", "BYPASS"}]
    /\ deleted \subseteq Events
    /\ after \subseteq Events

(* An acknowledged event has been invalidated after its commit, crashes    *)
(* and redeliveries included: a cached list that still misses it can only  *)
(* have been set after that invalidation, by a request that had read the   *)
(* table before the commit.                                                *)
AckedIsInvalidated ==
    \A e \in Events :
        stage[e] = "acked" /\ (\E list \in cache : e \notin list) => e \in after

(* A stale list does not stay: the list set by a late request after the    *)
(* last invalidation is dropped when its time to live ends, and then every *)
(* list cached is complete.                                                *)
CacheConverges == <>[](cache \subseteq {Events})

-----------------------------------------------------------------------------
(* The inductive invariant behind AckedIsInvalidated. *)

(* The worker acknowledges after the invalidation, which follows the       *)
(* commit, also when a crash makes it start over.                          *)
WorkerInv ==
    /\ \A e \in Events : /\ stage[e] # "pending" => e \in committed
                         /\ stage[e] \in {"ack", "acked"} => e \in deleted
    /\ deleted \subseteq committed

(* Lists are read from the table; the cached one misses only events that   *)
(* were invalidated before it was set or are still to be.                  *)
ListInv ==
    /\ \A r \in Readers : result[r] \subseteq committed
    /\ \A list \in cache : /\ list \subseteq committed
                           /\ deleted \subseteq list \cup after
    /\ after \subseteq deleted

CacheInv == TypeOK /\ WorkerInv /\ ListInv
=============================================================================
