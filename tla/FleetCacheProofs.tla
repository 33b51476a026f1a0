-------------------------- MODULE FleetCacheProofs --------------------------
(***************************************************************************)
(* Proofs about FleetCache: any number of events, requests and crashes.    *)
(***************************************************************************)
EXTENDS FleetCache, TLAPS

USE CacheAssumption

(* Types. *)
LEMMA NextType == TypeOK /\ [Next]_vars => TypeOK'
<1> SUFFICES ASSUME TypeOK, [Next]_vars PROVE TypeOK'
  OBVIOUS
<1> USE DEF TypeOK, workerVars, readerVars, Goto
<1>1. ASSUME NEW e \in Events, WorkerStep(e) \/ WorkerCrashes(e) PROVE TypeOK'
  BY <1>1 DEF WorkerStep, Process, DeleteCache, Ack, WorkerCrashes
<1>2. ASSUME NEW r \in Readers, Hit(r) PROVE TypeOK'
  BY <1>2 DEF Hit
<1>3. ASSUME NEW r \in Readers, Miss(r) \/ Bypass(r) \/ SetFails(r) PROVE TypeOK'
  BY <1>3 DEF Miss, Bypass, SetFails
<1>4. ASSUME NEW r \in Readers, Select(r) \/ Again(r) PROVE TypeOK'
  BY <1>4 DEF Select, Again
<1>5. ASSUME NEW r \in Readers, SetCache(r) PROVE TypeOK'
  BY <1>5 DEF SetCache
<1>6. CASE Expire \/ UNCHANGED vars
  BY <1>6 DEF Expire, vars
<1>7. QED
  BY <1>1, <1>2, <1>3, <1>4, <1>5, <1>6 DEF Next, ReaderStep

(* Nothing is cached before anything is committed. *)
LEMMA InitInv == Init => CacheInv
  BY DEF Init, CacheInv, TypeOK, WorkerInv, ListInv

(* Commit, invalidation and acknowledgement keep their order. *)
LEMMA NextWorker ==
  ASSUME CacheInv, [Next]_vars
  PROVE  WorkerInv'
<1> USE DEF CacheInv, TypeOK, WorkerInv
<1>1. ASSUME NEW e \in Events, WorkerStep(e) \/ WorkerCrashes(e) PROVE WorkerInv'
  BY <1>1 DEF WorkerStep, Process, DeleteCache, Ack, WorkerCrashes
<1>2. CASE UNCHANGED <<committed, stage, deleted>>
  BY <1>2
<1>3. QED
  BY <1>1, <1>2 DEF Next, ReaderStep, vars, workerVars, Hit, Miss, Bypass, Select,
                    SetCache, SetFails, Again, Expire

(* A list set late is marked by what had been invalidated before it; a     *)
(* later invalidation removes it.                                          *)
LEMMA NextList ==
  ASSUME CacheInv, [Next]_vars
  PROVE  ListInv'
<1> USE DEF CacheInv, TypeOK, ListInv, Goto
<1>1. ASSUME NEW e \in Events, Process(e) PROVE ListInv'
  BY <1>1 DEF Process, readerVars
<1>2. ASSUME NEW e \in Events, DeleteCache(e) PROVE ListInv'
  BY <1>2 DEF DeleteCache, readerVars
<1>3. ASSUME NEW r \in Readers, Hit(r) PROVE ListInv'
  <2>1. PICK list \in cache : result' = [result EXCEPT ![r] = list]
    BY <1>3 DEF Hit
  <2>2. \A q \in Readers : result'[q] \subseteq committed
    BY <2>1
  <2>3. QED
    BY <1>3, <2>2 DEF Hit, workerVars
<1>4. ASSUME NEW r \in Readers, Select(r) \/ Again(r) PROVE ListInv'
  BY <1>4 DEF Select, Again, workerVars
<1>5. ASSUME NEW r \in Readers, SetCache(r) PROVE ListInv'
  BY <1>5 DEF SetCache, workerVars
<1>6. CASE Expire
  BY <1>6 DEF Expire, workerVars, readerVars
<1>7. CASE UNCHANGED <<committed, cache, result, deleted, after>>
  BY <1>7
<1>8. QED
  BY <1>1, <1>2, <1>3, <1>4, <1>5, <1>6, <1>7
     DEF Next, WorkerStep, ReaderStep, vars, workerVars, readerVars, Ack, WorkerCrashes,
         Miss, Bypass, SetFails

(* The inductive invariant, crashes and redeliveries included. *)
THEOREM CacheInductive == Spec => []CacheInv
<1>1. CacheInv /\ [Next]_vars => CacheInv'
  <2> SUFFICES ASSUME CacheInv, [Next]_vars PROVE CacheInv'
    OBVIOUS
  <2>1. TypeOK'
    BY NextType DEF CacheInv
  <2>2. QED
    BY <2>1, NextWorker, NextList DEF CacheInv
<1>2. QED
  BY <1>1, InitInv, PTL DEF Spec

(* A cached list that misses an acknowledged event was set after that      *)
(* event's invalidation (handle_message, list_fleet_state).                *)
THEOREM AckedInvalidated == Spec => []AckedIsInvalidated
<1>1. CacheInv => AckedIsInvalidated
  BY DEF CacheInv, WorkerInv, ListInv, AckedIsInvalidated
<1>2. QED
  BY <1>1, CacheInductive, PTL
=============================================================================
