----------------------------- MODULE Migrations -----------------------------
(***************************************************************************)
(* The schema at the start of the API: every replica runs alembic upgrade  *)
(* head before it serves (services/api/Dockerfile).  migrations/env.py     *)
(* takes a session-level advisory lock on one connection and migrates on   *)
(* another, in one transaction for all missing revisions.                  *)
(*                                                                         *)
(* A revision creates its tables as one unit.  PostgreSQL makes the second *)
(* creator of a table wait for the first one's transaction and fails it    *)
(* when that commits.                                                      *)
(***************************************************************************)
EXTENDS Integers

CONSTANTS
    Replicas,   \* API replicas starting together
    Head,       \* number of revisions
    MaxCrashes, \* bound: replicas killed
    MaxLost     \* bound: lock connections lost

ASSUME MigrationsAssumption ==
    /\ Head \in Nat
    /\ MaxCrashes \in Nat
    /\ MaxLost \in Nat

VARIABLES
    pc,        \* pc[r]: the next call of the replica
    holder,    \* the session holding the advisory lock, {} for none
    version,   \* alembic_version, committed
    from, at,  \* revisions found at the start of and reached in r's transaction
    created,   \* history: how often the tables of a revision were created
    failed,    \* history: migrations that ended in an error
    crashes, lost

vars == <<pc, holder, version, from, at, created, failed, crashes, lost>>

Revisions == 1 .. Head
Goto(r, c) == pc' = [pc EXCEPT ![r] = c]

Init ==
    /\ pc = [r \in Replicas |-> "lock"]
    /\ holder = {}
    /\ version \in 0 .. Head
    /\ from = [r \in Replicas |-> 0]
    /\ at = [r \in Replicas |-> 0]
    /\ created = [v \in Revisions |-> IF v <= version THEN 1 ELSE 0]
    /\ failed = 0
    /\ crashes = 0
    /\ lost = 0

(* Mutant: the migration does not wait for the lock. *)
LockIgnored(r) ==
    /\ pc[r] = "lock"
    /\ holder' = {r}
    /\ Goto(r, "begin")
    /\ UNCHANGED <<version, from, at, created, failed, crashes, lost>>

(* SELECT pg_advisory_lock. *)
Lock(r) ==
    /\ pc[r] = "lock"
    /\ holder = {}
    /\ holder' = {r}
    /\ Goto(r, "begin")
    /\ UNCHANGED <<version, from, at, created, failed, crashes, lost>>

(* The transaction begins with the revision it finds. *)
BeginTransaction(r) ==
    /\ pc[r] = "begin"
    /\ from' = [from EXCEPT ![r] = version]
    /\ at' = [at EXCEPT ![r] = version]
    /\ Goto(r, "upgrade")
    /\ UNCHANGED <<holder, version, created, failed, crashes, lost>>

(* Another open transaction has created the tables of revision v. *)
Creating(v, r) ==
    \E q \in Replicas \ {r} : pc[q] = "upgrade" /\ from[q] < v /\ v <= at[q]

(* The upgrade function of the next revision. *)
Upgrade(r) ==
    /\ pc[r] = "upgrade"
    /\ at[r] < Head
    /\ ~Creating(at[r] + 1, r)
    /\ version <= at[r]
    /\ at' = [at EXCEPT ![r] = @ + 1]
    /\ UNCHANGED <<pc, holder, version, from, created, failed, crashes, lost>>

(* Its tables have been created since: the transaction rolls back, the     *)
(* finally block unlocks, the process exits and is started again.          *)
UpgradeFails(r) ==
    /\ pc[r] = "upgrade"
    /\ at[r] < Head
    /\ version > at[r]
    /\ failed' = failed + 1
    /\ holder' = holder \ {r}
    /\ Goto(r, "lock")
    /\ UNCHANGED <<version, from, at, created, crashes, lost>>

(* Mutant: every revision runs again. *)
CommitAll(r) ==
    /\ pc[r] = "upgrade"
    /\ at[r] = Head
    /\ version' = Head
    /\ created' = [v \in Revisions |-> created[v] + 1]
    /\ Goto(r, "unlock")
    /\ UNCHANGED <<holder, from, at, failed, crashes, lost>>

Commit(r) ==
    /\ pc[r] = "upgrade"
    /\ at[r] = Head
    /\ version' = Head
    /\ created' = [v \in Revisions |-> created[v] + (IF v > from[r] THEN 1 ELSE 0)]
    /\ Goto(r, "unlock")
    /\ UNCHANGED <<holder, from, at, failed, crashes, lost>>

(* Mutant: the lock is kept while the process serves. *)
UnlockNever(r) ==
    /\ pc[r] = "unlock"
    /\ Goto(r, "serve")
    /\ UNCHANGED <<holder, version, from, at, created, failed, crashes, lost>>

(* SELECT pg_advisory_unlock, then uvicorn.  On a lost connection it raises *)
(* and the process exits, the migration being committed.                   *)
Unlock(r) ==
    /\ pc[r] = "unlock"
    /\ \/ r \in holder /\ Goto(r, "serve")
       \/ r \notin holder /\ Goto(r, "lock")
    /\ holder' = holder \ {r}
    /\ UNCHANGED <<version, from, at, created, failed, crashes, lost>>

(* Mutant: the API is started after a migration that died. *)
CrashServes(r) ==
    /\ crashes < MaxCrashes
    /\ crashes' = crashes + 1
    /\ holder' = holder \ {r}
    /\ Goto(r, "serve")
    /\ UNCHANGED <<version, from, at, created, failed, lost>>

(* The process dies with both its connections and is started again. *)
Crash(r) ==
    /\ crashes < MaxCrashes
    /\ crashes' = crashes + 1
    /\ holder' = holder \ {r}
    /\ Goto(r, "lock")
    /\ UNCHANGED <<version, from, at, created, failed, lost>>

(* The idle lock connection breaks under a running migration. *)
LoseLock(r) ==
    /\ lost < MaxLost
    /\ r \in holder
    /\ lost' = lost + 1
    /\ holder' = {}
    /\ UNCHANGED <<pc, version, from, at, created, failed, crashes>>

Step(r) ==
    \/ Lock(r) \/ BeginTransaction(r) \/ Upgrade(r) \/ UpgradeFails(r) \/ Commit(r)
    \/ Unlock(r)

Next == \E r \in Replicas : Step(r) \/ Crash(r) \/ LoseLock(r)

Spec == Init /\ [][Next]_vars

(* Replicas run and are restarted; PostgreSQL grants the advisory lock in  *)
(* the order of the requests.                                              *)
FairSpec ==
    /\ Spec
    /\ \A r \in Replicas : WF_vars(Step(r)) /\ SF_vars(Lock(r))

-----------------------------------------------------------------------------
(* Properties. *)

TypeOK ==
    /\ pc \in [Replicas -> {"lock", "begin", "upgrade", "unlock", "serve"}]
    /\ holder \in {{}} \cup {{r} : r \in Replicas}
    /\ version \in 0 .. Head
    /\ from \in [Replicas -> 0 .. Head]
    /\ at \in [Replicas -> 0 .. Head]
    /\ created \in [Revisions -> Nat]
    /\ failed \in Nat
    /\ crashes \in 0 .. MaxCrashes
    /\ lost \in 0 .. MaxLost

(* The tables of a revision are created by one committed transaction, also *)
(* when the lock is lost under a migration and two of them overlap.        *)
RevisionsOnce == \A v \in Revisions : created[v] = IF v <= version THEN 1 ELSE 0

(* As long as no lock connection is lost, replicas starting together do    *)
(* not make each other's migration fail, whatever crashes.                 *)
LockSerializes == lost = 0 => failed = 0

(* A replica serves only with the complete schema. *)
ServesAtHead == \A r \in Replicas : pc[r] = "serve" => version = Head

(* Every replica serves in the end. *)
AllServe == <>[](\A r \in Replicas : pc[r] = "serve")

-----------------------------------------------------------------------------
(* The inductive invariant behind the safety properties. *)

(* A transaction that has created tables found the committed revision, and *)
(* is the only one that has; the others have created nothing.              *)
TransactionInv ==
    /\ \A r \in Replicas : pc[r] = "upgrade" =>
         /\ from[r] <= at[r] /\ from[r] <= version
         /\ from[r] < at[r] => from[r] = version
    /\ \A q, r \in Replicas :
         /\ pc[q] = "upgrade" /\ from[q] < at[q]
         /\ pc[r] = "upgrade" /\ from[r] < at[r]
         => q = r

(* Past its migration a replica finds the complete schema. *)
MigratedInv == \A r \in Replicas : pc[r] \in {"unlock", "serve"} => version = Head

(* Until a lock connection is lost, whoever migrates holds the lock, and   *)
(* the revision it found is still the committed one.                       *)
LockInv ==
    lost = 0 =>
        /\ failed = 0
        /\ \A r \in Replicas : pc[r] \in {"begin", "upgrade", "unlock"} => r \in holder
        /\ \A r \in Replicas : pc[r] = "upgrade" => from[r] = version

MigrationsInv == TypeOK /\ RevisionsOnce /\ TransactionInv /\ MigratedInv /\ LockInv
=============================================================================
