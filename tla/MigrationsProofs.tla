-------------------------- MODULE MigrationsProofs --------------------------
(***************************************************************************)
(* Proofs about Migrations: any number of replicas, revisions, crashes and *)
(* lost lock connections.                                                  *)
(***************************************************************************)
EXTENDS Migrations, TLAPS

USE MigrationsAssumption

(* The database is at some prefix of the revisions and nobody has begun. *)
LEMMA InitInv == Init => MigrationsInv
  BY DEF Init, MigrationsInv, TypeOK, RevisionsOnce, TransactionInv, MigratedInv, LockInv,
         Revisions

(* Types. *)
LEMMA NextType == TypeOK /\ [Next]_vars => TypeOK'
<1> SUFFICES ASSUME TypeOK, [Next]_vars PROVE TypeOK'
  OBVIOUS
<1> USE DEF TypeOK, Goto
<1>1. ASSUME NEW r \in Replicas, Lock(r) PROVE TypeOK'
  BY <1>1 DEF Lock
<1>2. ASSUME NEW r \in Replicas, BeginTransaction(r) PROVE TypeOK'
  BY <1>2 DEF BeginTransaction
<1>3. ASSUME NEW r \in Replicas, Upgrade(r) PROVE TypeOK'
  BY <1>3 DEF Upgrade
<1>4. ASSUME NEW r \in Replicas, UpgradeFails(r) PROVE TypeOK'
  BY <1>4 DEF UpgradeFails
<1>5. ASSUME NEW r \in Replicas, Commit(r) PROVE TypeOK'
  BY <1>5 DEF Commit, Revisions
<1>6. ASSUME NEW r \in Replicas, Unlock(r) PROVE TypeOK'
  BY <1>6 DEF Unlock
<1>7. ASSUME NEW r \in Replicas, Crash(r) PROVE TypeOK'
  BY <1>7 DEF Crash
<1>8. ASSUME NEW r \in Replicas, LoseLock(r) PROVE TypeOK'
  BY <1>8 DEF LoseLock
<1>9. CASE UNCHANGED vars
  BY <1>9 DEF vars
<1>10. QED
  BY <1>1, <1>2, <1>3, <1>4, <1>5, <1>6, <1>7, <1>8, <1>9 DEF Next, Step

(* A transaction that commits either creates every revision above the      *)
(* committed one or none at all.                                           *)
LEMMA CommitFrom ==
  ASSUME MigrationsInv, NEW r \in Replicas, Commit(r)
  PROVE  from[r] = version
  BY DEF Commit, MigrationsInv, TypeOK, TransactionInv

(* The schema: each revision is created by the one commit that brings it.  *)
LEMMA NextRevisions ==
  ASSUME MigrationsInv, [Next]_vars
  PROVE  RevisionsOnce'
<1> USE DEF MigrationsInv, TypeOK, RevisionsOnce
<1>1. ASSUME NEW r \in Replicas, Commit(r) PROVE RevisionsOnce'
  BY <1>1, CommitFrom DEF Commit, Revisions
<1>2. CASE UNCHANGED <<version, created>>
  BY <1>2
<1>3. QED
  BY <1>1, <1>2 DEF Next, Step, vars, Lock, BeginTransaction, Upgrade, UpgradeFails, Unlock,
                    Crash, LoseLock

(* Transactions: the second creator of a table waits for the first, so     *)
(* that at most one transaction has created any.                           *)
LEMMA NextTransaction ==
  ASSUME MigrationsInv, [Next]_vars
  PROVE  TransactionInv'
<1> USE DEF MigrationsInv, TypeOK, TransactionInv, Goto
<1>1. ASSUME NEW r \in Replicas, BeginTransaction(r) PROVE TransactionInv'
  BY <1>1 DEF BeginTransaction
<1>2. ASSUME NEW r \in Replicas, Upgrade(r) PROVE TransactionInv'
  <2>1. pc' = pc /\ from' = from /\ version' = version
    BY <1>2 DEF Upgrade
  <2>2. \A q \in Replicas : at'[q] = IF q = r THEN at[r] + 1 ELSE at[q]
    BY <1>2 DEF Upgrade
  <2>3. from[r] = version
    BY <1>2 DEF Upgrade
  <2>4. ASSUME NEW q \in Replicas, q # r, pc[q] = "upgrade", from[q] < at[q]
        PROVE  FALSE
    <3>1. from[q] = version /\ at[r] = version
      BY <1>2, <2>3, <2>4 DEF Upgrade
    <3>2. Creating(at[r] + 1, r)
      BY <2>4, <3>1 DEF Creating
    <3>3. QED
      BY <1>2, <3>2 DEF Upgrade
  <2>5. QED
    BY <1>2, <2>1, <2>2, <2>3, <2>4 DEF Upgrade
<1>3. ASSUME NEW r \in Replicas, Commit(r) PROVE TransactionInv'
  <2>1. from' = from /\ at' = at /\ version' = Head
        /\ \A q \in Replicas : pc'[q] = IF q = r THEN "unlock" ELSE pc[q]
    BY <1>3 DEF Commit
  <2>2. from[r] = version /\ at[r] = Head /\ pc[r] = "upgrade"
    BY <1>3, CommitFrom DEF Commit
  <2>3. QED
    BY <2>1, <2>2
<1>4. ASSUME NEW r \in Replicas, Lock(r) \/ UpgradeFails(r) \/ Unlock(r) \/ Crash(r)
      PROVE  TransactionInv'
  <2>1. UNCHANGED <<from, at, version>>
        /\ \A q \in Replicas : pc'[q] = "upgrade" => pc[q] = "upgrade"
    BY <1>4 DEF Lock, UpgradeFails, Unlock, Crash
  <2>2. QED
    BY <2>1
<1>5. CASE UNCHANGED <<pc, from, at, version>>
  BY <1>5
<1>6. QED
  BY <1>1, <1>2, <1>3, <1>4, <1>5 DEF Next, Step, vars, LoseLock

(* No step takes a revision back, and serving begins after a commit. *)
LEMMA NextMigrated ==
  ASSUME MigrationsInv, [Next]_vars
  PROVE  MigratedInv'
<1> USE DEF MigrationsInv, TypeOK, MigratedInv, Goto
<1>1. ASSUME NEW r \in Replicas, Commit(r) PROVE MigratedInv'
  BY <1>1 DEF Commit
<1>2. ASSUME NEW r \in Replicas, Unlock(r) PROVE MigratedInv'
  BY <1>2 DEF Unlock
<1>3. ASSUME NEW r \in Replicas,
             Lock(r) \/ BeginTransaction(r) \/ UpgradeFails(r) \/ Crash(r)
      PROVE  MigratedInv'
  BY <1>3 DEF Lock, BeginTransaction, UpgradeFails, Crash
<1>4. CASE UNCHANGED <<pc, version>>
  BY <1>4
<1>5. QED
  BY <1>1, <1>2, <1>3, <1>4 DEF Next, Step, vars, Upgrade, LoseLock

(* The lock: with its connections intact one replica migrates at a time.   *)
LEMMA NextLock ==
  ASSUME MigrationsInv, [Next]_vars
  PROVE  LockInv'
<1> USE DEF MigrationsInv, TypeOK, LockInv, Goto
<1>0. \A q, r \in holder : q = r
  OBVIOUS
<1>1. ASSUME NEW r \in Replicas, Lock(r) PROVE LockInv'
  BY <1>1 DEF Lock
<1>2. ASSUME NEW r \in Replicas, BeginTransaction(r) PROVE LockInv'
  BY <1>2 DEF BeginTransaction
<1>3. ASSUME NEW r \in Replicas, Upgrade(r) PROVE LockInv'
  BY <1>3 DEF Upgrade
<1>4. ASSUME NEW r \in Replicas, UpgradeFails(r) PROVE LockInv'
  <2>1. from[r] <= at[r] /\ version > at[r] /\ lost' = lost
    BY <1>4 DEF UpgradeFails, TransactionInv
  <2>2. lost # 0
    BY <1>4, <2>1 DEF UpgradeFails
  <2>3. QED
    BY <2>1, <2>2
<1>5. ASSUME NEW r \in Replicas, Commit(r) PROVE LockInv'
  BY <1>0, <1>5 DEF Commit
<1>6. ASSUME NEW r \in Replicas, Unlock(r) PROVE LockInv'
  BY <1>0, <1>6 DEF Unlock
<1>7. ASSUME NEW r \in Replicas, Crash(r) PROVE LockInv'
  BY <1>0, <1>7 DEF Crash
<1>8. ASSUME NEW r \in Replicas, LoseLock(r) PROVE LockInv'
  BY <1>8 DEF LoseLock
<1>9. CASE UNCHANGED vars
  BY <1>9 DEF vars
<1>10. QED
  BY <1>1, <1>2, <1>3, <1>4, <1>5, <1>6, <1>7, <1>8, <1>9 DEF Next, Step

(* The inductive invariant of the start of any number of replicas. *)
THEOREM MigrationsInductive == Spec => []MigrationsInv
<1>1. MigrationsInv /\ [Next]_vars => MigrationsInv'
  <2> SUFFICES ASSUME MigrationsInv, [Next]_vars PROVE MigrationsInv'
    OBVIOUS
  <2>1. TypeOK'
    BY NextType DEF MigrationsInv
  <2>2. QED
    BY <2>1, NextRevisions, NextTransaction, NextMigrated, NextLock DEF MigrationsInv
<1>2. QED
  BY <1>1, InitInv, PTL DEF Spec

(* The tables of a revision are created by one committed transaction, also *)
(* when the lock is lost and two migrations overlap (migrations/env.py).   *)
THEOREM CreatedOnce == Spec => []RevisionsOnce
<1>1. MigrationsInv => RevisionsOnce
  BY DEF MigrationsInv
<1>2. QED
  BY <1>1, MigrationsInductive, PTL

(* Unless a lock connection is lost no replica makes the migration of      *)
(* another fail.                                                           *)
THEOREM LockEffective == Spec => []LockSerializes
<1>1. MigrationsInv => LockSerializes
  BY DEF MigrationsInv, LockInv, LockSerializes
<1>2. QED
  BY <1>1, MigrationsInductive, PTL

(* No replica serves an incomplete schema. *)
THEOREM ServingComplete == Spec => []ServesAtHead
<1>1. MigrationsInv => ServesAtHead
  BY DEF MigrationsInv, MigratedInv, ServesAtHead
<1>2. QED
  BY <1>1, MigrationsInductive, PTL
=============================================================================
