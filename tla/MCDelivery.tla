----------------------------- MODULE MCDelivery -----------------------------
(* Small instances of Delivery. *)
EXTENDS Delivery, TLC

CONSTANTS e1, e2, e3, a1, a2

(* e1 crosses both thresholds, the memory one exactly; e2 crosses them only *)
(* in samples that are not the first of its latest; e3 is another agent's.  *)
MCBatch ==
    e1 :> [agent |-> a1, samples |-> <<[at |-> 1, cpu |-> 3, memory |-> 2]>>] @@
    e2 :> [agent |-> a1, samples |-> <<[at |-> 1, cpu |-> 3, memory |-> 1],
                                       [at |-> 2, cpu |-> 1, memory |-> 1],
                                       [at |-> 2, cpu |-> 3, memory |-> 3]>>] @@
    e3 :> [agent |-> a2, samples |-> <<[at |-> 2, cpu |-> 2, memory |-> 1],
                                       [at |-> 1, cpu |-> 1, memory |-> 3]>>]

(* e1 and e2 were created at the same instant, e3 before them. *)
MCCreatedAt == [e \in Events |-> IF e = e3 THEN 1 ELSE 2]

WorkerSymmetry == Permutations(Workers)
RelaySymmetry == Permutations(Relays)
=============================================================================
