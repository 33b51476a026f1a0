--------------------------- MODULE DeliveryLedger ---------------------------
(***************************************************************************)
(* Delivery implements EventLedger: the outbox is the set of accepted      *)
(* events, processed_events the set of applied ones, and an entry is       *)
(* parked when its row is in dead_letters.                                 *)
(***************************************************************************)
EXTENDS Delivery

ParkedEntries == {stream[m] : m \in deadLetters}
AgentOf == [e \in Events |-> Batch[e].agent]
Met == [e \in Events |-> Conditions(e)]

Ledger == INSTANCE EventLedger WITH
            accepted  <- Accepted,
            applied   <- processed,
            fleet     <- fleetState,
            parked    <- ParkedEntries

(* Every behaviour of the relay, the stream and the workers, with their    *)
(* duplicates, reclaims and crashes, is a behaviour of the ledger.         *)
ImplementsLedger == Ledger!Spec
=============================================================================
