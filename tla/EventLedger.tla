----------------------------- MODULE EventLedger -----------------------------
(***************************************************************************)
(* What delivery promises, without a relay, a stream or a worker: an       *)
(* accepted event is applied at most once, in one step, to the fleet state *)
(* and the incidents, and entries that are not accepted events are parked. *)
(***************************************************************************)
CONSTANTS
    Events, Foreign, Agents,
    AgentOf,  \* the agent of an event
    Met,      \* the incident conditions an event meets
    NoBatch

VARIABLES accepted, applied, fleet, incidents, parked

vars == <<accepted, applied, fleet, incidents, parked>>

Init ==
    /\ accepted = {}
    /\ applied = {}
    /\ fleet = [a \in Agents |-> NoBatch]
    /\ incidents = {}
    /\ parked = {}

Accept(e) ==
    /\ accepted' = accepted \cup {e}
    /\ UNCHANGED <<applied, fleet, incidents, parked>>

Apply(e) ==
    /\ e \in accepted \ applied
    /\ applied' = applied \cup {e}
    /\ fleet' = [fleet EXCEPT ![AgentOf[e]] = e]
    /\ incidents' = incidents \cup ({AgentOf[e]} \X Met[e])
    /\ UNCHANGED <<accepted, parked>>

Park(x) ==
    /\ parked' = parked \cup {x}
    /\ UNCHANGED <<accepted, applied, fleet, incidents>>

Next ==
    \/ \E e \in Events : Accept(e) \/ Apply(e)
    \/ \E x \in Foreign : Park(x)

Spec == Init /\ [][Next]_vars
=============================================================================
