----------------------------- MODULE MCAssistant -----------------------------
(* Three analyses, the last without evidence, and reviews of which two name *)
(* the same proposal and one a proposal of another analysis.                *)
EXTENDS Assistant, TLC

CONSTANTS a1, a2, a3, v1, v2, v3

MCEvidence == a1 :> 2 @@ a2 :> 1 @@ a3 :> 0
MCTarget == v1 :> <<a1, 1>> @@ v2 :> <<a1, 1>> @@ v3 :> <<a2, 2>>

(* Supported, with a secret; citing what only a1 supplied; proposing on an  *)
(* unknown item; without claims; abstaining; abstaining and yet proposing.  *)
MCOutputs ==
    {[abstained |-> FALSE, claims |-> <<{1}>>, proposals |-> <<{1}, {1}>>, secret |-> TRUE],
     [abstained |-> FALSE, claims |-> <<{1}, {1, 2}>>, proposals |-> <<{2}>>, secret |-> FALSE],
     [abstained |-> FALSE, claims |-> <<{1}>>, proposals |-> <<{3}>>, secret |-> FALSE],
     [abstained |-> FALSE, claims |-> <<>>, proposals |-> <<{1}>>, secret |-> FALSE],
     [abstained |-> TRUE, claims |-> <<>>, proposals |-> <<>>, secret |-> TRUE],
     [abstained |-> TRUE, claims |-> <<>>, proposals |-> <<{1}>>, secret |-> FALSE]}
=============================================================================
