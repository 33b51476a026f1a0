-------------------------- MODULE MCDeliveryLedger --------------------------
(* Instances of Delivery checked against EventLedger. *)
EXTENDS DeliveryLedger, MCDelivery
=============================================================================
