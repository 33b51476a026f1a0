--------------------------- MODULE MCRedisRestart ---------------------------
(* Instances of Delivery over a Redis that may lose its unflushed tail. *)
EXTENDS RedisRestart, MCDelivery
=============================================================================
