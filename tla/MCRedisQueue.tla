----------------------------- MODULE MCRedisQueue -----------------------------
(* RedisQueue on a small instance; the .cfg file gives the constants their     *)
(* values.                                                                     *)
EXTENDS RedisQueue
=============================================================================
