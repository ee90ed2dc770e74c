----------------------------- MODULE MCNatsQueue -----------------------------
(* Two subscriptions, of one consumer or of two, and two messages, for TLC.   *)
EXTENDS NatsQueue
=============================================================================
