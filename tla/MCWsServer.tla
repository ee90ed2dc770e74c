------------------------------ MODULE MCWsServer ------------------------------
(* Two clients of one or two processes, and one room, for TLC.                *)
EXTENDS WsServer, TLC

CONSTANTS c1, c2, p1, p2, m1, m2

Symmetric == Permutations({c1, c2}) \cup Permutations({p1, p2}) \cup Permutations({m1, m2})
=============================================================================
