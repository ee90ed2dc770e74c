---------------------------- MODULE MCMemoryQueue ----------------------------
(* Two subscriptions with the two meanings of "#", and two messages for TLC,  *)
(* one of which no subscription is for.                                       *)
EXTENDS MemoryQueue

CONSTANTS s1, s2, m1, m2

MCDeclared == <<s1, s2>>
MCPattern == s1 :> <<"{}", "#">> @@ s2 :> <<"#", "b">>
MCTopic == m1 :> <<"a", "b">> @@ m2 :> <<"a">>
MCPriority == m1 :> 0 @@ m2 :> 1
=============================================================================
