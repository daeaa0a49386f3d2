------------------------- MODULE RedisBlackboardMC --------------------------
(* Two agents, of which one claims any task and one a single type.         *)
EXTENDS RedisBlackboard

CONSTANTS t1, t2, t3, a1, a2, flow, exec

TypeMap  == [t \in Tasks |-> IF t = t2 THEN exec ELSE flow]
ServeMap == [a \in Agents |-> IF a = a1 THEN AnyType ELSE flow]
=============================================================================
