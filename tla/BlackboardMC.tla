---------------------------- MODULE BlackboardMC ----------------------------
(* Two types of tasks; one agent per type or one agent for all of them.    *)
EXTENDS BlackboardRefinement

CONSTANTS t1, t2, t3, a1, a2, flow, exec

Tasks1 == {t1}
Tasks2 == {t1, t2}
Tasks3 == {t1, t2, t3}
TypeMap == [t \in Tasks |-> IF t = t2 THEN exec ELSE flow]

Agents1 == {a1}
Agents2 == {a1, a2}
\* a1 claims any task, a2 only tasks of the first type.
ServeMap == [a \in Agents |-> IF a = a1 THEN AnyType ELSE flow]
=============================================================================
