------------------------- MODULE BlackboardRunnerMC -------------------------
(* One rule, with one scenario or with two.                                *)
EXTENDS BlackboardRunner

CONSTANTS r1, s1, s2

RuleMap == [s \in Scenarios |-> r1]
=============================================================================
