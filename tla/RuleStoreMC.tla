---------------------------- MODULE RuleStoreMC -----------------------------
(* Two rules, of which the texts low and high contradict each other.       *)
EXTENDS RuleStore

CONSTANTS r1, r2, low, high

Contradictions == {<<low, high>>}
SeedTexts      == [r \in Seeds |-> low]
=============================================================================
