--------------------------- MODULE FeedbackLoopMC ---------------------------
(* Two rules, one with a scenario that must fail, and an LLM that may give  *)
(* too many scenarios, the same id twice, or the id of the edge scenario.   *)
EXTENDS FeedbackLoop

MCRuleOrder == <<"SHIP_002", "SHIP_009">>

MCAnswers ==
  {<<S("SCN_001", "valid", "pass"), S("SCN_001", "invalid", "fail")>>,
   <<S(EdgeId, "valid", "pass")>>,
   <<S("SCN_LLM", "edge", "pass"), S("SCN_002", "valid", "pass"),
     S("SCN_003", "invalid", "fail")>>}

MCReviews == {{}, {"missing_edge_case"}}
=============================================================================
