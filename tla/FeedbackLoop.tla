---------------------------- MODULE FeedbackLoop ----------------------------
(***************************************************************************)
(* The feedback loop of a test run in langgraph mode: LangGraphRuleRunner  *)
(* (src/app/agents/graph.py), the two agents that may ask an LLM           *)
(* (scenario_generator.py and critic.py in src/app/agents/testing), the    *)
(* client they ask (src/app/llm/client.py) and the cost tracker of the     *)
(* request (src/app/llm/cost.py).  Rules are tested one after the other;   *)
(* the tracker is shared by all of them.                                   *)
(*                                                                         *)
(* Money is counted in small units.  What the provider bills is its own    *)
(* affair and the program never learns of it: it records an estimate, from *)
(* the tokens an answer reports and a price table of its own, with default *)
(* prices for the models it does not know.  So "spent" is a history        *)
(* variable next to the tracker's totals, and an estimate may be more or   *)
(* less than the bill.  Flow plan, execution and oracle of one scenario    *)
(* are one step here, with any of the three verdicts; modules Pipeline and *)
(* Conditions have them.                                                   *)
(***************************************************************************)
EXTENDS Naturals, Sequences, SequencesExt

CONSTANTS
  RuleOrder,     \* the active rules, in the order get_active_rules gives them
  MaxIterations, \* settings.max_feedback_iterations
  MaxScenarios,  \* settings.max_scenarios_per_rule
  MaxRetries,    \* settings.openrouter_max_retries
  RuleCap, RunCap, \* settings.max_cost_per_rule_usd, max_cost_per_run_usd
  Bills, MaxBill, \* bound: what the provider may bill for a single post, and the most
  Estimates, MaxEstimate, \* bound: what may be recorded for an answer, and the most
  OtherIds,      \* ids an LLM may give to scenarios, next to those of the code
  Answers,       \* scenario lists an LLM may answer with
  Reviews        \* sets of findings an LLM critic may answer with

Labels   == {"valid", "boundary", "invalid", "edge"}
Verdicts == {"pass", "fail", "inconclusive"}
Kinds    == {"missing_edge_case", "rule_confidence_update", "flow_gap",
             "false_positive", "false_negative", "rule_revision_suggestion"}

\* An id is written without the rule's id before it.
EdgeId   == "SCN_EDGE_001"
KnownIds == {"SCN_001", "SCN_002", "SCN_003", EdgeId} \cup OtherIds
Scenario == [id : KnownIds, label : Labels, expected : {"pass", "fail"}]

ASSUME FeedbackLoopConstants ==
  /\ RuleOrder \in Seq(STRING) /\ IsInjective(RuleOrder)
  /\ MaxIterations \in Nat /\ MaxScenarios \in Nat \ {0} /\ MaxRetries \in Nat
  /\ RuleCap \in Nat \ {0} /\ RunCap \in Nat \ {0}
  /\ MaxBill \in Nat /\ Bills \subseteq 0 .. MaxBill
  /\ MaxEstimate \in Nat /\ Estimates \subseteq 0 .. MaxEstimate
  /\ Answers \subseteq Seq(Scenario)
  /\ Reviews \subseteq SUBSET Kinds

VARIABLES
  llm,        \* whether a client was configured (an API key is set)
  node,       \* the node of the graph that runs; "idle" between two rules
  turn,       \* how many rules were begun: RuleOrder[turn] is being tested
  iteration,
  scenarios,
  pending,    \* pending_scenarios still to be executed
  results,    \* per result the scenario's id, its expectation and the verdict
  verdicts,   \* last_iteration_verdicts
  history,    \* feedback_history, as the kinds each feedback found
  post,       \* 0, or the number of the post that is in flight for this call
  runTotal,   \* _run_total_usd
  ruleTotals, \* _rule_totals_usd
  spent       \* history: rule -> what the provider billed for it

stateVars == <<iteration, scenarios, pending, results, verdicts, history>>
moneyVars == <<runTotal, ruleTotals, spent>>
vars == <<llm, node, turn, stateVars, post, moneyVars>>

Rules == Range(RuleOrder)
Rule  == RuleOrder[turn]
Ids(s) == {s[i].id : i \in DOMAIN s}
HasEdge == \E i \in DOMAIN scenarios : scenarios[i].label = "edge"

\* processed_scenario_ids grows with results, in the same loop.
Processed == Ids(results)

\* Type correctness; iterations and feedback stay in step.
TypeOK ==
  /\ llm \in BOOLEAN
  /\ node \in {"idle", "generator", "execute", "critic", "route", "raised"}
  /\ turn \in 0 .. Len(RuleOrder) /\ (node # "idle" => turn > 0)
  /\ iteration \in Nat /\ Len(history) = iteration
  /\ scenarios \in Seq(Scenario) /\ pending \in Seq(Scenario)
  /\ results \in Seq([id : KnownIds, expected : {"pass", "fail"}, verdict : Verdicts])
  /\ verdicts \in Seq([id : KnownIds, verdict : Verdicts])
  /\ history \in Seq(SUBSET Kinds)
  /\ post \in 0 .. MaxRetries + 1
  /\ (post > 0 => llm /\ node \in {"generator", "critic"})
  /\ runTotal \in Nat /\ ruleTotals \in [Rules -> Nat] /\ spent \in [Rules -> Nat]

Init ==
  /\ llm \in BOOLEAN /\ node = "idle" /\ turn = 0 /\ post = 0
  /\ iteration = 0 /\ scenarios = <<>> /\ pending = <<>>
  /\ results = <<>> /\ verdicts = <<>> /\ history = <<>>
  /\ runTotal = 0
  /\ ruleTotals = [r \in Rules |-> 0] /\ spent = [r \in Rules |-> 0]

----------------------------------------------------------------------------
(* The deterministic halves of the two agents.                             *)

S(id, label, expected) == [id |-> id, label |-> label, expected |-> expected]

Cut(s) == SubSeq(s, 1, IF Len(s) < MaxScenarios THEN Len(s) ELSE MaxScenarios)

Generate(rule) ==
  Cut(CASE rule = "SHIP_001" -> <<S("SCN_001", "valid", "pass"),
                                  S("SCN_002", "boundary", "pass"),
                                  S("SCN_003", "invalid", "fail")>>
        [] rule = "SHIP_002" -> <<S("SCN_001", "valid", "pass"),
                                  S("SCN_002", "invalid", "fail")>>
        [] OTHER             -> <<S("SCN_001", "valid", "pass")>>)

\* scenario_by_id keeps the last scenario of an id.
ExpectedOf(id) ==
  LET last == CHOOSE i \in DOMAIN scenarios :
                /\ scenarios[i].id = id
                /\ \A j \in DOMAIN scenarios : scenarios[j].id = id => j <= i
  IN  scenarios[last].expected

\* Mutant: the expectation of a failed scenario is not looked at.
AnalyzeBlind ==
  {k \in Kinds : \/ k = "rule_confidence_update"
                    /\ \E v \in Range(verdicts) : v.verdict = "fail"
                 \/ k = "flow_gap"
                    /\ \E v \in Range(verdicts) : v.verdict = "inconclusive"
                 \/ k = "missing_edge_case" /\ ~HasEdge}
Analyze ==
  LET Some(verdict, expected) ==
        \E v \in Range(verdicts) : /\ v.verdict = verdict
                                   /\ ExpectedOf(v.id) \in expected
  IN  {k \in Kinds :
         \/ k = "rule_confidence_update" /\ Some("fail", {"fail"})
         \/ k = "false_positive"         /\ Some("fail", {"pass"})
         \/ k = "flow_gap"               /\ Some("inconclusive", {"pass", "fail"})
         \/ k = "missing_edge_case"      /\ ~HasEdge}

----------------------------------------------------------------------------
(* The cost tracker.                                                       *)

\* ensure_can_call raises, and is_exceeded is true, in the same states.
Exceeded == runTotal >= RunCap \/ ruleTotals[Rule] >= RuleCap

Bill(n) == spent' = [spent EXCEPT ![Rule] = @ + n]

AddUsage(estimate) ==
  /\ runTotal' = runTotal + estimate
  /\ ruleTotals' = [ruleTotals EXCEPT ![Rule] = @ + estimate]

----------------------------------------------------------------------------
(* What a node returns.                                                    *)

\* What s has at the positions of P, in order: the k-th is the one that k
\* positions of P do not exceed.
AtPositions(s, P) ==
  [k \in 1 .. Cardinality(P) |-> s[CHOOSE i \in P : Cardinality({j \in P : j <= i}) = k]]

\* Mutant: every scenario is pending again in each iteration.
PendingAll(s) == s
Pending(s) == AtPositions(s, {i \in DOMAIN s : s[i].id \notin Processed})

Generated(s) ==
  /\ scenarios' = s /\ pending' = Pending(s) /\ verdicts' = <<>>
  /\ node' = "execute" /\ post' = 0
  /\ UNCHANGED <<iteration, results, history>>

\* Mutant: feedback of the fallback is kept next to that of the LLM.
CriticisedTwice(findings) ==
  /\ iteration' = iteration + 1 /\ history' = history \o <<Analyze, findings>>
  /\ node' = "route" /\ post' = 0
  /\ UNCHANGED <<scenarios, pending, results, verdicts>>
Criticised(findings) ==
  /\ iteration' = iteration + 1 /\ history' = Append(history, findings)
  /\ node' = "route" /\ post' = 0
  /\ UNCHANGED <<scenarios, pending, results, verdicts>>

\* The nodes that consult the LLM: the generator has scenarios after iteration 0.
AtGenerator == node = "generator" /\ iteration = 0
AtCritic    == node = "critic"
BeforeCall  == post = 0 /\ (AtGenerator \/ AtCritic)

Fallback == \/ AtGenerator /\ Generated(Generate(Rule))
            \/ AtCritic /\ Criticised(Analyze)

----------------------------------------------------------------------------
(* Steps of the graph.                                                     *)

\* run_rule: the next rule, with an empty state.
BeginRule ==
  /\ node = "idle" /\ turn < Len(RuleOrder)
  /\ turn' = turn + 1 /\ node' = "generator"
  /\ iteration' = 0 /\ scenarios' = <<>> /\ pending' = <<>>
  /\ results' = <<>> /\ verdicts' = <<>> /\ history' = <<>>
  /\ UNCHANGED <<llm, post, moneyVars>>

\* Mutant: a rule whose cap is reached is left waiting.
SkipNoClient ==
  /\ BeforeCall /\ ~llm
  /\ Fallback
  /\ UNCHANGED <<llm, turn, moneyVars>>
\* No client, or the caps are reached: the deterministic half answers.
SkipLLM ==
  /\ BeforeCall /\ (~llm \/ Exceeded)
  /\ Fallback
  /\ UNCHANGED <<llm, turn, moneyVars>>

\* Mutant: the caps are not looked at before a call.
AskUnguarded ==
  /\ BeforeCall /\ llm
  /\ post' = 1
  /\ UNCHANGED <<llm, node, turn, stateVars, moneyVars>>
Ask ==
  /\ BeforeCall /\ llm /\ ~Exceeded
  /\ post' = 1
  /\ UNCHANGED <<llm, node, turn, stateVars, moneyVars>>

\* Mutant: the last attempt is counted one too late.
PostFailsOnceMore(bill) ==
  /\ post > 0
  /\ Bill(bill)
  /\ \/ post <= MaxRetries + 1 /\ post' = post + 1 /\ UNCHANGED <<node, stateVars>>
     \/ post = MaxRetries + 2 /\ Fallback
  /\ UNCHANGED <<llm, turn, runTotal, ruleTotals>>
\* A post times out, or its answer is an error or no JSON object.  It may have
\* been billed; the caps are not looked at again before the next attempt.
PostFails(bill) ==
  /\ post > 0
  /\ Bill(bill)
  /\ \/ post <= MaxRetries /\ post' = post + 1 /\ UNCHANGED <<node, stateVars>>
     \/ post = MaxRetries + 1 /\ Fallback
  /\ UNCHANGED <<llm, turn, runTotal, ruleTotals>>

\* The provider's answer has no JSON object in it: extract_json_object raises
\* before the agent has recorded the usage.
Unreadable(bill) ==
  /\ post > 0
  /\ Bill(bill)
  /\ Fallback
  /\ UNCHANGED <<llm, turn, runTotal, ruleTotals>>

\* What is made of a valid answer.  An empty list of scenarios is none.
GeneratorUses == AtGenerator /\ \E s \in Answers \ {<<>>} : Generated(Cut(s))
CriticUses    == AtCritic /\ \E findings \in Reviews : Criticised(findings)

\* A readable answer, its cost estimated and recorded: nothing where the provider
\* leaves the usage out, and otherwise whatever the price table makes of the
\* tokens.  add_usage raises when the answer reaches a cap, and validation may:
\* the answer is then dropped for the deterministic one.
Answered(bill, estimate) ==
  /\ post > 0
  /\ UNCHANGED <<llm, turn>>
  /\ Bill(bill) /\ AddUsage(estimate)
  /\ \/ Fallback
     \/ ~Exceeded' /\ (GeneratorUses \/ CriticUses)

\* A later visit to the generator: no LLM, one scenario more.
AddEdge ==
  /\ node = "generator" /\ iteration > 0
  /\ Generated(IF HasEdge \/ scenarios = <<>> THEN scenarios
               ELSE Append(scenarios, S(EdgeId, "edge", "pass")))
  /\ UNCHANGED <<llm, turn, moneyVars>>

\* Flow plan, execution, log and oracle of the next pending scenario.
Execute(verdict) ==
  /\ node = "execute" /\ pending # <<>>
  /\ LET s == Head(pending)
     IN  /\ results' = Append(results, [id |-> s.id, expected |-> s.expected,
                                        verdict |-> verdict])
         /\ verdicts' = Append(verdicts, [id |-> s.id, verdict |-> verdict])
  /\ pending' = Tail(pending)
  /\ UNCHANGED <<llm, node, turn, iteration, scenarios, history, post, moneyVars>>

\* The log's database raises: nothing on the way catches it, and the run ends
\* without the results it has.
LogRaises ==
  /\ node = "execute" /\ pending # <<>>
  /\ node' = "raised"
  /\ UNCHANGED <<llm, turn, stateVars, post, moneyVars>>

Executed ==
  /\ node = "execute" /\ pending = <<>>
  /\ node' = "critic"
  /\ UNCHANGED <<llm, turn, stateVars, post, moneyVars>>

DiminishingReturns ==
  iteration >= 2 /\ history[iteration] = history[iteration - 1]

\* Mutant: the loop goes on for any finding.
ContinuesOnFindings ==
  iteration < MaxIterations /\ history[iteration] # {} /\ ~Exceeded
Continues ==
  /\ iteration < MaxIterations
  /\ ~Exceeded
  /\ ~DiminishingReturns
  /\ "missing_edge_case" \in history[iteration] /\ ~HasEdge

Route ==
  /\ node = "route"
  /\ node' = IF Continues THEN "generator" ELSE "idle"
  /\ UNCHANGED <<llm, turn, stateVars, post, moneyVars>>

Next ==
  \/ BeginRule \/ SkipLLM \/ Ask
  \/ \E bill \in Bills :
       \/ PostFails(bill) \/ Unreadable(bill)
       \/ \E estimate \in Estimates : Answered(bill, estimate)
  \/ AddEdge \/ (\E v \in Verdicts : Execute(v)) \/ LogRaises \/ Executed
  \/ Route

\* The event loop runs the request, and every post is answered or times out.
Spec == Init /\ [][Next]_vars /\ WF_vars(Next)

----------------------------------------------------------------------------
(* What the loop guarantees.                                               *)

\* What is recorded passes a cap by less than one answer, for the request and
\* for every rule, although the caps are looked at before a call and its cost
\* is known after it (ensure_can_call and add_usage).
CapsHold ==
  /\ runTotal < RunCap + MaxEstimate
  /\ \A r \in Rules : ruleTotals[r] < RuleCap + MaxEstimate

\* What bounds the bill of a rule is not the caps, as what is recorded has
\* nothing to do with it and may be nothing at all, but the shape of the loop:
\* three calls for a rule (the generator's in iteration 0 and the critic's in
\* two iterations) of max_retries + 1 posts each (_post_with_retries), every
\* one of which may be billed, the failed ones included.
SpentIsBounded ==
  \A r \in Rules : spent[r] <= 3 * (MaxRetries + 1) * MaxBill

\* A rule is refined once at most, whatever max_iterations allows: an edge
\* scenario is only asked for while there is none (_route_after_critic).
AtMostOneRefinement ==
  /\ iteration <= 2
  /\ Len(scenarios) <= MaxScenarios + 1

\* When the critic runs, every scenario of the rule was executed once, in the
\* order of the list.  The edge scenario is left out only where an LLM gave
\* its id to another one (pending is what has an id not processed yet).
EachScenarioOnce ==
  LET tried(s) == /\ Len(results) = Len(s)
                  /\ \A i \in DOMAIN s : results[i].id = s[i].id
  IN  node \in {"critic", "route", "idle"} =>
        \/ tried(scenarios)
        \/ /\ tried(Front(scenarios))
           /\ Last(scenarios).id \in Ids(Front(scenarios))

\* Without an LLM, the feedback of all iterations together reports exactly
\* what the results show, although each analysis sees only the verdicts of
\* its own iteration (last_iteration_verdicts).
FeedbackMatchesResults ==
  LET reported(k) == \E i \in DOMAIN history : k \in history[i]
      shown(v, e) == \E i \in DOMAIN results : /\ results[i].verdict = v
                                               /\ results[i].expected \in e
  IN  node \in {"route", "idle"} /\ ~llm =>
        /\ reported("false_positive") <=> shown("fail", {"pass"})
        /\ reported("rule_confidence_update") <=> shown("fail", {"fail"})
        /\ reported("flow_gap") <=> shown("inconclusive", {"pass", "fail"})

\* Every request ends, with all rules tested or with an exception, however
\* often the provider fails.
LoopEnds ==
  <>[](node = "raised" \/ (node = "idle" /\ turn = Len(RuleOrder)))
=============================================================================
