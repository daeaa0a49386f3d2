------------------------- MODULE FeedbackLoopProofs -------------------------
(***************************************************************************)
(* What TLAPS proves of the feedback loop, for any rules, iterations,      *)
(* retries, caps and bills, and whatever the LLM answers: that a rule is   *)
(* refined once at most, that the totals pass a cap by less than one       *)
(* answer, that the calls made for a rule bound what is billed for it,     *)
(* that every scenario is executed once, and that the feedback given       *)
(* without an LLM says what the results show.                              *)
(***************************************************************************)
EXTENDS FeedbackLoop, SequenceTheorems, FiniteSetTheorems, TLAPS

----------------------------------------------------------------------------
(* The shape of the loop.                                                  *)

Some(s) == s \in Seq(Scenario) /\ s # <<>>

\* Which iterations a node can be in.  The refinement is over as soon as there
\* is an edge scenario, and the second visit to the generator leaves one.
Shape ==
  /\ scenarios \in Seq(Scenario)
  /\ turn \in 0 .. Len(RuleOrder)
  /\ post \in 0 .. MaxRetries + 1
  /\ \/ node = "idle" /\ iteration \in 0 .. 2 /\ Len(scenarios) <= MaxScenarios + 1 /\ post = 0
     \/ node = "generator" /\ iteration = 0 /\ turn > 0 /\ Len(scenarios) = 0
     \/ /\ node = "generator" /\ iteration = 1 /\ turn > 0 /\ post = 0
        /\ Some(scenarios) /\ Len(scenarios) <= MaxScenarios
     \/ /\ node \in {"execute", "critic", "raised"} /\ iteration = 0 /\ turn > 0
        /\ Some(scenarios) /\ Len(scenarios) <= MaxScenarios
        /\ (post > 0 => node = "critic")
     \/ /\ node \in {"execute", "critic", "raised"} /\ iteration = 1 /\ turn > 0
        /\ HasEdge /\ Len(scenarios) <= MaxScenarios + 1
        /\ (post > 0 => node = "critic")
     \/ /\ node = "route" /\ iteration = 1 /\ turn > 0 /\ post = 0
        /\ Some(scenarios) /\ Len(scenarios) <= MaxScenarios
     \/ /\ node = "route" /\ iteration = 2 /\ turn > 0 /\ post = 0
        /\ HasEdge /\ Len(scenarios) <= MaxScenarios + 1

(* Cutting a list to the allowed length leaves some of it.                 *)
LEMMA CutLeavesSome ==
  ASSUME NEW s, Some(s)
  PROVE  Some(Cut(s)) /\ Len(Cut(s)) <= MaxScenarios
<1> DEFINE n == IF Len(s) < MaxScenarios THEN Len(s) ELSE MaxScenarios
<1>1. MaxScenarios \in Nat \ {0}
  BY FeedbackLoopConstants
<1>2. Len(s) \in Nat /\ Len(s) > 0 /\ \A i \in 1 .. Len(s) : s[i] \in Scenario
  BY LenProperties, EmptySeq DEF Some
<1>3. n \in Nat /\ n > 0 /\ n <= MaxScenarios /\ \A i \in 1 .. n : s[i] \in Scenario
  BY <1>1, <1>2
<1>4. /\ SubSeq(s, 1, n) \in Seq(Scenario)
      /\ Len(SubSeq(s, 1, n)) = n
  BY <1>3, SubSeqProperties, SMT
<1>5. Cut(s) = SubSeq(s, 1, n)
  BY DEF Cut
<1> QED
  BY <1>3, <1>4, <1>5, EmptySeq DEF Some

(* Every rule has deterministic scenarios.                                 *)
LEMMA GenerateHasSome ==
  ASSUME NEW rule
  PROVE  Some(Generate(rule)) /\ Len(Generate(rule)) <= MaxScenarios
<1>1. \A id \in KnownIds, label \in Labels, expected \in {"pass", "fail"} :
        S(id, label, expected) \in Scenario
  BY DEF S, Scenario
<1>2. Some(<<S("SCN_001", "valid", "pass"), S("SCN_002", "boundary", "pass"),
             S("SCN_003", "invalid", "fail")>>)
  BY <1>1 DEF Some, Labels, KnownIds
<1>3. Some(<<S("SCN_001", "valid", "pass"), S("SCN_002", "invalid", "fail")>>)
  BY <1>1 DEF Some, Labels, KnownIds
<1>4. Some(<<S("SCN_001", "valid", "pass")>>)
  BY <1>1 DEF Some, Labels, KnownIds
<1>5. PICK s : Some(s) /\ Generate(rule) = Cut(s)
  <2>1. CASE rule = "SHIP_001"
    BY <1>2, <2>1 DEF Generate
  <2>2. CASE rule = "SHIP_002"
    BY <1>3, <2>2 DEF Generate
  <2>3. CASE rule # "SHIP_001" /\ rule # "SHIP_002"
    BY <1>4, <2>3 DEF Generate
  <2> QED
    BY <2>1, <2>2, <2>3
<1> QED
  BY <1>5, CutLeavesSome

(* The edge scenario makes one scenario more, and an edge.                 *)
LEMMA EdgeScenario ==
  ASSUME scenarios \in Seq(Scenario)
  PROVE  LET s == Append(scenarios, S(EdgeId, "edge", "pass"))
         IN  /\ s \in Seq(Scenario) /\ Len(s) = Len(scenarios) + 1
             /\ \E i \in DOMAIN s : s[i].label = "edge"
<1> DEFINE e == S(EdgeId, "edge", "pass")
           s == Append(scenarios, e)
<1>1. e \in Scenario /\ e.label = "edge"
  BY DEF S, Scenario, EdgeId, Labels, KnownIds
<1>2. /\ s \in Seq(Scenario) /\ Len(s) = Len(scenarios) + 1
      /\ s[Len(scenarios) + 1] = e
  BY <1>1, AppendProperties
<1>3. Len(scenarios) + 1 \in DOMAIN s
  BY <1>2, LenProperties
<1> QED
  BY <1>1, <1>2, <1>3

(* The first scenarios of a rule, whoever made them.                       *)
LEMMA GeneratedShape ==
  ASSUME Shape, turn' = turn, AtGenerator,
         NEW s, Some(s), Len(s) <= MaxScenarios, Generated(s)
  PROVE  Shape'
BY FeedbackLoopConstants DEF Shape, AtGenerator, Generated, Some

(* A feedback ends an iteration, with the scenarios as they are.           *)
LEMMA CriticisedShape ==
  ASSUME Shape, turn' = turn, AtCritic, NEW findings, Criticised(findings)
  PROVE  Shape'
BY FeedbackLoopConstants DEF Shape, AtCritic, Criticised, HasEdge

(* The deterministic halves of the agents.                                 *)
LEMMA FallbackShape ==
  ASSUME Shape, turn' = turn, Fallback
  PROVE  Shape'
<1>1. CASE AtGenerator /\ Generated(Generate(Rule))
  BY <1>1, GenerateHasSome, GeneratedShape
<1>2. CASE AtCritic /\ Criticised(Analyze)
  BY <1>2, CriticisedShape
<1> QED
  BY <1>1, <1>2 DEF Fallback

(* What is made of an LLM's answer.                                        *)
LEMMA AnswerShape ==
  ASSUME Shape, turn' = turn, GeneratorUses \/ CriticUses
  PROVE  Shape'
<1>1. CASE GeneratorUses
  <2>1. PICK s \in Answers \ {<<>>} : AtGenerator /\ Generated(Cut(s))
    BY <1>1 DEF GeneratorUses
  <2>2. Some(s)
    BY <2>1, FeedbackLoopConstants DEF Some
  <2> QED
    BY <2>1, <2>2, CutLeavesSome, GeneratedShape
<1>2. CASE CriticUses
  BY <1>2, CriticisedShape DEF CriticUses
<1> QED
  BY <1>1, <1>2

(* A call goes out only where its answer is waited for.                    *)
LEMMA AskShape == Shape /\ Ask => Shape'
BY FeedbackLoopConstants
   DEF Shape, Ask, BeforeCall, AtGenerator, AtCritic, stateVars, HasEdge

(* The second visit to the generator leaves an edge scenario.              *)
LEMMA AddEdgeShape == Shape /\ AddEdge => Shape'
<1> SUFFICES ASSUME Shape, AddEdge PROVE Shape'
  OBVIOUS
<1> DEFINE s == Append(scenarios, S(EdgeId, "edge", "pass"))
<1>1. /\ node = "generator" /\ iteration = 1 /\ turn > 0 /\ post = 0
      /\ Some(scenarios) /\ Len(scenarios) <= MaxScenarios
  BY DEF Shape, AddEdge
<1>2. Len(scenarios) \in Nat /\ MaxScenarios \in Nat
  BY <1>1, LenProperties, FeedbackLoopConstants DEF Some
<1>3. /\ s \in Seq(Scenario) /\ Len(s) = Len(scenarios) + 1
      /\ \E i \in DOMAIN s : s[i].label = "edge"
  BY <1>1, EdgeScenario DEF Some
<1>4. CASE HasEdge
  <2>1. scenarios' = scenarios
    BY <1>1, <1>4 DEF AddEdge, Generated
  <2> QED
    BY <1>1, <1>2, <1>4, <2>1 DEF Shape, AddEdge, Generated, Some, HasEdge
<1>5. CASE ~HasEdge
  <2>1. scenarios' = s
    BY <1>1, <1>5 DEF AddEdge, Generated, Some
  <2>2. HasEdge'
    BY <1>3, <2>1 DEF HasEdge
  <2> HIDE DEF s
  <2> QED
    BY <1>1, <1>2, <1>3, <2>1, <2>2 DEF Shape, AddEdge, Generated
<1> QED
  BY <1>4, <1>5

(* The router goes back to the generator only without an edge scenario, so *)
(* after the first iteration only.                                         *)
LEMMA RouteShape == Shape /\ Route => Shape'
<1> SUFFICES ASSUME Shape, Route PROVE Shape'
  OBVIOUS
<1>1. /\ scenarios' = scenarios /\ turn' = turn /\ post' = post /\ iteration' = iteration
      /\ HasEdge' = HasEdge
  BY DEF Route, stateVars, HasEdge
<1>2. Len(scenarios) \in Nat /\ MaxScenarios \in Nat
  BY LenProperties, FeedbackLoopConstants DEF Shape
<1>3. CASE Continues
  <2>1. node' = "generator" /\ ~HasEdge
    BY <1>3 DEF Route, Continues
  <2> QED
    BY <1>1, <1>2, <2>1 DEF Shape, Route, Some
<1>4. CASE ~Continues
  <2>1. node' = "idle"
    BY <1>4 DEF Route
  <2> QED
    BY <1>1, <1>2, <2>1 DEF Shape, Route, Some
<1> QED
  BY <1>3, <1>4

(* The steps that only move on in the lists.                               *)
LEMMA WalkShape ==
  Shape /\ (LogRaises \/ Executed \/ \E v \in Verdicts : Execute(v)) => Shape'
<1> SUFFICES ASSUME Shape, LogRaises \/ Executed \/ \E v \in Verdicts : Execute(v)
             PROVE  Shape'
  OBVIOUS
<1>1. /\ scenarios' = scenarios /\ turn' = turn /\ post' = post /\ iteration' = iteration
      /\ HasEdge' = HasEdge
      /\ node = "execute" /\ node' \in {"execute", "critic", "raised"}
  BY DEF LogRaises, Executed, Execute, stateVars, HasEdge
<1> QED
  BY <1>1 DEF Shape, Some

(* Every step keeps the shape.                                             *)
LEMMA ShapeStep == Shape /\ [Next]_vars => Shape'
<1> SUFFICES ASSUME Shape, [Next]_vars PROVE Shape'
  OBVIOUS
<1>1. CASE BeginRule
  <2>1. Len(RuleOrder) \in Nat /\ MaxScenarios \in Nat
    BY FeedbackLoopConstants
  <2> QED
    BY <1>1, <2>1 DEF Shape, BeginRule
<1>2. CASE SkipLLM
  BY <1>2, FallbackShape DEF SkipLLM
<1>3. CASE Ask
  BY <1>3, AskShape
<1>4. ASSUME NEW bill \in Bills, PostFails(bill) PROVE Shape'
  <2>1. CASE post <= MaxRetries /\ post' = post + 1 /\ UNCHANGED <<node, stateVars>>
    <3>1. MaxRetries \in Nat /\ turn' = turn /\ post > 0 /\ HasEdge' = HasEdge
      BY <1>4, <2>1, FeedbackLoopConstants DEF PostFails, stateVars, HasEdge
    <3> QED
      BY <2>1, <3>1 DEF Shape, stateVars, Some
  <2>2. CASE Fallback
    BY <1>4, <2>2, FallbackShape DEF PostFails
  <2> QED
    BY <1>4, <2>1, <2>2 DEF PostFails
<1>5. ASSUME NEW bill \in Bills, Unreadable(bill) PROVE Shape'
  BY <1>5, FallbackShape DEF Unreadable
<1>6. ASSUME NEW bill \in Bills, NEW n \in Estimates, Answered(bill, n)
      PROVE  Shape'
  BY <1>6, FallbackShape, AnswerShape DEF Answered
<1>7. CASE AddEdge
  BY <1>7, AddEdgeShape
<1>8. CASE LogRaises \/ Executed \/ \E v \in Verdicts : Execute(v)
  BY <1>8, WalkShape
<1>9. CASE Route
  BY <1>9, RouteShape
<1>10. CASE UNCHANGED vars
  BY <1>10 DEF Shape, vars, stateVars, HasEdge, Some
<1> QED
  BY <1>1, <1>2, <1>3, <1>4, <1>5, <1>6, <1>7, <1>8, <1>9, <1>10 DEF Next

LEMMA ShapeInit == Init => Shape
<1>1. MaxScenarios \in Nat /\ MaxRetries \in Nat /\ Len(RuleOrder) \in Nat
  BY FeedbackLoopConstants
<1> QED
  BY <1>1, EmptySeq DEF Init, Shape

(* The loop always has this shape.                                         *)
LEMMA ShapeHolds == Spec => []Shape
BY ShapeInit, ShapeStep, PTL DEF Spec

(* Every rule is refined once at most, however many iterations are allowed *)
(* and whatever the LLM answers (_route_after_critic).                     *)
THEOREM RefinedOnce == Spec => []AtMostOneRefinement
<1>1. Shape => AtMostOneRefinement
  <2>1. MaxScenarios \in Nat
    BY FeedbackLoopConstants
  <2>2. scenarios \in Seq(Scenario) => Len(scenarios) \in Nat
    BY LenProperties
  <2> QED
    BY <2>1, <2>2 DEF Shape, AtMostOneRefinement
<1> QED
  BY <1>1, ShapeHolds, PTL

----------------------------------------------------------------------------
(* The caps.                                                               *)

\* While a call is under way its caps are not reached: nothing else is
\* recorded before its answer is.
Budgeted ==
  /\ runTotal \in Nat /\ ruleTotals \in [Rules -> Nat]
  /\ post > 0 => ~Exceeded
  /\ CapsHold

(* The rule under test is one of the rules.                                *)
LEMMA RuleInRules == ASSUME turn \in 1 .. Len(RuleOrder) PROVE Rule \in Rules
<1>1. DOMAIN RuleOrder = 1 .. Len(RuleOrder)
  BY FeedbackLoopConstants, LenProperties
<1> QED
  BY <1>1 DEF Rule, Rules, Range

(* Whatever is made of an answer, the call is over.                        *)
LEMMA CallEnds ==
  ASSUME Fallback \/ GeneratorUses \/ CriticUses
  PROVE  post' = 0
BY DEF Fallback, GeneratorUses, CriticUses, Generated, Criticised

(* Every step keeps the totals within the caps.                            *)
LEMMA BudgetStep == Shape /\ Budgeted /\ [Next]_vars => Budgeted'
<1> SUFFICES ASSUME Shape, Budgeted, [Next]_vars PROVE Budgeted'
  OBVIOUS
<1>c. /\ RuleCap \in Nat /\ RunCap \in Nat
      /\ MaxEstimate \in Nat /\ Estimates \subseteq 0 .. MaxEstimate
  BY FeedbackLoopConstants
<1>1. ASSUME UNCHANGED <<runTotal, ruleTotals>>, post' = 0 PROVE Budgeted'
  BY <1>1 DEF Budgeted, CapsHold
<1>2. ASSUME UNCHANGED <<runTotal, ruleTotals, turn>>, post > 0 \/ ~Exceeded
      PROVE  Budgeted'
  BY <1>2 DEF Budgeted, CapsHold, Exceeded, Rule
<1>3. CASE BeginRule
  BY <1>1, <1>3 DEF BeginRule, Shape, moneyVars
<1>4. CASE SkipLLM
  BY <1>1, <1>4, CallEnds DEF SkipLLM, moneyVars
<1>5. CASE Ask
  BY <1>2, <1>5 DEF Ask, moneyVars
<1>6. ASSUME NEW bill \in Bills, PostFails(bill) PROVE Budgeted'
  BY <1>2, <1>6 DEF PostFails
<1>7. ASSUME NEW bill \in Bills, Unreadable(bill) PROVE Budgeted'
  BY <1>1, <1>7, CallEnds DEF Unreadable
<1>8. ASSUME NEW bill \in Bills, NEW n \in Estimates, Answered(bill, n)
      PROVE  Budgeted'
  <2>1. post > 0 /\ post' = 0 /\ turn \in 1 .. Len(RuleOrder) /\ ~Exceeded
    BY <1>8, CallEnds DEF Answered, Shape, Budgeted
  <2>2. n \in 0 .. MaxEstimate
    BY <1>c, <1>8
  <2>3. Rule \in Rules
    BY <2>1, RuleInRules
  <2>4. /\ runTotal' = runTotal + n
        /\ ruleTotals' = [ruleTotals EXCEPT ![Rule] = @ + n]
    BY <1>8 DEF Answered, AddUsage
  <2>5. runTotal < RunCap /\ ruleTotals[Rule] < RuleCap
    BY <1>c, <2>1, <2>3 DEF Exceeded, Budgeted
  <2>6. runTotal' \in Nat /\ ruleTotals' \in [Rules -> Nat]
    BY <2>2, <2>3, <2>4 DEF Budgeted
  <2>7. runTotal' < RunCap + MaxEstimate
    BY <1>c, <2>2, <2>4, <2>5 DEF Budgeted
  <2>8. ASSUME NEW r \in Rules PROVE ruleTotals'[r] < RuleCap + MaxEstimate
    BY <1>c, <2>2, <2>3, <2>4, <2>5 DEF Budgeted, CapsHold
  <2> QED
    BY <2>1, <2>6, <2>7, <2>8 DEF Budgeted, CapsHold
<1>9. CASE AddEdge
  BY <1>1, <1>9 DEF AddEdge, Generated, moneyVars
<1>10. CASE LogRaises \/ Executed \/ Route \/ (\E v \in Verdicts : Execute(v)) \/ UNCHANGED vars
  <2>1. UNCHANGED <<runTotal, ruleTotals, turn, post>>
    BY <1>10 DEF LogRaises, Executed, Route, Execute, vars, moneyVars
  <2> QED
    BY <1>1, <1>2, <2>1 DEF Shape
<1> QED
  BY <1>3, <1>4, <1>5, <1>6, <1>7, <1>8, <1>9, <1>10 DEF Next

LEMMA BudgetInit == Init => Budgeted
BY FeedbackLoopConstants DEF Init, Budgeted, CapsHold

(* The totals of the request and of every rule pass their caps by less     *)
(* than the most an answer is estimated at, although each estimate is only *)
(* made after the call (ensure_can_call, add_usage).                       *)
THEOREM CapsAreHonoured == Spec => []CapsHold
<1>1. Budgeted => CapsHold
  BY DEF Budgeted
<1> QED
  BY <1>1, BudgetInit, BudgetStep, ShapeHolds, PTL DEF Spec

----------------------------------------------------------------------------
(* What is billed.                                                         *)

\* What p posts cost at most, and what a call does.
Paid(p) == p * MaxBill
PerCall == Paid(MaxRetries + 1)

\* The calls made for the rule under test so far, one that is under way left
\* out, and what they may have cost.
Calls == IF node = "generator" THEN iteration + iteration ELSE iteration + 1

Allowance(n) == CASE n = 0 -> 0 [] n = 1 -> PerCall [] n = 2 -> PerCall + PerCall
                  [] n = 3 -> PerCall + PerCall + PerCall

\* Each rule has its own bills, and a call that is under way has had all its
\* posts but the last one.
Accounted ==
  /\ spent \in [Rules -> Nat]
  /\ \A r \in Rules : spent[r] <= Allowance(3)
  /\ \A i \in DOMAIN RuleOrder : i > turn => spent[RuleOrder[i]] = 0
  /\ turn > 0 => spent[Rule] <= Allowance(Calls)
                                 + (IF post = 0 THEN 0 ELSE Paid(post - 1))

(* One post more costs one bill more, and a call has max_retries + 1.      *)
LEMMA PaidPerPost ==
  ASSUME NEW p \in 0 .. MaxRetries + 1
  PROVE  /\ Paid(p) \in Nat /\ PerCall \in Nat /\ Paid(p) <= PerCall
         /\ p > 0 => Paid(p) = Paid(p - 1) + MaxBill
<1>1. MaxRetries \in Nat /\ MaxBill \in Nat /\ p \in Nat
  BY FeedbackLoopConstants
<1>2. \A a, b, c \in Nat : a <= b => a * c \in Nat /\ b * c \in Nat /\ a * c <= b * c
  OBVIOUS
<1>3. \A a, c \in Nat : a > 0 => a * c = (a - 1) * c + c
  OBVIOUS
<1> QED
  BY <1>1, <1>2, <1>3 DEF Paid, PerCall

(* The allowance of three calls, and of one call more.                     *)
LEMMA AllowanceGrows ==
  /\ PerCall \in Nat
  /\ \A n \in 0 .. 3 : Allowance(n) \in Nat /\ Allowance(n) <= Allowance(3)
  /\ \A n \in 0 .. 2 : Allowance(n + 1) = Allowance(n) + PerCall
<1>1. PerCall \in Nat
  BY PaidPerPost, FeedbackLoopConstants
<1> QED
  BY <1>1 DEF Allowance

(* The calls are counted, and are three at most.                           *)
LEMMA CallsAreCounted ==
  ASSUME Shape
  PROVE  /\ Calls \in 0 .. 3
         /\ Fallback \/ GeneratorUses \/ CriticUses => Calls \in 0 .. 2 /\ Calls' = Calls + 1
<1>1. Calls \in 0 .. 3
  BY DEF Shape, Calls
<1>2. ASSUME NEW s, AtGenerator, Generated(s) PROVE Calls = 0 /\ Calls' = 1
  BY <1>2 DEF AtGenerator, Generated, Calls
<1>3. ASSUME NEW f, AtCritic, Criticised(f) PROVE Calls \in 0 .. 2 /\ Calls' = Calls + 1
  BY <1>3 DEF AtCritic, Criticised, Calls, Shape
<1> QED
  BY <1>1, <1>2, <1>3 DEF Fallback, GeneratorUses, CriticUses

(* A post in flight adds at most one bill to what its call may have cost.  *)
LEMMA OnePost ==
  ASSUME Shape, Accounted, post > 0, NEW bill \in Bills, Bill(bill)
  PROVE  /\ turn \in 1 .. Len(RuleOrder) /\ Rule \in Rules
         /\ spent' = [spent EXCEPT ![Rule] = @ + bill]
         /\ spent' \in [Rules -> Nat]
         /\ spent'[Rule] <= Allowance(Calls) + Paid(post)
         /\ spent'[Rule] <= Allowance(Calls) + PerCall
<1>1. turn \in 1 .. Len(RuleOrder) /\ post \in 1 .. MaxRetries + 1 /\ MaxRetries \in Nat
  BY FeedbackLoopConstants DEF Shape
<1>2. Rule \in Rules
  BY <1>1, RuleInRules
<1>3. bill \in Nat /\ bill <= MaxBill /\ MaxBill \in Nat
  BY FeedbackLoopConstants
<1>4. /\ spent' = [spent EXCEPT ![Rule] = @ + bill]
      /\ spent' \in [Rules -> Nat]
  BY <1>2, <1>3 DEF Bill, Accounted
<1>5. /\ Paid(post) = Paid(post - 1) + MaxBill /\ Paid(post) <= PerCall
      /\ Paid(post) \in Nat /\ Paid(post - 1) \in Nat /\ PerCall \in Nat
  BY <1>1, PaidPerPost
<1>6. Allowance(Calls) \in Nat
  BY CallsAreCounted, AllowanceGrows
<1>7. spent[Rule] <= Allowance(Calls) + Paid(post - 1)
  BY <1>1 DEF Accounted
<1>8. spent'[Rule] = spent[Rule] + bill /\ spent[Rule] \in Nat
  BY <1>2, <1>4 DEF Accounted
<1>9. spent'[Rule] <= Allowance(Calls) + Paid(post)
  BY <1>3, <1>5, <1>6, <1>7, <1>8
<1>10. spent'[Rule] <= Allowance(Calls) + PerCall
  BY <1>3, <1>5, <1>6, <1>8, <1>9
<1> QED
  BY <1>1, <1>2, <1>4, <1>9, <1>10

(* A rule that was not begun has its bills ahead, also after a post.       *)
LEMMA OthersUnbilled ==
  ASSUME Accounted, turn \in 1 .. Len(RuleOrder), turn' = turn,
         NEW n, spent' = [spent EXCEPT ![Rule] = @ + n]
  PROVE  \A i \in DOMAIN RuleOrder : i > turn' => spent'[RuleOrder[i]] = 0
<1>1. \A i, j \in DOMAIN RuleOrder : RuleOrder[i] = RuleOrder[j] => i = j
  BY FeedbackLoopConstants DEF IsInjective
<1>2. turn \in DOMAIN RuleOrder /\ DOMAIN RuleOrder \subseteq Nat
  BY FeedbackLoopConstants, LenProperties
<1>3. ASSUME NEW i \in DOMAIN RuleOrder, i > turn PROVE spent'[RuleOrder[i]] = 0
  <2>1. RuleOrder[i] # Rule /\ RuleOrder[i] \in Rules
    BY <1>1, <1>2, <1>3 DEF Rule, Rules, Range
  <2>2. spent[RuleOrder[i]] = 0
    BY <1>3 DEF Accounted
  <2> QED
    BY <2>1, <2>2 DEF Accounted
<1> QED
  BY <1>3

(* A call that ends is counted, so that its bills are allowed for.         *)
LEMMA EndedCall ==
  ASSUME Shape, Accounted, post > 0, NEW bill \in Bills, Bill(bill), turn' = turn,
         Fallback \/ GeneratorUses \/ CriticUses
  PROVE  Accounted'
<1>1. /\ turn \in 1 .. Len(RuleOrder) /\ Rule \in Rules
      /\ spent' = [spent EXCEPT ![Rule] = @ + bill]
      /\ spent' \in [Rules -> Nat]
      /\ spent'[Rule] <= Allowance(Calls) + PerCall
  BY OnePost
<1>2. Calls \in 0 .. 2 /\ Calls' = Calls + 1 /\ post' = 0
  BY CallsAreCounted, CallEnds
<1>3. Calls' \in 0 .. 3 /\ Allowance(Calls') = Allowance(Calls) + PerCall
  BY <1>2, AllowanceGrows
<1>4. Rule' = Rule
  BY DEF Rule
<1>5. Allowance(Calls') <= Allowance(3) /\ Allowance(Calls') \in Nat /\ Allowance(3) \in Nat
  BY <1>3, AllowanceGrows
<1>6. spent'[Rule'] <= Allowance(Calls') + 0
  <2>1. \A n \in Nat : n + 0 = n
    OBVIOUS
  <2>2. Allowance(Calls') + 0 = Allowance(Calls) + PerCall
    BY <1>3, <1>5, <2>1
  <2> QED
    BY <1>1, <1>4, <2>2, Zenon
<1>7. ASSUME NEW r \in Rules PROVE spent'[r] <= Allowance(3)
  <2>1. CASE r = Rule
    BY <1>1, <1>4, <1>5, <1>6, <2>1
  <2>2. CASE r # Rule
    BY <1>1, <2>2 DEF Accounted
  <2> QED
    BY <2>1, <2>2
<1>8. \A i \in DOMAIN RuleOrder : i > turn' => spent'[RuleOrder[i]] = 0
  BY <1>1, OthersUnbilled
<1> QED
  BY <1>1, <1>2, <1>6, <1>7, <1>8 DEF Accounted

(* Every step keeps the bills within what the calls allow.                 *)
LEMMA AccountStep == Shape /\ Accounted /\ [Next]_vars => Accounted'
<1> SUFFICES ASSUME Shape, Accounted, [Next]_vars PROVE Accounted'
  OBVIOUS
<1>1. ASSUME UNCHANGED <<spent, turn>>, post = 0, post' \in {0, 1},
             Calls' = Calls \/ Calls' = Calls + 1, Calls' \in 0 .. 3
      PROVE  Accounted'
  <2>1. Rule' = Rule
    BY <1>1 DEF Rule
  <2>2. /\ Calls \in 0 .. 3 /\ Allowance(Calls) \in Nat /\ Allowance(Calls') \in Nat
        /\ Allowance(Calls) <= Allowance(Calls')
    BY <1>1, CallsAreCounted, AllowanceGrows
  <2>3. Paid(0) = 0
    BY FeedbackLoopConstants DEF Paid
  <2>4. turn > 0 => spent[Rule] <= Allowance(Calls) /\ spent[Rule] \in Nat
    BY <1>1, <2>2, RuleInRules DEF Accounted, Shape
  <2>5. turn' > 0 => spent'[Rule'] <= Allowance(Calls')
                                      + (IF post' = 0 THEN 0 ELSE Paid(post' - 1))
    BY <1>1, <2>1, <2>2, <2>3, <2>4
  <2> QED
    BY <1>1, <2>5 DEF Accounted
<1>2. CASE BeginRule
  <2>1. turn' \in 1 .. Len(RuleOrder) /\ turn' = turn + 1 /\ turn' > turn /\ post' = 0
    BY <1>2, FeedbackLoopConstants DEF BeginRule, Shape
  <2>2. Calls' = 0
    BY <1>2 DEF BeginRule, Calls
  <2>3. turn' \in DOMAIN RuleOrder
    BY <2>1, FeedbackLoopConstants, LenProperties
  <2>4. Rule' = RuleOrder[turn'] /\ spent'[Rule'] = 0
    BY <1>2, <2>1, <2>3 DEF BeginRule, moneyVars, Rule, Accounted
  <2>5. \A i \in DOMAIN RuleOrder : i \in Nat
    BY FeedbackLoopConstants, LenProperties
  <2>6. \A i \in DOMAIN RuleOrder : i > turn' => spent'[RuleOrder[i]] = 0
    BY <1>2, <2>1, <2>5 DEF BeginRule, moneyVars, Accounted, Shape
  <2> QED
    BY <1>2, <2>1, <2>2, <2>4, <2>6 DEF BeginRule, moneyVars, Accounted, Allowance
<1>3. CASE SkipLLM
  BY <1>1, <1>3, CallsAreCounted, CallEnds DEF SkipLLM, BeforeCall, moneyVars
<1>4. CASE Ask
  <2>1. Calls' = Calls
    BY <1>4 DEF Ask, stateVars, Calls
  <2> QED
    BY <1>1, <1>4, <2>1, CallsAreCounted DEF Ask, BeforeCall, moneyVars
<1>5. ASSUME NEW bill \in Bills, PostFails(bill) PROVE Accounted'
  <2>1. post > 0 /\ Bill(bill) /\ turn' = turn
    BY <1>5 DEF PostFails
  <2>2. /\ turn \in 1 .. Len(RuleOrder) /\ Rule \in Rules
        /\ spent' = [spent EXCEPT ![Rule] = @ + bill]
        /\ spent' \in [Rules -> Nat]
        /\ spent'[Rule] <= Allowance(Calls) + Paid(post)
    BY <2>1, OnePost
  <2>3. CASE Fallback
    BY <2>1, <2>3, EndedCall
  <2>4. CASE post' = post + 1 /\ UNCHANGED <<node, stateVars>>
    <3>1. Calls' = Calls /\ Rule' = Rule
      BY <2>1, <2>4 DEF stateVars, Calls, Rule
    <3>2. post' - 1 = post /\ post' > 0
      BY <2>1, <2>4 DEF Shape
    <3>3. \A i \in DOMAIN RuleOrder : i > turn' => spent'[RuleOrder[i]] = 0
      BY <2>1, <2>2, OthersUnbilled
    <3>4. Allowance(Calls) \in Nat /\ Allowance(Calls) <= Allowance(3) /\ Allowance(3) \in Nat
      BY CallsAreCounted, AllowanceGrows
    <3>5. spent'[Rule] <= Allowance(3)
      <4>1. Calls \in 0 .. 2
        BY <2>1 DEF Shape, Calls
      <4>2. Paid(post) <= PerCall /\ Paid(post) \in Nat
        BY PaidPerPost DEF Shape
      <4>3. Allowance(Calls) + PerCall <= Allowance(3)
        <5>1. Allowance(Calls + 1) = Allowance(Calls) + PerCall
          BY <4>1, AllowanceGrows
        <5>2. Calls + 1 \in 0 .. 3
          BY <4>1
        <5> QED
          BY <5>1, <5>2, AllowanceGrows
      <4>4. spent'[Rule] \in Nat /\ spent'[Rule] <= Allowance(Calls) + Paid(post)
        BY <2>2
      <4>5. PerCall \in Nat
        BY AllowanceGrows
      <4>6. \A s, a, b, c, d \in Nat : s <= a + b /\ b <= c /\ a + c <= d => s <= d
        OBVIOUS
      <4> QED
        BY <3>4, <4>2, <4>3, <4>4, <4>5, <4>6
    <3>6. \A r \in Rules : spent'[r] <= Allowance(3)
      BY <2>2, <3>5 DEF Accounted
    <3>7. spent'[Rule'] <= Allowance(Calls')
                           + (IF post' = 0 THEN 0 ELSE Paid(post' - 1))
      BY <2>2, <3>1, <3>2
    <3> QED
      BY <2>1, <2>2, <3>3, <3>6, <3>7 DEF Accounted
  <2> QED
    BY <1>5, <2>3, <2>4 DEF PostFails
<1>6. ASSUME NEW bill \in Bills, Unreadable(bill) PROVE Accounted'
  BY <1>6, EndedCall DEF Unreadable
<1>7. ASSUME NEW bill \in Bills, NEW n \in Estimates, Answered(bill, n)
      PROVE  Accounted'
  BY <1>7, EndedCall DEF Answered
<1>8. CASE AddEdge
  <2>1. /\ iteration = 1 /\ post = 0 /\ post' = 0 /\ iteration' = iteration
        /\ node = "generator" /\ node' = "execute"
    BY <1>8 DEF AddEdge, Generated, Shape
  <2>2. Calls' = Calls
    BY <2>1 DEF Calls
  <2> QED
    BY <1>1, <1>8, <2>1, <2>2, CallsAreCounted DEF AddEdge, moneyVars
<1>9. CASE LogRaises \/ Executed \/ \E v \in Verdicts : Execute(v)
  <2>1. /\ node = "execute" /\ node' # "generator" /\ iteration' = iteration
        /\ post' = post /\ UNCHANGED <<spent, turn>>
    BY <1>9 DEF LogRaises, Executed, Execute, stateVars, moneyVars
  <2>2. post = 0 /\ Calls' = Calls
    BY <2>1 DEF Shape, Calls
  <2> QED
    BY <1>1, <2>1, <2>2, CallsAreCounted
<1>10. CASE Route
  <2>1. /\ node = "route" /\ post = 0 /\ iteration' = iteration /\ iteration \in {1, 2}
        /\ (iteration = 2 => ~Continues)
    BY <1>10 DEF Route, stateVars, Shape, Continues
  <2>2. /\ node' = IF Continues THEN "generator" ELSE "idle"
        /\ post' = post /\ UNCHANGED <<spent, turn>>
    BY <1>10 DEF Route, moneyVars
  <2>3. Calls' = Calls
    BY <2>1, <2>2 DEF Calls
  <2> QED
    BY <1>1, <2>1, <2>2, <2>3, CallsAreCounted
<1>11. CASE UNCHANGED vars
  <2>1. Calls' = Calls /\ Rule' = Rule
    BY <1>11 DEF vars, stateVars, Calls, Rule
  <2> QED
    BY <1>11, <2>1 DEF vars, moneyVars, Accounted
<1> QED
  BY <1>2, <1>3, <1>4, <1>5, <1>6, <1>7, <1>8, <1>9, <1>10, <1>11 DEF Next

LEMMA AccountInit == Init => Accounted
<1> SUFFICES ASSUME Init PROVE Accounted
  OBVIOUS
<1>1. Allowance(3) \in Nat
  BY AllowanceGrows
<1>2. \A i \in DOMAIN RuleOrder : RuleOrder[i] \in Rules
  BY DEF Rules, Range
<1> QED
  BY <1>1, <1>2 DEF Init, Accounted

(* Whatever fails on the way and whatever is recorded of it, a rule is     *)
(* billed for three calls of max_retries + 1 posts each at most, which no  *)
(* cap sees to (_post_with_retries).                                       *)
THEOREM BillsAreBounded == Spec => []SpentIsBounded
<1>1. Accounted => SpentIsBounded
  <2>1. MaxRetries \in Nat /\ MaxBill \in Nat
    BY FeedbackLoopConstants
  <2>2. Allowance(3) = 3 * (MaxRetries + 1) * MaxBill
    <3>1. \A a, b \in Nat : a * b + a * b + a * b = 3 * a * b
      OBVIOUS
    <3>2. Allowance(3) = (MaxRetries + 1) * MaxBill + (MaxRetries + 1) * MaxBill
                         + (MaxRetries + 1) * MaxBill
      BY DEF Allowance, PerCall, Paid
    <3>3. MaxRetries + 1 \in Nat
      BY <2>1
    <3> QED
      BY <2>1, <3>1, <3>2, <3>3
  <2> QED
    BY <2>2 DEF Accounted, SpentIsBounded
<1> QED
  BY <1>1, AccountInit, AccountStep, ShapeHolds, PTL DEF Spec

----------------------------------------------------------------------------
(* The lists that the nodes fill.                                          *)

Result  == [id : KnownIds, expected : {"pass", "fail"}, verdict : Verdicts]
Verdict == [id : KnownIds, verdict : Verdicts]

\* What Shape leaves of the types.
Typed ==
  /\ llm \in BOOLEAN /\ (post > 0 => llm)
  /\ pending \in Seq(Scenario) /\ results \in Seq(Result) /\ verdicts \in Seq(Verdict)
  /\ history \in Seq(SUBSET Kinds) /\ Len(history) = iteration

\* The results are those of the first scenarios, and the verdicts those of the
\* last results.
InOrder ==
  /\ Len(results) <= Len(scenarios)
  /\ \A i \in 1 .. Len(results) : /\ results[i].id = scenarios[i].id
                                  /\ results[i].expected = scenarios[i].expected
  /\ Len(verdicts) <= Len(results)
  /\ \A k \in 1 .. Len(verdicts) :
       LET i == Len(results) - Len(verdicts) + k
       IN  verdicts[k].id = results[i].id /\ verdicts[k].verdict = results[i].verdict

\* The edge scenario has the id of one that was executed.
EdgeIsKnown ==
  /\ HasEdge /\ Len(scenarios) = Len(results) + 1
  /\ scenarios[Len(results) + 1].id \in Processed

\* What is pending is what has no result yet, but for the edge scenario.
Walk ==
  /\ InOrder
  /\ node = "generator" =>
       IF iteration = 0 THEN results = <<>> ELSE Len(results) = Len(scenarios)
  /\ node = "execute" =>
       \/ /\ Len(results) + Len(pending) = Len(scenarios)
          /\ \A k \in 1 .. Len(pending) : pending[k] = scenarios[Len(results) + k]
       \/ pending = <<>> /\ EdgeIsKnown
  /\ node \in {"critic", "route", "idle"} =>
       Len(results) = Len(scenarios) \/ EdgeIsKnown

(* All positions of a list, none, and one.                                 *)
LEMMA AtAllPositions ==
  ASSUME NEW s, s \in Seq(Scenario)
  PROVE  AtPositions(s, DOMAIN s) = s
<1> DEFINE n == Len(s)
           Ith(k) == CHOOSE i \in 1 .. n : Cardinality({j \in 1 .. n : j <= i}) = k
<1>1. n \in Nat /\ DOMAIN s = 1 .. n /\ s = [k \in 1 .. n |-> s[k]]
  BY LenProperties
<1>2. Cardinality(1 .. n) = n
  BY <1>1, FS_Interval
<1>3. ASSUME NEW i \in 1 .. n PROVE Cardinality({j \in 1 .. n : j <= i}) = i
  <2>1. {j \in 1 .. n : j <= i} = 1 .. i
    BY <1>1
  <2>2. i \in Int /\ 1 \in Int /\ ~(1 > i) /\ i - 1 + 1 = i
    BY <1>1
  <2>3. Cardinality(1 .. i) = i
    BY <2>2, FS_Interval
  <2> QED
    BY <2>1, <2>3
<1>4. ASSUME NEW k \in 1 .. n PROVE Ith(k) = k
  <2>1. \E i \in 1 .. n : Cardinality({j \in 1 .. n : j <= i}) = k
    BY <1>3
  <2>2. Ith(k) \in 1 .. n /\ Cardinality({j \in 1 .. n : j <= Ith(k)}) = k
    BY <2>1
  <2> QED
    BY <1>3, <2>2
<1>5. AtPositions(s, 1 .. n) = [k \in 1 .. n |-> s[Ith(k)]]
  BY <1>2 DEF AtPositions
<1> HIDE DEF Ith
<1>6. [k \in 1 .. n |-> s[Ith(k)]] = [k \in 1 .. n |-> s[k]]
  BY <1>4
<1> QED
  BY <1>1, <1>5, <1>6

LEMMA AtNoPosition ==
  ASSUME NEW s
  PROVE  AtPositions(s, {}) = <<>>
<1>1. Cardinality({}) = 0 /\ 1 .. 0 = {}
  BY FS_EmptySet
<1>2. DOMAIN AtPositions(s, {}) = {}
  BY <1>1 DEF AtPositions
<1> QED
  BY <1>1 DEF AtPositions

LEMMA AtOnePosition ==
  ASSUME NEW s, NEW m \in Nat
  PROVE  AtPositions(s, {m}) = <<s[m]>>
<1> DEFINE Ith(k) == CHOOSE i \in {m} : Cardinality({j \in {m} : j <= i}) = k
<1>1. Cardinality({m}) = 1
  BY FS_Singleton
<1>2. AtPositions(s, {m}) = [k \in 1 .. 1 |-> s[Ith(k)]]
  BY <1>1 DEF AtPositions
<1>3. {j \in {m} : j <= m} = {m}
  OBVIOUS
<1>4. ASSUME NEW k \in 1 .. 1 PROVE Ith(k) = m
  <2>1. k = 1
    OBVIOUS
  <2> QED
    BY <1>1, <1>3, <2>1
<1> HIDE DEF Ith
<1>5. [k \in 1 .. 1 |-> s[Ith(k)]] = [k \in 1 .. 1 |-> s[m]]
  BY <1>4
<1>6. [k \in 1 .. 1 |-> s[m]] = <<s[m]>>
  OBVIOUS
<1> QED
  BY <1>2, <1>5, <1>6

(* Before anything was executed, the whole list is pending.                *)
LEMMA FirstPending ==
  ASSUME NEW s, s \in Seq(Scenario), results = <<>>
  PROVE  Pending(s) = s
<1>1. Processed = {}
  BY DEF Processed, Ids
<1>2. {i \in DOMAIN s : s[i].id \notin Processed} = DOMAIN s
  BY <1>1
<1> QED
  BY <1>2, AtAllPositions DEF Pending

(* The first list of scenarios is pending as a whole.                      *)
LEMMA FirstListWalk ==
  ASSUME Shape, Typed, Walk, AtGenerator, llm' = llm,
         NEW s, Some(s), Generated(s)
  PROVE  Typed' /\ Walk'
<1>1. results = <<>> /\ iteration = 0
  BY DEF AtGenerator, Walk
<1>2. pending' = s /\ s \in Seq(Scenario)
  BY <1>1, FirstPending DEF Generated, Some
<1>3. Typed'
  BY <1>2 DEF Typed, Generated
<1>4. Len(results') = 0 /\ Len(verdicts') = 0 /\ Len(s) \in Nat
  BY <1>1, <1>2, LenProperties DEF Generated
<1>5. Walk'
  BY <1>2, <1>4 DEF Walk, InOrder, Generated
<1> QED
  BY <1>3, <1>5

(* A feedback is one entry of the history more.                            *)
LEMMA CriticisedWalk ==
  ASSUME Shape, Typed, Walk, AtCritic, llm' = llm,
         NEW findings \in SUBSET Kinds, Criticised(findings)
  PROVE  Typed' /\ Walk'
<1>1. /\ history' \in Seq(SUBSET Kinds) /\ Len(history') = iteration'
  BY AppendProperties DEF Typed, Criticised
<1>2. Typed'
  BY <1>1 DEF Typed, Criticised
<1>3. EdgeIsKnown' <=> EdgeIsKnown
  BY DEF EdgeIsKnown, Criticised, HasEdge, Processed, Ids
<1>4. Walk'
  BY <1>3 DEF Walk, InOrder, Criticised, AtCritic
<1> QED
  BY <1>2, <1>4

(* The deterministic halves, and what is made of an answer.                *)
LEMMA AnswerWalk ==
  ASSUME Shape, Typed, Walk, llm' = llm, Fallback \/ GeneratorUses \/ CriticUses
  PROVE  Typed' /\ Walk'
<1>1. CASE AtGenerator /\ Generated(Generate(Rule))
  BY <1>1, GenerateHasSome, FirstListWalk
<1>2. CASE AtCritic /\ Criticised(Analyze)
  <2>1. Analyze \in SUBSET Kinds
    BY DEF Analyze
  <2> QED
    BY <1>2, <2>1, CriticisedWalk
<1>3. CASE GeneratorUses
  <2>1. PICK s \in Answers \ {<<>>} : AtGenerator /\ Generated(Cut(s))
    BY <1>3 DEF GeneratorUses
  <2>2. Some(s)
    BY <2>1, FeedbackLoopConstants DEF Some
  <2> QED
    BY <2>1, <2>2, CutLeavesSome, FirstListWalk
<1>4. CASE CriticUses
  <2>1. PICK findings \in Reviews : AtCritic /\ Criticised(findings)
    BY <1>4 DEF CriticUses
  <2>2. findings \in SUBSET Kinds
    BY <2>1, FeedbackLoopConstants
  <2> QED
    BY <2>1, <2>2, CriticisedWalk
<1> QED
  BY <1>1, <1>2, <1>3, <1>4 DEF Fallback

(* The edge scenario is pending, unless its id was executed already.       *)
LEMMA AddEdgeWalk ==
  ASSUME Shape, Typed, Walk, AddEdge
  PROVE  Typed' /\ Walk'
<1> DEFINE n == Len(scenarios)
           e == S(EdgeId, "edge", "pass")
           t == Append(scenarios, e)
<1>1. /\ Some(scenarios) /\ scenarios \in Seq(Scenario) /\ iteration = 1
      /\ n \in Nat /\ DOMAIN scenarios = 1 .. n /\ Len(results) = n
      /\ Len(results) \in Nat /\ DOMAIN results = 1 .. n
  BY LenProperties DEF Shape, AddEdge, Walk, Some, Typed
<1>2. \A i \in 1 .. n : scenarios[i].id = results[i].id /\ scenarios[i].id \in Processed
  BY <1>1 DEF Walk, InOrder, Processed, Ids
<1>3. /\ verdicts' = <<>> /\ results' = results /\ node' = "execute" /\ llm' = llm
      /\ post' = 0 /\ history' = history /\ iteration' = iteration
  BY DEF AddEdge, Generated
<1>4. Len(verdicts') = 0 /\ verdicts' \in Seq(Verdict) /\ 1 .. Len(verdicts') = {}
  BY <1>3
<1>i. InOrder
  BY DEF Walk
<1>5. CASE HasEdge
  <2>1. scenarios' = scenarios /\ pending' = Pending(scenarios)
    BY <1>5 DEF AddEdge, Generated
  <2>2. {i \in DOMAIN scenarios : scenarios[i].id \notin Processed} = {}
    BY <1>1, <1>2
  <2>3. pending' = <<>>
    BY <2>1, <2>2, AtNoPosition DEF Pending
  <2>4. Typed'
    BY <1>3, <1>4, <2>3 DEF Typed
  <2>5. InOrder'
    BY <1>1, <1>3, <1>4, <1>i, <2>1 DEF InOrder
  <2>6. /\ Len(pending') = 0 /\ 1 .. Len(pending') = {}
        /\ Len(results') + Len(pending') = Len(scenarios')
    BY <1>1, <1>3, <2>1, <2>3
  <2> QED
    BY <1>3, <2>4, <2>5, <2>6 DEF Walk
<1>6. CASE ~HasEdge
  <2>1. scenarios' = t /\ pending' = Pending(t)
    BY <1>1, <1>6 DEF AddEdge, Generated, Some
  <2>2. /\ t \in Seq(Scenario) /\ Len(t) = n + 1
        /\ \E i \in DOMAIN t : t[i].label = "edge"
    BY <1>1, EdgeScenario
  <2>3. e \in Scenario /\ e.id = EdgeId
    BY DEF S, Scenario, EdgeId, Labels, KnownIds
  <2>4. t[n + 1] = e /\ \A i \in 1 .. n : t[i] = scenarios[i]
    BY <1>1, <2>3, AppendProperties
  <2>5. DOMAIN t = 1 .. n + 1
    BY <2>2, LenProperties
  <2> HIDE DEF t, e
  <2>6. InOrder'
    BY <1>1, <1>3, <1>4, <1>i, <2>1, <2>2, <2>4 DEF InOrder
  <2>7. CASE EdgeId \in Processed
    <3>1. {i \in DOMAIN t : t[i].id \notin Processed} = {}
      BY <1>1, <1>2, <2>3, <2>4, <2>5, <2>7
    <3>2. pending' = <<>>
      BY <2>1, <3>1, AtNoPosition DEF Pending
    <3>3. EdgeIsKnown'
      BY <1>1, <1>3, <2>1, <2>2, <2>3, <2>4, <2>7 DEF EdgeIsKnown, HasEdge, Processed, Ids
    <3>4. Typed'
      BY <1>3, <1>4, <3>2 DEF Typed
    <3> QED
      BY <1>3, <2>6, <3>2, <3>3, <3>4 DEF Walk
  <2>8. CASE EdgeId \notin Processed
    <3>1. {i \in DOMAIN t : t[i].id \notin Processed} = {n + 1}
      BY <1>1, <1>2, <2>3, <2>4, <2>5, <2>8
    <3>2. pending' = <<e>>
      BY <1>1, <2>1, <2>4, <3>1, AtOnePosition DEF Pending
    <3>3. pending' \in Seq(Scenario) /\ Len(pending') = 1 /\ pending'[1] = e
      BY <2>3, <3>2
    <3>4. Typed'
      BY <1>3, <1>4, <3>3 DEF Typed
    <3>5. /\ Len(results') + Len(pending') = Len(scenarios')
          /\ \A k \in 1 .. Len(pending') : pending'[k] = scenarios'[Len(results') + k]
      BY <1>1, <1>3, <2>1, <2>2, <2>4, <3>3
    <3> QED
      BY <1>3, <2>6, <3>4, <3>5 DEF Walk
  <2> QED
    BY <2>7, <2>8
<1> QED
  BY <1>5, <1>6

(* The next pending scenario is the first without a result.                *)
LEMMA ExecuteWalk ==
  ASSUME Shape, Typed, Walk, NEW v \in Verdicts, Execute(v)
  PROVE  Typed' /\ Walk'
<1> DEFINE s == Head(pending)
           n == Len(results)
           m == Len(verdicts)
           res == [id |-> s.id, expected |-> s.expected, verdict |-> v]
           ver == [id |-> s.id, verdict |-> v]
<1>1. /\ n \in Nat /\ m \in Nat /\ Len(pending) \in Nat /\ Len(pending) > 0
      /\ Len(scenarios) \in Nat /\ s = pending[1]
      /\ node = "execute" /\ pending # <<>>
  BY LenProperties, EmptySeq DEF Typed, Execute, Shape
<1>2. /\ n + Len(pending) = Len(scenarios)
      /\ \A k \in 1 .. Len(pending) : pending[k] = scenarios[n + k]
  BY <1>1 DEF Walk
<1>3. s = scenarios[n + 1] /\ n + 1 <= Len(scenarios) /\ s \in Scenario
  BY <1>1, <1>2, HeadTailProperties DEF Typed
<1>4. res \in Result /\ ver \in Verdict
  BY <1>3 DEF Result, Verdict, Scenario
<1>5. /\ results' = Append(results, res) /\ verdicts' = Append(verdicts, ver)
      /\ pending' = Tail(pending)
      /\ UNCHANGED <<llm, node, turn, iteration, scenarios, history, post>>
  BY DEF Execute
<1>6. /\ results' \in Seq(Result) /\ Len(results') = n + 1 /\ results'[n + 1] = res
      /\ \A i \in 1 .. n : results'[i] = results[i]
  BY <1>4, <1>5, AppendProperties DEF Typed
<1>7. /\ verdicts' \in Seq(Verdict) /\ Len(verdicts') = m + 1 /\ verdicts'[m + 1] = ver
      /\ \A i \in 1 .. m : verdicts'[i] = verdicts[i]
  BY <1>4, <1>5, AppendProperties DEF Typed
<1>8. /\ pending' \in Seq(Scenario) /\ Len(pending') = Len(pending) - 1
      /\ \A k \in 1 .. Len(pending) - 1 : pending'[k] = pending[k + 1]
  BY <1>1, <1>5, HeadTailProperties DEF Typed
<1>9. Typed'
  BY <1>5, <1>6, <1>7, <1>8 DEF Typed
<1>10. res.id = s.id /\ res.expected = s.expected /\ res.verdict = v
       /\ ver.id = s.id /\ ver.verdict = v
  OBVIOUS
<1> HIDE DEF s, res, ver
<1>11. InOrder'
  <2>1. Len(results') <= Len(scenarios') /\ Len(verdicts') <= Len(results')
    BY <1>1, <1>3, <1>5, <1>6, <1>7 DEF Walk, InOrder
  <2>2. ASSUME NEW i \in 1 .. n + 1
        PROVE  /\ results'[i].id = scenarios'[i].id
               /\ results'[i].expected = scenarios'[i].expected
    <3>1. CASE i \in 1 .. n
      BY <1>5, <1>6, <3>1 DEF Walk, InOrder
    <3>2. CASE i = n + 1
      BY <1>3, <1>5, <1>6, <1>10, <3>2
    <3> QED
      BY <1>1, <3>1, <3>2
  <2>3. ASSUME NEW k \in 1 .. m + 1
        PROVE  /\ verdicts'[k].id = results'[n - m + k].id
               /\ verdicts'[k].verdict = results'[n - m + k].verdict
    <3>1. CASE k \in 1 .. m
      <4>1. m <= n /\ n - m + k \in 1 .. n
        BY <1>1, <3>1 DEF Walk, InOrder
      <4> QED
        BY <1>6, <1>7, <3>1, <4>1 DEF Walk, InOrder
    <3>2. CASE k = m + 1
      <4>1. n - m + k = n + 1
        BY <1>1, <3>2
      <4> QED
        BY <1>6, <1>7, <1>10, <3>2, <4>1
    <3> QED
      BY <1>1, <3>1, <3>2
  <2>4. (n + 1) - (m + 1) = n - m
    BY <1>1
  <2> QED
    BY <1>6, <1>7, <2>1, <2>2, <2>3, <2>4 DEF InOrder
<1>12. /\ Len(results') + Len(pending') = Len(scenarios')
       /\ \A k \in 1 .. Len(pending') : pending'[k] = scenarios'[Len(results') + k]
  <2>1. ASSUME NEW k \in 1 .. Len(pending) - 1
        PROVE  pending'[k] = scenarios[n + 1 + k]
    <3>1. k + 1 \in 1 .. Len(pending) /\ n + (k + 1) = n + 1 + k
      BY <1>1
    <3> QED
      BY <1>2, <1>8, <3>1
  <2>2. n + 1 + (Len(pending) - 1) = n + Len(pending)
    BY <1>1
  <2> QED
    BY <1>2, <1>5, <1>6, <1>8, <2>1, <2>2
<1> QED
  BY <1>1, <1>5, <1>9, <1>11, <1>12 DEF Walk

(* The steps that leave the lists alone.                                   *)
LEMMA MoveWalk ==
  ASSUME Shape, Typed, Walk, llm' = llm, stateVars' = stateVars,
         \/ LogRaises \/ Executed \/ Route \/ Ask
         \/ post > 0 /\ UNCHANGED node
         \/ UNCHANGED <<node, post>>
  PROVE  Typed' /\ Walk'
<1>1. post' > 0 => llm
  BY DEF Typed, LogRaises, Executed, Route, Ask
<1>2. Typed'
  BY <1>1 DEF Typed, stateVars
<1>3. InOrder' /\ (EdgeIsKnown' <=> EdgeIsKnown)
  BY DEF Walk, InOrder, EdgeIsKnown, stateVars, HasEdge, Processed, Ids
<1>4. CASE UNCHANGED node
  BY <1>2, <1>3, <1>4 DEF Walk, stateVars
<1>5. CASE LogRaises
  BY <1>2, <1>3, <1>5 DEF Walk, LogRaises
<1>6. CASE Executed
  <2>1. Len(pending) = 0 /\ Len(results) \in Nat
    BY <1>6, LenProperties DEF Executed, Typed
  <2>2. Len(results) = Len(scenarios) \/ EdgeIsKnown
    BY <1>6, <2>1 DEF Executed, Walk
  <2> QED
    BY <1>2, <1>3, <1>6, <2>2 DEF Walk, Executed, stateVars
<1>7. CASE Route
  <2>1. node = "route" /\ (Len(results) = Len(scenarios) \/ EdgeIsKnown)
    BY <1>7 DEF Route, Walk
  <2>2. CASE Continues
    <3>1. ~HasEdge /\ node' = "generator" /\ iteration' > 0
      BY <1>7, <2>1, <2>2 DEF Route, Continues, Shape, stateVars
    <3>2. Len(results) = Len(scenarios)
      BY <2>1, <3>1 DEF EdgeIsKnown
    <3> QED
      BY <1>2, <1>3, <3>1, <3>2 DEF Walk, stateVars
  <2>3. CASE ~Continues
    BY <1>2, <1>3, <1>7, <2>1, <2>3 DEF Route, Walk, stateVars
  <2> QED
    BY <2>2, <2>3
<1>8. CASE Ask
  BY <1>4, <1>8 DEF Ask
<1> QED
  BY <1>2, <1>4, <1>5, <1>6, <1>7, <1>8

(* Every step keeps the lists in step with each other.                     *)
LEMMA WalkStep == Shape /\ Typed /\ Walk /\ [Next]_vars => Typed' /\ Walk'
<1> SUFFICES ASSUME Shape, Typed, Walk, [Next]_vars PROVE Typed' /\ Walk'
  OBVIOUS
<1>1. CASE BeginRule
  <2>1. /\ results' = <<>> /\ scenarios' = <<>> /\ verdicts' = <<>> /\ pending' = <<>>
        /\ history' = <<>> /\ iteration' = 0 /\ llm' = llm /\ post' = post
        /\ node' = "generator"
    BY <1>1 DEF BeginRule
  <2>2. Typed'
    BY <2>1 DEF Typed
  <2>3. Walk'
    BY <2>1 DEF Walk, InOrder
  <2> QED
    BY <2>2, <2>3
<1>2. CASE SkipLLM
  BY <1>2, AnswerWalk DEF SkipLLM
<1>3. CASE Ask
  BY <1>3, MoveWalk DEF Ask
<1>4. ASSUME NEW bill \in Bills, PostFails(bill) PROVE Typed' /\ Walk'
  <2>1. CASE UNCHANGED <<node, stateVars>>
    BY <1>4, <2>1, MoveWalk DEF PostFails
  <2>2. CASE Fallback
    BY <1>4, <2>2, AnswerWalk DEF PostFails
  <2> QED
    BY <1>4, <2>1, <2>2 DEF PostFails
<1>5. ASSUME NEW bill \in Bills, Unreadable(bill) PROVE Typed' /\ Walk'
  BY <1>5, AnswerWalk DEF Unreadable
<1>6. ASSUME NEW bill \in Bills, NEW n \in Estimates, Answered(bill, n)
      PROVE  Typed' /\ Walk'
  BY <1>6, AnswerWalk DEF Answered
<1>7. CASE AddEdge
  BY <1>7, AddEdgeWalk
<1>8. ASSUME NEW v \in Verdicts, Execute(v) PROVE Typed' /\ Walk'
  BY <1>8, ExecuteWalk
<1>9. CASE LogRaises \/ Executed \/ Route
  BY <1>9, MoveWalk DEF LogRaises, Executed, Route
<1>10. CASE UNCHANGED vars
  BY <1>10, MoveWalk DEF vars
<1> QED
  BY <1>1, <1>2, <1>3, <1>4, <1>5, <1>6, <1>7, <1>8, <1>9, <1>10 DEF Next

LEMMA WalkInit == Init => Typed /\ Walk
<1> SUFFICES ASSUME Init PROVE Typed /\ Walk
  OBVIOUS
<1>1. Typed
  BY DEF Init, Typed
<1>2. Walk
  BY DEF Init, Walk, InOrder
<1> QED
  BY <1>1, <1>2

LEMMA WalkHolds == Spec => [](Shape /\ Typed /\ Walk)
BY ShapeInit, ShapeStep, WalkInit, WalkStep, PTL DEF Spec

(* Every variable has its type, a call is only under way with a client,    *)
(* and every finished iteration left one feedback.                         *)
THEOREM TypeCorrect == Spec => []TypeOK
<1>1. Shape /\ Typed /\ Budgeted /\ Accounted => TypeOK
  <2> SUFFICES ASSUME Shape, Typed, Budgeted, Accounted PROVE TypeOK
    OBVIOUS
  <2>1. post > 0 => llm /\ node \in {"generator", "critic"}
    BY DEF Shape, Typed
  <2>2. /\ node \in {"idle", "generator", "execute", "critic", "route", "raised"}
        /\ (node # "idle" => turn > 0) /\ iteration \in Nat
    BY DEF Shape
  <2> QED
    BY <2>1, <2>2 DEF Shape, Typed, Budgeted, Accounted, TypeOK, Result, Verdict
<1> QED
  BY <1>1, WalkHolds, BudgetInit, BudgetStep, AccountInit, AccountStep, PTL DEF Spec

(* When the critic runs, every scenario has been executed once, in the     *)
(* order of the list, but for an edge scenario whose id an LLM gave away   *)
(* (pending_scenarios and processed_scenario_ids).                         *)
THEOREM ScenariosAreExecutedOnce == Spec => []EachScenarioOnce
<1>1. Shape /\ Typed /\ Walk => EachScenarioOnce
  <2> SUFFICES ASSUME Shape, Typed, Walk, node \in {"critic", "route", "idle"}
               PROVE  EachScenarioOnce
    BY DEF EachScenarioOnce
  <2>1. /\ Len(scenarios) \in Nat /\ Len(results) \in Nat
        /\ DOMAIN scenarios = 1 .. Len(scenarios) /\ DOMAIN results = 1 .. Len(results)
    BY LenProperties DEF Shape, Typed
  <2>2. CASE Len(results) = Len(scenarios)
    BY <2>1, <2>2 DEF Walk, InOrder, EachScenarioOnce
  <2>3. CASE EdgeIsKnown
    <3> DEFINE n == Len(results)
               f == Front(scenarios)
    <3>1. Len(scenarios) = n + 1 /\ scenarios[n + 1].id \in Processed
      BY <2>3 DEF EdgeIsKnown
    <3>2. f = SubSeq(scenarios, 1, n) /\ Last(scenarios) = scenarios[n + 1]
      BY <2>1, <3>1 DEF Front, Last
    <3>3. Len(f) = n /\ DOMAIN f = 1 .. n /\ \A i \in 1 .. n : f[i] = scenarios[i]
      BY <2>1, <3>1, <3>2, SubSeqProperties, LenProperties DEF Shape
    <3> HIDE DEF f
    <3>4. \A i \in 1 .. n : results[i].id = f[i].id
      BY <3>3 DEF Walk, InOrder
    <3>5. Ids(f) = Processed
      BY <2>1, <3>3, <3>4 DEF Ids, Processed
    <3> QED
      BY <3>1, <3>2, <3>3, <3>4, <3>5 DEF EachScenarioOnce, f
  <2> QED
    BY <2>2, <2>3 DEF Walk
<1> QED
  BY <1>1, WalkHolds, PTL

----------------------------------------------------------------------------
(* What the deterministic critic finds.                                    *)

\* Without an LLM an id names one scenario, and the edge scenario has its own.
OwnIds(s) ==
  /\ \A i, j \in 1 .. Len(s) : s[i].id = s[j].id => i = j
  /\ \A i \in 1 .. Len(s) : s[i].id = EdgeId => s[i].label = "edge"

Reported(k) == \E i \in 1 .. Len(history) : k \in history[i]
Shown(v, e, n) == \E i \in 1 .. n : results[i].verdict = v /\ results[i].expected \in e

\* How many results the critic has seen.
Reviewed == IF node \in {"execute", "critic", "raised"}
            THEN Len(results) - Len(verdicts) ELSE Len(results)

\* The findings so far are those of the first n results.
Matches(n) ==
  /\ Reported("false_positive") <=> Shown("fail", {"pass"}, n)
  /\ Reported("rule_confidence_update") <=> Shown("fail", {"fail"}, n)
  /\ Reported("flow_gap") <=> Shown("inconclusive", {"pass", "fail"}, n)

Matching == ~llm => OwnIds(scenarios) /\ Matches(Reviewed)

(* The deterministic scenarios have ids of their own.                      *)
LEMMA GenerateOwnIds ==
  ASSUME NEW rule
  PROVE  OwnIds(Generate(rule))
<1> DEFINE a == S("SCN_001", "valid", "pass")
           b == S("SCN_002", "boundary", "pass")
           c == S("SCN_003", "invalid", "fail")
           d == S("SCN_002", "invalid", "fail")
<1>1. /\ a \in Scenario /\ b \in Scenario /\ c \in Scenario /\ d \in Scenario
      /\ a.id = "SCN_001" /\ b.id = "SCN_002" /\ c.id = "SCN_003" /\ d.id = "SCN_002"
  BY DEF S, Scenario, KnownIds, Labels
<1> HIDE DEF a, b, c, d
<1>2. ASSUME NEW s \in Seq(Scenario), OwnIds(s) PROVE OwnIds(Cut(s))
  <2> DEFINE n == IF Len(s) < MaxScenarios THEN Len(s) ELSE MaxScenarios
  <2>1. n \in Nat /\ n <= Len(s) /\ Len(s) \in Nat
    BY FeedbackLoopConstants, LenProperties
  <2>2. Cut(s) = SubSeq(s, 1, n)
    BY DEF Cut
  <2>3. /\ Len(SubSeq(s, 1, n)) = n
        /\ \A i \in 1 .. n : SubSeq(s, 1, n)[i] = s[i]
    <3>1. \A i \in 1 .. n : s[i] \in Scenario
      BY <2>1, LenProperties
    <3> HIDE DEF n
    <3> QED
      BY <2>1, <3>1, SubSeqProperties
  <2> HIDE DEF n
  <2> QED
    BY <1>2, <2>1, <2>2, <2>3 DEF OwnIds
<1>3. OwnIds(<<a, b, c>>) /\ <<a, b, c>> \in Seq(Scenario)
  BY <1>1 DEF OwnIds, EdgeId
<1>4. OwnIds(<<a, d>>) /\ <<a, d>> \in Seq(Scenario)
  BY <1>1 DEF OwnIds, EdgeId
<1>5. OwnIds(<<a>>) /\ <<a>> \in Seq(Scenario)
  BY <1>1 DEF OwnIds, EdgeId
<1>6. \/ Generate(rule) = Cut(<<a, b, c>>)
      \/ Generate(rule) = Cut(<<a, d>>)
      \/ Generate(rule) = Cut(<<a>>)
  BY DEF Generate, a, b, c, d
<1> QED
  BY <1>2, <1>3, <1>4, <1>5, <1>6

(* With ids of their own, the expectation looked up is the scenario's.     *)
LEMMA ExpectedIsOwn ==
  ASSUME scenarios \in Seq(Scenario), OwnIds(scenarios), NEW i \in 1 .. Len(scenarios)
  PROVE  ExpectedOf(scenarios[i].id) = scenarios[i].expected
<1> DEFINE Named(k) == /\ scenarios[k].id = scenarios[i].id
                       /\ \A j \in DOMAIN scenarios :
                            scenarios[j].id = scenarios[i].id => j <= k
           last == CHOOSE k \in DOMAIN scenarios : Named(k)
<1>1. DOMAIN scenarios = 1 .. Len(scenarios) /\ Len(scenarios) \in Nat
  BY LenProperties
<1>2. \A j \in DOMAIN scenarios : scenarios[j].id = scenarios[i].id => j = i
  BY <1>1 DEF OwnIds
<1>3. i \in DOMAIN scenarios /\ Named(i)
  BY <1>1, <1>2
<1>4. last \in DOMAIN scenarios /\ Named(last)
  BY <1>3
<1>5. last = i
  BY <1>2, <1>4
<1>6. ExpectedOf(scenarios[i].id) = scenarios[last].expected
  BY DEF ExpectedOf
<1> QED
  BY <1>5, <1>6

(* The verdicts of an iteration are those of the results it added.         *)
LEMMA VerdictsAreLast ==
  ASSUME Shape, Typed, InOrder, OwnIds(scenarios), NEW v, NEW e
  PROVE  LET b == Len(results) - Len(verdicts)
         IN  (\E w \in Range(verdicts) : w.verdict = v /\ ExpectedOf(w.id) \in e)
               <=> \E i \in b + 1 .. Len(results) : /\ results[i].verdict = v
                                                    /\ results[i].expected \in e
<1> DEFINE n == Len(results)
           m == Len(verdicts)
           b == n - m
<1>1. /\ n \in Nat /\ m \in Nat /\ m <= n /\ n <= Len(scenarios)
      /\ Len(scenarios) \in Nat /\ DOMAIN verdicts = 1 .. m
      /\ scenarios \in Seq(Scenario)
  BY LenProperties DEF Shape, Typed, InOrder
<1>2. ASSUME NEW k \in 1 .. m
      PROVE  /\ b + k \in b + 1 .. n
             /\ verdicts[k].verdict = results[b + k].verdict
             /\ ExpectedOf(verdicts[k].id) = results[b + k].expected
  <2>1. b + k \in 1 .. n /\ b + k \in b + 1 .. n /\ b + k \in 1 .. Len(scenarios)
    BY <1>1
  <2>2. /\ verdicts[k].verdict = results[b + k].verdict
        /\ verdicts[k].id = scenarios[b + k].id
        /\ results[b + k].expected = scenarios[b + k].expected
    BY <2>1 DEF InOrder
  <2> HIDE DEF b
  <2>3. ExpectedOf(scenarios[b + k].id) = scenarios[b + k].expected
    BY <1>1, <2>1, ExpectedIsOwn
  <2> QED
    BY <2>1, <2>2, <2>3
<1>3. ASSUME NEW i \in b + 1 .. n PROVE i - b \in 1 .. m /\ b + (i - b) = i
  BY <1>1
<1>4. Range(verdicts) = {verdicts[k] : k \in 1 .. m}
  BY <1>1 DEF Range
<1> HIDE DEF n, m, b
<1>5. (\E w \in Range(verdicts) : w.verdict = v /\ ExpectedOf(w.id) \in e)
        <=> \E k \in 1 .. m : results[b + k].verdict = v /\ results[b + k].expected \in e
  BY <1>2, <1>4
<1>6. (\E k \in 1 .. m : results[b + k].verdict = v /\ results[b + k].expected \in e)
        <=> \E i \in b + 1 .. n : results[i].verdict = v /\ results[i].expected \in e
  BY <1>2, <1>3
<1> QED
  BY <1>5, <1>6 DEF n, m, b

(* One feedback of the critic catches up with the results.                 *)
LEMMA CriticMatches ==
  ASSUME Shape, Typed, Walk, Matching, ~llm, llm' = llm, AtCritic, Criticised(Analyze)
  PROVE  Matching'
<1> DEFINE n == Len(results)
           b == n - Len(verdicts)
           New(v, e) == \E i \in b + 1 .. n : results[i].verdict = v /\ results[i].expected \in e
<1>1. /\ n \in Nat /\ Len(verdicts) \in Nat /\ Len(verdicts) <= n /\ b \in 0 .. n
      /\ Len(history) \in Nat /\ InOrder /\ OwnIds(scenarios) /\ Matches(b)
  BY LenProperties DEF Typed, Walk, InOrder, Matching, AtCritic, Reviewed
<1>2. /\ scenarios' = scenarios /\ results' = results /\ node' = "route"
      /\ history' = Append(history, Analyze)
  BY DEF Criticised
<1>3. ASSUME NEW v, NEW e PROVE Shown(v, e, n)' <=> Shown(v, e, b) \/ New(v, e)
  <2>1. \A i \in 1 .. n : i \in 1 .. b \/ i \in b + 1 .. n
    BY <1>1
  <2>2. \A i \in 1 .. b : i \in 1 .. n
    BY <1>1
  <2>3. \A i \in b + 1 .. n : i \in 1 .. n
    BY <1>1
  <2>4. Shown(v, e, n)'
          <=> \E i \in 1 .. n : results[i].verdict = v /\ results[i].expected \in e
    BY <1>2 DEF Shown
  <2> QED
    BY <2>1, <2>2, <2>3, <2>4 DEF Shown
<1>4. /\ "false_positive" \in Analyze <=> New("fail", {"pass"})
      /\ "rule_confidence_update" \in Analyze <=> New("fail", {"fail"})
      /\ "flow_gap" \in Analyze <=> New("inconclusive", {"pass", "fail"})
  <2> DEFINE Seen(v, e) == \E w \in Range(verdicts) : w.verdict = v /\ ExpectedOf(w.id) \in e
  <2>1. /\ "false_positive" \in Analyze <=> Seen("fail", {"pass"})
        /\ "rule_confidence_update" \in Analyze <=> Seen("fail", {"fail"})
        /\ "flow_gap" \in Analyze <=> Seen("inconclusive", {"pass", "fail"})
    BY DEF Analyze, Kinds
  <2>2. \A v, e : Seen(v, e) <=> New(v, e)
    BY <1>1, VerdictsAreLast
  <2> HIDE DEF Seen, New
  <2> QED
    BY <2>1, <2>2
<1>5. ASSUME NEW k PROVE Reported(k)' <=> Reported(k) \/ k \in Analyze
  <2>1. Analyze \in SUBSET Kinds
    BY DEF Analyze
  <2>2. /\ Len(history') = Len(history) + 1 /\ history'[Len(history) + 1] = Analyze
        /\ \A i \in 1 .. Len(history) : history'[i] = history[i]
    BY <1>2, <2>1, AppendProperties DEF Typed
  <2>3. 1 .. Len(history) + 1 = (1 .. Len(history)) \cup {Len(history) + 1}
    BY <1>1
  <2> QED
    BY <2>2, <2>3 DEF Reported
<1> HIDE DEF New, b
<1>6. Matches(n)'
  BY <1>1, <1>3, <1>4, <1>5 DEF Matches
<1>7. Reviewed' = n'
  BY <1>2 DEF Reviewed
<1> QED
  BY <1>1, <1>2, <1>6, <1>7 DEF Matching

(* What the critic has seen, while the feedback stays as it is.            *)
LEMMA SameMatches ==
  ASSUME NEW n \in Nat, Matches(n), history' = history,
         \A i \in 1 .. n : results'[i] = results[i]
  PROVE  Matches(n)'
BY DEF Matches, Reported, Shown

(* The scenarios of a rule, and its edge scenario, leave the feedback as   *)
(* it is: each has an id of its own, and no verdict is pending.            *)
LEMMA ListMatches ==
  ASSUME Shape, Typed, Walk, Matching, ~llm, llm' = llm, node = "generator",
         NEW s, OwnIds(s), Generated(s)
  PROVE  Matching'
<1>1. /\ Len(results) \in Nat /\ Matches(Len(results))
      /\ results' = results /\ history' = history /\ verdicts' = <<>>
      /\ node' = "execute" /\ scenarios' = s
  BY LenProperties DEF Typed, Matching, Reviewed, Generated
<1>2. Reviewed' = Len(results)
  BY <1>1 DEF Reviewed
<1>3. Matches(Len(results))'
  BY <1>1, SameMatches
<1> QED
  BY <1>1, <1>2, <1>3 DEF Matching

LEMMA FallbackMatches ==
  ASSUME Shape, Typed, Walk, Matching, ~llm, llm' = llm, Fallback
  PROVE  Matching'
<1>1. CASE AtGenerator /\ Generated(Generate(Rule))
  BY <1>1, GenerateOwnIds, ListMatches DEF AtGenerator
<1>2. CASE AtCritic /\ Criticised(Analyze)
  BY <1>2, CriticMatches
<1> QED
  BY <1>1, <1>2 DEF Fallback

(* The edge scenario has an id of its own.                                 *)
LEMMA AddEdgeMatches ==
  ASSUME Shape, Typed, Walk, Matching, ~llm, AddEdge
  PROVE  Matching'
<1> DEFINE n == Len(scenarios)
           e == S(EdgeId, "edge", "pass")
           t == Append(scenarios, e)
<1>1. node = "generator" /\ llm' = llm
  BY DEF AddEdge
<1>2. n \in Nat /\ scenarios \in Seq(Scenario) /\ OwnIds(scenarios)
  BY LenProperties DEF Shape, Matching
<1>3. CASE HasEdge \/ scenarios = <<>>
  BY <1>1, <1>2, <1>3, ListMatches DEF AddEdge
<1>4. CASE ~(HasEdge \/ scenarios = <<>>)
  <2>1. Generated(t)
    BY <1>4 DEF AddEdge
  <2>2. e \in Scenario /\ e.id = EdgeId /\ e.label = "edge"
    BY DEF S, Scenario, EdgeId, Labels, KnownIds
  <2>3. /\ Len(t) = n + 1 /\ t[n + 1] = e
        /\ \A i \in 1 .. n : t[i] = scenarios[i]
    BY <1>2, <2>2, AppendProperties
  <2>4. \A i \in 1 .. n : scenarios[i].id # EdgeId
    BY <1>2, <1>4, LenProperties DEF OwnIds, HasEdge
  <2> HIDE DEF t, e
  <2>5. OwnIds(t)
    BY <1>2, <2>2, <2>3, <2>4 DEF OwnIds
  <2> QED
    BY <1>1, <2>1, <2>5, ListMatches
<1> QED
  BY <1>3, <1>4

(* An executed scenario adds a result and a verdict, not yet seen.         *)
LEMMA ExecuteMatches ==
  ASSUME Shape, Typed, Walk, Matching, ~llm, NEW v \in Verdicts, Execute(v)
  PROVE  Matching'
<1> DEFINE n == Len(results)
           m == Len(verdicts)
           s == Head(pending)
           res == [id |-> s.id, expected |-> s.expected, verdict |-> v]
           ver == [id |-> s.id, verdict |-> v]
<1>1. n \in Nat /\ m \in Nat /\ m <= n /\ n - m \in Nat /\ node = "execute"
  BY LenProperties DEF Typed, Walk, InOrder, Execute
<1>2. /\ results' = Append(results, res) /\ verdicts' = Append(verdicts, ver)
      /\ UNCHANGED <<llm, node, scenarios, history>>
  BY DEF Execute
<1>3. s \in Scenario
  BY HeadTailProperties DEF Execute, Typed
<1>4. res \in Result /\ ver \in Verdict
  BY <1>3 DEF Result, Verdict, Scenario
<1> HIDE DEF res, ver, s
<1>5. /\ Len(results') = n + 1 /\ Len(verdicts') = m + 1
      /\ \A i \in 1 .. n : results'[i] = results[i]
  BY <1>2, <1>4, AppendProperties DEF Typed
<1>6. Reviewed = n - m /\ Reviewed' = (n + 1) - (m + 1)
  BY <1>1, <1>2, <1>5 DEF Reviewed
<1>7. Reviewed' = n - m
  BY <1>1, <1>6
<1>8. Matches(n - m) /\ OwnIds(scenarios)
  BY <1>6 DEF Matching
<1>9. \A i \in 1 .. n - m : results'[i] = results[i]
  BY <1>1, <1>5
<1> DEFINE b == n - m
<1>10. b \in Nat /\ Matches(b) /\ \A i \in 1 .. b : results'[i] = results[i]
  BY <1>1, <1>8, <1>9
<1>11. Reviewed' = b
  BY <1>7
<1>12. \A c \in Nat : Reviewed' = c /\ Matches(c) /\ (\A i \in 1 .. c : results'[i] = results[i])
                     => Matching'
  BY <1>2, <1>8, SameMatches DEF Matching
<1> HIDE DEF b
<1> QED
  BY <1>10, <1>11, <1>12

(* The router and the steps between two nodes leave the feedback as it is. *)
LEMMA MoveMatches ==
  ASSUME Shape, Typed, Walk, Matching, llm' = llm, stateVars' = stateVars,
         LogRaises \/ Executed \/ Route \/ UNCHANGED node
  PROVE  Matching'
<1>1. Reviewed' = Reviewed
  BY DEF Reviewed, LogRaises, Executed, Route, stateVars
<1> QED
  BY <1>1 DEF Matching, Matches, Reported, Shown, stateVars

LEMMA MatchStep == Shape /\ Typed /\ Walk /\ Matching /\ [Next]_vars => Matching'
<1> SUFFICES ASSUME Shape, Typed, Walk, Matching, [Next]_vars, ~llm'
             PROVE  Matching'
  BY DEF Matching
<1>1. ~llm /\ llm' = llm /\ post = 0
  <2>1. llm' = llm
    BY Zenon DEF Next, BeginRule, SkipLLM, Ask, PostFails, Unreadable, Answered, AddEdge,
                 Execute, LogRaises, Executed, Route, vars
  <2>2. ~llm
    BY <2>1, Zenon
  <2>3. post = 0
    BY <2>2, FeedbackLoopConstants DEF Typed, Shape
  <2> QED
    BY <2>1, <2>2, <2>3
<1>2. CASE BeginRule
  <2>1. /\ results' = <<>> /\ verdicts' = <<>> /\ history' = <<>> /\ scenarios' = <<>>
        /\ node' = "generator"
    BY <1>2 DEF BeginRule
  <2>2. Reviewed' = 0 /\ OwnIds(scenarios')
    BY <2>1 DEF Reviewed, OwnIds
  <2>3. Matches(0)'
    BY <2>1 DEF Matches, Reported, Shown
  <2> QED
    BY <2>2, <2>3 DEF Matching
<1>3. CASE SkipLLM
  BY <1>1, <1>3, FallbackMatches DEF SkipLLM
<1>4. CASE AddEdge
  BY <1>1, <1>4, AddEdgeMatches
<1>5. ASSUME NEW v \in Verdicts, Execute(v) PROVE Matching'
  BY <1>1, <1>5, ExecuteMatches
<1>6. CASE LogRaises \/ Executed \/ Route
  BY <1>1, <1>6, MoveMatches DEF LogRaises, Executed, Route
<1>7. CASE UNCHANGED vars
  BY <1>1, <1>7, MoveMatches DEF vars
<1>8. /\ ~Ask
      /\ \A bill \in Bills : /\ ~PostFails(bill) /\ ~Unreadable(bill)
                            /\ \A n \in Estimates : ~Answered(bill, n)
  BY <1>1 DEF Ask, PostFails, Unreadable, Answered
<1> QED
  BY <1>2, <1>3, <1>4, <1>5, <1>6, <1>7, <1>8 DEF Next

LEMMA MatchInit == Init => Matching
<1> SUFFICES ASSUME Init PROVE Matching
  OBVIOUS
<1>1. OwnIds(scenarios) /\ Reviewed = 0
  BY DEF Init, OwnIds, Reviewed
<1>2. Matches(0)
  BY DEF Init, Matches, Reported, Shown
<1> QED
  BY <1>1, <1>2 DEF Matching

(* Without an LLM, the feedback of all iterations together reports what    *)
(* the results show, although each analysis sees the verdicts of its own   *)
(* iteration only (last_iteration_verdicts).                               *)
THEOREM FeedbackIsTheResults == Spec => []FeedbackMatchesResults
<1>1. Shape /\ Typed /\ Walk /\ Matching => FeedbackMatchesResults
  <2> SUFFICES ASSUME Shape, Typed, Walk, Matching, node \in {"route", "idle"}, ~llm
               PROVE  FeedbackMatchesResults
    BY DEF FeedbackMatchesResults
  <2>1. DOMAIN results = 1 .. Len(results) /\ DOMAIN history = 1 .. Len(history)
    BY LenProperties DEF Typed
  <2>2. Matches(Len(results))
    BY DEF Matching, Reviewed
  <2> QED
    BY <2>1, <2>2 DEF Matches, Reported, Shown, FeedbackMatchesResults
<1> QED
  BY <1>1, WalkHolds, WalkInit, WalkStep, ShapeInit, ShapeStep, MatchInit, MatchStep, PTL
     DEF Spec
=============================================================================
