-------------------------- MODULE BlackboardRunner ---------------------------
(***************************************************************************)
(* BlackboardRuleRunner, src/app/agents/testing/blackboard_runner.py, on   *)
(* the blackboard it is given: one coroutine that plays the four agents in *)
(* turn, next to the board's timeout watcher.  A rule becomes one          *)
(* test_rule task; its handler posts a generate_flow task per scenario,    *)
(* which posts an execute task, which logs a trace and posts a validate    *)
(* task, which adds a result to the summary.                               *)
(*                                                                         *)
(* Every board operation is the Blackboard's own; the runner adds when     *)
(* each is called.  Between any two of them the watcher may sweep, so a    *)
(* task may be posted again, or dead, under the handler that works on it.  *)
(***************************************************************************)
EXTENDS Naturals, Sequences, FiniteSets

CONSTANTS
  Rules,       \* the approved rules of the run
  Scenarios,   \* all the scenarios generated for them
  RuleOf,      \* the rule a scenario was generated for
  MaxCopies,   \* bound: how many tasks of one kind a subject may get
  MaxCycles,   \* max_cycles of run_until_idle
  MaxRetries, Timeout, Punctual, NULL, AnyType

VARIABLES
  keys, status, claimed_by, age, retry_count, pc, task, due, awake, claims,
  phase,       \* "posting" the rules, "cycling", or "done" with the summary
  turn,        \* which of the four workers of the cycle runs
  cycle,       \* cycles run so far
  progressed,  \* some worker of this cycle had a task
  todo,        \* what the handler that runs has yet to do
  traces,      \* scenario -> traces in the execution log
  results      \* scenario -> its entries in the results

boardVars  == <<keys, status, claimed_by, age, retry_count, pc, task, due, awake, claims>>
outputVars == <<traces, results>>
loopVars   == <<phase, turn, cycle, progressed>>
vars       == <<boardVars, loopVars, todo, outputVars>>

(* The order in which run_until_idle calls _run_worker.                    *)
Workers ==
  << [serves |-> "test_rule",     agent |-> "scenario_generator"],
     [serves |-> "generate_flow", agent |-> "flow_planner"],
     [serves |-> "execute",       agent |-> "executor"],
     [serves |-> "validate",      agent |-> "oracle"] >>

Agents   == {Workers[i].agent : i \in DOMAIN Workers}
ServesOf == [a \in Agents |-> (CHOOSE w \in {Workers[i] : i \in DOMAIN Workers} : w.agent = a).serves]

(* A task is about a rule or a scenario; _task_id makes each post new.     *)
Tasks == [type : {"test_rule"}, of : Rules, copy : 1 .. MaxCopies]
         \cup [type : {"generate_flow", "execute", "validate"},
               of : Scenarios, copy : 1 .. MaxCopies]

(* A scenario is generated for one rule, and is no rule itself; no type is *)
(* None.  The rest is what the board assumes of its parameters.            *)
ASSUME RunnerAssumption ==
  /\ RuleOf \in [Scenarios -> Rules] /\ Rules \cap Scenarios = {}
  /\ AnyType \notin {Workers[i].serves : i \in DOMAIN Workers}
  /\ MaxCopies \in Nat \ {0} /\ MaxCycles \in Nat \ {0}
ASSUME BoardAssumption ==
  /\ MaxRetries \in Nat \ {0} /\ Timeout \in Nat \ {0} /\ Punctual \in BOOLEAN
  /\ NULL \notin Tasks \cup Agents \cup Nat

Board == INSTANCE Blackboard WITH
  TypeOf <- [t \in Tasks |-> t.type], Serves <- ServesOf

ScenariosOf(r) == {s \in Scenarios : RuleOf[s] = r}

TasksAbout(x) == {t \in Tasks : t.of = x /\ status[t] # "absent"}

Init ==
  /\ Board!Init
  /\ phase = "posting" /\ turn = 1 /\ cycle = 0 /\ progressed = FALSE
  /\ todo = {}
  /\ traces = [s \in Scenarios |-> 0]
  /\ results = [s \in Scenarios |-> 0]

-----------------------------------------------------------------------------
(* Posting: a task of a type about x, under an id never used before.       *)
Post(type, x) ==
  \E t \in Tasks :
    /\ t.type = type /\ t.of = x
    /\ t.copy = 1 + Cardinality({u \in TasksAbout(x) : u.type = type})
    /\ Board!PostTask(t)

PostRule(r) ==
  /\ phase = "posting"
  /\ ~\E t \in TasksAbout(r) : t.type = "test_rule"
  /\ Post("test_rule", r)
  /\ UNCHANGED <<loopVars, todo, outputVars>>

StartCycling ==
  /\ phase = "posting"
  /\ \A r \in Rules : \E t \in TasksAbout(r) : t.type = "test_rule"
  /\ phase' = "cycling"
  /\ UNCHANGED <<boardVars, turn, cycle, progressed, todo, outputVars>>

-----------------------------------------------------------------------------
(* _run_worker.                                                            *)

Worker  == Workers[turn].agent
Running == phase = "cycling" /\ turn \in DOMAIN Workers
Handled == task[Worker]

(* What a handler does, in the order given by the number.  "trace" stands  *)
(* for an execution: the requests it sends and its trace in the log.       *)
Effects(t) ==
  CASE t.type = "test_rule"     -> {<<1, "generate_flow", s>> : s \in ScenariosOf(t.of)}
    [] t.type = "generate_flow" -> {<<1, "execute", t.of>>}
    [] t.type = "execute"       -> {<<1, "trace", t.of>>, <<2, "validate", t.of>>}
    [] t.type = "validate"      -> {<<1, "result", t.of>>}

NextWorker(p) ==
  /\ turn' = turn + 1
  /\ progressed' = (progressed \/ p)
  /\ UNCHANGED <<phase, cycle>>

Claim ==
  /\ Running /\ Board!ClaimTask(Worker)
  /\ UNCHANGED <<loopVars, todo, outputVars>>

NothingToClaim ==
  /\ Running /\ pc[Worker] = "idle"
  /\ \A i \in DOMAIN keys : ~Board!Claimable(Worker, keys[i])
  /\ NextWorker(FALSE)
  /\ UNCHANGED <<boardVars, todo, outputVars>>

Start ==
  /\ Running /\ Board!StartTask(Worker)
  /\ todo' = Effects(Handled)
  /\ UNCHANGED <<loopVars, outputVars>>

(* The next effect: a post, a trace or a result.                           *)
Handle ==
  /\ Running /\ pc[Worker] = "working"
  /\ \E e \in todo :
       /\ \A f \in todo : e[1] <= f[1]
       /\ todo' = todo \ {e}
       /\ CASE e[2] = "trace"  -> /\ traces' = [traces EXCEPT ![e[3]] = @ + 1]
                                  /\ UNCHANGED <<results, boardVars>>
            [] e[2] = "result" -> /\ results' = [results EXCEPT ![e[3]] = @ + 1]
                                  /\ UNCHANGED <<traces, boardVars>>
            [] OTHER           -> Post(e[2], e[3]) /\ UNCHANGED outputVars
  /\ UNCHANGED loopVars

Finish ==
  /\ Running /\ Board!CompleteTask(Worker)
  /\ NextWorker(TRUE)
  /\ UNCHANGED outputVars

\* Mutant: the task is completed without awaiting its handler.
CompleteUnawaited == Finish /\ todo' = {}

Complete == Finish /\ todo = {} /\ UNCHANGED todo

Raise ==
  /\ Running /\ Board!FailTask(Worker)
  /\ todo' = {}
  /\ NextWorker(TRUE)
  /\ UNCHANGED outputVars

\* Mutant: a handler can raise after it posted a task or kept a result.
HandlerRaisesLate == Raise

(* The rule is gone; generation, planning or the execution raised; or the  *)
(* log did, which appends a trace in memory and then fails to write it.    *)
(* Nothing was posted or kept yet.                                         *)
HandlerRaises == Raise /\ {e \in Effects(Handled) : e[2] # "trace"} \subseteq todo

CycleEnds(firstTurn) ==
  /\ phase = "cycling" /\ turn = Len(Workers) + 1
  /\ LET idle == ~progressed /\ \A t \in Tasks : status[t] # "posted"
     IN  phase' = IF idle \/ cycle + 1 = MaxCycles THEN "done" ELSE "cycling"
  /\ cycle' = cycle + 1 /\ turn' = firstTurn /\ progressed' = FALSE
  /\ UNCHANGED <<boardVars, todo, outputVars>>

\* Mutant: the next cycle starts before the first worker.
EndCycleEarly == CycleEnds(0)

(* The end of a cycle: break when no worker had a task and none is left.   *)
EndCycle == CycleEnds(1)

(* The watcher runs until close_blackboard stops it, after the summary.    *)
(* Only the time a handler takes is counted: with nothing claimed, the age *)
(* of an old claim makes no difference.                                    *)
Background ==
  /\ phase # "done"
  /\ \/ (\E a \in Agents : pc[a] # "idle") /\ Board!Tick
     \/ Board!WatcherWake
     \/ Board!WatcherSweep
  /\ UNCHANGED <<loopVars, todo, outputVars>>

RunnerStep ==
  \/ \E r \in Rules : PostRule(r)
  \/ StartCycling \/ Claim \/ NothingToClaim \/ Start \/ Handle
  \/ Complete \/ HandlerRaises \/ EndCycle

Next == RunnerStep \/ Background

Spec == Init /\ [][Next]_vars

(* With punctual handlers no claim gets old, and the watcher, which then   *)
(* has nothing to do, and the clock can be left out.                       *)
PunctualSpec == Init /\ [][RunnerStep]_vars

-----------------------------------------------------------------------------
TypeOK ==
  /\ Board!TypeOK
  /\ phase \in {"posting", "cycling", "done"}
  /\ turn \in 1 .. Len(Workers) + 1
  /\ cycle \in 0 .. MaxCycles
  /\ progressed \in BOOLEAN
  /\ todo \subseteq UNION {Effects(t) : t \in Tasks}
  /\ traces \in [Scenarios -> Nat]
  /\ results \in [Scenarios -> Nat]

(* The tasks whose death leaves a scenario without a verdict.              *)
DeadFor(s) ==
  {t \in TasksAbout(s) \cup TasksAbout(RuleOf[s]) : status[t] = "dead"}

(* When the run ends every scenario is accounted for exactly once: it has  *)
(* one result, or a dead task the summary counts, never both and never     *)
(* neither, whatever the watcher did to a task under its handler.          *)
EveryScenarioAccounted ==
  phase = "done" =>
    \A s \in Scenarios : IF DeadFor(s) = {} THEN results[s] = 1 ELSE results[s] = 0

(* A retry repeats an execution at most: no subject gets two tasks of one  *)
(* type, no scenario two results.  An execution is repeated when the log   *)
(* kept its trace and failed to write it, but max_retries counts those     *)
(* claims too; and no result is without a trace.                           *)
OnlyExecutionsRepeat ==
  /\ \A t, u \in Tasks : status[t] # "absent" /\ status[u] # "absent"
                         /\ t.type = u.type /\ t.of = u.of => t = u
  /\ \A s \in Scenarios :
       results[s] <= 1 /\ results[s] <= traces[s] /\ traces[s] <= MaxRetries
=============================================================================
