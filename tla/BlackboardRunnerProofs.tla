----------------------- MODULE BlackboardRunnerProofs ------------------------
(***************************************************************************)
(* What TLAPS proves of the blackboard runner, for any rules, scenarios    *)
(* and timeout, whatever the watcher does to a task under its handler:     *)
(* type correctness, that a retry repeats nothing but an execution, and    *)
(* that at most max_retries times, and, when max_cycles is larger than the *)
(* claims a run can take, that every scenario is accounted for when the    *)
(* run ends.                                                               *)
(***************************************************************************)
EXTENDS BlackboardRunner, FiniteSetTheorems, SequenceTheorems, TLAPS

(* The theorems about the board, for the runner's tasks and workers.       *)
Proved == INSTANCE BlackboardProofs WITH
  TypeOf <- [t \in Tasks |-> t.type], Serves <- ServesOf

-----------------------------------------------------------------------------
(* The bookkeeping of a run.  An effect is a task posted or a result kept  *)
(* for a scenario; one task has it as its handler's work.  Executions, the *)
(* one effect that a handler may raise after, have their own account.      *)

Kinds == {"generate_flow", "execute", "validate", "result"}

Effect(k, s) == <<IF k = "validate" THEN 2 ELSE 1, k, s>>

TaskOf(type, x) == [type |-> type, of |-> x, copy |-> 1]

Source(k, s) ==
  IF k = "generate_flow" THEN TaskOf("test_rule", RuleOf[s])
  ELSE TaskOf(IF k = "execute" THEN "generate_flow"
              ELSE IF k = "result" THEN "validate" ELSE "execute", s)

Happened(k, s) ==
  IF k = "result" THEN results[s]
  ELSE IF status[TaskOf(k, s)] = "absent" THEN 0 ELSE 1

Held(t)    == \E a \in Agents : pc[a] # "idle" /\ task[a] = t
Working(t) == \E a \in Agents : pc[a] = "working" /\ task[a] = t

\* The handler of t has yet to have this effect, now or when t is retried.
Open(t, e) == IF Working(t) THEN e \in todo ELSE status[t] # "completed"

-----------------------------------------------------------------------------
(* The inductive invariant.                                                *)

\* Every task is the first of its type about its subject, and has a key.
First ==
  \A t \in Tasks : status[t] # "absent" =>
    t.copy = 1 /\ \E i \in DOMAIN keys : keys[i] = t

\* The task a worker was handed.
HandedTo(a) ==
  /\ phase = "cycling" /\ turn \in 1 .. 4 /\ a = Worker
  /\ task[a] \in Tasks /\ task[a].type = Workers[turn].serves
  /\ status[task[a]] # "absent"
  /\ pc[a] = "claimed" => status[task[a]] # "completed"
  /\ pc[a] = "working" => todo \subseteq Effects(task[a])

\* One coroutine: only the worker whose turn it is has a task, only that
\* task is active, and only its handler has effects ahead.
OneAtWork ==
  /\ \A a \in Agents : pc[a] # "idle" => HandedTo(a)
  /\ \A t \in Tasks : status[t] \in {"claimed", "in_progress"} => Held(t)
  /\ todo # {} => \E a \in Agents : pc[a] = "working"

\* An effect happened, once, or is ahead.
Ledger ==
  \A k \in Kinds, s \in Scenarios :
    Happened(k, s) = IF Open(Source(k, s), Effect(k, s)) THEN 0 ELSE 1

\* The execute task of a scenario is claimed, and its trace not logged yet.
Unlogged(s) ==
  \E a \in Agents : /\ task[a] = TaskOf("execute", s)
                   /\ \/ pc[a] = "claimed"
                      \/ pc[a] = "working" /\ <<1, "trace", s>> \in todo

\* A claim logs one trace at most, and validation follows a trace.
Logged ==
  \A s \in Scenarios :
    /\ traces[s] + (IF Unlogged(s) THEN 1 ELSE 0) <= claims[TaskOf("execute", s)]
    /\ Working(TaskOf("execute", s)) /\ <<1, "trace", s>> \notin todo => traces[s] # 0
    /\ status[TaskOf("validate", s)] # "absent" => traces[s] # 0

\* The rules are posted before the first cycle.
RulesPosted ==
  phase # "posting" => \A r \in Rules : status[TaskOf("test_rule", r)] # "absent"

\* A cycle in which no worker had a task yet left nothing behind it.
LeftNothing ==
  phase = "cycling" /\ ~progressed =>
    \A t \in Tasks : status[t] = "posted" =>
      \A i \in 1 .. turn - 1 : Workers[i].serves # t.type

\* Nothing is open when the run is over.
Over == phase = "done" => \A t \in Tasks : status[t] \in {"absent", "completed", "dead"}

\* The rules are posted before the first cycle, and no cycle follows the last.
LoopTypes ==
  /\ phase \in {"posting", "cycling", "done"} /\ progressed \in BOOLEAN
  /\ turn \in 1 .. 5 /\ (phase = "posting" => turn = 1)
  /\ cycle \in 0 .. MaxCycles /\ (phase # "done" => cycle < MaxCycles)
  /\ traces \in [Scenarios -> Nat] /\ results \in [Scenarios -> Nat]

RunnerInv ==
  /\ LoopTypes /\ First /\ OneAtWork /\ Ledger /\ RulesPosted /\ LeftNothing

\* The claims taken so far, one for each cycle with progress at least.
Subjects == ({"test_rule"} \X Rules)
            \cup ({"generate_flow", "execute", "validate"} \X Scenarios)
Slots == Subjects \X (1 .. MaxRetries)
Spent == {p \in Slots : p[2] <= claims[TaskOf(p[1][1], p[1][2])]}

Paced ==
  phase # "done" =>
    cycle + (IF progressed \/ (\E a \in Agents : pc[a] # "idle") THEN 1 ELSE 0)
      <= Cardinality(Spent)

\* More cycles than the tasks of the run can be claimed.
EnoughCycles ==
  /\ IsFiniteSet(Rules) /\ IsFiniteSet(Scenarios)
  /\ MaxCycles > (Cardinality(Rules) + 3 * Cardinality(Scenarios)) * MaxRetries

-----------------------------------------------------------------------------
(* The workers, the tasks and their effects.                               *)

LEMMA WorkersAre ==
  /\ Len(Workers) = 4 /\ DOMAIN Workers = 1 .. 4
  /\ Workers[1] = [serves |-> "test_rule",     agent |-> "scenario_generator"]
  /\ Workers[2] = [serves |-> "generate_flow", agent |-> "flow_planner"]
  /\ Workers[3] = [serves |-> "execute",       agent |-> "executor"]
  /\ Workers[4] = [serves |-> "validate",      agent |-> "oracle"]
BY DEF Workers

(* Every worker claims tasks of its own type.                              *)
LEMMA Serving ==
  ASSUME NEW i \in 1 .. 4
  PROVE  Workers[i].agent \in Agents /\ ServesOf[Workers[i].agent] = Workers[i].serves
<1>1. Workers[i] \in {Workers[j] : j \in DOMAIN Workers}
  BY WorkersAre
<1>2. Workers[i].agent \in Agents
  BY WorkersAre DEF Agents
<1>3. \A w \in {Workers[j] : j \in DOMAIN Workers} :
        w.agent = Workers[i].agent => w = Workers[i]
  <2> SUFFICES ASSUME NEW j \in 1 .. 4, Workers[j].agent = Workers[i].agent
               PROVE  j = i
    BY WorkersAre
  <2> QED
    BY WorkersAre
<1>4. (CHOOSE w \in {Workers[j] : j \in DOMAIN Workers} : w.agent = Workers[i].agent) = Workers[i]
  BY <1>1, <1>3
<1> QED
  BY <1>2, <1>4 DEF ServesOf

LEMMA WorkerIs ==
  ASSUME turn \in 1 .. 4
  PROVE  Worker \in Agents /\ ServesOf[Worker] = Workers[turn].serves
BY Serving DEF Worker

(* The types of the tasks, and what a task is about.                       *)
LEMMA TaskIs ==
  ASSUME NEW t \in Tasks
  PROVE  /\ t.type = "test_rule" => t.of \in Rules
         /\ t.type # "test_rule" => /\ t.type \in {"generate_flow", "execute", "validate"}
                                   /\ t.of \in Scenarios
         /\ t.copy = 1 => t = TaskOf(t.type, t.of)
BY DEF Tasks, TaskOf

LEMMA FirstTask ==
  /\ \A r \in Rules : TaskOf("test_rule", r) \in Tasks
  /\ \A s \in Scenarios, type \in {"generate_flow", "execute", "validate"} :
       TaskOf(type, s) \in Tasks
BY RunnerAssumption DEF Tasks, TaskOf

(* The effects of a task are those it is the source of.                    *)
LEMMA SourceIs ==
  ASSUME NEW k \in Kinds, NEW s \in Scenarios
  PROVE  /\ Source(k, s) \in Tasks /\ Source(k, s).copy = 1
         /\ Effect(k, s) \in Effects(Source(k, s))
<1>1. RuleOf[s] \in Rules
  BY RunnerAssumption
<1>2. CASE k = "generate_flow"
  <2>1. Source(k, s) = TaskOf("test_rule", RuleOf[s]) /\ Effect(k, s) = <<1, k, s>>
    BY <1>2 DEF Source, Effect
  <2>2. s \in ScenariosOf(RuleOf[s])
    BY DEF ScenariosOf
  <2> QED
    BY <1>1, <1>2, <2>1, <2>2, FirstTask DEF TaskOf, Effects
<1>3. CASE k = "execute"
  BY <1>3, FirstTask DEF Source, Effect, TaskOf, Effects
<1>4. CASE k = "result"
  BY <1>4, FirstTask DEF Source, Effect, TaskOf, Effects
<1>5. CASE k = "validate"
  <2>1. Source(k, s) = TaskOf("execute", s)
    BY <1>5 DEF Source
  <2>2. Effect(k, s) = <<2, "validate", s>>
    BY <1>5 DEF Effect
  <2>3. TaskOf("execute", s) \in Tasks
    BY FirstTask
  <2>4. Effects(TaskOf("execute", s)) = {<<1, "trace", s>>, <<2, "validate", s>>}
    BY DEF TaskOf, Effects
  <2> QED
    BY <2>1, <2>2, <2>3, <2>4 DEF TaskOf
<1> QED
  BY <1>2, <1>3, <1>4, <1>5 DEF Kinds

LEMMA EffectIs ==
  ASSUME NEW t \in Tasks, t.copy = 1, NEW e \in Effects(t), e[2] # "trace"
  PROVE  \E k \in Kinds, s \in Scenarios : e = Effect(k, s) /\ Source(k, s) = t
<1> USE DEF Kinds, Effect, Source
<1>1. CASE t.type = "test_rule"
  <2>1. PICK s \in ScenariosOf(t.of) : e = <<1, "generate_flow", s>>
    BY <1>1 DEF Effects
  <2>2. s \in Scenarios /\ RuleOf[s] = t.of
    BY DEF ScenariosOf
  <2>3. Source("generate_flow", s) = t /\ e = Effect("generate_flow", s)
    BY <1>1, <2>1, <2>2, TaskIs
  <2> QED
    BY <2>2, <2>3
<1>2. CASE t.type = "generate_flow"
  <2>1. e = Effect("execute", t.of) /\ t.of \in Scenarios
    BY <1>2, TaskIs DEF Effects
  <2>2. Source("execute", t.of) = t
    BY <1>2, TaskIs
  <2> QED
    BY <2>1, <2>2
<1>3. CASE t.type = "execute"
  <2>1. e = Effect("validate", t.of) /\ t.of \in Scenarios
    BY <1>3, TaskIs DEF Effects
  <2>2. Source("validate", t.of) = t
    BY <1>3, TaskIs
  <2> QED
    BY <2>1, <2>2
<1>4. CASE t.type = "validate"
  <2>1. e = Effect("result", t.of) /\ t.of \in Scenarios
    BY <1>4, TaskIs DEF Effects
  <2>2. Source("result", t.of) = t
    BY <1>4, TaskIs
  <2> QED
    BY <2>1, <2>2
<1> QED
  BY <1>1, <1>2, <1>3, <1>4, TaskIs

(* No two effects are the same.                                            *)
LEMMA EffectsDiffer ==
  ASSUME NEW k, NEW s, NEW l, NEW u, Effect(k, s) = Effect(l, u)
  PROVE  k = l /\ s = u
BY DEF Effect

-----------------------------------------------------------------------------
(* The board under the runner.                                             *)

(* Every step of the runner is a step of the board, or leaves it alone.    *)
LEMMA BoardStep == [Next]_vars => [Proved!Next]_(Proved!vars)
<1> USE DEF Board!agentVars, Proved!agentVars, Board!watcherVars, Proved!watcherVars,
            Board!boardVars, Proved!boardVars, Board!Stamp, Proved!Stamp,
            Board!Claimable, Proved!Claimable, Board!Leave, Proved!Leave,
            Board!Retry, Proved!Retry, Board!GiveBack, Proved!GiveBack
<1>1. \A t \in Tasks : Board!PostTask(t) => Proved!Next
  BY DEF Proved!Next, Board!PostTask, Proved!PostTask
<1>2. \A a \in Agents : Board!ClaimTask(a) => Proved!Next
  BY DEF Proved!Next, Proved!AgentStep, Board!ClaimTask, Proved!ClaimTask
<1>3. \A a \in Agents : Board!StartTask(a) => Proved!Next
  BY DEF Proved!Next, Proved!AgentStep, Board!StartTask, Proved!StartTask
<1>4. \A a \in Agents : Board!CompleteTask(a) => Proved!Next
  BY DEF Proved!Next, Proved!AgentStep, Board!CompleteTask, Proved!CompleteTask
<1>5. \A a \in Agents : Board!FailTask(a) => Proved!Next
  BY DEF Proved!Next, Proved!AgentStep, Board!FailTask, Proved!FailTask
<1>6. Board!Tick => Proved!Next
  BY DEF Proved!Next, Board!Tick, Proved!Tick, Board!OnTime, Proved!OnTime
<1>7. Board!WatcherWake => Proved!Next
  BY DEF Proved!Next, Board!WatcherWake, Proved!WatcherWake
<1>8. Board!WatcherSweep => Proved!Next
  BY DEF Proved!Next, Board!WatcherSweep, Proved!WatcherSweep, Board!Swept, Proved!Swept,
         Board!Active, Proved!Active
<1>9. \A type, x : Post(type, x) => Proved!Next
  BY <1>1 DEF Post
<1>10. ASSUME UNCHANGED boardVars PROVE UNCHANGED Proved!vars
  BY <1>10 DEF boardVars, Proved!vars
<1>11. ASSUME RunnerStep PROVE Proved!Next \/ UNCHANGED Proved!vars
  <2>1. ASSUME Claim \/ Start \/ Complete \/ HandlerRaises PROVE Proved!Next
    <3>1. Running => Worker \in Agents
      BY WorkersAre, WorkerIs DEF Running
    <3> QED
      BY <2>1, <3>1, <1>2, <1>3, <1>4, <1>5 DEF Claim, Start, Complete, Finish, HandlerRaises, Raise
  <2>2. ASSUME StartCycling \/ NothingToClaim \/ EndCycle PROVE UNCHANGED boardVars
    BY <2>2 DEF StartCycling, NothingToClaim, EndCycle, CycleEnds
  <2>3. ASSUME Handle PROVE Proved!Next \/ UNCHANGED boardVars
    BY <2>3, <1>9 DEF Handle
  <2>4. ASSUME NEW r \in Rules, PostRule(r) PROVE Proved!Next
    BY <2>4, <1>9 DEF PostRule
  <2> QED
    BY <1>11, <2>1, <2>2, <2>3, <2>4, <1>10 DEF RunnerStep
<1>12. Background => Proved!Next
  BY <1>6, <1>7, <1>8 DEF Background
<1>13. UNCHANGED vars => UNCHANGED Proved!vars
  BY <1>10 DEF vars
<1> QED
  BY <1>11, <1>12, <1>13 DEF Next

(* The types and the budgets of the board.                                 *)
LEMMA BoardKeeps ==
  /\ Init => Proved!BudgetInv
  /\ Proved!BudgetInv /\ [Next]_vars => Proved!BudgetInv'
<1>1. Init => Proved!Init
  BY DEF Init, Board!Init, Proved!Init
<1> QED
  BY <1>1, BoardStep, BoardAssumption, Proved!InitBudget, Proved!NextBudget

BoardTypes ==
  /\ keys \in Seq(Tasks)
  /\ status \in [Tasks -> {"absent", "posted", "claimed", "in_progress", "completed", "dead"}]
  /\ pc \in [Agents -> {"idle", "claimed", "working"}]
  /\ task \in [Agents -> Tasks \cup {NULL}]
  /\ claims \in [Tasks -> Nat]

LEMMA BoardTypesHold ==
  /\ Proved!BudgetInv => BoardTypes /\ Board!TypeOK
  /\ Proved!BudgetInv' => BoardTypes' /\ Board!TypeOK'
BY DEF Proved!BudgetInv, Proved!TypeOK, Board!TypeOK, BoardTypes, Proved!Active,
       Board!Active, Proved!Settled, Board!Settled, Proved!Ages, Board!Ages

-----------------------------------------------------------------------------
(* What the steps do.                                                      *)

(* A first task of its type about x is posted.                             *)
LEMMA PostIs ==
  ASSUME BoardTypes, NEW type, NEW x, Post(type, x),
         \A u \in Tasks : u.type = type /\ u.of = x => status[u] = "absent"
  PROVE  LET t == TaskOf(type, x)
         IN  /\ t \in Tasks /\ status[t] = "absent"
             /\ status' = [status EXCEPT ![t] = "posted"]
             /\ keys' = Append(keys, t) /\ UNCHANGED <<pc, task, claims>>
<1>1. PICK t \in Tasks :
        /\ t.type = type /\ t.of = x
        /\ t.copy = 1 + Cardinality({u \in TasksAbout(x) : u.type = type})
        /\ Board!PostTask(t)
  BY DEF Post
<1>2. {u \in TasksAbout(x) : u.type = type} = {}
  BY DEF TasksAbout
<1>3. t.copy = 1
  BY <1>1, <1>2, FS_EmptySet
<1>4. t = TaskOf(type, x)
  BY <1>1, <1>3, TaskIs
<1> QED
  BY <1>1, <1>4 DEF Board!PostTask, Board!agentVars

(* Only the worker whose turn it is has a task.                            *)
LEMMA OthersIdle ==
  ASSUME OneAtWork
  PROVE  \A a \in Agents : pc[a] # "idle" => a = Worker /\ HandedTo(a)
BY DEF OneAtWork, HandedTo

(* A posted task of the worker's type is handed to it.                     *)
LEMMA ClaimIs ==
  ASSUME BoardTypes, Claim
  PROVE  /\ phase = "cycling" /\ turn \in 1 .. 4 /\ Worker \in Agents /\ pc[Worker] = "idle"
         /\ UNCHANGED <<keys, loopVars, todo, outputVars>>
         /\ pc' = [pc EXCEPT ![Worker] = "claimed"]
         /\ \E t \in Tasks : /\ status[t] = "posted" /\ t.type = Workers[turn].serves
                             /\ status' = [status EXCEPT ![t] = "claimed"]
                             /\ task' = [task EXCEPT ![Worker] = t]
                             /\ claims' = [claims EXCEPT ![t] = @ + 1]
<1>1. phase = "cycling" /\ turn \in 1 .. 4 /\ Board!ClaimTask(Worker)
  BY WorkersAre DEF Claim, Running
<1>2. Worker \in Agents /\ ServesOf[Worker] = Workers[turn].serves
  BY <1>1, WorkerIs
<1>3. PICK i \in DOMAIN keys :
        /\ Board!Claimable(Worker, keys[i])
        /\ status' = [status EXCEPT ![keys[i]] = "claimed"]
        /\ pc' = [pc EXCEPT ![Worker] = "claimed"]
        /\ task' = [task EXCEPT ![Worker] = keys[i]]
        /\ claims' = [claims EXCEPT ![keys[i]] = @ + 1]
  BY <1>1 DEF Board!ClaimTask
<1>4. keys[i] \in Tasks
  BY <1>3, LenProperties DEF BoardTypes
<1>5. status[keys[i]] = "posted" /\ ServesOf[Worker] \in {AnyType, keys[i].type}
  BY <1>3, <1>4 DEF Board!Claimable
<1>6. Workers[turn].serves # AnyType
  BY <1>1, WorkersAre, RunnerAssumption
<1>7. pc[Worker] = "idle" /\ keys' = keys
  BY <1>1 DEF Board!ClaimTask
<1> QED
  BY <1>1, <1>2, <1>3, <1>4, <1>5, <1>6, <1>7 DEF Claim

(* The worker has a task, and works on it.                                 *)
LEMMA HandledIs ==
  ASSUME BoardTypes, OneAtWork, First, Running, pc[Worker] # "idle"
  PROVE  /\ turn \in 1 .. 4 /\ Worker \in Agents /\ HandedTo(Worker)
         /\ Handled \in Tasks /\ Handled.copy = 1
<1>1. turn \in 1 .. 4 /\ Worker \in Agents
  BY WorkersAre, WorkerIs DEF Running
<1>2. HandedTo(Worker)
  BY <1>1 DEF OneAtWork
<1> QED
  BY <1>1, <1>2 DEF HandedTo, Handled, First

(* The task leaves its worker, completed or given back.                    *)
LEMMA LeaveIs ==
  ASSUME BoardTypes, Board!CompleteTask(Worker) \/ Board!FailTask(Worker),
         Worker \in Agents, Handled \in Tasks
  PROVE  /\ pc[Worker] = "working" /\ pc' = [pc EXCEPT ![Worker] = "idle"]
         /\ keys' = keys /\ claims' = claims
         /\ task' = [task EXCEPT ![Worker] = NULL]
         /\ \A t \in Tasks \ {Handled} : status'[t] = status[t]
         /\ Board!CompleteTask(Worker) => status'[Handled] = "completed"
         /\ Board!FailTask(Worker) => status'[Handled] \in {"posted", "dead"}
<1>1. CASE Board!CompleteTask(Worker)
  BY <1>1 DEF Board!CompleteTask, Board!Leave, Board!FailTask, BoardTypes, Handled,
              Board!Retry, Board!GiveBack
<1>2. CASE Board!FailTask(Worker)
  BY <1>2 DEF Board!CompleteTask, Board!Leave, Board!FailTask, BoardTypes, Handled,
              Board!Retry, Board!GiveBack
<1> QED
  BY <1>1, <1>2

(* The watcher posts active tasks again, or has them die.                  *)
LEMMA BackgroundIs ==
  ASSUME BoardTypes, Background
  PROVE  /\ UNCHANGED <<keys, pc, task, claims, loopVars, todo, outputVars>>
         /\ phase # "done"
         /\ \A t \in Tasks :
              \/ status'[t] = status[t]
              \/ status[t] \in {"claimed", "in_progress"} /\ status'[t] \in {"posted", "dead"}
<1>1. CASE Board!Tick \/ Board!WatcherWake
  BY <1>1 DEF Background, Board!Tick, Board!WatcherWake, Board!boardVars, Board!agentVars
<1>2. CASE Board!WatcherSweep
  BY <1>2 DEF Background, Board!WatcherSweep, Board!Retry, Board!GiveBack, Board!Swept,
              Board!Active, Board!agentVars
<1> QED
  BY <1>1, <1>2 DEF Background

-----------------------------------------------------------------------------
(* The ledger.                                                             *)

(* The ledger stays balanced when no effect happens, or opens, or closes.  *)
LEMMA LedgerStays ==
  ASSUME Ledger, results' = results,
         \A t \in Tasks : t.type # "test_rule" =>
                            (status'[t] = "absent" <=> status[t] = "absent"),
         \A t \in Tasks : \A e : t.copy = 1 /\ e \in Effects(t) /\ e[2] # "trace"
                                => (Open(t, e)' <=> Open(t, e))
  PROVE  Ledger'
<1> SUFFICES ASSUME NEW k \in Kinds, NEW s \in Scenarios
             PROVE  Happened(k, s)' = IF Open(Source(k, s), Effect(k, s))' THEN 0 ELSE 1
  BY DEF Ledger, Source, Effect, TaskOf
<1>1. Open(Source(k, s), Effect(k, s))' <=> Open(Source(k, s), Effect(k, s))
  <2>1. Effect(k, s)[2] # "trace"
    BY DEF Effect, Kinds
  <2> QED
    BY <2>1, SourceIs
<1>2. Happened(k, s)' = Happened(k, s)
  <2>1. CASE k = "result"
    BY <2>1 DEF Happened
  <2>2. CASE k \in {"generate_flow", "execute", "validate"}
    <3>1. TaskOf(k, s) \in Tasks /\ TaskOf(k, s).type = k
      BY <2>2, FirstTask DEF TaskOf
    <3> QED
      BY <2>2, <3>1 DEF Happened, TaskOf
  <2> QED
    BY <2>1, <2>2 DEF Kinds
<1> QED
  BY <1>1, <1>2 DEF Ledger

(* It stays balanced when one effect that was open happens.                *)
LEMMA LedgerMoves ==
  ASSUME Ledger, NEW k \in Kinds, NEW s \in Scenarios, UNCHANGED <<pc, task>>,
         Working(Source(k, s)), Effect(k, s) \in todo, todo' = todo \ {Effect(k, s)},
         \A t \in Tasks : (status'[t] = "completed" <=> status[t] = "completed"),
         \A l \in Kinds, u \in Scenarios :
           Happened(l, u)' = IF l = k /\ u = s THEN 1 ELSE Happened(l, u)
  PROVE  Ledger'
<1> SUFFICES ASSUME NEW l \in Kinds, NEW u \in Scenarios
             PROVE  Happened(l, u)' = IF Open(Source(l, u), Effect(l, u))' THEN 0 ELSE 1
  BY DEF Ledger, Source, Effect, TaskOf
<1>1. \A t : Working(t)' <=> Working(t)
  BY DEF Working
<1>2. CASE l = k /\ u = s
  <2>1. ~Open(Source(k, s), Effect(k, s))'
    BY <1>1 DEF Open
  <2> QED
    BY <1>2, <2>1
<1>3. CASE ~(l = k /\ u = s)
  <2>1. Effect(l, u) # Effect(k, s)
    BY <1>3, EffectsDiffer
  <2>2. Open(Source(l, u), Effect(l, u))' <=> Open(Source(l, u), Effect(l, u))
    BY <1>1, <2>1, SourceIs DEF Open
  <2> QED
    BY <1>3, <2>2 DEF Ledger
<1> QED
  BY <1>2, <1>3

-----------------------------------------------------------------------------
(* One step lemma for each action.                                         *)

(* A task is posted by the coroutine: for a rule, or for the next worker.  *)
LEMMA PostKeeps ==
  ASSUME BoardTypes, RunnerInv, NEW t \in Tasks, t.copy = 1, status[t] = "absent",
         status' = [status EXCEPT ![t] = "posted"], keys' = Append(keys, t),
         UNCHANGED <<pc, task, loopVars>>, todo' \subseteq todo,
         phase = "cycling" => \A i \in 1 .. turn - 1 : Workers[i].serves # t.type
  PROVE  First' /\ OneAtWork' /\ RulesPosted' /\ LeftNothing'
<1> USE DEF loopVars, RunnerInv
<1>1. \A u \in Tasks : status'[u] = IF u = t THEN "posted" ELSE status[u]
  BY DEF BoardTypes
<1>2. First'
  <2> SUFFICES ASSUME NEW u \in Tasks, status'[u] # "absent"
               PROVE  u.copy = 1 /\ \E i \in DOMAIN keys' : keys'[i] = u
    BY DEF First
  <2>1. CASE u = t
    <3>1. Len(keys) + 1 \in DOMAIN keys' /\ keys'[Len(keys) + 1] = t
      BY AppendProperties, LenProperties DEF BoardTypes
    <3> QED
      BY <2>1, <3>1
  <2>2. CASE u # t
    <3>1. PICK i \in DOMAIN keys : keys[i] = u
      BY <1>1, <2>2 DEF First
    <3>2. i \in DOMAIN keys' /\ keys'[i] = keys[i]
      BY AppendProperties, LenProperties DEF BoardTypes
    <3> QED
      BY <1>1, <2>2, <3>1, <3>2 DEF First
  <2> QED
    BY <2>1, <2>2
<1>3. OneAtWork'
  <2>1. \A a \in Agents : pc'[a] # "idle" => HandedTo(a)'
    BY <1>1 DEF OneAtWork, HandedTo, Worker
  <2>2. \A u \in Tasks : status'[u] \in {"claimed", "in_progress"} => Held(u)'
    BY <1>1 DEF OneAtWork, Held
  <2> QED
    BY <2>1, <2>2 DEF OneAtWork
<1>4. RulesPosted'
  BY <1>1, FirstTask DEF RulesPosted, TaskOf
<1>5. LeftNothing'
  BY <1>1 DEF LeftNothing
<1> QED
  BY <1>2, <1>3, <1>4, <1>5

LEMMA PostRuleStep ==
  ASSUME BoardTypes, RunnerInv, NEW r \in Rules, PostRule(r)
  PROVE  RunnerInv'
<1> DEFINE t == TaskOf("test_rule", r)
<1>1. /\ t \in Tasks /\ status[t] = "absent" /\ status' = [status EXCEPT ![t] = "posted"]
      /\ keys' = Append(keys, t) /\ UNCHANGED <<pc, task>>
  <2>1. \A u \in Tasks : u.type = "test_rule" /\ u.of = r => status[u] = "absent"
    BY DEF PostRule, TasksAbout
  <2> QED
    BY <2>1, PostIs DEF PostRule
<1>2. t.copy = 1 /\ t.type = "test_rule"
  BY DEF TaskOf
<1>3. phase = "posting" /\ UNCHANGED <<loopVars, todo, outputVars>>
  BY DEF PostRule
<1> HIDE DEF t
<1>4. First' /\ OneAtWork' /\ RulesPosted' /\ LeftNothing'
  BY <1>1, <1>2, <1>3, PostKeeps
<1>5. Ledger'
  <2>1. \A u \in Tasks : u # t => status'[u] = status[u]
    BY <1>1 DEF BoardTypes
  <2>2. status'[t] = "posted"
    BY <1>1 DEF BoardTypes
  <2>3. \A u \in Tasks : Working(u)' <=> Working(u)
    BY <1>1 DEF Working
  <2>4. \A u \in Tasks : \A e : Open(u, e)' <=> Open(u, e)
    BY <1>1, <1>3, <2>1, <2>2, <2>3 DEF Open
  <2> QED
    BY <1>2, <1>3, <2>1, <2>4, LedgerStays DEF RunnerInv, outputVars
<1>6. LoopTypes'
  BY <1>3 DEF RunnerInv, LoopTypes, loopVars, outputVars
<1> QED
  BY <1>4, <1>5, <1>6 DEF RunnerInv

LEMMA StartCyclingStep ==
  ASSUME BoardTypes, RunnerInv, StartCycling
  PROVE  RunnerInv'
<1> USE DEF RunnerInv
<1>1. /\ UNCHANGED <<keys, status, pc, task, turn, cycle, progressed, todo, outputVars>>
      /\ phase = "posting" /\ phase' = "cycling" /\ turn = 1
  BY DEF StartCycling, boardVars, LoopTypes
<1>2. LoopTypes' /\ First' /\ LeftNothing'
  BY <1>1 DEF LoopTypes, outputVars, First, LeftNothing
<1>3. \A a \in Agents : pc[a] = "idle"
  BY <1>1 DEF OneAtWork, HandedTo
<1>4. OneAtWork'
  BY <1>1, <1>3 DEF OneAtWork, Held
<1>5. Ledger'
  BY <1>1 DEF Ledger, Happened, Open, Working, outputVars
<1>6. ASSUME NEW r \in Rules PROVE status[TaskOf("test_rule", r)] # "absent"
  <2>1. PICK t \in Tasks : t.of = r /\ status[t] # "absent" /\ t.type = "test_rule"
    BY DEF StartCycling, TasksAbout
  <2>2. t = TaskOf("test_rule", r)
    BY <2>1, TaskIs DEF First
  <2> QED
    BY <2>1, <2>2
<1> QED
  BY <1>1, <1>2, <1>4, <1>5, <1>6 DEF RulesPosted

LEMMA ClaimStep ==
  ASSUME BoardTypes, RunnerInv, Claim
  PROVE  RunnerInv'
<1> USE DEF RunnerInv
<1> DEFINE w == Worker
<1>1. /\ phase = "cycling" /\ turn \in 1 .. 4 /\ w \in Agents /\ pc[w] = "idle"
      /\ UNCHANGED <<keys, loopVars, todo, outputVars>>
      /\ pc' = [pc EXCEPT ![w] = "claimed"]
  BY ClaimIs
<1>2. PICK t \in Tasks : /\ status[t] = "posted" /\ t.type = Workers[turn].serves
                        /\ status' = [status EXCEPT ![t] = "claimed"]
                        /\ task' = [task EXCEPT ![w] = t]
  BY ClaimIs
<1>3. \A u \in Tasks : status'[u] = IF u = t THEN "claimed" ELSE status[u]
  BY <1>2 DEF BoardTypes
<1>4. \A a \in Agents : /\ pc[a] = "idle"
                        /\ pc'[a] = IF a = w THEN "claimed" ELSE "idle"
  BY <1>1, OthersIdle DEF BoardTypes
<1>5. task'[w] = t /\ Worker' = w
  BY <1>1, <1>2 DEF BoardTypes, loopVars, Worker
<1>6. \A u : ~Working(u) /\ ~Working(u)'
  BY <1>4 DEF Working
<1> HIDE DEF w
<1>7. LoopTypes' /\ First' /\ RulesPosted' /\ LeftNothing'
  BY <1>1, <1>2, <1>3, FirstTask
     DEF LoopTypes, First, RulesPosted, LeftNothing, loopVars, outputVars
<1>8. OneAtWork'
  <2>1. \A a \in Agents : pc'[a] # "idle" => HandedTo(a)'
    BY <1>1, <1>2, <1>3, <1>4, <1>5 DEF HandedTo, loopVars
  <2>2. ASSUME NEW u \in Tasks, status'[u] \in {"claimed", "in_progress"} PROVE Held(u)'
    <3>1. u = t
      BY <1>3, <1>4, <2>2 DEF OneAtWork, Held
    <3> QED
      BY <1>1, <1>4, <1>5, <3>1 DEF Held
  <2>3. todo' = {}
    BY <1>1, <1>4 DEF OneAtWork
  <2> QED
    BY <2>1, <2>2, <2>3 DEF OneAtWork
<1>9. Ledger'
  <2>1. \A u \in Tasks : \A e : Open(u, e)' <=> Open(u, e)
    BY <1>2, <1>3, <1>6 DEF Open
  <2> QED
    BY <1>1, <1>2, <1>3, <2>1, LedgerStays DEF outputVars
<1> QED
  BY <1>7, <1>8, <1>9

LEMMA NothingToClaimStep ==
  ASSUME BoardTypes, RunnerInv, NothingToClaim
  PROVE  RunnerInv'
<1> USE DEF RunnerInv
<1>1. /\ phase = "cycling" /\ turn \in 1 .. 4 /\ Worker \in Agents /\ pc[Worker] = "idle"
      /\ UNCHANGED <<keys, status, pc, task, phase, cycle, todo, outputVars>>
      /\ turn' = turn + 1 /\ progressed' = progressed
  BY WorkersAre, WorkerIs DEF NothingToClaim, Running, NextWorker, boardVars, LoopTypes
<1>2. \A a \in Agents : pc[a] = "idle"
  BY <1>1, OthersIdle
<1>3. ASSUME NEW t \in Tasks, status[t] = "posted" PROVE Workers[turn].serves # t.type
  <2>1. PICK i \in DOMAIN keys : keys[i] = t
    BY <1>3 DEF First
  <2>2. ~Board!Claimable(Worker, t)
    BY <2>1 DEF NothingToClaim
  <2>3. ServesOf[Worker] = Workers[turn].serves
    BY <1>1, WorkerIs
  <2> QED
    BY <1>3, <2>2, <2>3 DEF Board!Claimable
<1>4. LoopTypes' /\ First' /\ RulesPosted'
  BY <1>1 DEF LoopTypes, First, RulesPosted, outputVars
<1>5. LeftNothing'
  <2> SUFFICES ASSUME ~progressed, NEW t \in Tasks, status[t] = "posted", NEW i \in 1 .. turn
               PROVE  Workers[i].serves # t.type
    BY <1>1 DEF LeftNothing
  <2>1. i = turn \/ i \in 1 .. turn - 1
    BY <1>1
  <2> QED
    BY <1>1, <1>3, <2>1 DEF LeftNothing
<1>6. OneAtWork'
  BY <1>1, <1>2 DEF OneAtWork, Held
<1>7. Ledger'
  BY <1>1 DEF Ledger, Happened, Open, Working, outputVars
<1> QED
  BY <1>4, <1>5, <1>6, <1>7

LEMMA StartStep ==
  ASSUME BoardTypes, RunnerInv, Start
  PROVE  RunnerInv'
<1> USE DEF RunnerInv
<1> DEFINE w == Worker
           t == Handled
<1>1. /\ Running /\ pc[w] = "claimed" /\ status' = [status EXCEPT ![t] = "in_progress"]
      /\ pc' = [pc EXCEPT ![w] = "working"] /\ todo' = Effects(t)
      /\ UNCHANGED <<keys, task, loopVars, outputVars>>
  BY DEF Start, Board!StartTask, Handled
<1>2. /\ turn \in 1 .. 4 /\ w \in Agents /\ HandedTo(w) /\ t \in Tasks /\ t.copy = 1
      /\ task[w] = t
  BY <1>1, HandledIs DEF Handled
<1>3. /\ status[t] \notin {"absent", "completed"}
      /\ \A u \in Tasks : status'[u] = IF u = t THEN "in_progress" ELSE status[u]
  BY <1>1, <1>2 DEF BoardTypes, HandedTo
<1>4. \A a \in Agents : /\ a # w => pc[a] = "idle"
                        /\ pc'[a] = IF a = w THEN "working" ELSE "idle"
  BY <1>1, <1>2, OthersIdle DEF BoardTypes
<1>5. Worker' = w /\ task' = task
  BY <1>1 DEF loopVars, Worker
<1>6. \A u \in Tasks : ~Working(u) /\ (Working(u)' <=> u = t)
  BY <1>1, <1>2, <1>4, <1>5 DEF Working
<1> HIDE DEF w, t
<1>7. LoopTypes' /\ First' /\ RulesPosted' /\ LeftNothing'
  BY <1>1, <1>2, <1>3, FirstTask
     DEF LoopTypes, First, RulesPosted, LeftNothing, HandedTo, loopVars, outputVars
<1>8. OneAtWork'
  <2>1. \A a \in Agents : pc'[a] # "idle" => HandedTo(a)'
    BY <1>1, <1>2, <1>3, <1>4, <1>5 DEF HandedTo, loopVars
  <2>2. ASSUME NEW u \in Tasks, status'[u] \in {"claimed", "in_progress"} PROVE Held(u)'
    <3>1. Held(u)
      BY <1>1, <1>2, <1>3, <2>2 DEF OneAtWork, Held
    <3>2. u = t
      BY <1>2, <1>4, <3>1 DEF Held
    <3> QED
      BY <1>2, <1>4, <1>5, <3>2 DEF Held
  <2>3. \E a \in Agents : pc'[a] = "working"
    BY <1>2, <1>4
  <2> QED
    BY <2>1, <2>2, <2>3 DEF OneAtWork
<1>9. Ledger'
  <2>1. ASSUME NEW u \in Tasks, NEW e \in Effects(u) PROVE Open(u, e)' <=> Open(u, e)
    BY <1>1, <1>3, <1>6 DEF Open
  <2> QED
    BY <1>1, <1>3, <2>1, LedgerStays DEF outputVars
<1> QED
  BY <1>7, <1>8, <1>9

(* The next effect of the handler: a trace, a result, or a task posted.    *)
LEMMA HandleStep ==
  ASSUME BoardTypes, RunnerInv, Handle
  PROVE  RunnerInv'
<1> USE DEF RunnerInv
<1> DEFINE t == Handled
<1>1. Running /\ pc[Worker] = "working" /\ UNCHANGED loopVars
  BY DEF Handle
<1>2. /\ turn \in 1 .. 4 /\ Worker \in Agents /\ HandedTo(Worker) /\ t \in Tasks
      /\ t.copy = 1 /\ task[Worker] = t
  BY <1>1, HandledIs DEF Handled
<1>3. /\ Working(t) /\ todo \subseteq Effects(t) /\ t.type = Workers[turn].serves
      /\ phase = "cycling"
  BY <1>1, <1>2 DEF Working, HandedTo
<1> HIDE DEF t
<1>4. PICK e \in todo :
        /\ todo' = todo \ {e}
        /\ CASE e[2] = "trace"  -> /\ traces' = [traces EXCEPT ![e[3]] = @ + 1]
                                   /\ UNCHANGED <<results, boardVars>>
             [] e[2] = "result" -> /\ results' = [results EXCEPT ![e[3]] = @ + 1]
                                   /\ UNCHANGED <<traces, boardVars>>
             [] OTHER           -> Post(e[2], e[3]) /\ UNCHANGED outputVars
  BY DEF Handle
<1>5. CASE e[2] = "trace"
  <2>1. /\ UNCHANGED <<keys, status, pc, task, results>> /\ phase' = phase
        /\ traces' = [traces EXCEPT ![e[3]] = @ + 1]
    BY <1>1, <1>4, <1>5 DEF boardVars, loopVars
  <2>2. LoopTypes'
    <3>1. e \in Effects(t)
      BY <1>3, <1>4
    <3>2. e[3] = t.of /\ t.of \in Scenarios
      BY <1>2, <1>5, <3>1, TaskIs DEF Effects
    <3>3. traces' \in [Scenarios -> Nat]
      BY <2>1, <3>2 DEF LoopTypes
    <3> QED
      BY <1>1, <2>1, <3>3 DEF LoopTypes, loopVars
  <2>3. First' /\ RulesPosted' /\ LeftNothing'
    BY <1>1, <2>1 DEF First, RulesPosted, LeftNothing, loopVars
  <2>4. OneAtWork'
    BY <1>1, <1>3, <1>4, <2>1 DEF OneAtWork, HandedTo, Held, Worker, loopVars
  <2>5. \A u \in Tasks : Working(u)' <=> Working(u)
    BY <2>1 DEF Working
  <2>6. ASSUME NEW u \in Tasks, NEW f, f[2] # "trace" PROVE Open(u, f)' <=> Open(u, f)
    <3>1. f \in todo' <=> f \in todo
      BY <1>4, <1>5, <2>6
    <3> QED
      BY <2>1, <2>5, <3>1 DEF Open
  <2>7. Ledger'
    BY <2>1, <2>6, LedgerStays
  <2> QED
    BY <2>2, <2>3, <2>4, <2>7
<1>6. CASE e[2] # "trace"
  <2>1. PICK k \in Kinds, s \in Scenarios : e = Effect(k, s) /\ Source(k, s) = t
    BY <1>2, <1>3, <1>4, <1>6, EffectIs
  <2>2. e[2] = k /\ e[3] = s
    BY <2>1 DEF Effect
  <2>3. Happened(k, s) = 0
    BY <1>3, <1>4, <2>1 DEF Ledger, Open
  <2>4. CASE k = "result"
    <3>1. /\ UNCHANGED <<keys, status, pc, task>> /\ phase' = phase
          /\ results' = [results EXCEPT ![s] = @ + 1] /\ traces' = traces
      BY <1>1, <1>4, <2>2, <2>4 DEF boardVars, loopVars
    <3>2. LoopTypes'
      BY <1>1, <3>1 DEF LoopTypes, loopVars
    <3>3. First' /\ RulesPosted' /\ LeftNothing'
      BY <1>1, <3>1 DEF First, RulesPosted, LeftNothing, loopVars
    <3>4. OneAtWork'
      BY <1>1, <1>3, <1>4, <3>1 DEF OneAtWork, HandedTo, Held, Worker, loopVars
    <3>5. \A l \in Kinds, u \in Scenarios :
            Happened(l, u)' = IF l = k /\ u = s THEN 1 ELSE Happened(l, u)
      BY <2>3, <2>4, <3>1 DEF Happened, LoopTypes
    <3>6. Ledger'
      BY <1>3, <1>4, <2>1, <3>1, <3>5, LedgerMoves
    <3> QED
      BY <3>2, <3>3, <3>4, <3>6
  <2>5. CASE k \in {"generate_flow", "execute", "validate"}
    <3> DEFINE v == TaskOf(k, s)
    <3>1. Post(k, s) /\ UNCHANGED outputVars
      BY <1>4, <1>6, <2>2, <2>5
    <3>2. status[v] = "absent" /\ v.copy = 1 /\ v.type = k
      BY <2>3, <2>5 DEF Happened, TaskOf
    <3>3. ASSUME NEW u \in Tasks, u.type = k, u.of = s PROVE status[u] = "absent"
      BY <3>2, <3>3, TaskIs DEF First
    <3>4. /\ v \in Tasks /\ status' = [status EXCEPT ![v] = "posted"]
          /\ keys' = Append(keys, v) /\ UNCHANGED <<pc, task>>
      BY <3>1, <3>3, PostIs
    <3> HIDE DEF v
    <3>5. \A i \in 1 .. turn - 1 : Workers[i].serves # k
      <4>1. t.type = IF k = "generate_flow" THEN "test_rule"
                     ELSE IF k = "execute" THEN "generate_flow" ELSE "execute"
        BY <2>1, <2>5 DEF Source, TaskOf
      <4>2. turn = IF k = "generate_flow" THEN 1 ELSE IF k = "execute" THEN 2 ELSE 3
        <5>1. t.type = CASE turn = 1 -> "test_rule" [] turn = 2 -> "generate_flow"
                         [] turn = 3 -> "execute" [] turn = 4 -> "validate"
          BY <1>2, <1>3, WorkersAre
        <5> QED
          BY <1>2, <2>5, <4>1, <5>1
      <4> QED
        BY <2>5, <4>2, WorkersAre
    <3>6. First' /\ OneAtWork' /\ RulesPosted' /\ LeftNothing'
      BY <1>1, <1>4, <3>2, <3>4, <3>5, PostKeeps
    <3>7. LoopTypes'
      BY <1>1, <3>1 DEF LoopTypes, loopVars, outputVars
    <3>8. \A u \in Tasks : status'[u] = IF u = v THEN "posted" ELSE status[u]
      BY <3>4 DEF BoardTypes
    <3>9. ASSUME NEW l \in Kinds, NEW u \in Scenarios
          PROVE  Happened(l, u)' = IF l = k /\ u = s THEN 1 ELSE Happened(l, u)
      <4>1. CASE l = "result"
        BY <2>5, <3>1, <4>1 DEF Happened, outputVars
      <4>2. CASE l \in {"generate_flow", "execute", "validate"}
        <5>1. TaskOf(l, u) \in Tasks /\ (TaskOf(l, u) = v <=> l = k /\ u = s)
          BY <4>2, FirstTask DEF v, TaskOf
        <5>2. Happened(l, u) = IF status[TaskOf(l, u)] = "absent" THEN 0 ELSE 1
          BY <4>2 DEF Happened
        <5>3. Happened(l, u)' = IF status'[TaskOf(l, u)] = "absent" THEN 0 ELSE 1
          BY <4>2 DEF Happened, TaskOf
        <5> QED
          BY <3>8, <5>1, <5>2, <5>3
      <4> QED
        BY <4>1, <4>2 DEF Kinds
    <3>10. \A u \in Tasks : status'[u] = "completed" <=> status[u] = "completed"
      BY <3>2, <3>8
    <3>11. Ledger'
      BY <1>3, <1>4, <2>1, <3>4, <3>9, <3>10, LedgerMoves
    <3> QED
      BY <3>6, <3>7, <3>11
  <2> QED
    BY <2>4, <2>5 DEF Kinds
<1> QED
  BY <1>5, <1>6

(* The handler is over: all of its effects happened, or none but a trace.  *)
LEMMA LeaveStep ==
  ASSUME BoardTypes, RunnerInv, Complete \/ HandlerRaises
  PROVE  RunnerInv'
<1> USE DEF RunnerInv
<1> DEFINE w == Worker
           t == Handled
<1>1. /\ Running /\ (Board!CompleteTask(w) \/ Board!FailTask(w))
      /\ todo' = {} /\ turn' = turn + 1 /\ progressed' = TRUE
      /\ UNCHANGED <<phase, cycle, outputVars>>
  BY DEF Complete, Finish, HandlerRaises, Raise, NextWorker
<1>2. pc[w] = "working"
  BY <1>1 DEF Board!CompleteTask, Board!FailTask
<1>3. /\ turn \in 1 .. 4 /\ w \in Agents /\ HandedTo(w) /\ t \in Tasks /\ t.copy = 1
      /\ task[w] = t
  BY <1>1, <1>2, HandledIs DEF Handled
<1>4. /\ pc' = [pc EXCEPT ![w] = "idle"] /\ keys' = keys
      /\ \A u \in Tasks \ {t} : status'[u] = status[u]
      /\ Board!CompleteTask(w) => status'[t] = "completed"
      /\ Board!FailTask(w) => status'[t] \in {"posted", "dead"}
  BY <1>1, <1>3, LeaveIs
<1>5. /\ status'[t] \in {"completed", "posted", "dead"} /\ status[t] # "absent"
      /\ todo \subseteq Effects(t)
  BY <1>1, <1>2, <1>3, <1>4 DEF HandedTo
<1>6. \A a \in Agents : (a # w => pc[a] = "idle") /\ pc'[a] = "idle"
  BY <1>3, <1>4, OthersIdle DEF BoardTypes
<1>7. \A u \in Tasks : ~Working(u)' /\ (Working(u) <=> u = t)
  BY <1>2, <1>3, <1>6 DEF Working
<1>8. Complete => Board!CompleteTask(w) /\ todo = {}
  BY DEF Complete, Finish
<1>9. HandlerRaises =>
        Board!FailTask(w) /\ {e \in Effects(t) : e[2] # "trace"} \subseteq todo
  BY DEF HandlerRaises, Raise
<1> HIDE DEF w, t
<1>10. LoopTypes' /\ RulesPosted' /\ LeftNothing'
  <2>1. LoopTypes'
    BY <1>1, <1>3 DEF LoopTypes, HandedTo, outputVars
  <2>2. \A u \in Tasks : status[u] # "absent" => status'[u] # "absent"
    BY <1>4, <1>5
  <2>3. RulesPosted'
    BY <1>1, <2>2, FirstTask DEF RulesPosted, TaskOf
  <2>4. LeftNothing'
    BY <1>1 DEF LeftNothing
  <2> QED
    BY <2>1, <2>3, <2>4
<1>11. First'
  BY <1>4, <1>5 DEF First
<1>12. OneAtWork'
  <2>1. ASSUME NEW u \in Tasks, status'[u] \in {"claimed", "in_progress"} PROVE FALSE
    <3>1. u # t /\ status'[u] = status[u]
      BY <1>4, <1>5, <2>1
    <3>2. Held(u)
      BY <2>1, <3>1 DEF OneAtWork
    <3> QED
      BY <1>3, <1>6, <3>1, <3>2 DEF Held
  <2> QED
    BY <1>1, <1>6, <2>1 DEF OneAtWork
<1>13. Ledger'
  <2>1. ASSUME NEW u \in Tasks, NEW e \in Effects(u), e[2] # "trace"
        PROVE  Open(u, e)' <=> Open(u, e)
    <3>1. CASE u # t
      BY <1>4, <1>7, <3>1 DEF Open
    <3>2. CASE u = t /\ Complete
      BY <1>4, <1>7, <1>8, <3>2 DEF Open
    <3>3. CASE u = t /\ HandlerRaises
      BY <1>4, <1>7, <1>9, <2>1, <3>3 DEF Open
    <3> QED
      BY <3>1, <3>2, <3>3
  <2>2. \A u \in Tasks : status'[u] = "absent" <=> status[u] = "absent"
    BY <1>4, <1>5
  <2> QED
    BY <1>1, <2>1, <2>2, LedgerStays DEF outputVars
<1> QED
  BY <1>10, <1>11, <1>12, <1>13

LEMMA EndCycleStep ==
  ASSUME BoardTypes, RunnerInv, EndCycle
  PROVE  RunnerInv'
<1> USE DEF RunnerInv
<1>1. /\ UNCHANGED <<keys, status, pc, task, todo, outputVars>>
      /\ phase = "cycling" /\ turn = 5 /\ turn' = 1 /\ cycle' = cycle + 1
      /\ progressed' = FALSE /\ phase' \in {"cycling", "done"}
      /\ cycle + 1 = MaxCycles => phase' = "done"
  BY WorkersAre DEF EndCycle, CycleEnds, boardVars
<1>2. \A a \in Agents : pc[a] = "idle"
  BY <1>1 DEF OneAtWork, HandedTo
<1>3. LoopTypes'
  <2>1. phase' \in {"posting", "cycling", "done"} /\ turn' \in 1 .. 5 /\ phase' # "posting"
    BY <1>1
  <2>5. progressed' \in BOOLEAN
    <3>1. progressed' = FALSE
      BY <1>1
    <3> QED
      BY <3>1, Zenon
  <2>2. MaxCycles \in Nat /\ cycle \in Nat /\ cycle < MaxCycles
    BY <1>1, RunnerAssumption DEF LoopTypes
  <2>3. cycle' \in 0 .. MaxCycles /\ (phase' # "done" => cycle' < MaxCycles)
    BY <1>1, <2>2
  <2>4. traces' \in [Scenarios -> Nat] /\ results' \in [Scenarios -> Nat]
    BY <1>1 DEF LoopTypes, outputVars
  <2> QED
    BY <2>1, <2>3, <2>4, <2>5 DEF LoopTypes
<1>4. First' /\ RulesPosted' /\ LeftNothing'
  BY <1>1 DEF First, RulesPosted, LeftNothing
<1>5. OneAtWork'
  BY <1>1, <1>2 DEF OneAtWork, Held
<1>6. Ledger'
  BY <1>1 DEF Ledger, Happened, Open, Working, outputVars
<1> QED
  BY <1>3, <1>4, <1>5, <1>6

LEMMA BackgroundStep ==
  ASSUME BoardTypes, RunnerInv, Background
  PROVE  RunnerInv'
<1> USE DEF RunnerInv
<1>1. UNCHANGED <<keys, pc, task, loopVars, todo, outputVars>>
  BY BackgroundIs
<1>2. ASSUME NEW t \in Tasks
      PROVE  \/ status'[t] = status[t]
             \/ status[t] \in {"claimed", "in_progress"} /\ status'[t] \in {"posted", "dead"}
  BY BackgroundIs
<1>3. LoopTypes' /\ First'
  BY <1>1, <1>2 DEF LoopTypes, First, loopVars, outputVars
<1>4. RulesPosted'
  BY <1>1, <1>2, FirstTask DEF RulesPosted, loopVars, TaskOf
<1>5. ASSUME NEW t \in Tasks, status[t] \in {"claimed", "in_progress"}
      PROVE  turn \in 1 .. 4 /\ t.type = Workers[turn].serves
  BY <1>5 DEF OneAtWork, Held, HandedTo
<1>6. LeftNothing'
  <2> SUFFICES ASSUME phase = "cycling", ~progressed, NEW t \in Tasks, status'[t] = "posted",
                      NEW i \in 1 .. turn - 1
               PROVE  Workers[i].serves # t.type
    BY <1>1 DEF LeftNothing, loopVars
  <2>1. CASE status[t] = "posted"
    BY <2>1 DEF LeftNothing
  <2>2. CASE status[t] \in {"claimed", "in_progress"}
    <3>1. turn \in 1 .. 4 /\ t.type = Workers[turn].serves /\ i \in 1 .. 4 /\ i # turn
      BY <1>5, <2>2
    <3> QED
      BY <3>1, WorkersAre
  <2> QED
    BY <1>2, <2>1, <2>2
<1>7. OneAtWork'
  <2>1. ASSUME NEW a \in Agents, pc[a] # "idle" PROVE HandedTo(a)'
    <3>1. HandedTo(a)
      BY <2>1 DEF OneAtWork
    <3>2. task[a] \in Tasks /\ status[task[a]] # "absent"
      BY <3>1 DEF HandedTo
    <3>3. status'[task[a]] # "absent"
      BY <1>2, <3>2
    <3>4. status[task[a]] # "completed" => status'[task[a]] # "completed"
      BY <1>2, <3>2
    <3> QED
      BY <1>1, <3>1, <3>3, <3>4 DEF HandedTo, Worker, loopVars
  <2>2. ASSUME NEW t \in Tasks, status'[t] \in {"claimed", "in_progress"} PROVE Held(t)'
    BY <1>1, <1>2, <2>2 DEF OneAtWork, Held
  <2> QED
    BY <1>1, <2>1, <2>2 DEF OneAtWork
<1>8. Ledger'
  <2>1. \A t : Working(t)' <=> Working(t)
    BY <1>1 DEF Working
  <2>2. \A t \in Tasks : \A e : Open(t, e)' <=> Open(t, e)
    BY <1>1, <1>2, <2>1 DEF Open
  <2>3. \A t \in Tasks : status'[t] = "absent" <=> status[t] = "absent"
    BY <1>2
  <2> QED
    BY <1>1, <2>2, <2>3, LedgerStays DEF outputVars
<1> QED
  BY <1>3, <1>4, <1>6, <1>7, <1>8

LEMMA StutterStep ==
  ASSUME BoardTypes, RunnerInv, UNCHANGED vars
  PROVE  RunnerInv'
<1>1. UNCHANGED <<keys, status, pc, task, loopVars, todo, outputVars>>
  BY DEF vars, boardVars
<1> QED
  BY <1>1 DEF RunnerInv, LoopTypes, First, OneAtWork, HandedTo, Held, Worker, Ledger, Happened,
              Open, Working, RulesPosted, LeftNothing, loopVars, outputVars

LEMMA InitInv == Init => RunnerInv
<1> SUFFICES ASSUME Init PROVE RunnerInv
  OBVIOUS
<1>1. \A t \in Tasks : status[t] = "absent"
  BY DEF Init, Board!Init
<1>2. \A a \in Agents : pc[a] = "idle"
  BY DEF Init, Board!Init
<1>3. LoopTypes
  <2>1. /\ phase = "posting" /\ turn = 1 /\ cycle = 0
        /\ traces \in [Scenarios -> Nat] /\ results \in [Scenarios -> Nat]
    BY DEF Init
  <2>2. MaxCycles \in Nat \ {0}
    BY RunnerAssumption
  <2>3. cycle \in 0 .. MaxCycles /\ cycle < MaxCycles
    BY <2>1, <2>2
  <2>4. progressed \in BOOLEAN
    BY Zenon DEF Init
  <2> QED
    BY <2>1, <2>3, <2>4 DEF LoopTypes
<1>4. First /\ OneAtWork /\ RulesPosted /\ LeftNothing
  BY <1>1, <1>2 DEF Init, First, OneAtWork, RulesPosted, LeftNothing
<1>5. Ledger
  <2> SUFFICES ASSUME NEW k \in Kinds, NEW s \in Scenarios
               PROVE  Happened(k, s) = 0 /\ Open(Source(k, s), Effect(k, s))
    BY DEF Ledger
  <2>1. Open(Source(k, s), Effect(k, s))
    BY <1>1, <1>2, SourceIs DEF Open, Working
  <2>2. k \in {"generate_flow", "execute", "validate"} => TaskOf(k, s) \in Tasks
    BY FirstTask
  <2> QED
    BY <1>1, <2>1, <2>2 DEF Happened, Init, Kinds
<1> QED
  BY <1>3, <1>4, <1>5 DEF RunnerInv

LEMMA InvStep == BoardTypes /\ RunnerInv /\ [Next]_vars => RunnerInv'
BY PostRuleStep, StartCyclingStep, ClaimStep, NothingToClaimStep, StartStep, HandleStep,
   LeaveStep, EndCycleStep, BackgroundStep, StutterStep DEF Next, RunnerStep

LEMMA InvHolds == Spec => [](Proved!BudgetInv /\ RunnerInv)
<1>1. Init => Proved!BudgetInv /\ RunnerInv
  BY InitInv, BoardKeeps
<1>2. Proved!BudgetInv /\ RunnerInv /\ [Next]_vars => (Proved!BudgetInv /\ RunnerInv)'
  BY InvStep, BoardKeeps, BoardTypesHold
<1> QED
  BY <1>1, <1>2, PTL DEF Spec

-----------------------------------------------------------------------------
(* TypeOK: types are kept, those of the board by the board's own theorem,  *)
(* those of the runner because only a handler has work ahead.              *)
THEOREM TypeCorrect == Spec => []TypeOK
<1>1. Proved!BudgetInv /\ RunnerInv => TypeOK
  <2> SUFFICES ASSUME Proved!BudgetInv, RunnerInv PROVE TypeOK
    OBVIOUS
  <2>1. BoardTypes /\ Board!TypeOK
    BY BoardTypesHold
  <2>2. todo \subseteq UNION {Effects(t) : t \in Tasks}
    <3>1. CASE todo = {}
      BY <3>1
    <3>2. CASE todo # {}
      <4>1. PICK a \in Agents : pc[a] = "working"
        BY <3>2 DEF RunnerInv, OneAtWork
      <4>2. task[a] \in Tasks /\ todo \subseteq Effects(task[a])
        BY <4>1 DEF RunnerInv, OneAtWork, HandedTo
      <4> QED
        BY <4>2
    <3> QED
      BY <3>1, <3>2
  <2> QED
    BY <2>1, <2>2, WorkersAre DEF RunnerInv, LoopTypes, TypeOK
<1> QED
  BY <1>1, InvHolds, PTL

-----------------------------------------------------------------------------
(* The account of the executions.                                          *)

(* It stays balanced when no execution task changes hands and no trace is  *)
(* logged.                                                                 *)
LEMMA LoggedStays ==
  ASSUME Logged, UNCHANGED <<pc, task, claims, traces>>,
         \A s \in Scenarios : (<<1, "trace", s>> \in todo' <=> <<1, "trace", s>> \in todo),
         \A t \in Tasks : t.type = "validate" /\ status'[t] # "absent" => status[t] # "absent"
  PROVE  Logged'
<1> SUFFICES ASSUME NEW s \in Scenarios
             PROVE  /\ traces'[s] + (IF Unlogged(s)' THEN 1 ELSE 0) <= claims'[TaskOf("execute", s)]
                    /\ Working(TaskOf("execute", s))' /\ <<1, "trace", s>> \notin todo'
                         => traces'[s] # 0
                    /\ status'[TaskOf("validate", s)] # "absent" => traces'[s] # 0
  BY DEF Logged, TaskOf
<1>1. Unlogged(s)' <=> Unlogged(s)
  BY DEF Unlogged, TaskOf
<1>2. Working(TaskOf("execute", s))' <=> Working(TaskOf("execute", s))
  BY DEF Working, TaskOf
<1>3. TaskOf("validate", s) \in Tasks /\ TaskOf("validate", s).type = "validate"
  BY FirstTask DEF TaskOf
<1> QED
  BY <1>1, <1>2, <1>3 DEF Logged

LEMMA LoggedCount ==
  ASSUME BoardTypes, RunnerInv, Logged, NEW s \in Scenarios
  PROVE  /\ traces[s] \in Nat /\ claims[TaskOf("execute", s)] \in Nat
         /\ traces[s] <= claims[TaskOf("execute", s)]
<1> DEFINE n == claims[TaskOf("execute", s)]
<1>1. traces[s] \in Nat /\ n \in Nat
  BY FirstTask DEF RunnerInv, LoopTypes, BoardTypes
<1>2. traces[s] + (IF Unlogged(s) THEN 1 ELSE 0) <= n
  BY DEF Logged
<1> HIDE DEF n
<1>3. traces[s] <= n
  BY <1>1, <1>2
<1> QED
  BY <1>1, <1>3 DEF n

LEMMA LoggedClaim ==
  ASSUME BoardTypes, RunnerInv, Logged, Claim
  PROVE  Logged'
<1> SUFFICES ASSUME NEW s \in Scenarios
             PROVE  /\ traces'[s] + (IF Unlogged(s)' THEN 1 ELSE 0) <= claims'[TaskOf("execute", s)]
                    /\ Working(TaskOf("execute", s))' /\ <<1, "trace", s>> \notin todo'
                         => traces'[s] # 0
                    /\ status'[TaskOf("validate", s)] # "absent" => traces'[s] # 0
  BY DEF Logged, TaskOf
<1> DEFINE x == TaskOf("execute", s)
           v == TaskOf("validate", s)
<1>1. /\ Worker \in Agents /\ pc[Worker] = "idle" /\ pc' = [pc EXCEPT ![Worker] = "claimed"]
      /\ traces' = traces
  BY ClaimIs DEF outputVars
<1>2. PICK t \in Tasks : /\ status[t] = "posted" /\ status' = [status EXCEPT ![t] = "claimed"]
                         /\ task' = [task EXCEPT ![Worker] = t]
                         /\ claims' = [claims EXCEPT ![t] = @ + 1]
  BY ClaimIs
<1>3. x \in Tasks /\ v \in Tasks /\ x' = x /\ v' = v
  BY FirstTask DEF TaskOf
<1> HIDE DEF x, v
<1>4. \A a \in Agents : pc[a] = "idle" /\ pc'[a] = IF a = Worker THEN "claimed" ELSE "idle"
  BY <1>1, OthersIdle DEF BoardTypes, RunnerInv
<1>5. task'[Worker] = t
  BY <1>1, <1>2 DEF BoardTypes
<1>6. Unlogged(s)' => t = x
  BY <1>3, <1>4, <1>5 DEF Unlogged, x
<1>7. /\ traces[s] \in Nat /\ claims[x] \in Nat
      /\ claims'[x] = IF t = x THEN claims[x] + 1 ELSE claims[x]
  BY <1>2, <1>3 DEF BoardTypes, RunnerInv, LoopTypes
<1>8. traces[s] <= claims[x]
  BY LoggedCount DEF x
<1>9. ~Working(x)'
  BY <1>3, <1>4 DEF Working
<1>10. status'[v] # "absent" => status[v] # "absent"
  BY <1>2, <1>3 DEF BoardTypes
<1>11. traces'[s] + (IF Unlogged(s)' THEN 1 ELSE 0) <= claims'[x]
  BY <1>1, <1>6, <1>7, <1>8
<1>12. status[v] # "absent" => traces[s] # 0
  BY DEF Logged, v
<1> QED
  BY <1>1, <1>3, <1>9, <1>10, <1>11, <1>12 DEF x, v

LEMMA LoggedStart ==
  ASSUME BoardTypes, RunnerInv, Logged, Start
  PROVE  Logged'
<1> SUFFICES ASSUME NEW s \in Scenarios
             PROVE  /\ traces'[s] + (IF Unlogged(s)' THEN 1 ELSE 0) <= claims'[TaskOf("execute", s)]
                    /\ Working(TaskOf("execute", s))' /\ <<1, "trace", s>> \notin todo'
                         => traces'[s] # 0
                    /\ status'[TaskOf("validate", s)] # "absent" => traces'[s] # 0
  BY DEF Logged, TaskOf
<1> DEFINE x == TaskOf("execute", s)
           v == TaskOf("validate", s)
<1>1. /\ Running /\ pc[Worker] = "claimed" /\ status' = [status EXCEPT ![Handled] = "in_progress"]
      /\ pc' = [pc EXCEPT ![Worker] = "working"] /\ todo' = Effects(Handled)
      /\ UNCHANGED <<task, claims, traces>>
  BY DEF Start, Board!StartTask, Handled, outputVars
<1>2. Worker \in Agents /\ HandedTo(Worker) /\ Handled \in Tasks
  BY <1>1, HandledIs DEF RunnerInv
<1>3. \A a \in Agents : /\ a # Worker => pc[a] = "idle"
                        /\ pc'[a] = IF a = Worker THEN "working" ELSE "idle"
  BY <1>1, <1>2, OthersIdle DEF BoardTypes, RunnerInv
<1>4. x \in Tasks /\ v \in Tasks /\ x' = x /\ v' = v
      /\ Effects(x) = {<<1, "trace", s>>, <<2, "validate", s>>}
  BY FirstTask DEF TaskOf, Effects
<1> HIDE DEF x, v
<1>5. Unlogged(s)' => Unlogged(s)
  <2> SUFFICES ASSUME NEW a \in Agents, task'[a] = x, pc'[a] \in {"claimed", "working"}
               PROVE  Unlogged(s)
    BY <1>4 DEF Unlogged, x
  <2>1. a = Worker
    BY <1>3
  <2> QED
    BY <1>1, <1>2, <2>1 DEF Unlogged, x
<1>6. Working(x)' => <<1, "trace", s>> \in todo'
  <2> SUFFICES ASSUME NEW a \in Agents, task'[a] = x, pc'[a] = "working"
               PROVE  <<1, "trace", s>> \in todo'
    BY <1>4 DEF Working
  <2>1. a = Worker
    BY <1>3
  <2>2. Handled = x
    BY <1>1, <2>1 DEF Handled
  <2> QED
    BY <1>1, <1>4, <2>2
<1>7. status'[v] # "absent" => status[v] # "absent"
  BY <1>1, <1>2, <1>4 DEF BoardTypes, HandedTo, Handled
<1>8. /\ traces[s] + (IF Unlogged(s) THEN 1 ELSE 0) <= claims[x]
      /\ status[v] # "absent" => traces[s] # 0
  BY DEF Logged, x, v
<1>9. traces[s] \in Nat /\ claims[x] \in Nat
  BY <1>4 DEF BoardTypes, RunnerInv, LoopTypes
<1>10. traces'[s] + (IF Unlogged(s)' THEN 1 ELSE 0) <= claims'[x]
  BY <1>1, <1>5, <1>8, <1>9
<1> QED
  BY <1>1, <1>4, <1>6, <1>7, <1>8, <1>10 DEF x, v

(* The trace comes before the validate task.                               *)
LEMMA LoggedHandle ==
  ASSUME BoardTypes, RunnerInv, Logged, Handle
  PROVE  Logged'
<1>1. Running /\ pc[Worker] = "working"
  BY DEF Handle
<1>2. /\ Worker \in Agents /\ HandedTo(Worker) /\ Handled \in Tasks /\ Handled.copy = 1
      /\ task[Worker] = Handled /\ todo \subseteq Effects(Handled)
  BY <1>1, HandledIs DEF Handled, HandedTo, RunnerInv
<1>3. PICK e \in todo :
        /\ \A f \in todo : e[1] <= f[1]
        /\ todo' = todo \ {e}
        /\ CASE e[2] = "trace"  -> /\ traces' = [traces EXCEPT ![e[3]] = @ + 1]
                                   /\ UNCHANGED <<results, boardVars>>
             [] e[2] = "result" -> /\ results' = [results EXCEPT ![e[3]] = @ + 1]
                                   /\ UNCHANGED <<traces, boardVars>>
             [] OTHER           -> Post(e[2], e[3]) /\ UNCHANGED outputVars
  BY DEF Handle
<1>4. UNCHANGED <<pc, task, claims>>
  BY <1>3 DEF boardVars, Post, Board!PostTask, Board!agentVars
<1>5. \A a \in Agents : pc[a] # "idle" => a = Worker
  BY OthersIdle DEF RunnerInv
<1>6. CASE e[2] = "trace"
  <2>1. e \in Effects(Handled)
    BY <1>2, <1>3
  <2>2. e = <<1, "trace", Handled.of>> /\ Handled.type = "execute" /\ Handled.of \in Scenarios
    BY <1>2, <1>6, <2>1, TaskIs DEF Effects
  <2>3. Handled = TaskOf("execute", Handled.of)
    BY <1>2, <2>2, TaskIs
  <2>4. status' = status /\ traces' = [traces EXCEPT ![Handled.of] = @ + 1]
    BY <1>3, <1>6, <2>2 DEF boardVars
  <2> SUFFICES ASSUME NEW s \in Scenarios
               PROVE  /\ traces'[s] + (IF Unlogged(s)' THEN 1 ELSE 0)
                            <= claims'[TaskOf("execute", s)]
                      /\ Working(TaskOf("execute", s))' /\ <<1, "trace", s>> \notin todo'
                           => traces'[s] # 0
                      /\ status'[TaskOf("validate", s)] # "absent" => traces'[s] # 0
    BY DEF Logged, TaskOf
  <2>5. /\ traces[s] \in Nat /\ traces[s] + (IF Unlogged(s) THEN 1 ELSE 0)
                                  <= claims[TaskOf("execute", s)]
        /\ Working(TaskOf("execute", s)) /\ <<1, "trace", s>> \notin todo => traces[s] # 0
        /\ status[TaskOf("validate", s)] # "absent" => traces[s] # 0
    BY DEF Logged, RunnerInv, LoopTypes
  <2>6. claims[TaskOf("execute", s)] \in Nat
    BY FirstTask DEF BoardTypes
  <2>7. traces'[s] = IF s = Handled.of THEN traces[s] + 1 ELSE traces[s]
    BY <2>2, <2>4 DEF RunnerInv, LoopTypes
  <2>8. CASE s = Handled.of
    <3>1. Unlogged(s)
      BY <1>1, <1>2, <1>3, <2>2, <2>3, <2>8 DEF Unlogged
    <3>2. ~Unlogged(s)'
      BY <1>1, <1>3, <1>4, <1>5, <2>2, <2>8 DEF Unlogged, TaskOf
    <3> QED
      BY <1>4, <2>5, <2>6, <2>7, <2>8, <3>1, <3>2
  <2>9. CASE s # Handled.of
    <3>1. <<1, "trace", s>> \in todo' <=> <<1, "trace", s>> \in todo
      BY <1>3, <2>2, <2>9
    <3>2. Unlogged(s)' <=> Unlogged(s)
      BY <1>4, <3>1 DEF Unlogged, TaskOf
    <3>3. Working(TaskOf("execute", s))' <=> Working(TaskOf("execute", s))
      BY <1>4 DEF Working, TaskOf
    <3> QED
      BY <1>4, <2>4, <2>5, <2>7, <2>9, <3>1, <3>2, <3>3
  <2> QED
    BY <2>8, <2>9
<1>7. CASE e[2] # "trace"
  <2>1. PICK k \in Kinds, s \in Scenarios : e = Effect(k, s) /\ Source(k, s) = Handled
    BY <1>2, <1>3, <1>7, EffectIs
  <2>2. e[2] = k /\ e[3] = s
    BY <2>1 DEF Effect
  <2>3. traces' = traces
    BY <1>3, <1>7 DEF outputVars
  <2>4. \A u \in Scenarios : <<1, "trace", u>> \in todo' <=> <<1, "trace", u>> \in todo
    BY <1>3, <1>7
  <2>5. CASE k # "validate"
    <3>1. ASSUME NEW t \in Tasks, t.type = "validate", status'[t] # "absent"
          PROVE  status[t] # "absent"
      <4>1. CASE k = "result"
        BY <1>3, <2>2, <3>1, <4>1 DEF boardVars
      <4>2. CASE k \in {"generate_flow", "execute"}
        <5>1. Post(k, s)
          BY <1>3, <2>2, <4>2
        <5>2. PICK u \in Tasks : u.type = k /\ status' = [status EXCEPT ![u] = "posted"]
          BY <5>1 DEF Post, Board!PostTask
        <5> QED
          BY <2>5, <3>1, <5>2 DEF BoardTypes
      <4> QED
        BY <2>5, <4>1, <4>2 DEF Kinds
    <3> QED
      BY <1>4, <2>3, <2>4, <3>1, LoggedStays
  <2>6. CASE k = "validate"
    <3>1. e = <<2, "validate", s>> /\ Handled = TaskOf("execute", s)
      BY <2>1, <2>6 DEF Effect, Source
    <3>2. <<1, "trace", s>> \notin todo
      BY <1>3, <3>1
    <3>3. Working(TaskOf("execute", s))
      BY <1>1, <1>2, <3>1 DEF Working
    <3>4. traces[s] # 0
      BY <3>2, <3>3 DEF Logged
    <3>5. PICK t \in Tasks : t.of = s /\ status' = [status EXCEPT ![t] = "posted"]
      BY <1>3, <2>2, <2>6 DEF Post, Board!PostTask
    <3> SUFFICES ASSUME NEW u \in Scenarios
                 PROVE  /\ traces'[u] + (IF Unlogged(u)' THEN 1 ELSE 0)
                              <= claims'[TaskOf("execute", u)]
                        /\ Working(TaskOf("execute", u))' /\ <<1, "trace", u>> \notin todo'
                             => traces'[u] # 0
                        /\ status'[TaskOf("validate", u)] # "absent" => traces'[u] # 0
      BY DEF Logged, TaskOf
    <3>6. Unlogged(u)' <=> Unlogged(u)
      BY <1>4, <2>4 DEF Unlogged, TaskOf
    <3>7. Working(TaskOf("execute", u))' <=> Working(TaskOf("execute", u))
      BY <1>4 DEF Working, TaskOf
    <3>8. TaskOf("validate", u) \in Tasks /\ TaskOf("validate", u).of = u
      BY FirstTask DEF TaskOf
    <3>9. status'[TaskOf("validate", u)] # "absent" => traces[u] # 0
      BY <3>4, <3>5, <3>8 DEF Logged, BoardTypes
    <3> QED
      BY <1>4, <2>3, <2>4, <3>6, <3>7, <3>9 DEF Logged
  <2> QED
    BY <2>5, <2>6
<1> QED
  BY <1>6, <1>7

LEMMA LoggedLeave ==
  ASSUME BoardTypes, RunnerInv, Logged, Complete \/ HandlerRaises
  PROVE  Logged'
<1>1. /\ Running /\ (Board!CompleteTask(Worker) \/ Board!FailTask(Worker))
      /\ traces' = traces
  BY DEF Complete, Finish, HandlerRaises, Raise, outputVars
<1>2. pc[Worker] = "working"
  BY <1>1 DEF Board!CompleteTask, Board!FailTask
<1>3. /\ Worker \in Agents /\ HandedTo(Worker) /\ Handled \in Tasks
      /\ task[Worker] = Handled
  BY <1>1, <1>2, HandledIs DEF Handled, RunnerInv
<1>4. /\ pc' = [pc EXCEPT ![Worker] = "idle"] /\ claims' = claims
      /\ \A u \in Tasks \ {Handled} : status'[u] = status[u]
  BY <1>1, <1>3, LeaveIs
<1>5. \A a \in Agents : pc'[a] = "idle"
  BY <1>3, <1>4, OthersIdle DEF BoardTypes, RunnerInv
<1>6. status[Handled] # "absent"
  BY <1>3 DEF HandedTo
<1> SUFFICES ASSUME NEW s \in Scenarios
             PROVE  /\ traces'[s] + (IF Unlogged(s)' THEN 1 ELSE 0) <= claims'[TaskOf("execute", s)]
                    /\ Working(TaskOf("execute", s))' /\ <<1, "trace", s>> \notin todo'
                         => traces'[s] # 0
                    /\ status'[TaskOf("validate", s)] # "absent" => traces'[s] # 0
  BY DEF Logged, TaskOf
<1>7. ~Unlogged(s)' /\ ~Working(TaskOf("execute", s))'
  BY <1>5 DEF Unlogged, Working
<1>8. traces[s] \in Nat /\ traces[s] <= claims[TaskOf("execute", s)]
  BY LoggedCount
<1>9. traces[s] + 0 <= claims[TaskOf("execute", s)]
  BY <1>8
<1>10. status'[TaskOf("validate", s)] # "absent" => status[TaskOf("validate", s)] # "absent"
  BY <1>4, <1>6, FirstTask
<1> QED
  BY <1>1, <1>4, <1>7, <1>9, <1>10 DEF Logged

LEMMA LoggedStep ==
  ASSUME BoardTypes, RunnerInv, Logged, [Next]_vars
  PROVE  Logged'
<1>1. ASSUME NEW r \in Rules, PostRule(r) PROVE Logged'
  <2>1. PICK t \in Tasks : t.type = "test_rule" /\ status' = [status EXCEPT ![t] = "posted"]
    BY <1>1 DEF PostRule, Post, Board!PostTask
  <2>2. UNCHANGED <<pc, task, claims, traces, todo>>
    BY <1>1 DEF PostRule, Post, Board!PostTask, Board!agentVars, outputVars
  <2>3. \A u \in Tasks : u.type = "validate" /\ status'[u] # "absent" => status[u] # "absent"
    BY <2>1 DEF BoardTypes
  <2> QED
    BY <2>2, <2>3, LoggedStays
<1>2. CASE StartCycling \/ NothingToClaim \/ EndCycle \/ UNCHANGED vars
  <2>1. UNCHANGED <<status, pc, task, claims, traces, todo>>
    BY <1>2 DEF StartCycling, NothingToClaim, EndCycle, CycleEnds, vars, boardVars, outputVars
  <2> QED
    BY <2>1, LoggedStays
<1>3. CASE Background
  <2>1. UNCHANGED <<pc, task, claims, traces, todo>>
    BY <1>3, BackgroundIs DEF outputVars
  <2>2. \A u \in Tasks : status'[u] # "absent" => status[u] # "absent"
    BY <1>3, BackgroundIs
  <2> QED
    BY <2>1, <2>2, LoggedStays
<1> QED
  BY <1>1, <1>2, <1>3, LoggedClaim, LoggedStart, LoggedHandle, LoggedLeave
     DEF Next, RunnerStep

LEMMA LoggedInit == Init => Logged
<1> SUFFICES ASSUME Init, NEW s \in Scenarios
             PROVE  /\ traces[s] + (IF Unlogged(s) THEN 1 ELSE 0) <= claims[TaskOf("execute", s)]
                    /\ Working(TaskOf("execute", s)) /\ <<1, "trace", s>> \notin todo
                         => traces[s] # 0
                    /\ status[TaskOf("validate", s)] # "absent" => traces[s] # 0
  BY DEF Logged
<1>1. /\ \A a \in Agents : pc[a] = "idle"
      /\ \A t \in Tasks : status[t] = "absent" /\ claims[t] = 0
  BY DEF Init, Board!Init
<1>2. ~Unlogged(s) /\ ~Working(TaskOf("execute", s))
  BY <1>1 DEF Unlogged, Working
<1>3. traces[s] = 0
  BY DEF Init
<1> QED
  BY <1>1, <1>2, <1>3, FirstTask

(* OnlyExecutionsRepeat: no retry, after a handler that raised or one that *)
(* the watcher overtook, posts a second task of a type about a subject or  *)
(* keeps a second result.  A trace is logged again only by a claim of its  *)
(* own, and the board hands a task out max_retries times at most; a result *)
(* comes from a validate task, which follows a trace.                      *)
THEOREM RetriesRepeatOnlyExecutions == Spec => []OnlyExecutionsRepeat
<1> DEFINE Inv == Proved!BudgetInv /\ RunnerInv /\ Logged
<1>1. Init => Inv
  BY InitInv, BoardKeeps, LoggedInit
<1>2. Inv /\ [Next]_vars => Inv'
  BY BoardKeeps, BoardTypesHold, InvStep, LoggedStep
<1>3. Inv => OnlyExecutionsRepeat
  <2> SUFFICES ASSUME Inv PROVE OnlyExecutionsRepeat
    OBVIOUS
  <2>1. ASSUME NEW t \in Tasks, NEW u \in Tasks, status[t] # "absent", status[u] # "absent",
               t.type = u.type, t.of = u.of
        PROVE  t = u
    BY <2>1, TaskIs DEF RunnerInv, First
  <2>2. ASSUME NEW s \in Scenarios
        PROVE  results[s] <= 1 /\ results[s] <= traces[s] /\ traces[s] <= MaxRetries
    <3> DEFINE x == TaskOf("execute", s)
               v == TaskOf("validate", s)
    <3>1. x \in Tasks /\ v \in Tasks
      BY FirstTask
    <3>2. results[s] = IF Open(v, <<1, "result", s>>) THEN 0 ELSE 1
      BY DEF RunnerInv, Ledger, Kinds, Happened, Source, Effect
    <3>3. /\ traces[s] \in Nat /\ claims[x] \in Nat
          /\ traces[s] <= claims[x]
          /\ status[v] # "absent" => traces[s] # 0
      BY BoardTypesHold, LoggedCount DEF Logged
    <3>4. claims[x] <= MaxRetries
      BY <3>1 DEF Proved!BudgetInv, Proved!Budgeted
    <3> HIDE DEF x
    <3>5. status[v] = "absent" => results[s] = 0
      <4> SUFFICES ASSUME status[v] = "absent" PROVE Open(v, <<1, "result", s>>)
        BY <3>2
      <4>1. ~Working(v)
        BY DEF RunnerInv, OneAtWork, HandedTo, Working
      <4> QED
        BY <4>1 DEF Open
    <3> HIDE DEF v
    <3> QED
      BY <3>2, <3>3, <3>4, <3>5, BoardAssumption
  <2> QED
    BY <2>1, <2>2 DEF OnlyExecutionsRepeat
<1> QED
  BY <1>1, <1>2, <1>3, PTL DEF Spec

-----------------------------------------------------------------------------
(* The end of a run.                                                       *)

LEMMA SubjectsCount ==
  ASSUME EnoughCycles
  PROVE  IsFiniteSet(Slots) /\ Cardinality(Slots) \in Nat /\ Cardinality(Slots) < MaxCycles
<1> DEFINE three == {"generate_flow", "execute", "validate"}
<1>1. IsFiniteSet({"test_rule"} \X Rules)
      /\ Cardinality({"test_rule"} \X Rules) = Cardinality(Rules)
  <2>1. IsFiniteSet({"test_rule"}) /\ Cardinality({"test_rule"}) = 1
    BY FS_Singleton
  <2>2. IsFiniteSet(Rules) /\ Cardinality(Rules) \in Nat
    BY FS_CardinalityType DEF EnoughCycles
  <2>3. /\ IsFiniteSet({"test_rule"} \X Rules)
        /\ Cardinality({"test_rule"} \X Rules) = Cardinality({"test_rule"}) * Cardinality(Rules)
    BY <2>1, <2>2, FS_Product
  <2> QED
    BY <2>1, <2>2, <2>3
<1>2. IsFiniteSet(three) /\ Cardinality(three) = 3
  <2>1. IsFiniteSet({"generate_flow"}) /\ Cardinality({"generate_flow"}) = 1
    BY FS_Singleton
  <2>2. /\ IsFiniteSet({"generate_flow"} \cup {"execute"})
        /\ Cardinality({"generate_flow"} \cup {"execute"}) = 2
    BY <2>1, FS_AddElement
  <2>3. /\ IsFiniteSet(({"generate_flow"} \cup {"execute"}) \cup {"validate"})
        /\ Cardinality(({"generate_flow"} \cup {"execute"}) \cup {"validate"}) = 3
    BY <2>2, FS_AddElement
  <2>4. ({"generate_flow"} \cup {"execute"}) \cup {"validate"} = three
    OBVIOUS
  <2> QED
    BY <2>3, <2>4
<1>3. IsFiniteSet(three \X Scenarios)
      /\ Cardinality(three \X Scenarios) = 3 * Cardinality(Scenarios)
  BY <1>2, FS_Product DEF EnoughCycles
<1>4. Subjects = ({"test_rule"} \X Rules) \cup (three \X Scenarios)
  BY DEF Subjects
<1>5. ({"test_rule"} \X Rules) \cap (three \X Scenarios) = {}
  OBVIOUS
<1> HIDE DEF three
<1>6. Cardinality(Rules) \in Nat /\ Cardinality(Scenarios) \in Nat /\ MaxRetries \in Nat
  BY FS_CardinalityType, BoardAssumption DEF EnoughCycles
<1>7. /\ IsFiniteSet(Subjects)
      /\ Cardinality(Subjects) = Cardinality(Rules) + 3 * Cardinality(Scenarios)
  <2>1. Cardinality(({"test_rule"} \X Rules) \cap (three \X Scenarios)) = 0
    BY <1>5, FS_EmptySet
  <2>2. /\ IsFiniteSet(Subjects)
        /\ Cardinality(Subjects) =
             Cardinality({"test_rule"} \X Rules) + Cardinality(three \X Scenarios)
               - Cardinality(({"test_rule"} \X Rules) \cap (three \X Scenarios))
    BY <1>1, <1>3, <1>4, FS_Union
  <2> QED
    BY <1>1, <1>3, <1>6, <2>1, <2>2
<1>8. IsFiniteSet(1 .. MaxRetries) /\ Cardinality(1 .. MaxRetries) = MaxRetries
  <2>1. MaxRetries \in Int /\ 1 \in Int /\ ~(1 > MaxRetries) /\ MaxRetries - 1 + 1 = MaxRetries
    BY BoardAssumption
  <2>2. /\ IsFiniteSet(1 .. MaxRetries)
        /\ Cardinality(1 .. MaxRetries) = IF 1 > MaxRetries THEN 0 ELSE MaxRetries - 1 + 1
    BY <2>1, FS_Interval
  <2> QED
    BY <2>1, <2>2
<1>9. /\ IsFiniteSet(Slots)
      /\ Cardinality(Slots) =
           (Cardinality(Rules) + 3 * Cardinality(Scenarios)) * MaxRetries
  BY <1>7, <1>8, FS_Product DEF Slots
<1>10. Cardinality(Slots) \in Nat
  BY <1>9, FS_CardinalityType
<1>11. Cardinality(Slots) < MaxCycles
  <2>1. MaxCycles \in Nat
    BY RunnerAssumption
  <2> QED
    BY <1>9, <1>10, <2>1 DEF EnoughCycles
<1> QED
  BY <1>9, <1>10, <1>11

LEMMA SpentCount ==
  ASSUME EnoughCycles
  PROVE  /\ IsFiniteSet(Spent) /\ Cardinality(Spent) \in Nat /\ Cardinality(Spent) < MaxCycles
<1>1. Spent \in SUBSET Slots
  BY DEF Spent
<1>2. IsFiniteSet(Spent) /\ Cardinality(Spent) <= Cardinality(Slots)
  BY <1>1, SubjectsCount, FS_Subset
<1>3. Cardinality(Spent) \in Nat
  BY <1>2, FS_CardinalityType
<1>4. MaxCycles \in Nat
  BY RunnerAssumption
<1> QED
  BY <1>2, <1>3, <1>4, SubjectsCount

(* A claim is one more claim.                                              *)
LEMMA ClaimSpends ==
  ASSUME Proved!BudgetInv, RunnerInv, EnoughCycles, Claim
  PROVE  Cardinality(Spent') = Cardinality(Spent) + 1
<1>1. BoardTypes
  BY BoardTypesHold
<1>2. PICK t \in Tasks : status[t] = "posted" /\ claims' = [claims EXCEPT ![t] = @ + 1]
  BY <1>1, ClaimIs
<1>3. t.copy = 1
  BY <1>2 DEF RunnerInv, First
<1> DEFINE p == <<<<t.type, t.of>>, claims[t] + 1>>
<1>4. /\ claims[t] \in Nat /\ claims[t] + 1 \in 1 .. MaxRetries
      /\ claims'[t] = claims[t] + 1 /\ \A u \in Tasks \ {t} : claims'[u] = claims[u]
  <2>1. claims[t] <= retry_count[t] /\ retry_count[t] < MaxRetries
    BY <1>2 DEF Proved!BudgetInv, Proved!Budgeted
  <2>2. claims[t] \in Nat /\ retry_count[t] \in Nat /\ MaxRetries \in Nat
    BY BoardAssumption DEF Proved!BudgetInv, Proved!TypeOK
  <2> QED
    BY <1>1, <1>2, <2>1, <2>2 DEF BoardTypes
<1>5. TaskOf(t.type, t.of) = t /\ <<t.type, t.of>> \in Subjects
  BY <1>3, TaskIs DEF Subjects
<1>6. p \in Slots /\ p \notin Spent
  BY <1>4, <1>5 DEF Slots, Spent
<1>7. Spent' = Spent \cup {p}
  <2> SUFFICES ASSUME NEW q \in Slots
               PROVE  q[2] <= claims'[TaskOf(q[1][1], q[1][2])] <=>
                        q[2] <= claims[TaskOf(q[1][1], q[1][2])] \/ q = p
    BY <1>6 DEF Spent, TaskOf
  <2> DEFINE u == TaskOf(q[1][1], q[1][2])
  <2>1. PICK x \in Subjects, n \in 1 .. MaxRetries : q = <<x, n>>
    BY DEF Slots
  <2>2. x = <<x[1], x[2]>> /\ u = TaskOf(x[1], x[2]) /\ u \in Tasks
    BY <2>1, FirstTask DEF Subjects
  <2>3. u.type = x[1] /\ u.of = x[2]
    BY <2>2 DEF TaskOf
  <2>4. n \in Nat
    BY BoardAssumption
  <2> HIDE DEF u
  <2>5. CASE u = t
    <3>1. n <= claims[t] + 1 <=> n <= claims[t] \/ n = claims[t] + 1
      BY <1>4, <2>4
    <3>2. q = p <=> n = claims[t] + 1
      BY <2>1, <2>2, <2>3, <2>5
    <3> QED
      BY <1>4, <2>1, <2>5, <3>1, <3>2 DEF u
  <2>6. CASE u # t
    <3>1. q # p
      BY <1>5, <2>1, <2>2, <2>3, <2>6
    <3> QED
      BY <1>4, <2>2, <2>6, <3>1 DEF u
  <2> QED
    BY <2>5, <2>6
<1> HIDE DEF p
<1> QED
  BY <1>6, <1>7, SpentCount, FS_AddElement

(* At the end of a cycle without progress no task is left, and no worker   *)
(* has one.                                                                *)
LEMMA IdleCycle ==
  ASSUME BoardTypes, RunnerInv, EndCycle
  PROVE  /\ phase = "cycling" /\ cycle' = cycle + 1 /\ progressed' = FALSE
         /\ UNCHANGED <<status, pc, claims>> /\ \A a \in Agents : pc[a] = "idle"
         /\ ~progressed =>
              /\ phase' = "done"
              /\ \A t \in Tasks : status[t] \in {"absent", "completed", "dead"}
         /\ progressed => phase' = IF cycle + 1 = MaxCycles THEN "done" ELSE "cycling"
<1>1. /\ phase = "cycling" /\ turn = 5 /\ UNCHANGED <<status, pc, claims>>
      /\ cycle' = cycle + 1 /\ progressed' = FALSE
      /\ phase' = IF (~progressed /\ \A t \in Tasks : status[t] # "posted")
                     \/ cycle + 1 = MaxCycles THEN "done" ELSE "cycling"
  BY WorkersAre DEF EndCycle, CycleEnds, boardVars
<1>2. \A a \in Agents : pc[a] = "idle"
  BY <1>1 DEF RunnerInv, OneAtWork, HandedTo
<1>3. ASSUME ~progressed, NEW t \in Tasks PROVE status[t] \in {"absent", "completed", "dead"}
  <2>1. t.type \in {"test_rule", "generate_flow", "execute", "validate"}
    BY TaskIs
  <2>2. \E i \in 1 .. 4 : Workers[i].serves = t.type
    BY <2>1, WorkersAre
  <2>3. status[t] # "posted"
    BY <1>1, <1>3, <2>2 DEF RunnerInv, LeftNothing
  <2>4. status[t] \notin {"claimed", "in_progress"}
    BY <1>2 DEF RunnerInv, OneAtWork, Held
  <2> QED
    BY <2>3, <2>4 DEF BoardTypes
<1>4. ~progressed => \A t \in Tasks : status[t] # "posted"
  BY <1>3
<1> QED
  BY <1>1, <1>2, <1>3, <1>4

LEMMA PacedStays ==
  ASSUME Paced, RunnerInv, EnoughCycles, claims' = claims, cycle' = cycle, phase # "done",
         progressed' \/ (\E a \in Agents : pc'[a] # "idle")
           => progressed \/ (\E a \in Agents : pc[a] # "idle")
  PROVE  Paced'
<1>1. Spent' = Spent
  BY DEF Spent
<1>2. cycle \in Nat /\ Cardinality(Spent) \in Nat
  BY SpentCount, RunnerAssumption DEF RunnerInv, LoopTypes
<1>3. CASE progressed \/ (\E a \in Agents : pc[a] # "idle")
  <2>1. cycle + 1 <= Cardinality(Spent)
    BY <1>3 DEF Paced
  <2>2. cycle + 0 <= Cardinality(Spent)
    BY <1>2, <2>1
  <2> QED
    BY <1>1, <2>1, <2>2 DEF Paced
<1>4. CASE ~(progressed \/ (\E a \in Agents : pc[a] # "idle"))
  BY <1>1, <1>4 DEF Paced
<1> QED
  BY <1>3, <1>4

LEMMA PacedStep ==
  ASSUME Proved!BudgetInv, RunnerInv, Paced, EnoughCycles, [Next]_vars
  PROVE  Paced'
<1> USE DEF loopVars
<1>0. BoardTypes
  BY BoardTypesHold
<1>1. ASSUME NEW type, NEW x, Post(type, x) PROVE UNCHANGED <<pc, claims>>
  BY <1>1 DEF Post, Board!PostTask, Board!agentVars
<1>2. ASSUME NEW r \in Rules, PostRule(r) PROVE Paced'
  <2>1. UNCHANGED <<pc, claims, cycle, progressed>> /\ phase # "done"
    BY <1>1, <1>2 DEF PostRule
  <2> QED
    BY <2>1, PacedStays
<1>3. CASE StartCycling
  <2>1. UNCHANGED <<pc, claims, cycle, progressed>> /\ phase # "done"
    BY <1>3 DEF StartCycling, boardVars
  <2> QED
    BY <2>1, PacedStays
<1>4. CASE Claim
  <2>1. Cardinality(Spent') = Cardinality(Spent) + 1
    BY <1>4, ClaimSpends
  <2>2. phase = "cycling" /\ cycle' = cycle
    BY <1>0, <1>4, ClaimIs
  <2>3. cycle \in Nat /\ Cardinality(Spent) \in Nat
    BY SpentCount, RunnerAssumption DEF RunnerInv, LoopTypes
  <2>4. cycle <= Cardinality(Spent)
    BY <2>2, <2>3 DEF Paced
  <2>5. /\ cycle' + 1 <= Cardinality(Spent') /\ cycle' + 0 <= Cardinality(Spent')
    BY <2>1, <2>2, <2>3, <2>4
  <2> QED
    BY <2>5 DEF Paced
<1>5. CASE NothingToClaim
  <2>1. UNCHANGED <<pc, claims, cycle>> /\ phase # "done" /\ progressed' = progressed
    BY <1>5 DEF NothingToClaim, Running, NextWorker, boardVars, RunnerInv, LoopTypes
  <2> QED
    BY <2>1, PacedStays
<1>6. CASE Start
  <2>1. /\ UNCHANGED <<claims, cycle, progressed>> /\ phase # "done" /\ Running
        /\ pc[Worker] = "claimed"
    BY <1>6 DEF Start, Running, Board!StartTask
  <2>2. Worker \in Agents
    BY <2>1, WorkersAre, WorkerIs DEF Running
  <2> QED
    BY <2>1, <2>2, PacedStays
<1>7. CASE Handle
  <2>1. UNCHANGED <<pc, claims>>
    BY <1>1, <1>7 DEF Handle, boardVars
  <2>2. UNCHANGED <<cycle, progressed>> /\ phase # "done"
    BY <1>7 DEF Handle, Running
  <2> QED
    BY <2>1, <2>2, PacedStays
<1>8. CASE Complete \/ HandlerRaises
  <2>1. /\ Running /\ (Board!CompleteTask(Worker) \/ Board!FailTask(Worker))
        /\ cycle' = cycle
    BY <1>8 DEF Complete, Finish, HandlerRaises, Raise, NextWorker
  <2>2. pc[Worker] = "working" /\ claims' = claims
    BY <2>1 DEF Board!CompleteTask, Board!FailTask
  <2>3. Worker \in Agents /\ phase # "done"
    BY <2>1, WorkersAre, WorkerIs DEF Running
  <2> QED
    BY <2>1, <2>2, <2>3, PacedStays
<1>9. CASE EndCycle
  <2>1. CASE progressed
    <3>1. cycle + 1 <= Cardinality(Spent)
      BY <1>0, <1>9, <2>1, IdleCycle DEF Paced
    <3>2. Spent' = Spent /\ cycle' = cycle + 1 /\ ~progressed' /\ \A a \in Agents : pc'[a] = "idle"
      BY <1>0, <1>9, IdleCycle DEF Spent
    <3>3. cycle' + 0 <= Cardinality(Spent')
      BY <3>1, <3>2, RunnerAssumption DEF RunnerInv, LoopTypes
    <3> QED
      BY <3>2, <3>3 DEF Paced
  <2>2. CASE ~progressed
    BY <1>0, <1>9, <2>2, IdleCycle DEF Paced
  <2> QED
    BY <2>1, <2>2
<1>10. CASE Background
  <2>1. UNCHANGED <<pc, claims, cycle, progressed>> /\ phase # "done"
    BY <1>0, <1>10, BackgroundIs
  <2> QED
    BY <2>1, PacedStays
<1>11. CASE UNCHANGED vars
  BY <1>11 DEF vars, boardVars, Paced, Spent
<1> QED
  BY <1>2, <1>3, <1>4, <1>5, <1>6, <1>7, <1>8, <1>9, <1>10, <1>11 DEF Next, RunnerStep

(* The run ends with nothing left: max_cycles is no reason to end it.      *)
LEMMA OverStep ==
  ASSUME Proved!BudgetInv, RunnerInv, Paced, Over, EnoughCycles, [Next]_vars
  PROVE  Over'
<1> USE DEF loopVars
<1>1. BoardTypes
  BY BoardTypesHold
<1>2. CASE EndCycle
  <2>1. CASE progressed
    <3>1. cycle + 1 <= Cardinality(Spent)
      BY <1>1, <1>2, <2>1, IdleCycle DEF Paced
    <3>2. cycle + 1 # MaxCycles
      BY <3>1, SpentCount, RunnerAssumption DEF RunnerInv, LoopTypes
    <3> QED
      BY <1>1, <1>2, <2>1, <3>2, IdleCycle DEF Over
  <2>2. CASE ~progressed
    BY <1>1, <1>2, <2>2, IdleCycle DEF Over
  <2> QED
    BY <2>1, <2>2
<1>3. CASE UNCHANGED vars
  BY <1>3 DEF vars, boardVars, Over
<1>4. CASE Background
  BY <1>1, <1>4, BackgroundIs DEF Over
<1>5. CASE (\E r \in Rules : PostRule(r)) \/ StartCycling
  BY <1>5 DEF PostRule, StartCycling, Over
<1>6. CASE Claim \/ NothingToClaim \/ Start \/ Handle \/ Complete \/ HandlerRaises
  BY <1>6 DEF Claim, NothingToClaim, Start, Handle, Complete, Finish, HandlerRaises, Raise,
              NextWorker, Running, Over
<1> QED
  BY <1>2, <1>3, <1>4, <1>5, <1>6 DEF Next, RunnerStep

(* With nothing left, the ledger says what became of each scenario.        *)
LEMMA Accounting ==
  ASSUME RunnerInv, Over, phase = "done", NEW s \in Scenarios
  PROVE  IF DeadFor(s) = {} THEN results[s] = 1 ELSE results[s] = 0
<1> DEFINE t1 == TaskOf("test_rule", RuleOf[s])
           t2 == TaskOf("generate_flow", s)
           t3 == TaskOf("execute", s)
           t4 == TaskOf("validate", s)
<1>1. /\ RuleOf[s] \in Rules /\ s \notin Rules /\ RuleOf[s] \notin Scenarios
  BY RunnerAssumption
<1>2. t1 \in Tasks /\ t2 \in Tasks /\ t3 \in Tasks /\ t4 \in Tasks
  BY <1>1, FirstTask
<1>3. \A t, e : Open(t, e) <=> status[t] # "completed"
  BY DEF RunnerInv, OneAtWork, HandedTo, Open, Working
<1>4. \A k \in Kinds :
        Happened(k, s) = IF status[Source(k, s)] # "completed" THEN 0 ELSE 1
  BY <1>3 DEF RunnerInv, Ledger
<1>5. status[t2] = "absent" <=> status[t1] # "completed"
  BY <1>4 DEF Kinds, Happened, Source
<1>6. status[t3] = "absent" <=> status[t2] # "completed"
  BY <1>4 DEF Kinds, Happened, Source
<1>7. status[t4] = "absent" <=> status[t3] # "completed"
  BY <1>4 DEF Kinds, Happened, Source
<1>8. results[s] = IF status[t4] # "completed" THEN 0 ELSE 1
  BY <1>4 DEF Kinds, Happened, Source
<1>9. status[t1] # "absent"
  BY <1>1 DEF RunnerInv, RulesPosted
<1>10. DeadFor(s) = {t \in {t1, t2, t3, t4} : status[t] = "dead"}
  <2>1. ASSUME NEW t \in DeadFor(s) PROVE t \in {t1, t2, t3, t4}
    <3>1. t \in Tasks /\ status[t] = "dead" /\ t.of \in {s, RuleOf[s]}
      BY DEF DeadFor, TasksAbout
    <3>2. t = TaskOf(t.type, t.of)
      BY <3>1, TaskIs DEF RunnerInv, First
    <3>3. t.type = "test_rule" => t.of = RuleOf[s]
      BY <1>1, <3>1, TaskIs
    <3>4. t.type # "test_rule" =>
            t.of = s /\ t.type \in {"generate_flow", "execute", "validate"}
      BY <1>1, <3>1, TaskIs
    <3> QED
      BY <3>2, <3>3, <3>4
  <2>2. \A t \in DeadFor(s) : status[t] = "dead"
    BY DEF DeadFor
  <2>3. ASSUME NEW t \in {t1, t2, t3, t4}, status[t] = "dead" PROVE t \in DeadFor(s)
    BY <1>2, <2>3 DEF DeadFor, TasksAbout, TaskOf
  <2> QED
    BY <2>1, <2>2, <2>3
<1>11. /\ status[t1] \in {"absent", "completed", "dead"}
       /\ status[t2] \in {"absent", "completed", "dead"}
       /\ status[t3] \in {"absent", "completed", "dead"}
       /\ status[t4] \in {"absent", "completed", "dead"}
  BY <1>2 DEF Over
<1> HIDE DEF t1, t2, t3, t4
<1>12. DeadFor(s) = {} <=> status[t1] # "dead" /\ status[t2] # "dead"
                           /\ status[t3] # "dead" /\ status[t4] # "dead"
  BY <1>10
<1> QED
  BY <1>5, <1>6, <1>7, <1>8, <1>9, <1>11, <1>12

(* EveryScenarioAccounted: a run whose max_cycles exceeds the claims its   *)
(* tasks can take ends, if it ends, with one result for every scenario or  *)
(* with a dead task the summary counts for it, never both and never        *)
(* neither, whatever the watcher did to a task under its handler.          *)
THEOREM NoScenarioIsLost ==
  ASSUME EnoughCycles
  PROVE  Spec => []EveryScenarioAccounted
<1> DEFINE Inv == Proved!BudgetInv /\ RunnerInv /\ Paced /\ Over
<1>1. Init => Inv
  <2> SUFFICES ASSUME Init PROVE Inv
    OBVIOUS
  <2>1. cycle = 0 /\ progressed = FALSE /\ phase = "posting" /\ \A a \in Agents : pc[a] = "idle"
    BY DEF Init, Board!Init
  <2>2. Paced
    BY <2>1, SpentCount DEF Paced
  <2> QED
    BY <2>1, <2>2, InitInv, BoardKeeps DEF Over
<1>2. Inv /\ [Next]_vars => Inv'
  BY BoardKeeps, BoardTypesHold, InvStep, PacedStep, OverStep
<1>3. Inv => EveryScenarioAccounted
  BY Accounting DEF EveryScenarioAccounted
<1> QED
  BY <1>1, <1>2, <1>3, PTL DEF Spec

=============================================================================
