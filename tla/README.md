# InvariantFlow: formal model

TLA+ models of InvariantFlow (the Python service under `src/app` and its
dashboard under `src/frontend`), the TLC configurations that check them, and
TLAPS proofs about them. This file says what the system consists of, which
module models which part and how, what each run and each theorem shows, and
what is left out.

InvariantFlow turns business rules into test scenarios, runs them against an
HTTP API and judges the traces. Rules are proposed by *ingestion*, approved or
rejected by a *reviewer*, and kept in a *rule store*. A *run* takes the approved
rules through generate, plan, execute and validate; in its main mode the four
agents hand the work to each other through a *blackboard*. Events about all of
it go to the dashboard.

## 1. Inventory

| Component | State it keeps | Operations | Hard behaviour | What makes it correct |
|---|---|---|---|---|
| In-memory blackboard `memory/blackboard.py` | dict of tasks: status, claimed_by, claimed_at, retry_count | post, claim, start, complete, fail; a watcher coroutine | late calls of agents that lost their task; a clock read before a lock; cancelled agents | a task is handed out at most `max_retries` times, to one agent at a time; only old claims revert; every task settles |
| Redis blackboard `memory/redis_blackboard.py` | a hash per task, a stream, a consumer group | the same methods, several Redis commands each, no lock | interleaving at every command; agents that die between two | claims are exclusive; a posted task is taken |
| Rule runner `agents/testing/blackboard_runner.py` | summary of the run, dead tasks, cycles | run_active_rules, four handlers that post the next task | the watcher reverts or kills a task under its handler | every scenario accounted for once |
| Rule store `memory/rule_store.py`, `postgres_rule_store.py`, `seeds.py`; `api/rules.py`; `agents/ingestion/pipeline.py` | one row per rule version: status column and JSON | insert, approve, reject, seed, conflict detection | requests overlap at every awaited statement and write back what they read | one approved version per rule, no rejected rule tested, column and JSON agree |
| Run registry and event streams `runtime/run_registry.py`, `api/sse.py`, `memory/redis_events.py` | bounded history of runs; a bounded queue per subscriber | create, complete, fail a run; publish, subscribe | full queues; runs trimmed while they run | one terminal event per run; no gap in what a subscriber sees |
| Test-run API `api/routes.py`, `memory/factory.py` | none of its own | run_rules: create a run, build the runner, run, complete or fail | failures before, inside and after the `try` | every run ends, once |
| Feedback loop `agents/graph.py`, `testing/critic.py`, `testing/scenario_generator.py` | graph state: iteration, scenarios, findings | generate, execute, validate, criticise, route | stop conditions read costs other nodes change; ids given by an LLM; a critic that sees one iteration | it ends; each scenario is executed once; the feedback says what the results show |
| LLM client and cost tracker `llm/` | costs per rule and per run | post with retries, record | a paid answer that cannot be parsed; retries of what was billed; caps looked at before the cost is known | a cap stops calls; what is billed beyond it is bounded |
| Executor, state store, mock API | entities per run; shipments of all runs | run the steps of a flow, copy what the answers say into the entities | entities left by other scenarios; lost answers; runs at the same time | a verdict is about the shipment of its scenario |
| Flow planner, oracle, condition evaluation | none | pure functions | missing values, types, operators | the verdict follows from the trace |
| Agent lifecycle `agents/lifecycle.py` | state and heartbeat of each agent | register, heartbeat; transition, mark_missed and terminate have no caller | none that can happen | |
| Dashboard stores `frontend/src/lib/stores` | views folded from events | one fold per store | events that never come, or come twice | the view agrees with the board |
| Ingestion text processing, schemas, configuration, pages, placeholders | none, or data definitions | parsing and rendering | | |

How they interact: `run_rules` creates a run in the registry, reads the approved
rules from the rule store, and runs them in one of three ways. By default it
creates a blackboard (in memory with its watcher, or Redis, by
`storage_backend`) and one `BlackboardRuleRunner` on it, and closes the blackboard
when the runner returns; `direct` is `RuleTestRunner`, a plain loop; `langgraph` is
`LangGraphRuleRunner`, the feedback loop, with one cost tracker for the request. The
blackboard's runner is one coroutine that plays the four agents in turn; the only other
coroutine that writes its board is the watcher. All three use the same planner,
executor and oracle; the state store is a run's own in memory and keyed by run in
Redis, and the API under test is shared by everybody.
Requests of reviewers, ingestions and other runs interleave with a run at every
`await`; they share the rule store, the registry and the API, never a board.

The hazards of each part, at the line where they bite, are the list `hazards`
of `PROJECT.json`.

## 2. Plan

The order is by how much of the system's purpose depends on the part. Done: 1 to 9.

1. `Blackboard`, with the abstract `TaskBoard` it implements, and proofs.
2. `BlackboardRunner`, which composes the board with the runner.
3. `RedisBlackboard`, against the same `TaskBoard`.
4. `RuleStore`, both backends.
5. `RunRegistry`: run registry, `run_rules`, subscriber queues and the dashboard
   that reads them.
6. `FeedbackLoop`: the graph of `graph.py` with the cost tracker and the retries
   of the LLM client, and proofs.
7. `Conditions` and `Pipeline`: planner, executor, state store, mock API and
   oracle, for runs at the same time, and proofs.
8. Proofs about `RuleStore`, and of `ActiveIsWatched` for one agent.
9. Proofs of the safety properties that were only model-checked: `RedisBlackboard` (one live entry
   per task, hence the refinement), `RunRegistry`, `BlackboardRunner`, and the rest of
   `FeedbackLoop` and `Pipeline`.
10. Next: lemmas on the verdicts of `Conditions` (which contexts make the oracle pass, fail or stay
   inconclusive), and a tighter bound than `EnoughCycles` on the cycles a run takes.

## 3. Modules

### Blackboard

| Code | Model |
|---|---|
| `_tasks`, a dict | `keys` (its iteration order) and one function per column: `status`, `claimed_by`, `retry_count` |
| `claimed_at` and the clock | `age`, ticks since `claimed_at`, stopping at `Timeout + 1`, the first age the watcher acts on |
| `_run_worker` of an agent | `pc`, `task`: idle, claimed, working |
| `_timeout_watcher` between `now_ts` and the lock | `awake`, and `due`, the tasks `now_ts` finds too old |
| (history) | `claims`, how often `claim_task` returned a task |

Each method of the class that writes runs under one `asyncio.Lock`, so it is one
action: `PostTask`, `ClaimTask` (the first claimable task in the order of the
dict), `StartTask`, `CompleteTask`, `FailTask`, `WatcherSweep`. None of the calls an
agent makes after its claim looks at the task's status or owner, and neither do
the actions. `fail_task` and the watcher share `Retry`. `CancelAgent` is a
coroutine that is cancelled: `CancelledError` is no `Exception`, so `_run_worker`
does not fail the task. `WatcherWake` reads the clock and `WatcherSweep` runs under
the lock, and everything can happen between them.

`Tick` is disabled while an agent is between claim and start: the only await
between them is the lock, which is handed over in order of arrival, and the
watcher sleeps for ten seconds between two passes. `Punctual = TRUE` also keeps
the clock from passing `Timeout` while a handler runs. The theorems and the
runs that need this say so.

`TaskBoard` is the abstract promise: open, held, done or dead, at most
`MaxAttempts` attempts. `BlackboardRefinement` maps posted to open, claimed and
in_progress to held, and counts as attempts `retry_count` plus the attempt that
runs or succeeded.

### BlackboardRunner

One runner on one board, `INSTANCE Blackboard` with the four agents. `turn` is the
position in a cycle, `todo` what the running handler has yet to do: posts, a
trace, a result. A task id is a record of its type, what it is about and a copy
number that stands for the uuid `_task_id` appends. A handler may raise as long as it
has posted and kept nothing: after that it calls only `post_task` of the in-memory board,
which does not raise. It may raise with its trace in the log, since `ExecutionLog.append` appends
in memory and then writes a file; "trace" stands for the whole execution, requests included,
and the retry repeats both. `Background` interleaves clock and watcher between any two
steps. A scenario stands for the pair of rule and scenario id that names its
tasks in the code, so `RunnerAssumption` has it belong to one rule and be none itself.

### RedisBlackboard

Each Redis command is a step, so a method is two or three. The stream is the
sequence of entries the consumer group was not given yet: agents read with `>`
only, so a delivered entry is never delivered again and `XACK` changes nothing
anybody reads. `AgentDies` loses what an agent had read; hashes and stream stay.
Errors that Redis returns are left out, and so are the clock fields: nobody
reads them. `Abstract` is `TaskBoard` under the mapping `stateBar`, `attemptsBar`: a task is
open while its hash says posted and held while it says claimed or in progress, and its attempts
are `retry_count` plus the one that is held or completed.

### RuleStore

A row has a status column and the rule as JSON with a status of its own. Runs
select by column (`get_active_rules`), `approve_rule` selects the versions to
deprecate by JSON. A request is a client's sequence of statements, each one an
action; `doc` and `todo` are the copies it works on. `backend` is chosen
at the start and fixed: SQLite patches the JSON alone when it marks a conflict,
and marks the new rule first; Postgres writes whole rows, the new one last,
and looks for conflicts of approved rules only. `SELECT` without
`ORDER BY` returns rows in any order. When two texts contradict is the constant
`Contradicting`, one-directional as `_conditions_may_conflict` is. A reviewer's edits
change the text; edits of rule_id, version or status, which `model_copy` would
let through, are not modelled. `update_status`, `upsert_rule` and `next_version`
have no caller. `ConflictsAreMarked` looks at the store at the end of a detection:
marks are never taken back, so that later edits leave marks that are out of date.

### RunRegistry

`run_rules` as a coroutine per request: `pc` is the await it is suspended at,
and an action is all it does up to the next one. `CreateRun`, `complete_run` and `fail_run` change
`runs` and `order` (`Keep`, with the eviction of `_trim`) and publish in one step, as the
registry's lock is never held across an await and `publish` does not suspend. `EmitStart`
and `SetUp` lie before the `try`: what they raise ends the request and leaves the run
"started". What the runner raises, and what the emission of RUN_COMPLETE raises, ends in `fail_run`.
The runner itself is any number of events up to `MaxSteps`, then `RunEnds` or `RunRaises`. An
event is emitted and awaited (`AgentStep`: executor and critic), or its emission is made a task
(`AgentDetaches`: the VERDICT of the oracle, the COST_UPDATE of the tracker), which runs at any
time, also after the run has ended (`DetachedRuns`). What an event says of its run, nothing or
in langgraph mode an id of the graph's own (`lg_`...), is left out: `run` is the request it comes from,
and nobody reads more.

On the memory backend `published` is what `publish` was given; `subscribers` and
`queue` are `_subscribers` and its queues. A connection is subscribed by `Connect`, has
a generator from `StartStream` on, and may be abandoned in between, which leaks its
queue. On docker `published` is the Redis channel, an emission may raise, having sent the
event or not, and the channel's readers are not modelled. `since`, `sent` and
`published` are history; `OfRun(r)` are the positions of a run's events in `published`, `Told(r)` the
endings among them. `shown` is what the dashboard's stores were given:
`WireName` is the name `sse.py` sends, and what a browser does with it is external.
`routes.py` catches `Exception`, so a cancelled request would leave its run started;
requests are only cancelled when the server stops, and the registry goes with it.

### FeedbackLoop

`node` is the node of the graph that runs, `idle` between two rules; the other
variables have the names of `RuleLoopState`. Only two nodes ask an LLM: the
generator in iteration 0 and the critic. A call is `Ask` and then the outcome of a post:
`PostFails` (error or timeout; another attempt, or the fallback),
`Unreadable` (an answer without a JSON object, lost before its usage is
recorded) or `Answered` (usage recorded, after which the answer is used or
dropped: a cap reached, no valid answer). Without a client or above a cap it is
`SkipLLM`. Any of the fallbacks is the deterministic half of the agent, `Generate` or
`Analyze`. `AddEdge` is the generator in a later iteration. `Execute` is planner, executor, log and oracle of a
scenario, with any verdict. What the LLM answers is chosen from `Answers` and
`Reviews`: too many scenarios, the same id twice, the id of the edge scenario,
findings or none. `spent` is what the provider billed, which the program does
not know: what it records is an estimate from the tokens an answer reports, at the prices of its own table or, for
a model not in it, at default ones. So a post's bill is any of `Bills` and what is recorded for an answer any of
`Estimates`, independently: more than the bill, less, or nothing where the usage is left out. Both are
integers, and negative numbers of tokens are left out.

### Conditions and Pipeline

`Conditions` evaluates conditions in a context and gives the verdict of the oracle;
a value is none, a number or a string, as the code tells these apart. Matching a
text against the regular expressions is left out: a condition is a record of
the pattern it matches, or prose.

`Pipeline` is a run's loop over its scenarios: `StartScenario` plans, `Send` is one
request with the executor's update of the store, `Judge` the snapshot, the log and
the oracle. `at` is the step of the flow, `state_values` (shipment id and capacity)
and the last status code. `shipments` is the API's store, with the run that
created each as history. `ships` and `vehicles` are the entities of a run's store,
in the order of insertion: `_sync_entities` merges an answer into them, `build_eval_context`
takes the last one of each type, and from Redis, whose `KEYS` has no order, any.
Between a request and the update of the store other runs only write entities
of their own, so the two are one action. With `network` a request, or the answer to one
that was served, may be lost; both are status 0 to the executor. Routes of the
API give the executor the application itself, in the process, where nothing is
lost: that is `~network`; the executor's default is a base URL. A scenario without a
shipment_weight or vehicle_id is one of an LLM or of an unknown rule. The two rules that are not in
`seeds.py` stand for ingested ones, with the patterns the starter rules lack.

## 4. Runs

| Run | Shows | Bounds |
|---|---|---|
| `swarm` | Two agents, late or cancelled at will: the claim budget, no task out of retries handed out, only old claims revert | 2 tasks, 2 agents, 3 retries, timeout 1 tick |
| `single` | One agent, as the API has it: nothing escapes the watcher, every task settles | 2 tasks, 1 agent |
| `punctual` | Handlers within the timeout: one holder, on record; refinement of `TaskBoard` with its liveness | 2 tasks, 2 agents, 2 retries |
| `runner_overrun` | The pipeline of a scenario with the watcher at work: accounted for once, nothing but executions repeated | 1 rule, 1 scenario, 3 retries, 16 cycles |
| `redis_swarm` | Two agents interleaving at each command and dying: one entry per task, one holder, refinement of `TaskBoard` (safety) | 3 tasks, 2 agents, 2 retries, batch of 10 |
| `redis_batch` (violated) | A posted task is never taken | 2 tasks, 1 agent, batch of 10 |
| `rules_requests` | What survives overlapping requests, on each backend; which conflicts are marked | 2 rules, 2 versions, 2 clients, 5 requests |
| `rules_seeded` (violated) | Seeding approves an old version next to a new one | 1 client |
| `registry` | Each run tells one story, the record agrees with it also after eviction, streams have no gap, leaks are bounded, runs end, readers that stay hear everything | 2 runs, registry of 1, 2 connections with queues of 2, 1 agent event, awaited or left to a task; both backends |
| `dashboard` (violated) | No event reaches a store of the dashboard | 1 run, 1 connection |
| `feedback` | One refinement of a rule at most, each scenario once, feedback that agrees with the results, caps and bills within bounds, the loop ends, whatever an LLM answers | 2 rules, 3 iterations, 2 scenarios per rule, 1 retry; bills 0 or 2, estimates 0, 1 or 3, caps 2 and 3 |
| `pipeline` | A verdict is on the scenario's own shipment, the API's planted bug is caught, the store follows the API, runs are isolated, no request without ground, runs end | 2 runs, 3 and 1 scenarios, from 6 lists; memory and Redis, network and process |

Why the bounds are enough. On the board tasks interact only by their order and
type, so two tasks, one of a type only one agent serves, show what a third could;
ages beyond `Timeout + 1` are all alike, and a timeout of one tick already
separates a claim that is young, at the limit and too old. Two retries show a
task posted again, three a task that dies with attempts left. In Redis a
batch holds all three tasks. In the rule store five requests allow: ingest and
approve two rules in conflict, and one more request while the last is under
way. In the registry a second run evicts the first while it is under way, and is evicted
in turn when the first one ends; five events overfill a queue of two, on one
connection or on both. One agent event is enough for one that comes after the end of its own run or in the middle of
the other's; that a run has events of both sorts is left to the theorem, which is for any `MaxSteps`. `MaxCopies = 2` is one copy more than the model ever
needs, which is what `OnlyExecutionsRepeat` says; `MaxCycles = 16` lets all retries of the
four tasks happen, and the run would report a scenario left over. What is needed
in general is `EnoughCycles`, more cycles than (rules + 3 * scenarios) * retries, here 12, the most
that the run's tasks can be claimed: a cycle that is not the last claims one
task or more. The code's default of 1000 satisfies it, with three retries, while
rules + 3 * scenarios is 333 at most. A cycle usually claims several tasks, so larger runs
may get through too; the theorem says nothing about them.
In the feedback loop caps of 2 and 3 with estimates of 1 and 3 let an answer stay below the rule's cap, two reach
it, and one pass both caps, in the first rule or the second, while the bill of each is more, less or nothing; three iterations are the default and one more than
the loop ever takes; a list of two scenarios is cut from three. In the pipeline the lists
have an exact fit after an overload, two vehicles, one that does not exist, a flow
without assignment, and a scenario without a shipment between two others; the second run
uses the same vehicle. Theorems have these for all lists, numbers and caps.

Fairness. Weak fairness of each agent's step, of the clock and of the watcher:
the event loop runs every coroutine that is ready, `asyncio.Lock` is first come
first served, handlers return or raise (each call in them has a timeout).
In the feedback loop and
the pipeline what is fair is the request or the run: every post and every request is answered or
times out. That the log raises is never owed. `PostEntry`, the second command of `post_task`, is fair as every command is
answered. Nobody has to post, to be cancelled or to die. No run assumes strong
fairness. Deadlock is checked on the in-memory board; the other systems do
stop: a run ends with its summary, agents starve on an empty stream, and requests are bounded. In the registry a request
under way goes on and an open stream sends what is in its queue; clients owe nothing.

## 5. Findings

Each is a violated run; `PROJECT.json` quotes the sentence the code is held
against.

* `redis_batch`: `claim_task` reads ten entries and forgets those after the
  first that fits. In docker mode every run of two or more rules is exposed.
* `rules_seeded`: `seed_starter` re-approves version 1 of a starter rule,
  whatever a reviewer decided; the dashboard always sends it.
* `dashboard`: the stream names its events `lifecycle`, `tool_result` and so on; the
  dashboard's `onmessage` only hears events named `message`.

Also seen, and not among the runs. On the boards and in the rule store: `start_task` revives
a task that another agent's late `fail_task` has just posted again, without `claimed_at`, and the
watcher skips it for ever (two agents on one board; the API has one, where `single` shows
that it cannot happen); Postgres writes back whole rows read before a rejection, which
brings the rejected rule back when requests overlap (why `RejectionHolds` is about serial requests there);
`_conditions_may_conflict` is one-directional, so that of two contradicting rules the one that comes last decides
whether either is marked, where ARCHITECTURE.md:270 says "If conditions contradict, populate
`conflicts_with` on both rules"; one attempt that times out and then raises
counts twice, so a task can be dead after two attempts of three
(`DeadAfterAllAttempts` needs `Punctual`); `complete_task` accepts a task that was posted
again (why `CompletedFromInProgress` needs punctual handlers); `fail_task` of the
Redis board adds the entry before the hash says posted, so that a second consumer
drops it (two agents on one board); the Redis board has no timeout at all.

In the pipeline: an accepted dispatch of SHIP_002 is always judged "fail", since its condition,
status ASSIGNED, is evaluated after the dispatch made it DISPATCHED; with two vehicles in a run,
or with Redis, a verdict can be about another vehicle or shipment than the scenario's, which
is why the properties are restricted to the first shipment or to one vehicle; a request
that times out after it was served gives the verdict of one that failed; a failed assignment writes
capacity None into the vehicle entity, as the string "None" on Redis.

In the runner: an execution whose trace cannot be written to its file is in the log all the same, and the retry
sends the requests again and logs a second trace (at most `max_retries` of them, `OnlyExecutionsRepeat`).

In the feedback loop: of the conditions that end it, the limit on iterations (with 2 or more) and the diminishing
returns never decide, since a second feedback cannot ask for an edge scenario again
(`AtMostOneRefinement`); the caps bound what is recorded, not what is billed, which only
the number of posts bounds (`SpentIsBounded`); an estimate by default prices may be more or less than the bill.

In the streams: the VERDICT of a run's last scenario, and a COST_UPDATE, can come after its RUN_COMPLETE, as their
emission is left to a task; a reader that takes RUN_COMPLETE for the last event of a run misses them.

## 6. Proofs

The board's are for every set of tasks and agents, every `MaxRetries` and `Timeout` at least 1.

`BlackboardProofs`, handlers of any length:

* `TypeCorrect`: the type invariant.
* `ClaimsAreBudgeted` (`ClaimBudget`) and `ExhaustedStaysOut`. The bound on
  `claims` is not inductive: nothing in it relates a claim to `retry_count`.
  `BudgetInv` adds that `claims <= retry_count + 1`, that a posted task
  has `claims <= retry_count < MaxRetries` (each claim so far was counted as
  failed), and that a dead task has used up its retries. Late calls only raise
  `retry_count` or make a task active, which keeps all three.
* `WatcherIsExact` (`OnlyStaleClaimsRevert`) by `DueIsOld`: whatever is in `due`
  when the pass runs is still too old, since every claim in between takes its
  task out of it (a new `claimed_at` is later than any `now_ts` read before).
* `NothingEscapes` (`ActiveIsWatched`), with `ASSUME Alone`, one agent at most. An active task
  without a claim time could only come from a start after a revert. `AloneInv` says there is none:
  between claim and start the agent's task is claimed, by it, at age 0, and no such task is `due`.

`BlackboardRefinementProofs`, with `ASSUME Punctual`: `OneHolder`, `DeadIsDeserved`,
`SettledForGood`, `LifecycleHolds`, and `BlackboardImplementsTaskBoard`, that the
blackboard implements the safety part of `TaskBoard`. `PunctualInv` says that an
agent that is not idle is on record as holder of an active task, younger than
the timeout or exactly at it, that `due` holds old claims only, and that `claims` equals
`retry_count`, plus one for a task that is held or completed. So the watcher
never touches a task an agent works on, every `fail_task` hits the attempt it is
about, and each step maps to a step of the abstract board or to a stutter. Four
properties that are proved have no run of their own: `TypeOK`, `DeadAfterAllAttempts`, `SettledIsFinal`
and `CompletedFromInProgress`; the last three also follow from the refinement or from `HolderIsOnRecord`,
which run `punctual` checks.

`FeedbackLoopProofs`, for every list of rules, all limits, caps, bills, estimates, answers and
reviews that `FeedbackLoopConstants` allows:

* `RefinedOnce` (`AtMostOneRefinement`). `Shape` says at each node how many iterations there were
  and that there is an edge scenario from the second on: the generator of iteration 1 adds
  one, unless there are no scenarios at all, and `Continues` wants there to be none.
* `CapsAreHonoured` (`CapsHold`). `Budgeted` adds that while a post is in flight both totals are below
  their caps: `Ask` is guarded by `~Exceeded`, and nothing else moves the totals before the answer, which adds
  `MaxEstimate` at most.
* `BillsAreBounded` (`SpentIsBounded`). `Accounted` counts the posts of a rule: node, iteration and `post`
  determine how many there were at most, each costs `MaxBill` at most, and rules not yet begun cost nothing.
  It rests on `Shape`: no rule has a fourth call.
* `TypeCorrect`, from these three and `Typed`, the types of the lists.
* `ScenariosAreExecutedOnce` (`EachScenarioOnce`). Nothing in the code counts executions: the executor runs
  what is pending, and the ids it skips are those that have a result. `Walk` says what that comes to: results
  are those of the first scenarios in order (`InOrder`), and what is pending is what follows them, except
  that an edge scenario whose id an LLM has used before is never run (`EdgeIsKnown`).
* `FeedbackIsTheResults` (`FeedbackMatchesResults`), for the critic without an LLM, which sees the verdicts of one
  iteration. `Matching`: the findings of all iterations so far are those of the results
  already reviewed (`Matches(Reviewed)`), and an id names one scenario (`OwnIds`), so that the critic's look-up of what a verdict was
  expected to be finds the scenario of the verdict.

`PipelineProofs`, for every set of runs, all weights and lists of scenarios:

* `TypeCorrect`, the type invariant, which no run repeats.
* `NoRequestWithoutGround` (`RequestsHaveGround`). `Progress` says where in its plan a run can be, and `Ground`
  that at each step after the first the run's own shipment has the status the planned answers brought
  it to; requests of other runs are about other shipments, since each run holds only
  ids it created (`Apart`).
* `RunsKeepApart` (`RunsAreIsolated`) by `Apart`: every id a run holds, in `at` or in its store, is of a shipment it created.
* `JudgedByOwnShipment` (`VerdictIsOnOwnShipment`) by `JudgedAll` and `StoreInOrder`: as soon as the present scenario
  has a shipment, it is the last of the run's store, and all others are those of scenarios already judged.
* `StoreIsNeverAhead` (`StoreFollowsApi`) by `InStep`: an entity's status is the API's, or with a network
  one the shipment has left behind; shipments of the API never go back.
* `OverweightNeverPasses` (`OverweightIsCaught`). The verdict is about two numbers written at different times: the weight
  by the first request, the capacity by the second, from a vehicle which other scenarios of the run may have used.
  `Watched` carries both to the verdict: the shipment has the scenario's weight (`Weighed`), every entity of the
  scenario's vehicle has the capacity of the one it was assigned (`Loaded`), the store has no vehicles but those
  of the scenarios so far (`Used`), and a dispatched shipment does not change any more (`Caught`).

`RuleStoreProofs`, for all rules, versions, texts, seeds and clients and any number of requests, on either
backend:

* `TypeCorrect`, by `Base`: a row holds the rule and version it is kept under (`InPlace`), and no row is ever
  deleted, so a request never writes the JSON of a row that is not there (`Existing`).
* `StatusesStayTogether` (`StatusesAgree`), `OneVersionIsTested` (`SerialOneApproved`) and `RejectedStaysOut`
  (`RejectionHolds`) are parts of the invariant `Consistent`. None is inductive: a request
  writes back copies it read some statements ago. `Aware` says for each statement what the copies are
  still worth when requests do not overlap: before the approved version is saved, every other approved version is in `todo`; a
  proposal is for a version that is not there yet; during the detection of conflicts
  all copies are what the store has. Two facts hold in any overlap and carry the other halves: a whole row is
  written with its own status in its column (Postgres writes nothing else), and marking the JSON leaves
  the column alone (SQLite marks in no other way).
* `ConflictsNameEachOther` (`ConflictsAreMarked`): `Marking`, part of `Aware`, keeps every approved rule in
  contradiction either in `todo` or marked on both sides.
* `VersionsKeepTheirText` (`NothingIsReplaced`): statements other than those of an approval write what they read,
  and the version of a proposal is new (`NextVersionIsNew`, from the well-foundedness of the naturals, as it
  takes a maximum).

`RunRegistryProofs`, for any number of requests, events and connections and any bounds of the registry and its
queues. The invariant says for each run what the stream and the record may have of it while its request is suspended
at a given point (`Stage`): its events are in order (`Ordered`), none is there that comes later (`Reached`), the
record's status is that of the point (`OnRecord`), and on the memory backend nothing is missing (`OnMemory`).
An event left to a task may come at any point after the run has begun, and `Stage` says of it only that: there are
such tasks only of runs that got as far as their runner.
A record that `_trim` removed just leaves `OnRecord`. For each open connection `InStep` says that what it was sent and
has waiting is one piece of the stream, which ends where the stream ends as long as it is subscribed.

* `TypeCorrect`; `OneStoryPerRun` (`OneStory`) and `RecordAndStoryAgree` (`RecordMatchesStory`), from `Stage`.
* `NoGapInTheStream` (`StreamHasNoGap`) and `BoundedLeak` (`LeakIsBounded`), from `InStep`: the queue of an abandoned
  connection holds everything since it was subscribed, and no more than its size.

`RedisBlackboardProofs`, for all tasks and agents, every `MaxRetries` and `BatchSize` at least 1, agents dying at will:

* `TypeCorrect`; `OneEntryPerTask` (`AtMostOneEntry`) and `OneHolder` (`HolderIsOnRecord`). No command checks
  that a task is entered once or claimed once; both follow from `OneToken`: whoever may act on a task has its one token, which
  is the pending XADD of `post_task`, the entry in the stream or in a batch, or the agent that consumed the entry,
  until it dies or fails the task and enters it again. So an agent that looks at a hash and then writes it is the only
  one to write it (`OnRecord`), and what `fail_task` read of the retries is still true when it writes
  them (`Counted`). `NoneBefore` says that a task without a hash has no token yet.
* `RedisImplementsTaskBoard` (`ImplementsTaskBoard`): each command maps to a step of `TaskBoard` or to a stutter. The
  claim is the `HSET` after the check, and a failed attempt ends with the write that counts it.

`BlackboardRunnerProofs`, for any rules, scenarios, retries and timeout, whatever the watcher does. It instantiates
`BlackboardProofs` as `Proved`: each step of the runner is one of the board or leaves it alone (`BoardStep`), so that the
types and the claim budget of the board need no second proof.

* `TypeCorrect`, and `RetriesRepeatOnlyExecutions` (`OnlyExecutionsRepeat`). A handler whose task the watcher reverts is run
  again, so it must not have posted or kept anything by then, or must complete all the same. `Ledger` says so, as an equation:
  a post or a result happened once if its task has no use for it any more, and not at all while it is `Open`, that is
  among what the running handler has `todo`, or, when no handler runs it, while its task is not completed. It is inductive
  because a handler raises before its first post or result only, and one that got further completes its task, reverted or dead.
  Of traces `Logged` says that there are no more than claims of the execute task, which the board's budget bounds,
  less the one a handler has ahead, and that a validate task is only there after one.
  `OneAtWork` adds that one worker has a task at a time and no other task is active; `First`, that every task is the
  first of its kind.
* `NoScenarioIsLost` (`EveryScenarioAccounted`), with `ASSUME EnoughCycles`. The loop ends after a cycle without
  progress, which `LeftNothing` shows to leave nothing posted (no worker posts for one before it without having made
  progress), or at its limit, which `Paced` excludes: cycles so far are at most the claims (`Spent`), and these at most
  `MaxRetries` per task by the board's budget. So at the end all tasks are completed or dead (`Over`), and by `Ledger` each scenario has a
  result or a dead task before it.

Only model-checked: the liveness properties (`EveryTaskSettles`, `EveryRunEnds`, `LoopEnds`, `StayingReaderHearsAll`,
the progress in the blackboard's `ImplementsTaskBoard`), which are out of the prover's reach. The safety properties of the passing runs are
all theorems, some with a hypothesis named above: `Alone`, `Punctual`, `EnoughCycles`.

## 7. Not modelled

* Agent lifecycle: of its operations only `register` and `heartbeat` are called, so no agent ever leaves
  idle; there is no behaviour to check until something calls the others.
* Ingestion: extraction, normalisation and validation turn a text into rules, by an LLM or by regular
  expressions, without state; what they lead to, a new version, is in `RuleStore`.
* The dashboard's stores: no event reaches them (`dashboard`). Pages and components render.
* Schemas, settings, static descriptors, and stores whose methods are stubs.
* In modelled parts: events of boards and agents (an emitter's errors are
  swallowed and no method reads them); `status_history` and the entity fields that no
  condition reads; the expiry of Redis keys; errors of Redis; the matching of conditions
  by regular expressions and numerals in quotes; confidence and reasons of verdicts;
  prompts; tokens and prices, of which an estimate is left; which texts contradict each other (a constant).
