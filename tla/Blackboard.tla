----------------------------- MODULE Blackboard -----------------------------
(***************************************************************************)
(* The in-memory task board of the testing swarm,                          *)
(* src/app/memory/blackboard.py, with the agents that use it through the   *)
(* protocol of BlackboardRuleRunner._run_worker: claim a task, start it,   *)
(* run the handler, then complete the task, or fail it if the handler      *)
(* raised.                                                                 *)
(*                                                                         *)
(* Every method that writes the board runs under one asyncio.Lock, so each *)
(* is one atomic action.  What interleaves is everything between them:     *)
(* handlers of any length, cancelled agents, and the timeout watcher, a    *)
(* coroutine that reads the clock BEFORE it waits for the lock.            *)
(*                                                                         *)
(* Time is kept as the age of a claim (now - claimed_at), in ticks, and    *)
(* stops at Timeout + 1, the first age the watcher acts on.                *)
(***************************************************************************)
EXTENDS Naturals, Sequences

CONSTANTS
  Tasks,       \* task ids; _task_id appends a uuid, so an id is posted once
  Agents,      \* agent ids
  TypeOf,      \* the type of each task
  Serves,      \* the task_type each agent passes to claim_task, or AnyType
  AnyType,     \* claim_task's default, task_type=None
  MaxRetries,  \* max_retries
  Timeout,     \* timeout_seconds, in ticks
  Punctual,    \* TRUE: no handler runs for longer than Timeout
  NULL         \* Python's None

ASSUME MaxRetriesAssumption == MaxRetries \in Nat \ {0}
ASSUME TimeoutAssumption    == Timeout \in Nat \ {0}
ASSUME PunctualAssumption   == Punctual \in BOOLEAN
ASSUME NullAssumption       == NULL \notin Tasks \cup Agents \cup Nat

VARIABLES
  keys,         \* the ids on the board, in the order the dict iterates them
  status,       \* task -> its status, "absent" when it is not on the board
  claimed_by,   \* task -> agent or NULL
  age,          \* task -> age of claimed_at, NULL when claimed_at is None
  retry_count,  \* task -> its retry_count
  pc,           \* agent -> where it is in _run_worker
  task,         \* agent -> the task it was handed, NULL when idle
  due,          \* the watcher's now_ts, as the set of tasks it finds too old
  awake,        \* the watcher has read the clock and waits for the lock
  claims        \* history: task -> how often claim_task has returned it

boardVars   == <<keys, status, claimed_by, age, retry_count>>
agentVars   == <<pc, task, claims>>
watcherVars == <<due, awake>>
vars        == <<boardVars, agentVars, watcherVars>>

Active  == {"claimed", "in_progress"}
Settled == {"completed", "dead"}
Ages    == 0 .. Timeout + 1

TypeOK ==
  /\ keys \in Seq(Tasks)
  /\ status \in [Tasks -> {"absent", "posted"} \cup Active \cup Settled]
  /\ claimed_by \in [Tasks -> Agents \cup {NULL}]
  /\ age \in [Tasks -> Ages \cup {NULL}]
  /\ retry_count \in [Tasks -> Nat]
  /\ pc \in [Agents -> {"idle", "claimed", "working"}]
  /\ task \in [Agents -> Tasks \cup {NULL}]
  /\ due \in SUBSET Tasks
  /\ awake \in BOOLEAN
  /\ claims \in [Tasks -> Nat]

Init ==
  /\ keys = << >>
  /\ status = [t \in Tasks |-> "absent"]
  /\ claimed_by = [t \in Tasks |-> NULL]
  /\ age = [t \in Tasks |-> NULL]
  /\ retry_count = [t \in Tasks |-> 0]
  /\ pc = [a \in Agents |-> "idle"]
  /\ task = [a \in Agents |-> NULL]
  /\ due = {}
  /\ awake = FALSE
  /\ claims = [t \in Tasks |-> 0]

-----------------------------------------------------------------------------
(* Posting and claiming.                                                   *)

PostTask(t) ==
  /\ status[t] = "absent"
  /\ keys' = Append(keys, t)
  /\ status' = [status EXCEPT ![t] = "posted"]
  /\ UNCHANGED <<claimed_by, age, retry_count, agentVars, watcherVars>>

\* Mutant: a task somebody has claimed can be claimed again.
ClaimableUnchecked(a, t) ==
  status[t] \in {"posted", "claimed"} /\ Serves[a] \in {AnyType, TypeOf[t]}

Claimable(a, t) == status[t] = "posted" /\ Serves[a] \in {AnyType, TypeOf[t]}

\* Mutants: claimed_at is not set; the watcher keeps what it read before.
StampMissing(t) == UNCHANGED <<age, due>>
StampIgnored(t) == age' = [age EXCEPT ![t] = 0] /\ UNCHANGED due

(* claimed_at = now: also by a clock the watcher read earlier, the task is *)
(* not too old.                                                            *)
Stamp(t) == age' = [age EXCEPT ![t] = 0] /\ due' = due \ {t}

(* The first claimable task in the order of the dict is handed out.  A     *)
(* task that was reverted keeps its place in the dict.                     *)
ClaimTask(a) ==
  /\ pc[a] = "idle"
  /\ \E i \in DOMAIN keys :
       LET t == keys[i] IN
       /\ Claimable(a, t)
       /\ \A j \in 1 .. i - 1 : ~Claimable(a, keys[j])
       /\ status' = [status EXCEPT ![t] = "claimed"]
       /\ claimed_by' = [claimed_by EXCEPT ![t] = a]
       /\ Stamp(t)
       /\ pc' = [pc EXCEPT ![a] = "claimed"]
       /\ task' = [task EXCEPT ![a] = t]
       /\ claims' = [claims EXCEPT ![t] = @ + 1]
  /\ UNCHANGED <<keys, retry_count, awake>>

-----------------------------------------------------------------------------
(* What an agent does with the task it was handed.  None of these calls    *)
(* looks at the task's status or at claimed_by: a late call overwrites     *)
(* what the watcher or another agent did.                                  *)

Leave(a) == pc' = [pc EXCEPT ![a] = "idle"] /\ task' = [task EXCEPT ![a] = NULL]

StartTask(a) ==
  /\ pc[a] = "claimed"
  /\ status' = [status EXCEPT ![task[a]] = "in_progress"]
  /\ pc' = [pc EXCEPT ![a] = "working"]
  /\ UNCHANGED <<keys, claimed_by, age, retry_count, task, claims, watcherVars>>

CompleteTask(a) ==
  /\ pc[a] = "working"
  /\ status' = [status EXCEPT ![task[a]] = "completed"]
  /\ Leave(a)
  /\ UNCHANGED <<keys, claimed_by, age, retry_count, claims, watcherVars>>

(* One more failure for each task of S; those of D die, the others are     *)
(* posted again.  A dead task keeps claimed_by and claimed_at.             *)
GiveBack(S, D) ==
  /\ retry_count' = [t \in Tasks |-> IF t \in S THEN retry_count[t] + 1 ELSE retry_count[t]]
  /\ status' = [t \in Tasks |-> IF t \notin S THEN status[t]
                                ELSE IF t \in D THEN "dead" ELSE "posted"]
  /\ claimed_by' = [t \in Tasks |-> IF t \in S \ D THEN NULL ELSE claimed_by[t]]
  /\ age' = [t \in Tasks |-> IF t \in S \ D THEN NULL ELSE age[t]]

\* Mutants: the limit is off by one, or compared for equality.
RetryOnceMore(S) == GiveBack(S, {t \in S : retry_count[t] + 1 > MaxRetries})
RetryAtLimit(S)  == GiveBack(S, {t \in S : retry_count[t] + 1 = MaxRetries})

(* Dead once the retries are used up.                                      *)
Retry(S) == GiveBack(S, {t \in S : retry_count[t] + 1 >= MaxRetries})

FailTask(a) ==
  /\ pc[a] = "working"
  /\ Retry({task[a]})
  /\ Leave(a)
  /\ UNCHANGED <<keys, claims, watcherVars>>

(* The agent's coroutine is cancelled.  CancelledError is no Exception, so *)
(* _run_worker does not fail the task: the watcher has to find it.         *)
CancelAgent(a) ==
  /\ pc[a] # "idle"
  /\ Leave(a)
  /\ UNCHANGED <<boardVars, claims, watcherVars>>

-----------------------------------------------------------------------------
(* Time and the timeout watcher.                                           *)

(* A claim ages by one tick.  Two things bound the time that passes:       *)
(*  - start_task follows claim_task with no await but the lock, which is   *)
(*    handed over in arrival order: the watcher, who sleeps for ten        *)
(*    seconds between two passes, cannot come between them with a later    *)
(*    clock;                                                               *)
(*  - when Punctual, a handler ends within Timeout.                        *)
OnTime(a) ==
  /\ pc[a] # "claimed"
  /\ Punctual /\ pc[a] = "working" => age[task[a]] < Timeout

Tick ==
  /\ \A a \in Agents : OnTime(a)
  /\ \E t \in Tasks : age[t] \in 0 .. Timeout
  /\ age' = [t \in Tasks |-> IF age[t] \in 0 .. Timeout THEN age[t] + 1 ELSE age[t]]
  /\ UNCHANGED <<keys, status, claimed_by, retry_count, agentVars, watcherVars>>

(* asyncio.sleep(10) is over: now_ts is read, then the lock is awaited.    *)
WatcherWake ==
  /\ ~awake
  /\ awake' = TRUE
  /\ due' = {t \in Tasks : age[t] = Timeout + 1}
  /\ UNCHANGED <<boardVars, agentVars>>

\* Mutant: the pass misses tasks that are in progress.
SweptClaimed == {t \in due : status[t] = "claimed" /\ age[t] # NULL}

(* The tasks one pass over the board finds stuck.                          *)
Swept == {t \in due : status[t] \in Active /\ age[t] # NULL}

(* The pass, under the lock.                                               *)
WatcherSweep ==
  /\ awake
  /\ awake' = FALSE
  /\ due' = {}
  /\ Retry(Swept)
  /\ UNCHANGED <<keys, agentVars>>

-----------------------------------------------------------------------------
AgentStep(a) ==
  ClaimTask(a) \/ StartTask(a) \/ CompleteTask(a) \/ FailTask(a)

Next ==
  \/ \E t \in Tasks : PostTask(t)
  \/ \E a \in Agents : AgentStep(a)
  \/ \E a \in Agents : CancelAgent(a)
  \/ Tick
  \/ WatcherWake
  \/ WatcherSweep

(* The event loop runs every coroutine that is ready, the clock advances,  *)
(* and a handler returns or raises.  Nobody has to post or to be cancelled. *)
Fairness ==
  /\ \A a \in Agents : WF_vars(AgentStep(a))
  /\ WF_vars(Tick)
  /\ WF_vars(WatcherWake)
  /\ WF_vars(WatcherSweep)

Spec     == Init /\ [][Next]_vars
FairSpec == Spec /\ Fairness

-----------------------------------------------------------------------------
(* Properties that hold however late the agents are.                       *)

(* "After max_retries -> transition to dead": claim_task never hands out a *)
(* task more than max_retries times, whatever the agents and the watcher   *)
(* do to each other's tasks.                                               *)
ClaimBudget == \A t \in Tasks : claims[t] <= MaxRetries

(* A task that used up its retries, dead or overwritten since by a late    *)
(* start_task or complete_task, is never handed out again.                 *)
ExhaustedIsNotHandedOut ==
  [][\A t \in Tasks : retry_count[t] >= MaxRetries \/ status[t] = "dead"
                        => claims'[t] = claims[t]]_vars

(* The watcher only takes a task from an agent whose claim is older than   *)
(* the timeout when the task is taken, however long it waited for the lock *)
(* after it read the clock.                                                *)
OnlyStaleClaimsRevert ==
  [][awake /\ ~awake' =>
       \A t \in Tasks : status'[t] # status[t] =>
                          status[t] \in Active /\ age[t] > Timeout]_vars

-----------------------------------------------------------------------------
(* Properties of a board with one agent, as each run of the API has.       *)

(* Every task that is claimed or in progress has the claimed_at without    *)
(* which _timeout_watcher skips it, and an agent on record.                *)
ActiveIsWatched ==
  \A t \in Tasks : status[t] \in Active => age[t] # NULL /\ claimed_by[t] # NULL

(* Every posted task is in the end completed or dead, and then stays so:   *)
(* cancelled agents, overruns and late calls only cost it retries.         *)
EveryTaskSettles ==
  \A t \in Tasks : status[t] = "posted" ~> [](status[t] \in Settled)

-----------------------------------------------------------------------------
(* Properties that need handlers to end within the timeout.                *)

(* "Two agents cannot claim the same task": an agent that is at work on a  *)
(* task is the one on record, and the only one.                            *)
HolderIsOnRecord ==
  \A a \in Agents : pc[a] # "idle" =>
     /\ claimed_by[task[a]] = a
     /\ status[task[a]] = IF pc[a] = "claimed" THEN "claimed" ELSE "in_progress"

(* The lifecycle of the module's docstring: a task is completed only from  *)
(* in_progress.                                                            *)
CompletedFromInProgress ==
  [][\A t \in Tasks : status[t] # "completed" /\ status'[t] = "completed"
                         => status[t] = "in_progress"]_vars

(* completed and dead are the ends of the lifecycle.                       *)
SettledIsFinal ==
  [][\A t \in Tasks : status[t] \in Settled => status'[t] = status[t]]_vars

(* retry_count counts attempts: a task is dead only after it was handed    *)
(* out max_retries times.                                                  *)
DeadAfterAllAttempts ==
  \A t \in Tasks : status[t] = "dead" => claims[t] = MaxRetries
=============================================================================
