-------------------------- MODULE BlackboardProofs --------------------------
(***************************************************************************)
(* What TLAPS proves of the in-memory blackboard, for every set of tasks   *)
(* and agents, every max_retries and every timeout, with punctual handlers *)
(* and without: type correctness, and the budget of max_retries claims.    *)
(* With one agent at most: nothing escapes the watcher.                    *)
(***************************************************************************)
EXTENDS Blackboard, TLAPS

(* Initially the type invariant holds.                                     *)
LEMMA InitTypeOK == Init => TypeOK
<1> SUFFICES ASSUME Init PROVE TypeOK
  OBVIOUS
<1>1. keys \in Seq(Tasks)
  BY DEF Init
<1>2. /\ retry_count \in [Tasks -> Nat]
      /\ claims \in [Tasks -> Nat]
      /\ due \in SUBSET Tasks
      /\ awake \in BOOLEAN
  BY DEF Init
<1>3. /\ status \in [Tasks -> {"absent", "posted"} \cup Active \cup Settled]
      /\ claimed_by \in [Tasks -> Agents \cup {NULL}]
      /\ age \in [Tasks -> Ages \cup {NULL}]
      /\ pc \in [Agents -> {"idle", "claimed", "working"}]
      /\ task \in [Agents -> Tasks \cup {NULL}]
  BY DEF Init
<1> QED
  BY <1>1, <1>2, <1>3 DEF TypeOK

(* One more failure keeps the types of the four columns it writes.         *)
LEMMA RetryTypeOK ==
  ASSUME TypeOK, NEW S, Retry(S)
  PROVE  /\ retry_count' \in [Tasks -> Nat]
         /\ status' \in [Tasks -> {"absent", "posted"} \cup Active \cup Settled]
         /\ claimed_by' \in [Tasks -> Agents \cup {NULL}]
         /\ age' \in [Tasks -> Ages \cup {NULL}]
  BY DEF TypeOK, Retry, GiveBack, Active, Settled

(* Every step keeps the type invariant.                                    *)
LEMMA NextTypeOK == TypeOK /\ [Next]_vars => TypeOK'
<1> SUFFICES ASSUME TypeOK, [Next]_vars PROVE TypeOK'
  OBVIOUS
<1>1. ASSUME NEW t \in Tasks, PostTask(t) PROVE TypeOK'
  BY <1>1 DEF TypeOK, PostTask, agentVars, watcherVars, Active, Settled
<1>2. ASSUME NEW a \in Agents, ClaimTask(a) PROVE TypeOK'
  <2>1. PICK i \in DOMAIN keys :
          /\ status' = [status EXCEPT ![keys[i]] = "claimed"]
          /\ claimed_by' = [claimed_by EXCEPT ![keys[i]] = a]
          /\ age' = [age EXCEPT ![keys[i]] = 0]
          /\ due' = due \ {keys[i]}
          /\ pc' = [pc EXCEPT ![a] = "claimed"]
          /\ task' = [task EXCEPT ![a] = keys[i]]
          /\ claims' = [claims EXCEPT ![keys[i]] = @ + 1]
    BY <1>2 DEF ClaimTask, Stamp
  <2>2. keys[i] \in Tasks
    BY <2>1 DEF TypeOK
  <2>3. 0 \in Ages
    BY TimeoutAssumption DEF Ages
  <2> QED
    BY <1>2, <2>1, <2>2, <2>3 DEF TypeOK, ClaimTask, Active, Settled
<1>3. ASSUME NEW a \in Agents, StartTask(a) PROVE TypeOK'
  BY <1>3 DEF TypeOK, StartTask, watcherVars, Active, Settled
<1>4. ASSUME NEW a \in Agents, CompleteTask(a) PROVE TypeOK'
  BY <1>4 DEF TypeOK, CompleteTask, Leave, watcherVars, Active, Settled
<1>5. ASSUME NEW a \in Agents, FailTask(a) PROVE TypeOK'
  BY <1>5, RetryTypeOK DEF TypeOK, FailTask, Leave, watcherVars
<1>6. ASSUME NEW a \in Agents, CancelAgent(a) PROVE TypeOK'
  BY <1>6 DEF TypeOK, CancelAgent, Leave, boardVars, watcherVars
<1>7. CASE Tick
  <2>1. age' \in [Tasks -> Ages \cup {NULL}]
    BY <1>7, TimeoutAssumption DEF TypeOK, Tick, Ages
  <2> QED
    BY <1>7, <2>1 DEF TypeOK, Tick, agentVars, watcherVars
<1>8. CASE WatcherWake
  BY <1>8 DEF TypeOK, WatcherWake, boardVars, agentVars
<1>9. CASE WatcherSweep
  BY <1>9, RetryTypeOK DEF TypeOK, WatcherSweep, agentVars
<1>10. CASE UNCHANGED vars
  BY <1>10 DEF TypeOK, vars, boardVars, agentVars, watcherVars
<1> QED
  BY <1>1, <1>2, <1>3, <1>4, <1>5, <1>6, <1>7, <1>8, <1>9, <1>10 DEF Next, AgentStep

(* The board, the agents and the watcher keep their types.                 *)
THEOREM TypeCorrect == Spec => []TypeOK
<1>1. Init => TypeOK
  BY InitTypeOK
<1>2. TypeOK /\ [Next]_vars => TypeOK'
  BY NextTypeOK
<1> QED
  BY <1>1, <1>2, PTL DEF Spec

-----------------------------------------------------------------------------
(***************************************************************************)
(* The budget of claims.  ClaimBudget alone is not inductive: a step that  *)
(* posts a task must leave it fewer claims than retries, and fewer retries *)
(* than the maximum.  Agents do not occur in the invariant, so it does not *)
(* matter who fails a task, or how late.                                   *)
(***************************************************************************)
Budgeted(t) ==
  /\ claims[t] <= retry_count[t] + 1
  /\ claims[t] <= MaxRetries
  /\ status[t] \in {"absent", "posted"} =>
       claims[t] <= retry_count[t] /\ retry_count[t] < MaxRetries
  /\ status[t] = "dead" => retry_count[t] >= MaxRetries

BudgetInv == TypeOK /\ \A t \in Tasks : Budgeted(t)

LEMMA InitBudget == Init => BudgetInv
<1> SUFFICES ASSUME Init PROVE BudgetInv
  OBVIOUS
<1>1. TypeOK
  BY InitTypeOK
<1>2. ASSUME NEW t \in Tasks PROVE Budgeted(t)
  BY MaxRetriesAssumption DEF Init, Budgeted
<1> QED
  BY <1>1, <1>2 DEF BudgetInv

(* A failure leaves every task budgeted, whichever tasks it strikes.       *)
LEMMA RetryBudget ==
  ASSUME BudgetInv, NEW S, Retry(S), claims' = claims, NEW t \in Tasks
  PROVE  Budgeted(t)'
<1> retry_count[t] \in Nat /\ claims[t] \in Nat /\ MaxRetries \in Nat
  BY MaxRetriesAssumption DEF BudgetInv, TypeOK
<1> Budgeted(t) /\ claims'[t] = claims[t]
  BY DEF BudgetInv
<1>1. CASE t \in S
  <2>1. retry_count'[t] = retry_count[t] + 1
    BY <1>1 DEF Retry, GiveBack
  <2>2. status'[t] = IF retry_count[t] + 1 >= MaxRetries THEN "dead" ELSE "posted"
    BY <1>1 DEF Retry, GiveBack
  <2> QED
    BY <2>1, <2>2 DEF Budgeted
<1>2. CASE t \notin S
  <2>1. retry_count'[t] = retry_count[t] /\ status'[t] = status[t]
    BY <1>2 DEF Retry, GiveBack
  <2> QED
    BY <2>1 DEF Budgeted
<1> QED
  BY <1>1, <1>2

LEMMA NextBudget == BudgetInv /\ [Next]_vars => BudgetInv'
<1> SUFFICES ASSUME BudgetInv, [Next]_vars, NEW t \in Tasks
             PROVE  Budgeted(t)'
  BY NextTypeOK DEF BudgetInv
<1> USE DEF Active, Settled
<1> TypeOK /\ Budgeted(t) /\ MaxRetries \in Nat
  BY MaxRetriesAssumption DEF BudgetInv
<1> retry_count[t] \in Nat /\ claims[t] \in Nat
  BY DEF TypeOK
<1>1. ASSUME NEW u \in Tasks, PostTask(u) PROVE Budgeted(t)'
  BY <1>1 DEF PostTask, Budgeted, TypeOK, agentVars
<1>2. ASSUME NEW a \in Agents, ClaimTask(a) PROVE Budgeted(t)'
  <2>1. PICK i \in DOMAIN keys :
          /\ status[keys[i]] = "posted"
          /\ status' = [status EXCEPT ![keys[i]] = "claimed"]
          /\ claims' = [claims EXCEPT ![keys[i]] = @ + 1]
    BY <1>2 DEF ClaimTask, Stamp, Claimable
  <2>2. retry_count' = retry_count
    BY <1>2 DEF ClaimTask, Stamp
  <2>3. CASE t = keys[i]
    <3>1. status'[t] = "claimed" /\ claims'[t] = claims[t] + 1
      BY <2>1, <2>3 DEF TypeOK
    <3> QED
      BY <2>1, <2>2, <2>3, <3>1 DEF Budgeted
  <2>4. CASE t # keys[i]
    <3>1. status'[t] = status[t] /\ claims'[t] = claims[t]
      BY <2>1, <2>4 DEF TypeOK
    <3> QED
      BY <2>2, <3>1 DEF Budgeted
  <2> QED
    BY <2>3, <2>4
<1>3. ASSUME NEW a \in Agents, StartTask(a) \/ CompleteTask(a) PROVE Budgeted(t)'
  <2>1. retry_count' = retry_count /\ claims' = claims
    BY <1>3 DEF StartTask, CompleteTask
  <2>2. status'[t] \in {status[t], "in_progress", "completed"}
    BY <1>3 DEF StartTask, CompleteTask, TypeOK
  <2> QED
    BY <2>1, <2>2 DEF Budgeted
<1>4. ASSUME NEW a \in Agents, FailTask(a) PROVE Budgeted(t)'
  BY <1>4, RetryBudget DEF FailTask
<1>5. ASSUME NEW a \in Agents, CancelAgent(a) PROVE Budgeted(t)'
  BY <1>5 DEF CancelAgent, boardVars, Budgeted
<1>6. CASE Tick \/ WatcherWake
  BY <1>6 DEF Tick, WatcherWake, boardVars, agentVars, Budgeted
<1>7. CASE WatcherSweep
  BY <1>7, RetryBudget DEF WatcherSweep, Swept, agentVars
<1>8. CASE UNCHANGED vars
  BY <1>8 DEF vars, boardVars, agentVars, Budgeted
<1> QED
  BY <1>1, <1>2, <1>3, <1>4, <1>5, <1>6, <1>7, <1>8 DEF Next, AgentStep

LEMMA Budget == Spec => []BudgetInv
<1>1. Init => BudgetInv
  BY InitBudget
<1>2. BudgetInv /\ [Next]_vars => BudgetInv'
  BY NextBudget
<1> QED
  BY <1>1, <1>2, PTL DEF Spec

(* claim_task hands out no task more than max_retries times, however the   *)
(* agents overrun, are cancelled or call late.                             *)
THEOREM ClaimsAreBudgeted == Spec => []ClaimBudget
<1>1. BudgetInv => ClaimBudget
  BY DEF BudgetInv, Budgeted, ClaimBudget
<1> QED
  BY <1>1, Budget, PTL

(* A task whose retries are used up, or that went dead, is never handed    *)
(* out again.                                                              *)
THEOREM ExhaustedStaysOut == Spec => ExhaustedIsNotHandedOut
<1>1. BudgetInv /\ [Next]_vars =>
        [\A t \in Tasks : retry_count[t] >= MaxRetries \/ status[t] = "dead"
                           => claims'[t] = claims[t]]_vars
  <2> SUFFICES ASSUME BudgetInv, Next, NEW t \in Tasks,
                      retry_count[t] >= MaxRetries \/ status[t] = "dead"
               PROVE  claims'[t] = claims[t]
    OBVIOUS
  <2>1. status[t] # "posted"
    <3> retry_count[t] \in Nat /\ MaxRetries \in Nat
      BY MaxRetriesAssumption DEF BudgetInv, TypeOK
    <3> QED
      BY DEF BudgetInv, Budgeted
  <2>2. ASSUME NEW a \in Agents, ClaimTask(a) PROVE claims'[t] = claims[t]
    BY <2>1, <2>2 DEF ClaimTask, Stamp, Claimable, BudgetInv, TypeOK
  <2>3. ASSUME claims' = claims PROVE claims'[t] = claims[t]
    BY <2>3
  <2> QED
    BY <2>2, <2>3 DEF Next, AgentStep, PostTask, StartTask, CompleteTask,
       FailTask, CancelAgent, Tick, WatcherWake, WatcherSweep, agentVars
<1> QED
  BY <1>1, Budget, PTL DEF Spec, ExhaustedIsNotHandedOut

-----------------------------------------------------------------------------
(***************************************************************************)
(* The watcher's clock.  It may be read long before the lock is granted;   *)
(* what it found too old is by then still too old, or no longer claimed.   *)
(***************************************************************************)
DueIsOld == \A t \in due : age[t] \in {NULL, Timeout + 1}

LEMMA NextDueIsOld == TypeOK /\ DueIsOld /\ [Next]_vars => DueIsOld'
<1> SUFFICES ASSUME TypeOK, DueIsOld, [Next]_vars, NEW t \in due'
             PROVE  age'[t] \in {NULL, Timeout + 1}
  BY DEF DueIsOld
<1> Timeout \in Nat /\ due \in SUBSET Tasks
  BY TimeoutAssumption DEF TypeOK
<1>1. ASSUME NEW a \in Agents, ClaimTask(a) PROVE age'[t] \in {NULL, Timeout + 1}
  <2>1. PICK i \in DOMAIN keys : age' = [age EXCEPT ![keys[i]] = 0] /\ due' = due \ {keys[i]}
    BY <1>1 DEF ClaimTask, Stamp
  <2>2. t \in due /\ age'[t] = age[t]
    BY <2>1 DEF TypeOK
  <2> QED
    BY <2>2 DEF DueIsOld
<1>2. ASSUME due' = due, age' = age PROVE age'[t] \in {NULL, Timeout + 1}
  BY <1>2 DEF DueIsOld
<1>3. ASSUME due' = due, NEW S, Retry(S) PROVE age'[t] \in {NULL, Timeout + 1}
  <2>1. t \in Tasks /\ t \in due
    BY <1>3
  <2>2. age'[t] \in {NULL, age[t]}
    BY <1>3, <2>1 DEF Retry, GiveBack
  <2> QED
    BY <2>1, <2>2 DEF DueIsOld
<1>4. CASE Tick
  <2>1. t \in Tasks /\ t \in due
    BY <1>4 DEF Tick, watcherVars
  <2>2. age'[t] = age[t]
    BY <1>4, <2>1, NullAssumption DEF Tick, DueIsOld
  <2> QED
    BY <2>1, <2>2 DEF DueIsOld
<1>5. CASE WatcherWake
  BY <1>5 DEF WatcherWake, boardVars
<1>6. CASE WatcherSweep
  BY <1>6 DEF WatcherSweep, Swept
<1> QED
  BY <1>1, <1>2, <1>3, <1>4, <1>5, <1>6 DEF Next, AgentStep, PostTask, StartTask,
     CompleteTask, FailTask, CancelAgent, vars, boardVars, watcherVars

LEMMA WatcherClock == Spec => [](TypeOK /\ DueIsOld)
<1>1. Init => TypeOK /\ DueIsOld
  BY InitTypeOK DEF Init, DueIsOld
<1>2. TypeOK /\ DueIsOld /\ [Next]_vars => (TypeOK /\ DueIsOld)'
  BY NextTypeOK, NextDueIsOld
<1> QED
  BY <1>1, <1>2, PTL DEF Spec

(* Whatever happens while it waits for the lock, the watcher only changes  *)
(* tasks whose claim is, at that moment, older than the timeout.           *)
THEOREM WatcherIsExact == Spec => OnlyStaleClaimsRevert
<1>1. TypeOK /\ DueIsOld /\ [Next]_vars =>
        [awake /\ ~awake' =>
           \A t \in Tasks : status'[t] # status[t] =>
                              status[t] \in Active /\ age[t] > Timeout]_vars
  <2> SUFFICES ASSUME TypeOK, DueIsOld, Next, awake, ~awake', NEW t \in Tasks,
                      status'[t] # status[t]
               PROVE  status[t] \in Active /\ age[t] > Timeout
    OBVIOUS
  <2>1. WatcherSweep
    BY DEF Next, AgentStep, PostTask, ClaimTask, Stamp, StartTask, CompleteTask, FailTask,
       CancelAgent, Tick, WatcherWake, watcherVars
  <2>2. t \in due /\ status[t] \in Active /\ age[t] # NULL
    BY <2>1 DEF WatcherSweep, Swept, Retry, GiveBack
  <2>3. age[t] = Timeout + 1
    BY <2>2 DEF DueIsOld
  <2> QED
    BY <2>2, <2>3, TimeoutAssumption
<1> QED
  BY <1>1, WatcherClock, PTL DEF Spec, OnlyStaleClaimsRevert

-----------------------------------------------------------------------------
(***************************************************************************)
(* A board with one agent, as each run of the API has.  Nobody else can    *)
(* fail a task between its claim and its start, and the watcher cannot:    *)
(* no time passes, and what it found too old before is not this claim.     *)
(***************************************************************************)
Alone == \A a, b \in Agents : a = b

Watched(t) == status[t] \in Active => age[t] # NULL /\ claimed_by[t] # NULL

Fresh(a) == pc[a] = "claimed" =>
  status[task[a]] = "claimed" /\ age[task[a]] = 0 /\ claimed_by[task[a]] = a

AloneInv ==
  /\ \A t \in Tasks : Watched(t)
  /\ \A a \in Agents : (pc[a] # "idle" => task[a] \in Tasks) /\ Fresh(a)

(* Failed tasks are posted or dead, the others are as they were.           *)
LEMMA RetryKeepsWatched ==
  ASSUME NEW S, Retry(S), NEW t \in Tasks, Watched(t)
  PROVE  Watched(t)'
BY DEF Retry, GiveBack, Watched, Active

LEMMA NextAloneInv ==
  ASSUME Alone, TypeOK, DueIsOld, AloneInv, [Next]_vars
  PROVE  AloneInv'
<1>1. /\ NULL \notin Agents /\ NULL # 0 /\ 0 # Timeout + 1
  BY NullAssumption, TimeoutAssumption
<1>2. ASSUME NEW p \in Tasks, PostTask(p) PROVE AloneInv'
  BY <1>2 DEF TypeOK, AloneInv, Watched, Fresh, PostTask, agentVars, Active
<1>3. ASSUME NEW a \in Agents, ClaimTask(a) PROVE AloneInv'
  <2>1. PICK i \in DOMAIN keys :
          /\ status' = [status EXCEPT ![keys[i]] = "claimed"]
          /\ claimed_by' = [claimed_by EXCEPT ![keys[i]] = a]
          /\ age' = [age EXCEPT ![keys[i]] = 0]
          /\ pc' = [pc EXCEPT ![a] = "claimed"]
          /\ task' = [task EXCEPT ![a] = keys[i]]
    BY <1>3 DEF ClaimTask, Stamp
  <2>2. keys[i] \in Tasks
    BY <2>1 DEF TypeOK
  <2>3. \A t \in Tasks : Watched(t)'
    BY <1>1, <2>1, <2>2 DEF TypeOK, AloneInv, Watched
  <2>4. \A b \in Agents : b = a
    BY DEF Alone
  <2> QED
    BY <2>1, <2>2, <2>3, <2>4 DEF TypeOK, AloneInv, Fresh
<1>4. ASSUME NEW a \in Agents, StartTask(a) PROVE AloneInv'
  <2>1. task[a] \in Tasks /\ age[task[a]] = 0 /\ claimed_by[task[a]] = a
    BY <1>4 DEF AloneInv, Fresh, StartTask
  <2>2. \A t \in Tasks : Watched(t)'
    BY <1>1, <1>4, <2>1 DEF TypeOK, AloneInv, Watched, StartTask
  <2>3. \A b \in Agents : b = a
    BY DEF Alone
  <2> QED
    BY <1>4, <2>1, <2>2, <2>3 DEF TypeOK, AloneInv, Fresh, StartTask
<1>5. ASSUME NEW a \in Agents, CompleteTask(a) \/ FailTask(a) \/ CancelAgent(a)
      PROVE  AloneInv'
  <2>1. pc' = [pc EXCEPT ![a] = "idle"]
    BY <1>5 DEF CompleteTask, FailTask, CancelAgent, Leave
  <2>2. \A b \in Agents : b = a
    BY DEF Alone
  <2>3. \A b \in Agents : pc'[b] = "idle"
    BY <2>1, <2>2 DEF TypeOK
  <2>4. ASSUME NEW t \in Tasks PROVE Watched(t)'
    <3>1. Watched(t)
      BY DEF AloneInv
    <3>2. CASE CompleteTask(a)
      BY <3>1, <3>2 DEF TypeOK, Watched, CompleteTask, Active
    <3>3. CASE FailTask(a)
      BY <3>1, <3>3, RetryKeepsWatched DEF FailTask
    <3>4. CASE CancelAgent(a)
      BY <3>1, <3>4 DEF Watched, CancelAgent, boardVars
    <3> QED
      BY <1>5, <3>2, <3>3, <3>4
  <2> QED
    BY <2>3, <2>4 DEF AloneInv, Fresh
<1>6. CASE Tick
  <2>1. \A a \in Agents : pc[a] # "claimed" /\ pc'[a] = pc[a] /\ task'[a] = task[a]
    BY <1>6 DEF Tick, OnTime, agentVars
  <2>2. \A t \in Tasks : age[t] # NULL => age'[t] # NULL
    BY <1>6, NullAssumption, TimeoutAssumption DEF Tick
  <2> QED
    BY <1>6, <2>1, <2>2 DEF AloneInv, Watched, Fresh, Tick
<1>7. CASE WatcherWake
  BY <1>7 DEF AloneInv, Watched, Fresh, WatcherWake, boardVars, agentVars
<1>8. CASE WatcherSweep
  <2>1. \A t \in Tasks : Watched(t)'
    BY <1>8, RetryKeepsWatched DEF WatcherSweep, AloneInv
  <2>2. pc' = pc /\ task' = task
    BY <1>8 DEF WatcherSweep, agentVars
  <2>3. ASSUME NEW a \in Agents, pc[a] = "claimed"
        PROVE  /\ status'[task[a]] = status[task[a]]
               /\ age'[task[a]] = age[task[a]]
               /\ claimed_by'[task[a]] = claimed_by[task[a]]
    <3>1. task[a] \in Tasks /\ age[task[a]] = 0
      BY <2>3 DEF AloneInv, Fresh
    <3>2. task[a] \notin Swept
      BY <1>1, <3>1 DEF DueIsOld, Swept
    <3> QED
      BY <1>8, <3>1, <3>2 DEF WatcherSweep, Retry, GiveBack
  <2> QED
    BY <2>1, <2>2, <2>3 DEF AloneInv, Fresh
<1>9. CASE UNCHANGED vars
  BY <1>9 DEF AloneInv, Watched, Fresh, vars, boardVars, agentVars
<1> QED
  BY <1>2, <1>3, <1>4, <1>5, <1>6, <1>7, <1>8, <1>9 DEF Next, AgentStep

(* No task of a board with one agent is active without the claimed_at and  *)
(* the agent that _timeout_watcher needs to find it, however late the      *)
(* agent is, and whether or not it is cancelled.                           *)
THEOREM NothingEscapes ==
  ASSUME Alone
  PROVE  Spec => []ActiveIsWatched
<1>1. Init => AloneInv
  BY DEF Init, AloneInv, Watched, Fresh, Active
<1>2. TypeOK /\ DueIsOld /\ AloneInv /\ [Next]_vars => AloneInv'
  BY NextAloneInv
<1>3. AloneInv => ActiveIsWatched
  BY DEF AloneInv, Watched, ActiveIsWatched
<1> QED
  BY <1>1, <1>2, <1>3, WatcherClock, PTL DEF Spec
=============================================================================
