---------------------- MODULE BlackboardRefinementProofs ----------------------
(***************************************************************************)
(* What TLAPS proves of the in-memory blackboard when no handler outlasts  *)
(* the timeout: the agent at work on a task is the one on record, settled  *)
(* tasks stay settled, every retry is one attempt, and the blackboard      *)
(* implements the abstract task board.                                     *)
(***************************************************************************)
EXTENDS BlackboardRefinement, BlackboardProofs

(* An agent that is not idle is the one on record for its task, and its    *)
(* claim is no older than the timeout.                                     *)
Holding(a) ==
  pc[a] # "idle" =>
    /\ task[a] \in Tasks
    /\ claimed_by[task[a]] = a
    /\ status[task[a]] = IF pc[a] = "claimed" THEN "claimed" ELSE "in_progress"
    /\ age[task[a]] \in 0 .. Timeout

(* Claims, retries and the status agree.                                   *)
Counted(t) ==
  /\ claims[t] = AttemptsOf(t)
  /\ status[t] \in {"absent", "posted"} \cup Active => retry_count[t] < MaxRetries
  /\ status[t] = "dead" => retry_count[t] = MaxRetries

PunctualInv ==
  /\ TypeOK
  /\ \A a \in Agents : Holding(a)
  /\ DueIsOld
  /\ \A t \in Tasks : Counted(t)

LEMMA InitPunctual == Init => PunctualInv
<1> SUFFICES ASSUME Init PROVE PunctualInv
  OBVIOUS
<1>1. TypeOK
  BY InitTypeOK
<1>2. DueIsOld
  BY DEF Init, DueIsOld
<1>3. \A a \in Agents : Holding(a)
  BY DEF Init, Holding
<1>4. ASSUME NEW t \in Tasks PROVE Counted(t)
  <2>1. status[t] = "absent" /\ retry_count[t] = 0 /\ claims[t] = 0
    BY DEF Init
  <2> QED
    BY <2>1, MaxRetriesAssumption DEF Counted, AttemptsOf, Active
<1> QED
  BY <1>1, <1>2, <1>3, <1>4 DEF PunctualInv

(* Two agents at work are at work on different tasks.                      *)
LEMMA HoldersDiffer ==
  ASSUME PunctualInv, NEW a \in Agents, NEW b \in Agents, a # b,
         pc[a] # "idle", pc[b] # "idle"
  PROVE  task[a] # task[b]
  BY DEF PunctualInv, Holding

(* A step that touches neither the agent nor its task leaves it its task.  *)
LEMMA HoldingFrame ==
  ASSUME NEW a \in Agents, Holding(a),
         pc'[a] = pc[a], task'[a] = task[a],
         pc[a] # "idle" => /\ status'[task[a]] = status[task[a]]
                           /\ claimed_by'[task[a]] = claimed_by[task[a]]
                           /\ age'[task[a]] \in 0 .. Timeout
  PROVE  Holding(a)'
  BY DEF Holding

(* A failure of the tasks of S, all of them active, and none of them held  *)
(* afterwards.                                                             *)
LEMMA RetryHolding ==
  ASSUME PunctualInv, NEW S, Retry(S), NEW a \in Agents,
         pc'[a] = pc[a], task'[a] = task[a], pc[a] # "idle" => task[a] \notin S
  PROVE  Holding(a)'
<1>1. pc[a] # "idle" => /\ task[a] \in Tasks
                        /\ age[task[a]] \in 0 .. Timeout
                        /\ status'[task[a]] = status[task[a]]
                        /\ claimed_by'[task[a]] = claimed_by[task[a]]
                        /\ age'[task[a]] = age[task[a]]
  BY DEF PunctualInv, Holding, Retry, GiveBack
<1> QED
  BY <1>1, HoldingFrame DEF PunctualInv

LEMMA RetryCounted ==
  ASSUME PunctualInv, NEW S, Retry(S), \A t \in S : status[t] \in Active,
         claims' = claims, NEW t \in Tasks
  PROVE  Counted(t)'
<1> retry_count[t] \in Nat /\ MaxRetries \in Nat /\ Counted(t)
  BY MaxRetriesAssumption DEF PunctualInv, TypeOK
<1>1. CASE t \in S
  <2>1. /\ retry_count'[t] = retry_count[t] + 1
        /\ status'[t] = IF retry_count[t] + 1 >= MaxRetries THEN "dead" ELSE "posted"
    BY <1>1 DEF Retry, GiveBack
  <2>2. retry_count[t] < MaxRetries /\ claims[t] = retry_count[t] + 1
    BY <1>1 DEF Counted, AttemptsOf
  <2> QED
    BY <2>1, <2>2 DEF Counted, AttemptsOf, Active
<1>2. CASE t \notin S
  <2>1. retry_count'[t] = retry_count[t] /\ status'[t] = status[t]
    BY <1>2 DEF Retry, GiveBack
  <2> QED
    BY <2>1 DEF Counted, AttemptsOf
<1> QED
  BY <1>1, <1>2

-----------------------------------------------------------------------------
(* Every step keeps the invariant when the handlers are punctual: time     *)
(* stops for an agent before its claim is too old, so the watcher only     *)
(* finds claims whose agents were cancelled.                               *)
LEMMA NextPunctual ==
  ASSUME Punctual
  PROVE  PunctualInv /\ [Next]_vars => PunctualInv'
<1> SUFFICES ASSUME PunctualInv, [Next]_vars
             PROVE  (\A a \in Agents : Holding(a)') /\ (\A t \in Tasks : Counted(t)')
  BY NextTypeOK, NextDueIsOld DEF PunctualInv
<1> TypeOK /\ DueIsOld /\ Timeout \in Nat /\ MaxRetries \in Nat
  BY TimeoutAssumption, MaxRetriesAssumption DEF PunctualInv
<1>1. ASSUME NEW u \in Tasks, PostTask(u)
      PROVE  (\A a \in Agents : Holding(a)') /\ (\A t \in Tasks : Counted(t)')
  <2>1. ASSUME NEW a \in Agents PROVE Holding(a)'
    <3>1. pc[a] # "idle" => /\ task[a] # u
                            /\ age'[task[a]] \in 0 .. Timeout
      BY <1>1 DEF PostTask, PunctualInv, Holding
    <3>2. pc[a] # "idle" => status'[task[a]] = status[task[a]]
      BY <1>1, <3>1 DEF PostTask, PunctualInv, Holding, TypeOK
    <3> QED
      BY <1>1, <3>1, <3>2, HoldingFrame DEF PostTask, PunctualInv, agentVars
  <2>2. ASSUME NEW t \in Tasks PROVE Counted(t)'
    BY <1>1 DEF PostTask, PunctualInv, Counted, AttemptsOf, Active, TypeOK, agentVars
  <2> QED
    BY <2>1, <2>2
<1>2. ASSUME NEW b \in Agents, ClaimTask(b)
      PROVE  (\A a \in Agents : Holding(a)') /\ (\A t \in Tasks : Counted(t)')
  <2>1. PICK i \in DOMAIN keys :
          /\ status[keys[i]] = "posted"
          /\ status' = [status EXCEPT ![keys[i]] = "claimed"]
          /\ claimed_by' = [claimed_by EXCEPT ![keys[i]] = b]
          /\ age' = [age EXCEPT ![keys[i]] = 0]
          /\ pc' = [pc EXCEPT ![b] = "claimed"]
          /\ task' = [task EXCEPT ![b] = keys[i]]
          /\ claims' = [claims EXCEPT ![keys[i]] = @ + 1]
    BY <1>2 DEF ClaimTask, Stamp, Claimable
  <2> DEFINE u == keys[i]
  <2>2. u \in Tasks /\ retry_count' = retry_count
    BY <1>2 DEF ClaimTask, Stamp, TypeOK
  <2>3. ASSUME NEW a \in Agents PROVE Holding(a)'
    <3>1. CASE a = b
      <4>1. /\ task'[a] = u /\ pc'[a] = "claimed" /\ claimed_by'[u] = a
            /\ status'[u] = "claimed" /\ age'[u] = 0
        BY <2>1, <2>2, <3>1 DEF TypeOK
      <4> QED
        BY <2>2, <4>1 DEF Holding
    <3>2. CASE a # b
      <4>1. pc'[a] = pc[a] /\ task'[a] = task[a]
        BY <2>1, <3>2 DEF TypeOK
      <4>2. pc[a] # "idle" => task[a] \in Tasks /\ task[a] # u
        BY <2>1 DEF PunctualInv, Holding
      <4>3. pc[a] # "idle" => /\ status'[task[a]] = status[task[a]]
                              /\ claimed_by'[task[a]] = claimed_by[task[a]]
                              /\ age'[task[a]] = age[task[a]]
        BY <2>1, <4>2 DEF TypeOK
      <4> QED
        BY <4>1, <4>2, <4>3, HoldingFrame DEF PunctualInv, Holding
    <3> QED
      BY <3>1, <3>2
  <2>4. ASSUME NEW t \in Tasks PROVE Counted(t)'
    <3>1. CASE t = u
      <4>1. status'[t] = "claimed" /\ claims'[t] = claims[t] + 1
        BY <2>1, <2>2, <3>1 DEF TypeOK
      <4>2. status[t] = "posted" /\ Counted(t)
        BY <2>1, <3>1 DEF PunctualInv
      <4> QED
        BY <2>2, <4>1, <4>2 DEF Counted, AttemptsOf, Active
    <3>2. CASE t # u
      <4>1. status'[t] = status[t] /\ claims'[t] = claims[t]
        BY <2>1, <3>2 DEF TypeOK
      <4> QED
        BY <2>2, <4>1 DEF PunctualInv, Counted, AttemptsOf
    <3> QED
      BY <3>1, <3>2
  <2> QED
    BY <2>3, <2>4
<1>3. ASSUME NEW b \in Agents, StartTask(b) \/ CompleteTask(b)
      PROVE  (\A a \in Agents : Holding(a)') /\ (\A t \in Tasks : Counted(t)')
  <2> DEFINE u == task[b]
  <2>1. /\ pc[b] # "idle" /\ u \in Tasks /\ status[u] \in Active
        /\ retry_count' = retry_count /\ claims' = claims
        /\ claimed_by' = claimed_by /\ age' = age
    BY <1>3 DEF StartTask, CompleteTask, PunctualInv, Holding, Active
  <2>2. ASSUME NEW a \in Agents PROVE Holding(a)'
    <3>1. CASE a = b
      BY <1>3, <2>1, <3>1 DEF StartTask, CompleteTask, Leave, PunctualInv, Holding, TypeOK
    <3>2. CASE a # b
      <4>1. pc'[a] = pc[a] /\ task'[a] = task[a]
        BY <1>3, <3>2 DEF StartTask, CompleteTask, Leave, TypeOK
      <4>2. pc[a] # "idle" => task[a] # u
        BY <2>1, <3>2, HoldersDiffer
      <4>3. pc[a] # "idle" => status'[task[a]] = status[task[a]]
        BY <1>3, <4>2 DEF StartTask, CompleteTask, PunctualInv, Holding, TypeOK
      <4> QED
        BY <2>1, <4>1, <4>3, HoldingFrame DEF PunctualInv, Holding
    <3> QED
      BY <3>1, <3>2
  <2>3. ASSUME NEW t \in Tasks PROVE Counted(t)'
    <3>1. CASE t = u
      <4>1. status'[t] \in {"in_progress", "completed"} /\ status[t] \in Active
        BY <1>3, <2>1, <3>1 DEF StartTask, CompleteTask, TypeOK
      <4> QED
        BY <2>1, <4>1 DEF PunctualInv, Counted, AttemptsOf, Active
    <3>2. CASE t # u
      <4>1. status'[t] = status[t]
        BY <1>3, <3>2 DEF StartTask, CompleteTask, TypeOK
      <4> QED
        BY <2>1, <4>1 DEF PunctualInv, Counted, AttemptsOf
    <3> QED
      BY <3>1, <3>2
  <2> QED
    BY <2>2, <2>3
<1>4. ASSUME NEW b \in Agents, FailTask(b)
      PROVE  (\A a \in Agents : Holding(a)') /\ (\A t \in Tasks : Counted(t)')
  <2>1. pc[b] # "idle" /\ status[task[b]] \in Active
    BY <1>4 DEF FailTask, PunctualInv, Holding, Active
  <2>2. ASSUME NEW a \in Agents PROVE Holding(a)'
    <3>1. CASE a = b
      BY <1>4, <3>1 DEF FailTask, Leave, Holding, TypeOK
    <3>2. CASE a # b
      <4>1. pc'[a] = pc[a] /\ task'[a] = task[a]
        BY <1>4, <3>2 DEF FailTask, Leave, TypeOK
      <4>2. pc[a] # "idle" => task[a] \notin {task[b]}
        BY <2>1, <3>2, HoldersDiffer
      <4> QED
        BY <1>4, <4>1, <4>2, RetryHolding DEF FailTask
    <3> QED
      BY <3>1, <3>2
  <2>3. ASSUME NEW t \in Tasks PROVE Counted(t)'
    BY <1>4, <2>1, RetryCounted DEF FailTask
  <2> QED
    BY <2>2, <2>3
<1>5. ASSUME NEW b \in Agents, CancelAgent(b)
      PROVE  (\A a \in Agents : Holding(a)') /\ (\A t \in Tasks : Counted(t)')
  <2>1. ASSUME NEW a \in Agents PROVE Holding(a)'
    <3>1. CASE a = b
      BY <1>5, <3>1 DEF CancelAgent, Leave, Holding, TypeOK
    <3>2. CASE a # b
      <4>1. pc'[a] = pc[a] /\ task'[a] = task[a]
        BY <1>5, <3>2 DEF CancelAgent, Leave, TypeOK
      <4> QED
        BY <1>5, <4>1, HoldingFrame DEF CancelAgent, boardVars, PunctualInv, Holding
    <3> QED
      BY <3>1, <3>2
  <2>2. ASSUME NEW t \in Tasks PROVE Counted(t)'
    BY <1>5 DEF CancelAgent, boardVars, PunctualInv, Counted, AttemptsOf
  <2> QED
    BY <2>1, <2>2
<1>6. CASE Tick
  <2>1. ASSUME NEW a \in Agents PROVE Holding(a)'
    <3>1. pc[a] # "idle" => /\ pc[a] = "working" /\ task[a] \in Tasks
                            /\ age[task[a]] \in 0 .. Timeout - 1
      BY <1>6 DEF Tick, OnTime, PunctualInv, Holding, TypeOK
    <3>2. pc[a] # "idle" => age'[task[a]] \in 0 .. Timeout
      BY <1>6, <3>1 DEF Tick
    <3> QED
      BY <1>6, <3>2, HoldingFrame DEF Tick, agentVars, PunctualInv
  <2>2. ASSUME NEW t \in Tasks PROVE Counted(t)'
    BY <1>6 DEF Tick, agentVars, PunctualInv, Counted, AttemptsOf
  <2> QED
    BY <2>1, <2>2
<1>7. CASE WatcherWake
  BY <1>7 DEF WatcherWake, boardVars, agentVars, PunctualInv, Holding, Counted, AttemptsOf
<1>8. CASE WatcherSweep
  <2> DEFINE S == {t \in due : status[t] \in Active /\ age[t] # NULL}
  <2>1. Retry(S) /\ pc' = pc /\ task' = task /\ claims' = claims
    BY <1>8 DEF WatcherSweep, Swept, agentVars
  <2>2. ASSUME NEW a \in Agents PROVE Holding(a)'
    <3>1. pc[a] # "idle" => task[a] \notin S
      BY DEF DueIsOld, PunctualInv, Holding
    <3> QED
      BY <2>1, <3>1, RetryHolding
  <2>3. ASSUME NEW t \in Tasks PROVE Counted(t)'
    BY <2>1, RetryCounted
  <2> QED
    BY <2>2, <2>3
<1>9. CASE UNCHANGED vars
  BY <1>9 DEF vars, boardVars, agentVars, PunctualInv, Holding, Counted, AttemptsOf
<1> QED
  BY <1>1, <1>2, <1>3, <1>4, <1>5, <1>6, <1>7, <1>8, <1>9 DEF Next, AgentStep

LEMMA PunctualInvariance ==
  ASSUME Punctual
  PROVE  Spec => []PunctualInv
<1>1. Init => PunctualInv
  BY InitPunctual
<1>2. PunctualInv /\ [Next]_vars => PunctualInv'
  BY NextPunctual
<1> QED
  BY <1>1, <1>2, PTL DEF Spec

(* Two agents never hold the same task: the one at work is on record.      *)
THEOREM OneHolder ==
  ASSUME Punctual
  PROVE  Spec => []HolderIsOnRecord
<1>1. PunctualInv => HolderIsOnRecord
  BY DEF PunctualInv, Holding, HolderIsOnRecord
<1> QED
  BY <1>1, PunctualInvariance, PTL

(* A task is dead only after max_retries attempts.                         *)
THEOREM DeadIsDeserved ==
  ASSUME Punctual
  PROVE  Spec => []DeadAfterAllAttempts
<1>1. PunctualInv => DeadAfterAllAttempts
  BY DEF PunctualInv, Counted, AttemptsOf, Active, DeadAfterAllAttempts
<1> QED
  BY <1>1, PunctualInvariance, PTL

-----------------------------------------------------------------------------
(***************************************************************************)
(* Refinement: each step of the blackboard is one of the task board's, or  *)
(* changes nothing the task board sees.                                    *)
(***************************************************************************)

(* The ends of the lifecycle are ends, and completed follows in_progress.  *)
LEMMA SettledStep ==
  ASSUME PunctualInv, [Next]_vars, NEW t \in Tasks
  PROVE  /\ status[t] \in Settled => status'[t] = status[t]
         /\ status[t] # "completed" /\ status'[t] = "completed" => status[t] = "in_progress"
<1> TypeOK
  BY DEF PunctualInv
<1>1. ASSUME NEW u \in Tasks, PostTask(u), status[t] # status'[t]
      PROVE  status[t] = "absent" /\ status'[t] = "posted"
  BY <1>1 DEF PostTask, TypeOK
<1>2. ASSUME NEW a \in Agents, ClaimTask(a), status[t] # status'[t]
      PROVE  status[t] = "posted" /\ status'[t] = "claimed"
  BY <1>2 DEF ClaimTask, Stamp, Claimable, TypeOK
<1>3. ASSUME NEW a \in Agents, StartTask(a), status[t] # status'[t]
      PROVE  status[t] = "claimed" /\ status'[t] = "in_progress"
  BY <1>3 DEF StartTask, TypeOK, PunctualInv, Holding
<1>4. ASSUME NEW a \in Agents, CompleteTask(a), status[t] # status'[t]
      PROVE  status[t] = "in_progress" /\ status'[t] = "completed"
  BY <1>4 DEF CompleteTask, TypeOK, PunctualInv, Holding
<1>5. ASSUME NEW S, Retry(S), \A u \in S : status[u] \in Active, status[t] # status'[t]
      PROVE  status[t] \in Active /\ status'[t] \in {"posted", "dead"}
  BY <1>5 DEF Retry, GiveBack
<1>6. ASSUME NEW a \in Agents, FailTask(a), status[t] # status'[t]
      PROVE  status[t] \in Active /\ status'[t] \in {"posted", "dead"}
  BY <1>5, <1>6 DEF FailTask, PunctualInv, Holding, Active
<1>7. ASSUME WatcherSweep, status[t] # status'[t]
      PROVE  status[t] \in Active /\ status'[t] \in {"posted", "dead"}
  BY <1>5, <1>7 DEF WatcherSweep, Swept
<1>8. ASSUME status' = status PROVE status'[t] = status[t]
  BY <1>8
<1> QED
  BY <1>1, <1>2, <1>3, <1>4, <1>6, <1>7, <1>8
  DEF Next, AgentStep, CancelAgent, Tick, WatcherWake, vars, boardVars, Active, Settled

(* A completed or dead task is never changed again.                        *)
THEOREM SettledForGood ==
  ASSUME Punctual
  PROVE  Spec => SettledIsFinal
<1>1. PunctualInv /\ [Next]_vars =>
        [\A t \in Tasks : status[t] \in Settled => status'[t] = status[t]]_vars
  BY SettledStep
<1> QED
  BY <1>1, PunctualInvariance, PTL DEF Spec, SettledIsFinal

(* A task is only completed by an agent that had started it.               *)
THEOREM LifecycleHolds ==
  ASSUME Punctual
  PROVE  Spec => CompletedFromInProgress
<1>1. PunctualInv /\ [Next]_vars =>
        [\A t \in Tasks : status[t] # "completed" /\ status'[t] = "completed"
                           => status[t] = "in_progress"]_vars
  BY SettledStep
<1> QED
  BY <1>1, PunctualInvariance, PTL DEF Spec, CompletedFromInProgress

-----------------------------------------------------------------------------
LEMMA AbstractInit == Init => Abstract!Init
<1> SUFFICES ASSUME Init PROVE Abstract!Init
  OBVIOUS
<1>1. ASSUME NEW t \in Tasks PROVE StateOf(t) = "absent" /\ AttemptsOf(t) = 0
  <2>1. status[t] = "absent" /\ retry_count[t] = 0
    BY DEF Init
  <2> QED
    BY <2>1 DEF StateOf, AttemptsOf, Active
<1> QED
  BY <1>1 DEF Abstract!Init, stateBar, attemptsBar

(* A step that changes the status of u alone, seen by the task board.      *)
LEMMA OneTaskStep ==
  ASSUME TypeOK, NEW u \in Tasks, NEW s, status' = [status EXCEPT ![u] = s],
         retry_count' = retry_count
  PROVE  /\ stateBar' = [stateBar EXCEPT ![u] = StateOf(u)']
         /\ attemptsBar' = [attemptsBar EXCEPT ![u] = AttemptsOf(u)']
<1>1. ASSUME NEW t \in Tasks, t # u
      PROVE  StateOf(t)' = StateOf(t) /\ AttemptsOf(t)' = AttemptsOf(t)
  <2>1. status'[t] = status[t]
    BY <1>1 DEF TypeOK
  <2> QED
    BY <2>1 DEF StateOf, AttemptsOf
<1> QED
  BY <1>1 DEF stateBar, attemptsBar

(* Failures of active tasks are attempts given up.                         *)
LEMMA RetryIsGiveUp ==
  ASSUME PunctualInv, NEW S \in SUBSET Tasks, Retry(S), \A t \in S : status[t] \in Active
  PROVE  Abstract!GiveUp(S)
<1> MaxRetries \in Nat /\ TypeOK
  BY MaxRetriesAssumption DEF PunctualInv
<1>1. ASSUME NEW t \in S
      PROVE  /\ StateOf(t) = "held" /\ AttemptsOf(t)' = AttemptsOf(t)
             /\ StateOf(t)' = IF AttemptsOf(t) = MaxRetries THEN "dead" ELSE "open"
  <2>1. /\ retry_count[t] \in Nat /\ retry_count[t] < MaxRetries
        /\ status[t] \in Active
    BY DEF TypeOK, PunctualInv, Counted
  <2>2. /\ retry_count'[t] = retry_count[t] + 1
        /\ status'[t] = IF retry_count[t] + 1 >= MaxRetries THEN "dead" ELSE "posted"
    BY <1>1 DEF Retry, GiveBack
  <2> QED
    BY <2>1, <2>2 DEF StateOf, AttemptsOf, Active
<1>2. ASSUME NEW t \in Tasks, t \notin S
      PROVE  StateOf(t)' = StateOf(t) /\ AttemptsOf(t)' = AttemptsOf(t)
  <2>1. status'[t] = status[t] /\ retry_count'[t] = retry_count[t]
    BY <1>2 DEF Retry, GiveBack
  <2> QED
    BY <2>1 DEF StateOf, AttemptsOf
<1>3. attemptsBar' = attemptsBar
  BY <1>1, <1>2 DEF attemptsBar
<1>4. \A t \in S : stateBar[t] = "held"
  BY <1>1 DEF stateBar
<1>5. stateBar' = [t \in Tasks |-> IF t \notin S THEN stateBar[t]
                                   ELSE IF attemptsBar[t] = MaxRetries THEN "dead"
                                   ELSE "open"]
  BY <1>1, <1>2 DEF stateBar, attemptsBar
<1> QED
  BY <1>3, <1>4, <1>5 DEF Abstract!GiveUp

LEMMA AbstractStep == PunctualInv /\ [Next]_vars => [Abstract!Next]_(Abstract!vars)
<1> SUFFICES ASSUME PunctualInv, [Next]_vars
             PROVE  Abstract!Next \/ (stateBar' = stateBar /\ attemptsBar' = attemptsBar)
  BY DEF Abstract!vars
<1> TypeOK
  BY DEF PunctualInv
<1>1. ASSUME status' = status, retry_count' = retry_count
      PROVE  stateBar' = stateBar /\ attemptsBar' = attemptsBar
  BY <1>1 DEF stateBar, attemptsBar, StateOf, AttemptsOf
<1>2. ASSUME NEW t \in Tasks, PostTask(t) PROVE Abstract!Post(t)
  <2>1. /\ StateOf(t) = "absent" /\ StateOf(t)' = "open"
        /\ AttemptsOf(t) = AttemptsOf(t)'
    BY <1>2 DEF PostTask, StateOf, AttemptsOf, Active, TypeOK
  <2> QED
    BY <1>2, <2>1, OneTaskStep DEF PostTask, Abstract!Post, stateBar, attemptsBar
<1>3. ASSUME NEW a \in Agents, ClaimTask(a) PROVE \E t \in Tasks : Abstract!Take(t)
  <2>0. PICK i \in DOMAIN keys :
          /\ status[keys[i]] = "posted"
          /\ status' = [status EXCEPT ![keys[i]] = "claimed"]
    BY <1>3 DEF ClaimTask, Stamp, Claimable
  <2>1. PICK t \in Tasks : /\ status[t] = "posted"
                          /\ status' = [status EXCEPT ![t] = "claimed"]
                          /\ retry_count' = retry_count
    <3>1. keys[i] \in Tasks
      BY <2>0 DEF TypeOK
    <3>2. retry_count' = retry_count
      BY <1>3 DEF ClaimTask, Stamp
    <3> QED
      BY <2>0, <3>1, <3>2
  <2>2. /\ StateOf(t) = "open" /\ StateOf(t)' = "held"
        /\ AttemptsOf(t)' = AttemptsOf(t) + 1
    BY <2>1 DEF StateOf, AttemptsOf, Active, TypeOK
  <2>3. Abstract!Take(t)
    BY <2>1, <2>2, OneTaskStep DEF Abstract!Take, stateBar, attemptsBar
  <2> QED
    BY <2>3
<1>4. ASSUME NEW a \in Agents, StartTask(a)
      PROVE  stateBar' = stateBar /\ attemptsBar' = attemptsBar
  <2>1. PICK t \in Tasks : t = task[a] /\ status[t] = "claimed"
    BY <1>4 DEF StartTask, PunctualInv, Holding
  <2>2. StateOf(t)' = StateOf(t) /\ AttemptsOf(t)' = AttemptsOf(t)
    BY <1>4, <2>1 DEF StartTask, StateOf, AttemptsOf, Active, TypeOK
  <2> QED
    BY <1>4, <2>1, <2>2, OneTaskStep DEF StartTask, stateBar, attemptsBar
<1>5. ASSUME NEW a \in Agents, CompleteTask(a) PROVE \E t \in Tasks : Abstract!Finish(t)
  <2>1. PICK t \in Tasks : t = task[a] /\ status[t] = "in_progress"
    BY <1>5 DEF CompleteTask, PunctualInv, Holding
  <2>2. /\ status' = [status EXCEPT ![t] = "completed"]
        /\ status'[t] = "completed"
        /\ retry_count' = retry_count
    BY <1>5, <2>1 DEF CompleteTask, TypeOK
  <2>3. StateOf(t) = "held" /\ StateOf(t)' = "done"
    BY <2>1, <2>2 DEF StateOf, Active
  <2>4. AttemptsOf(t)' = AttemptsOf(t)
    BY <2>1, <2>2 DEF AttemptsOf, Active
  <2>5. /\ stateBar' = [stateBar EXCEPT ![t] = StateOf(t)']
        /\ attemptsBar' = [attemptsBar EXCEPT ![t] = AttemptsOf(t)']
    BY <2>1, <2>2, OneTaskStep
  <2>6. Abstract!Finish(t)
    BY <2>1, <2>3, <2>4, <2>5 DEF Abstract!Finish, stateBar, attemptsBar
  <2> QED
    BY <2>1, <2>6
<1>6. ASSUME NEW a \in Agents, FailTask(a) PROVE \E S \in SUBSET Tasks : Abstract!GiveUp(S)
  <2>1. task[a] \in Tasks /\ status[task[a]] \in Active
    BY <1>6 DEF FailTask, PunctualInv, Holding, Active
  <2> QED
    BY <1>6, <2>1, RetryIsGiveUp DEF FailTask
<1>7. ASSUME WatcherSweep PROVE \E S \in SUBSET Tasks : Abstract!GiveUp(S)
  BY <1>7, RetryIsGiveUp DEF WatcherSweep, Swept, TypeOK
<1> QED
  BY <1>1, <1>2, <1>3, <1>4, <1>5, <1>6, <1>7
  DEF Next, AgentStep, CancelAgent, Tick, WatcherWake, vars, boardVars, Abstract!Next

(* With punctual handlers the in-memory blackboard implements the task     *)
(* board: no attempt is lost, doubled or given to two agents.              *)
THEOREM BlackboardImplementsTaskBoard ==
  ASSUME Punctual
  PROVE  Spec => Abstract!SafeSpec
<1>1. Init => Abstract!Init
  BY AbstractInit
<1>2. PunctualInv /\ [Next]_vars => [Abstract!Next]_(Abstract!vars)
  BY AbstractStep
<1> QED
  BY <1>1, <1>2, PunctualInvariance, PTL DEF Spec, Abstract!SafeSpec
=============================================================================
