--------------------------- MODULE RedisBlackboard ---------------------------
(***************************************************************************)
(* The Redis blackboard of the docker backend,                             *)
(* src/app/memory/redis_blackboard.py, with agents that use it through     *)
(* BlackboardRuleRunner._run_worker.  A task is a hash; that it is there   *)
(* to be claimed is an entry in a stream, which one consumer group reads.  *)
(*                                                                         *)
(* There is no lock: each method is several Redis commands, and each       *)
(* command is one atomic step.  Agents only ever read the entries the      *)
(* group has not been given yet (">"), never the entries they were given   *)
(* and did not acknowledge.  So the stream is modelled by the entries      *)
(* still to be delivered, an entry by its task id, and XACK, which nothing *)
(* in the program depends on, changes nothing.                             *)
(***************************************************************************)
EXTENDS Naturals, Sequences, FiniteSets

CONSTANTS
  Tasks,       \* task ids, each posted once
  Agents,      \* agent ids: the consumers of the group
  TypeOf,      \* the type of each task
  Serves,      \* the task_type each agent passes to claim_task, or AnyType
  AnyType,
  MaxRetries,  \* max_retries
  BatchSize,   \* count, the most entries one XREADGROUP returns
  NULL

ASSUME RedisConstants ==
  MaxRetries \in Nat \ {0} /\ BatchSize \in Nat \ {0} /\ NULL \notin Tasks \cup Agents

VARIABLES
  queue,        \* the task ids of the entries not yet delivered to the group
  status,       \* task -> the status field of its hash, "absent" without one
  claimed_by,   \* task -> agent or NULL
  retry_count,  \* task -> its retry_count
  posting,      \* the tasks whose hash is written and whose entry is not
  pc,           \* agent -> the command it issues next
  batch,        \* agent -> entries it was given and has yet to look at
  task,         \* agent -> the task its next command is about
  seen          \* agent -> the retry_count it read, for fail_task

hashVars  == <<status, claimed_by, retry_count>>
agentVars == <<pc, batch, task, seen>>
vars      == <<queue, hashVars, posting, agentVars>>

Active  == {"claimed", "in_progress"}
Settled == {"completed", "dead"}

PCs == {"idle", "scan", "requeue", "take", "claimed", "start", "working",
        "complete", "read", "bury", "readd", "repost"}

TypeOK ==
  /\ queue \in Seq(Tasks)
  /\ status \in [Tasks -> {"absent", "posted"} \cup Active \cup Settled]
  /\ claimed_by \in [Tasks -> Agents \cup {NULL}]
  /\ retry_count \in [Tasks -> Nat]
  /\ posting \subseteq Tasks
  /\ pc \in [Agents -> PCs]
  /\ batch \in [Agents -> Seq(Tasks)]
  /\ task \in [Agents -> Tasks \cup {NULL}]
  /\ seen \in [Agents -> Nat]

Init ==
  /\ queue = << >>
  /\ status = [t \in Tasks |-> "absent"]
  /\ claimed_by = [t \in Tasks |-> NULL]
  /\ retry_count = [t \in Tasks |-> 0]
  /\ posting = {}
  /\ pc = [a \in Agents |-> "idle"]
  /\ batch = [a \in Agents |-> << >>]
  /\ task = [a \in Agents |-> NULL]
  /\ seen = [a \in Agents |-> 0]

Goto(a, from, to) == pc[a] = from /\ pc' = [pc EXCEPT ![a] = to]

-----------------------------------------------------------------------------
(* post_task: HSET, then XADD.                                             *)

PostHash(t) ==
  /\ status[t] = "absent"
  /\ status' = [status EXCEPT ![t] = "posted"]
  /\ posting' = posting \cup {t}
  /\ UNCHANGED <<queue, claimed_by, retry_count, agentVars>>

PostEntry(t) ==
  /\ t \in posting
  /\ posting' = posting \ {t}
  /\ queue' = Append(queue, t)
  /\ UNCHANGED <<hashVars, agentVars>>

-----------------------------------------------------------------------------
(* claim_task.                                                             *)

(* XREADGROUP ">": the next entries of the stream, at most BatchSize.      *)
ReadGroup(a) ==
  LET n == IF Len(queue) < BatchSize THEN Len(queue) ELSE BatchSize IN
  /\ n > 0
  /\ Goto(a, "idle", "scan")
  /\ batch' = [batch EXCEPT ![a] = SubSeq(queue, 1, n)]
  /\ queue' = SubSeq(queue, n + 1, Len(queue))
  /\ UNCHANGED <<hashVars, posting, task, seen>>

ScanTo(a, pcAfter, batchAfter) ==
  /\ batch[a] # << >>
  /\ Goto(a, "scan", pcAfter)
  /\ task' = [task EXCEPT ![a] = Head(batch[a])]
  /\ batch' = [batch EXCEPT ![a] = batchAfter]
  /\ UNCHANGED <<queue, hashVars, posting, seen>>

AfterEntry(a, t) == IF Serves[a] \in {AnyType, TypeOf[t]} THEN "take" ELSE "requeue"

\* Mutants: the status of the task is not checked; an entry for another
\* agent is put back and looked at again.
ScanUnchecked(a) == ScanTo(a, AfterEntry(a, Head(batch[a])), Tail(batch[a]))
ScanKeeping(a) ==
  LET t    == Head(batch[a])
      next == IF status[t] # "posted" THEN "scan" ELSE AfterEntry(a, t)
  IN  ScanTo(a, next, IF next = "requeue" THEN batch[a] ELSE Tail(batch[a]))

(* HGETALL of the next entry's task: an entry of a task that is not posted *)
(* is dropped, one for another agent goes back to the end of the stream,   *)
(* the first that fits is taken.                                           *)
Scan(a) ==
  LET t == Head(batch[a])
  IN  ScanTo(a, IF status[t] # "posted" THEN "scan" ELSE AfterEntry(a, t), Tail(batch[a]))

ScanEnds(a) ==
  /\ batch[a] = << >>
  /\ Goto(a, "scan", "idle")
  /\ task' = [task EXCEPT ![a] = NULL]
  /\ UNCHANGED <<queue, hashVars, posting, batch, seen>>

(* XACK and XADD.                                                          *)
Requeue(a) ==
  /\ Goto(a, "requeue", "scan")
  /\ queue' = Append(queue, task[a])
  /\ UNCHANGED <<hashVars, posting, batch, task, seen>>

\* Mutant: the status is misspelt.
TakeMisspelt(a) ==
  /\ Goto(a, "take", "claimed")
  /\ status' = [status EXCEPT ![task[a]] = "taken"]
  /\ claimed_by' = [claimed_by EXCEPT ![task[a]] = a]
  /\ batch' = [batch EXCEPT ![a] = << >>]
  /\ UNCHANGED <<queue, retry_count, posting, task, seen>>

(* HSET and return.  The entries of the batch that were not looked at are  *)
(* forgotten: delivered to this consumer, never to be delivered again.     *)
Take(a) ==
  /\ Goto(a, "take", "claimed")
  /\ status' = [status EXCEPT ![task[a]] = "claimed"]
  /\ claimed_by' = [claimed_by EXCEPT ![task[a]] = a]
  /\ batch' = [batch EXCEPT ![a] = << >>]
  /\ UNCHANGED <<queue, retry_count, posting, task, seen>>

-----------------------------------------------------------------------------
(* start_task and complete_task: HGETALL, then HSET of the whole hash.     *)
(* Between the two nobody else writes a hash this agent holds.             *)

PatchRead(a, from, to) ==
  /\ Goto(a, from, to)
  /\ UNCHANGED <<queue, hashVars, posting, batch, task, seen>>

StartTask(a) ==
  /\ Goto(a, "start", "working")
  /\ status' = [status EXCEPT ![task[a]] = "in_progress"]
  /\ UNCHANGED <<queue, claimed_by, retry_count, posting, batch, task, seen>>

Leave(a, from) == Goto(a, from, "idle") /\ task' = [task EXCEPT ![a] = NULL]

CompleteTask(a) ==
  /\ Leave(a, "complete")
  /\ status' = [status EXCEPT ![task[a]] = "completed"]
  /\ UNCHANGED <<queue, claimed_by, retry_count, posting, batch, seen>>

-----------------------------------------------------------------------------
(* fail_task: HGETALL; then HSET of a dead task, or XADD and after it the  *)
(* HSET that posts the task again.                                         *)

FailTo(a, next) ==
  /\ Goto(a, "read", next)
  /\ seen' = [seen EXCEPT ![a] = retry_count[task[a]]]
  /\ UNCHANGED <<queue, hashVars, posting, batch, task>>

\* Mutant: the limit is off by one.
FailReadOnceMore(a) ==
  FailTo(a, IF retry_count[task[a]] + 1 > MaxRetries THEN "bury" ELSE "readd")

FailRead(a) ==
  FailTo(a, IF retry_count[task[a]] + 1 >= MaxRetries THEN "bury" ELSE "readd")

Bury(a) ==
  /\ Leave(a, "bury")
  /\ status' = [status EXCEPT ![task[a]] = "dead"]
  /\ retry_count' = [retry_count EXCEPT ![task[a]] = seen[a] + 1]
  /\ UNCHANGED <<queue, claimed_by, posting, batch, seen>>

Readd(a) ==
  /\ Goto(a, "readd", "repost")
  /\ queue' = Append(queue, task[a])
  /\ UNCHANGED <<hashVars, posting, batch, task, seen>>

Repost(a) ==
  /\ Leave(a, "repost")
  /\ status' = [status EXCEPT ![task[a]] = "posted"]
  /\ claimed_by' = [claimed_by EXCEPT ![task[a]] = NULL]
  /\ retry_count' = [retry_count EXCEPT ![task[a]] = seen[a] + 1]
  /\ UNCHANGED <<queue, posting, batch, seen>>

-----------------------------------------------------------------------------
(* The agent's process dies, or its coroutine is cancelled, between two    *)
(* commands.  The hashes and the stream are kept; what it had read is not. *)
AgentDies(a) ==
  /\ pc[a] # "idle"
  /\ pc' = [pc EXCEPT ![a] = "idle"]
  /\ batch' = [batch EXCEPT ![a] = << >>]
  /\ task' = [task EXCEPT ![a] = NULL]
  /\ UNCHANGED <<queue, hashVars, posting, seen>>

(* The handler is done, or it raised.                                      *)
HandlerEnds(a) ==
  PatchRead(a, "working", "complete") \/ PatchRead(a, "working", "read")

AgentStep(a) ==
  \/ ReadGroup(a) \/ Scan(a) \/ ScanEnds(a) \/ Requeue(a) \/ Take(a)
  \/ PatchRead(a, "claimed", "start") \/ StartTask(a)
  \/ HandlerEnds(a) \/ CompleteTask(a)
  \/ FailRead(a) \/ Bury(a) \/ Readd(a) \/ Repost(a)

Live ==
  \/ \E t \in Tasks : PostHash(t) \/ PostEntry(t)
  \/ \E a \in Agents : AgentStep(a)

Next == Live \/ \E a \in Agents : AgentDies(a)

(* Every command is answered, and a handler ends.                          *)
Fairness ==
  /\ \A t \in Tasks : WF_vars(PostEntry(t))
  /\ \A a \in Agents : WF_vars(AgentStep(a))

Spec == Init /\ [][Next]_vars

(* The same, when no agent dies.                                           *)
LiveSpec == Init /\ [][Live]_vars /\ Fairness

-----------------------------------------------------------------------------
(* What the stream and the hashes guarantee, whoever dies.                 *)

Positions(t, q) == {i \in DOMAIN q : q[i] = t}

(* The agents that are about to add an entry for t, or to take t.          *)
Carriers(t) == {a \in Agents : task[a] = t /\ pc[a] \in {"requeue", "take"}}

(* The entries of t somebody may still act on.                             *)
LiveEntries(t) ==
  Positions(t, queue)
  \cup (UNION {{<<a, i>> : i \in Positions(t, batch[a])} : a \in Agents})
  \cup {<<a, 0>> : a \in Carriers(t)}

(* A task is never in the stream twice: requeueing and failing replace the *)
(* one entry that was consumed.  No two agents can find the same posted    *)
(* task, which is what makes claiming atomic without a lock.               *)
AtMostOneEntry ==
  \A t \in Tasks : Cardinality(LiveEntries(t)) <= 1

(* An agent from its claim to the end of its handler is the one on record, *)
(* and no other agent is between the same commands for the task.           *)
Holds(a) == pc[a] \notin {"idle", "scan", "requeue", "take"}

HolderIsOnRecord ==
  \A a \in Agents : Holds(a) =>
     /\ claimed_by[task[a]] = a
     /\ status[task[a]] \in Active
     /\ \A b \in Agents \ {a} : Holds(b) => task[b] # task[a]

-----------------------------------------------------------------------------
(* What the docker backend is said to share with the in-memory board.      *)

StateOf(t) ==
  CASE status[t] = "posted"             -> "open"
    [] status[t] \in Active             -> "held"
    [] status[t] = "completed"          -> "done"
    [] status[t] \in {"absent", "dead"} -> status[t]

AttemptsOf(t) ==
  IF status[t] \in Active \cup {"completed"} THEN retry_count[t] + 1
                                             ELSE retry_count[t]

stateBar    == [t \in Tasks |-> StateOf(t)]
attemptsBar == [t \in Tasks |-> AttemptsOf(t)]

Abstract == INSTANCE TaskBoard WITH
  MaxAttempts <- MaxRetries,
  state       <- stateBar,
  attempts    <- attemptsBar

(* Every step is one of the abstract task board's: a task is handed out to *)
(* one agent at a time, completed once, and dead after max_retries.        *)
ImplementsTaskBoard == Abstract!SafeSpec

(* A posted task does not wait for ever while agents look for work.        *)
PostedIsTaken == \A t \in Tasks : status[t] = "posted" ~> status[t] # "posted"
=============================================================================
