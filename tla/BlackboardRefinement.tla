------------------------ MODULE BlackboardRefinement ------------------------
(***************************************************************************)
(* The in-memory blackboard implements the abstract task board as long as  *)
(* no handler outlasts the timeout.  The attempts at a task are its        *)
(* retry_count, and the attempt that is running or has succeeded.          *)
(***************************************************************************)
EXTENDS Blackboard

StateOf(t) ==
  CASE status[t] = "posted"             -> "open"
    [] status[t] \in Active             -> "held"
    [] status[t] = "completed"          -> "done"
    [] status[t] \in {"absent", "dead"} -> status[t]

AttemptsOf(t) ==
  IF status[t] \in Active \cup {"completed"} THEN retry_count[t] + 1
                                             ELSE retry_count[t]

stateBar    == [t \in Tasks |-> StateOf(t)]
attemptsBar == [t \in Tasks |-> AttemptsOf(t)]

Abstract == INSTANCE TaskBoard WITH
  MaxAttempts <- MaxRetries,
  state       <- stateBar,
  attempts    <- attemptsBar

(* Every behaviour of the blackboard is one of the task board's, and what  *)
(* the event loop schedules is enough for the task board's progress.       *)
ImplementsTaskBoard == Abstract!Spec
=============================================================================
