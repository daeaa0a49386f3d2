----------------------------- MODULE TaskBoard ------------------------------
(***************************************************************************)
(* What a task board promises the swarm (the safety mechanisms and the     *)
(* lifecycle in the docstring of src/app/memory/blackboard.py), without    *)
(* agents, clocks or retry counters: a posted task is handed out at most   *)
(* MaxAttempts times, to one holder at a time, and ends up done, or dead   *)
(* after all its attempts.                                                 *)
(***************************************************************************)
EXTENDS Naturals

CONSTANTS
  Tasks,       \* task ids
  MaxAttempts  \* how often a task may be handed out

VARIABLES
  state,    \* task -> where it is in its life
  attempts  \* task -> how often it was handed out

vars == <<state, attempts>>

Init ==
  /\ state = [t \in Tasks |-> "absent"]
  /\ attempts = [t \in Tasks |-> 0]

Post(t) ==
  /\ state[t] = "absent"
  /\ state' = [state EXCEPT ![t] = "open"]
  /\ UNCHANGED attempts

Take(t) ==
  /\ state[t] = "open"
  /\ state' = [state EXCEPT ![t] = "held"]
  /\ attempts' = [attempts EXCEPT ![t] = @ + 1]

Finish(t) ==
  /\ state[t] = "held"
  /\ state' = [state EXCEPT ![t] = "done"]
  /\ UNCHANGED attempts

(* The attempts at the tasks of S end without a result: a handler raised,  *)
(* or one pass of a watcher found them too old.                            *)
GiveUp(S) ==
  /\ \A t \in S : state[t] = "held"
  /\ state' = [t \in Tasks |-> IF t \notin S THEN state[t]
                               ELSE IF attempts[t] = MaxAttempts THEN "dead"
                               ELSE "open"]
  /\ UNCHANGED attempts

Next ==
  \/ \E t \in Tasks : Post(t) \/ Take(t) \/ Finish(t)
  \/ \E S \in SUBSET Tasks : GiveUp(S)

(* An open task is taken, and no attempt lasts for ever.                   *)
Progress(t) ==
  Take(t) \/ Finish(t) \/ \E S \in SUBSET Tasks : t \in S /\ GiveUp(S)

Fairness == \A t \in Tasks : WF_vars(Progress(t))

SafeSpec == Init /\ [][Next]_vars
Spec     == SafeSpec /\ Fairness
=============================================================================
