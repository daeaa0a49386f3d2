---------------------------- MODULE RunRegistry ----------------------------
(***************************************************************************)
(* The life of a test run and the event streams that report it:            *)
(* run_rules (src/app/api/routes.py), the registry of runs                 *)
(* (src/app/runtime/run_registry.py), the stream of src/app/api/sse.py     *)
(* and the dashboard that reads it (src/frontend/src/lib/sse.ts).          *)
(*                                                                         *)
(* On the memory backend an event goes to a bounded queue per connection,  *)
(* and publishing never suspends; on docker it goes to a Redis channel, by *)
(* a call that suspends and may raise; Redis keeps a buffer per reader,    *)
(* and those readers are left out.  A request runs alone from one          *)
(* suspension to the next, and so does an action.  The registry's lock is  *)
(* never held across a suspension, so it is not a step of its own.         *)
(***************************************************************************)
EXTENDS Naturals, Sequences, FiniteSets, SequencesExt

CONSTANTS
  Backends,    \* storage_backend may be any of these: "memory", "docker"
  MaxRequests, \* bound: POSTs to /run
  MaxRuns,     \* max_runs of the registry
  MaxSteps,    \* bound: events the agents of all runs emit
  Conns,       \* connections to the stream; a closed one may connect again
  QueueSize    \* maxsize of a connection's queue

ASSUME RunRegistryConstants ==
  /\ Backends \subseteq {"memory", "docker"}
  /\ MaxRuns \in Nat \ {0} /\ QueueSize \in Nat \ {0}
  /\ MaxRequests \in Nat /\ MaxSteps \in Nat

VARIABLES
  backend,      \* the backend the process was started with
  pc,           \* request -> the point its coroutine is suspended at
  runs,         \* _runs: run id -> its record
  order,        \* _run_order
  steps,        \* events the agents have emitted, or left to a task
  detached,     \* request -> tasks with an event of its agents yet to run
  subscribers,  \* _subscribers: connections whose queue is in it
  conn,         \* connection -> how far it has come
  queue,        \* connection -> events it has yet to be sent
  shown,        \* connection -> events the dashboard's stores have handled
  published,    \* history: every event of the stream, or of the Redis channel
  since,        \* history: connection -> events published before it subscribed
  sent          \* history: connection -> events it was sent

registryVars == <<runs, order>>
streamVars   == <<subscribers, queue, published>>
readerVars   == <<conn, shown, since, sent>>
agentVars    == <<steps, detached>>
vars == <<backend, pc, registryVars, agentVars, streamVars, readerVars>>

\* A request is named, and names its run, by the order in which they begin.
Requests == 1 .. MaxRequests

Endings == {"RUN_COMPLETE", "RUN_FAILED"}

\* EXECUTION_STEP stands for what the agents emit and await, VERDICT for what
\* they leave to a task: VERDICT and COST_UPDATE.  An event's run is the request
\* it comes from; what it says of that itself, which nobody reads, may be
\* nothing, or the id that langgraph mode makes up.
Kinds  == Endings \cup {"RUN_START", "EXECUTION_STEP", "VERDICT"}
Events == [run : Requests, kind : Kinds]

\* metadata, summary, error: whether the record has the field.
Record == [status : {"started", "completed", "failed"}, metadata : BOOLEAN,
           summary : BOOLEAN, error : BOOLEAN]

\* Type correctness, queues within their maxsize, and the
\* registry within max_runs, its list of ids and its records in step: a run
\* that was evicted and ends later comes back once and evicts another.
TypeOK ==
  /\ backend \in Backends
  /\ pc \in [Requests -> {"idle", "emit_start", "setup", "running",
                          "emit_complete", "emit_failed", "over"}]
  /\ order \in Seq(Requests) /\ IsInjective(order) /\ Len(order) <= MaxRuns
  /\ runs \in [ToSet(order) -> Record]
  /\ steps \in 0 .. MaxSteps /\ detached \in [Requests -> Nat]
  /\ subscribers \subseteq Conns
  /\ conn \in [Conns -> {"closed", "handed", "open", "abandoned"}]
  /\ queue \in [Conns -> Seq(Events)] /\ shown \in [Conns -> Seq(Events)]
  /\ \A q \in Conns : Len(queue[q]) <= QueueSize
  /\ published \in Seq(Events)
  /\ since \in [Conns -> Nat] /\ sent \in [Conns -> Nat]

Init ==
  /\ backend \in Backends
  /\ pc = [r \in Requests |-> "idle"]
  /\ runs = <<>> /\ order = <<>>
  /\ steps = 0 /\ detached = [r \in Requests |-> 0]
  /\ subscribers = {}
  /\ conn = [q \in Conns |-> "closed"]
  /\ queue = [q \in Conns |-> <<>>]
  /\ shown = [q \in Conns |-> <<>>]
  /\ published = <<>>
  /\ since = [q \in Conns |-> 0]
  /\ sent = [q \in Conns |-> 0]

----------------------------------------------------------------------------
(* The streams                                                             *)

\* Mutants: an event for a full queue is passed over; the queues have no
\* maxsize.
PublishLossy(e) ==
  /\ queue' = [q \in Conns |-> IF q \in subscribers /\ Len(queue[q]) < QueueSize
                              THEN Append(queue[q], e) ELSE queue[q]]
  /\ published' = Append(published, e)
  /\ UNCHANGED subscribers
PublishUnbounded(e) ==
  /\ queue' = [q \in Conns |-> IF q \in subscribers
                              THEN Append(queue[q], e) ELSE queue[q]]
  /\ published' = Append(published, e)
  /\ UNCHANGED subscribers

\* put_nowait to every subscriber; one whose queue is full is discarded, and
\* nothing puts it back.
Publish(e) ==
  LET stale == {q \in subscribers : Len(queue[q]) >= QueueSize}
  IN /\ queue' = [q \in Conns |-> IF q \in subscribers \ stale
                                  THEN Append(queue[q], e) ELSE queue[q]]
     /\ subscribers' = subscribers \ stale
     /\ published' = Append(published, e)

\* RunRegistry.publish: on docker nobody subscribes to the registry's own
\* queues, and its events reach no stream.
RegistryPublish(e) ==
  IF backend = "memory" THEN Publish(e) ELSE UNCHANGED streamVars

\* emit_app_event on docker raises or not; when it raises, the event may have
\* gone out all the same.
Emit(e, raises) ==
  /\ \/ published' = Append(published, e)
     \/ raises /\ UNCHANGED published
  /\ UNCHANGED <<queue, subscribers>>

----------------------------------------------------------------------------
(* The registry                                                            *)

\* Mutant: the registry is trimmed when it holds one run too many.
TrimmedLate(r) ==
  LET ids == Append(order, r)
  IN IF Len(ids) > MaxRuns + 1 THEN Tail(ids) ELSE ids

\* Appends r and removes the oldest runs beyond max_runs, as _trim does.
Trimmed(r) ==
  LET ids == Append(order, r)
  IN IF Len(ids) > MaxRuns THEN SubSeq(ids, Len(ids) - MaxRuns + 1, Len(ids)) ELSE ids

Keep(r, record) ==
  /\ order' = IF r \in ToSet(order) THEN order ELSE Trimmed(r)
  /\ runs' = [i \in ToSet(order') |-> IF i = r THEN record ELSE runs[i]]

\* The record of a run, or the one that takes the place of an evicted record.
Current(r) ==
  IF r \in DOMAIN runs THEN runs[r]
  ELSE [status |-> "started", metadata |-> FALSE, summary |-> FALSE, error |-> FALSE]

complete_run(r) ==
  /\ Keep(r, [Current(r) EXCEPT !.status = "completed", !.summary = TRUE])
  /\ RegistryPublish([run |-> r, kind |-> "RUN_COMPLETE"])

\* Mutants: the error is recorded but not the status; nothing is published.
fail_runNoStatus(r) ==
  /\ Keep(r, [Current(r) EXCEPT !.error = TRUE])
  /\ RegistryPublish([run |-> r, kind |-> "RUN_FAILED"])
fail_runSilent(r) ==
  /\ Keep(r, [Current(r) EXCEPT !.status = "failed", !.error = TRUE])
  /\ UNCHANGED streamVars

fail_run(r) ==
  /\ Keep(r, [Current(r) EXCEPT !.status = "failed", !.error = TRUE])
  /\ RegistryPublish([run |-> r, kind |-> "RUN_FAILED"])

----------------------------------------------------------------------------
(* run_rules                                                               *)

Go(r, from, to) == pc[r] = from /\ pc' = [pc EXCEPT ![r] = to]

\* create_run, its RUN_START, and on docker the emission that follows.
CreateRun(r) ==
  /\ \A earlier \in 1 .. r - 1 : pc[earlier] # "idle"
  /\ Go(r, "idle", IF backend = "docker" THEN "emit_start" ELSE "setup")
  /\ Keep(r, [status |-> "started", metadata |-> TRUE, summary |-> FALSE, error |-> FALSE])
  /\ RegistryPublish([run |-> r, kind |-> "RUN_START"])
  /\ UNCHANGED <<backend, agentVars, readerVars>>

\* The emission of RUN_START is outside the try: when it raises the request
\* ends, and the run stays "started".
EmitStart(r) ==
  /\ \E raises \in BOOLEAN :
       /\ Go(r, "emit_start", IF raises THEN "over" ELSE "setup")
       /\ Emit([run |-> r, kind |-> "RUN_START"], raises)
  /\ UNCHANGED <<backend, registryVars, agentVars, readerVars>>

\* get_rule_store, seed_starter_rules, get_execution_log and the clients,
\* outside the try as well.
SetUp(r) ==
  /\ \E raises \in BOOLEAN : Go(r, "setup", IF raises THEN "over" ELSE "running")
  /\ UNCHANGED <<backend, registryVars, agentVars, streamVars, readerVars>>

Tell(e) == IF backend = "memory" THEN Publish(e) ELSE Emit(e, TRUE)

\* An agent of the run emits an event; what the emission raises is logged.
AgentStep(r) ==
  /\ pc[r] = "running" /\ steps < MaxSteps
  /\ steps' = steps + 1
  /\ Tell([run |-> r, kind |-> "EXECUTION_STEP"])
  /\ UNCHANGED <<backend, pc, registryVars, detached, readerVars>>

\* The oracle or the cost tracker makes a task of the emission of an event.
AgentDetaches(r) ==
  /\ pc[r] = "running" /\ steps < MaxSteps
  /\ steps' = steps + 1
  /\ detached' = [detached EXCEPT ![r] = @ + 1]
  /\ UNCHANGED <<backend, pc, registryVars, streamVars, readerVars>>

\* Such a task runs, whatever has become of the run; nobody hears what it raises.
DetachedRuns(r) ==
  /\ detached[r] > 0
  /\ detached' = [detached EXCEPT ![r] = @ - 1]
  /\ Tell([run |-> r, kind |-> "VERDICT"])
  /\ UNCHANGED <<backend, pc, registryVars, steps, readerVars>>

\* Mutant: a mode does not return after complete_run, and the next one runs.
RunEndsNoReturn(r) ==
  /\ Go(r, "running", IF backend = "docker" THEN "emit_complete" ELSE "running")
  /\ complete_run(r)
  /\ UNCHANGED <<backend, agentVars, readerVars>>

\* The runner returns: complete_run, and on docker the emission that follows.
RunEnds(r) ==
  /\ Go(r, "running", IF backend = "docker" THEN "emit_complete" ELSE "over")
  /\ complete_run(r)
  /\ UNCHANGED <<backend, agentVars, readerVars>>

\* The runner raises: fail_run, and on docker the emission that follows.
RunRaises(r) ==
  /\ Go(r, "running", IF backend = "docker" THEN "emit_failed" ELSE "over")
  /\ fail_run(r)
  /\ UNCHANGED <<backend, agentVars, readerVars>>

\* The emission of RUN_COMPLETE is inside the try: when it raises, the run
\* that was completed fails.
EmitComplete(r) ==
  \/ /\ Go(r, "emit_complete", "over")
     /\ Emit([run |-> r, kind |-> "RUN_COMPLETE"], FALSE)
     /\ UNCHANGED <<backend, registryVars, agentVars, readerVars>>
  \/ /\ Go(r, "emit_complete", "emit_failed")
     /\ Emit([run |-> r, kind |-> "RUN_COMPLETE"], TRUE)
     /\ Keep(r, [Current(r) EXCEPT !.status = "failed", !.error = TRUE])
     /\ UNCHANGED <<backend, agentVars, readerVars>>

\* The request ends here whether the emission raises or not.
EmitFailed(r) ==
  /\ Go(r, "emit_failed", "over")
  /\ Emit([run |-> r, kind |-> "RUN_FAILED"], TRUE)
  /\ UNCHANGED <<backend, registryVars, agentVars, readerVars>>

----------------------------------------------------------------------------
(* The readers of the stream                                               *)

\* What is kept of a connection for checking starts afresh.
Reset(q, from) ==
  /\ since' = [since EXCEPT ![q] = from]
  /\ sent' = [sent EXCEPT ![q] = 0]
  /\ shown' = [shown EXCEPT ![q] = <<>>]

\* stream_testing_events subscribes a queue before it returns its response.
Connect(q) ==
  /\ backend = "memory" /\ conn[q] = "closed"
  /\ conn' = [conn EXCEPT ![q] = "handed"]
  /\ subscribers' = subscribers \cup {q}
  /\ Reset(q, Len(published))
  /\ UNCHANGED <<backend, pc, registryVars, agentVars, queue, published>>

StartStream(q) ==
  /\ conn[q] = "handed"
  /\ conn' = [conn EXCEPT ![q] = "open"]
  /\ UNCHANGED <<backend, pc, registryVars, agentVars, streamVars, shown, since, sent>>

\* The client goes away before the generator has started: its finally never
\* runs, and its queue stays subscribed.
Abandon(q) ==
  /\ conn[q] = "handed"
  /\ conn' = [conn EXCEPT ![q] = "abandoned"]
  /\ UNCHANGED <<backend, pc, registryVars, agentVars, streamVars, shown, since, sent>>

\* A queue no longer subscribed is garbage; the connection stands for a new one.
Collect(q) ==
  /\ conn[q] = "abandoned" /\ q \notin subscribers
  /\ conn' = [conn EXCEPT ![q] = "closed"]
  /\ queue' = [queue EXCEPT ![q] = <<>>]
  /\ Reset(q, 0)
  /\ UNCHANGED <<backend, pc, registryVars, agentVars, subscribers, published>>

\* The name an event has on the wire, and the stores routeEvent gives it to.
\* A browser gives onmessage the events named "message" and no others.
Routed(e)   == e.kind \in {"EXECUTION_STEP", "VERDICT"}
WireName(e) == IF Routed(e) THEN "tool_result" ELSE "lifecycle"
OnMessage(q, e) ==
  IF WireName(e) = "message" /\ Routed(e) THEN Append(shown[q], e) ELSE shown[q]

\* Mutant: the generator stops at the end of a run.
SendOneRun(q) ==
  /\ conn[q] = "open" /\ queue[q] # <<>>
  /\ \A i \in since[q] + 1 .. since[q] + sent[q] : published[i].kind \notin Endings
  /\ queue' = [queue EXCEPT ![q] = Tail(@)]
  /\ sent' = [sent EXCEPT ![q] = @ + 1]
  /\ shown' = [shown EXCEPT ![q] = OnMessage(q, Head(queue[q]))]
  /\ UNCHANGED <<backend, pc, registryVars, agentVars, subscribers, published, conn, since>>

Send(q) ==
  /\ conn[q] = "open" /\ queue[q] # <<>>
  /\ queue' = [queue EXCEPT ![q] = Tail(@)]
  /\ sent' = [sent EXCEPT ![q] = @ + 1]
  /\ shown' = [shown EXCEPT ![q] = OnMessage(q, Head(queue[q]))]
  /\ UNCHANGED <<backend, pc, registryVars, agentVars, subscribers, published, conn, since>>

\* The generator sees the client is gone, and its finally unsubscribes.
\* EventSource connects again by itself.
Disconnect(q) ==
  /\ conn[q] = "open"
  /\ conn' = [conn EXCEPT ![q] = "closed"]
  /\ subscribers' = subscribers \ {q}
  /\ queue' = [queue EXCEPT ![q] = <<>>]
  /\ Reset(q, 0)
  /\ UNCHANGED <<backend, pc, registryVars, agentVars, published>>

----------------------------------------------------------------------------
RunStep(r) ==
  \/ EmitStart(r) \/ SetUp(r) \/ AgentStep(r) \/ AgentDetaches(r)
  \/ RunEnds(r) \/ RunRaises(r) \/ EmitComplete(r) \/ EmitFailed(r)

ReaderStep(q) ==
  \/ Connect(q) \/ StartStream(q) \/ Abandon(q) \/ Collect(q) \/ Send(q)
  \/ Disconnect(q)

Next == \/ \E r \in Requests : CreateRun(r) \/ RunStep(r) \/ DetachedRuns(r)
        \/ \E q \in Conns : ReaderStep(q)

\* The event loop runs every coroutine that is ready: requests, tasks and the
\* generators of open streams go on.  Nobody has to start a run or to read.
Fairness == /\ \A r \in Requests : WF_vars(RunStep(r)) /\ WF_vars(DetachedRuns(r))
            /\ \A q \in Conns : WF_vars(Send(q))

Spec == Init /\ [][Next]_vars /\ Fairness

----------------------------------------------------------------------------
(* Properties                                                              *)

\* Where the stream has events of r, and the endings it has told of r.
OfRun(r) == {i \in DOMAIN published : published[i].run = r}
Told(r)  == {published[i].kind : i \in OfRun(r)} \cap Endings

MayFollow(kind, earlier) ==
  CASE kind = "RUN_START"                         -> FALSE
    [] kind \in {"EXECUTION_STEP", "RUN_COMPLETE"} -> earlier \notin Endings
    [] kind = "VERDICT"                           -> TRUE
    [] kind = "RUN_FAILED"                        -> earlier # "RUN_FAILED"

\* The stream tells one story per run, however its publishers interleave:
\* started once and first, then the steps, then one ending, which nothing
\* follows but the events that were left to a task.  On docker any of it may be
\* missing, and a failure may follow a completion.
OneStory ==
  \A r \in Requests :
    /\ \A i, j \in OfRun(r) : i < j => MayFollow(published[j].kind, published[i].kind)
    /\ backend = "memory" =>
         /\ OfRun(r) # {} => \E i \in OfRun(r) : published[i].kind = "RUN_START"
         /\ Cardinality(Told(r)) <= 1

\* GET /runs and the stream do not contradict each other: no failure is told
\* of a run on record as anything else, and on the memory backend each ending
\* on record is the one that was told, also of a run evicted and put back.
RecordMatchesStory ==
  \A r \in DOMAIN runs :
    /\ "RUN_FAILED" \in Told(r) => runs[r].status = "failed"
    /\ backend = "memory" =>
         Told(r) = CASE runs[r].status = "started"   -> {}
                     [] runs[r].status = "completed" -> {"RUN_COMPLETE"}
                     [] runs[r].status = "failed"    -> {"RUN_FAILED"}

\* What a connection was sent and what waits in its queue is the stream from
\* its subscription on without a gap; as long as it is subscribed, to the end,
\* whatever happens to the others, and however often it connects again.
StreamHasNoGap ==
  \A q \in Conns :
    LET next == since[q] + sent[q]
    IN conn[q] # "closed" =>
         /\ queue[q] = SubSeq(published, next + 1, next + Len(queue[q]))
         /\ q \in subscribers => next + Len(queue[q]) = Len(published)

\* The queue of a client that went away before its stream started, which
\* nothing unsubscribes, costs no more than the events that fill it.
LeakIsBounded ==
  \A q \in subscribers :
    conn[q] = "abandoned" => Len(published) - since[q] <= QueueSize

\* Every run that got as far as its runner ends, with an ending told where
\* telling it cannot fail.
EveryRunEnds ==
  \A r \in Requests :
    pc[r] = "running" ~> pc[r] = "over" /\ (backend = "memory" => Told(r) # {})

\* A reader that stays connected and is not discarded hears everything.
StayingReaderHearsAll ==
  \A q \in Conns :
    <>[](conn[q] = "open" /\ q \in subscribers)
      => <>[](since[q] + sent[q] = Len(published))

\* What the dashboard is sent its stores get: "events are routed to stores"
\* (PHASE_V2.md:431).  The code breaks it, see WireName.
EveryEventIsRouted ==
  \A q \in Conns :
    shown[q] = SelectSeq(SubSeq(published, since[q] + 1, since[q] + sent[q]), Routed)
=============================================================================
