-------------------------- MODULE RunRegistryProofs --------------------------
(***************************************************************************)
(* What TLAPS proves of the run registry and the event streams, for any    *)
(* number of runs, events and connections and any bounds of the registry   *)
(* and the queues.                                                         *)
(*                                                                         *)
(* A run's stage, that is where its request is suspended, bounds what the  *)
(* stream has of it and what its record says.                              *)
(***************************************************************************)
EXTENDS RunRegistry, SequenceTheorems, FiniteSetTheorems, TLAPS

Said(r) == {published[i].kind : i \in OfRun(r)}

Ordered(r) ==
  \A i, j \in OfRun(r) : i < j => MayFollow(published[j].kind, published[i].kind)

\* The ending that a status stands for.
EndingOf(status) == CASE status = "started"   -> {}
                       [] status = "completed" -> {"RUN_COMPLETE"}
                       [] status = "failed"    -> {"RUN_FAILED"}

\* What the stream may have of a run that is suspended at a point.
Reached(r) ==
  /\ pc[r] \in {"idle", "emit_start"}        => Said(r) = {}
  /\ pc[r] = "setup"                         => Said(r) \subseteq {"RUN_START"}
  /\ pc[r] \in {"idle", "emit_start", "setup"} => detached[r] = 0
  /\ pc[r] \in {"running", "emit_complete"}  => Said(r) \cap Endings = {}
  /\ pc[r] = "emit_failed"                   => "RUN_FAILED" \notin Said(r)

\* What the record of a run says at a point.
OnRecord(r) ==
  /\ pc[r] = "idle" => r \notin DOMAIN runs
  /\ r \in DOMAIN runs =>
       /\ pc[r] \in {"emit_start", "setup", "running"} => runs[r].status = "started"
       /\ pc[r] = "emit_failed" => runs[r].status = "failed"
       /\ "RUN_FAILED" \in Said(r) => runs[r].status = "failed"

\* On the memory backend nothing is missing.
OnMemory(r) ==
  backend = "memory" =>
    /\ pc[r] \notin {"emit_start", "emit_complete", "emit_failed"}
    /\ pc[r] # "idle" => "RUN_START" \in Said(r)
    /\ "RUN_COMPLETE" \notin Said(r) \/ "RUN_FAILED" \notin Said(r)
    /\ r \in DOMAIN runs => Said(r) \cap Endings = EndingOf(runs[r].status)

Stage(r) == Ordered(r) /\ Reached(r) /\ OnRecord(r) /\ OnMemory(r)

\* What a connection was sent and has waiting is a piece of the stream.
InStep(q) ==
  LET next == since[q] + sent[q] IN
  /\ next + Len(queue[q]) <= Len(published)
  /\ \A k \in DOMAIN queue[q] : queue[q][k] = published[next + k]
  /\ q \in subscribers => next + Len(queue[q]) = Len(published)
  /\ conn[q] \in {"handed", "abandoned"} => sent[q] = 0

\* A closed connection has no queue, and on docker there are none.
Closed(q) ==
  /\ conn[q] = "closed" => q \notin subscribers /\ queue[q] = << >>
  /\ backend # "memory" => conn[q] = "closed"

Inv ==
  /\ TypeOK
  /\ \A r \in Requests : Stage(r)
  /\ \A q \in Conns : Closed(q) /\ (conn[q] # "closed" => InStep(q))

-----------------------------------------------------------------------------
(* The registry.                                                           *)

(* Adding a run that is not on record, and removing the oldest beyond      *)
(* max_runs.                                                               *)
LEMMA TrimmedOK ==
  ASSUME TypeOK, NEW r \in Requests, r \notin ToSet(order)
  PROVE  /\ Trimmed(r) \in Seq(Requests) /\ IsInjective(Trimmed(r))
         /\ Len(Trimmed(r)) <= MaxRuns
         /\ r \in ToSet(Trimmed(r)) /\ ToSet(Trimmed(r)) \subseteq ToSet(order) \cup {r}
<1> DEFINE ids == Append(order, r)
           n   == Len(order)
<1>1. /\ order \in Seq(Requests) /\ n \in Nat /\ DOMAIN order = 1 .. n /\ n <= MaxRuns
      /\ IsInjective(order) /\ MaxRuns \in Nat \ {0}
  BY RunRegistryConstants, LenProperties DEF TypeOK
<1>2. /\ ids \in Seq(Requests) /\ Len(ids) = n + 1 /\ DOMAIN ids = 1 .. n + 1
      /\ \A i \in 1 .. n : ids[i] = order[i]
      /\ ids[n + 1] = r
  BY <1>1, AppendProperties, LenProperties
<1> HIDE DEF ids, n
<1>3. IsInjective(ids)
  <2>1. \A i \in 1 .. n : ids[i] # r
    BY <1>1, <1>2 DEF ToSet
  <2> QED
    BY <1>1, <1>2, <2>1 DEF IsInjective
<1>4. r \in ToSet(ids) /\ ToSet(ids) \subseteq ToSet(order) \cup {r}
  <2>1. r \in ToSet(ids)
    BY <1>1, <1>2 DEF ToSet
  <2>2. \A i \in 1 .. n + 1 : ids[i] \in ToSet(order) \cup {r}
    BY <1>1, <1>2 DEF ToSet
  <2> QED
    BY <1>2, <2>1, <2>2 DEF ToSet
<1>5. CASE ~(n + 1 > MaxRuns)
  <2>1. Trimmed(r) = ids
    BY <1>1, <1>2, <1>5 DEF Trimmed, ids
  <2> QED
    BY <1>1, <1>2, <1>3, <1>4, <1>5, <2>1
<1>6. CASE n + 1 > MaxRuns
  <2> DEFINE rest == SubSeq(ids, 2, n + 1)
  <2>1. n = MaxRuns /\ Trimmed(r) = rest
    <3>1. n = MaxRuns
      BY <1>1, <1>6
    <3>2. Len(ids) - MaxRuns + 1 = 2
      BY <1>1, <1>2, <3>1
    <3> QED
      BY <1>2, <1>6, <3>1, <3>2 DEF Trimmed, ids
  <2>2. /\ rest \in Seq(Requests)
        /\ Len(rest) = IF 2 <= n + 1 THEN n + 1 - 2 + 1 ELSE 0
        /\ \A i \in 1 .. n + 1 - 2 + 1 : rest[i] = ids[2 + i - 1]
    <3>1. \A i \in 2 .. n + 1 : ids[i] \in Requests
      BY <1>1, <1>2
    <3> QED
      BY <1>1, <3>1, SubSeqProperties
  <2> HIDE DEF rest
  <2>3. Len(rest) = n /\ DOMAIN rest = 1 .. n /\ \A i \in 1 .. n : rest[i] = ids[i + 1]
    <3>1. Len(rest) = n /\ n + 1 - 2 + 1 = n
      BY <1>1, <2>1, <2>2
    <3>2. DOMAIN rest = 1 .. Len(rest)
      BY <2>2, LenProperties
    <3>3. \A i \in 1 .. n : 2 + i - 1 = i + 1
      BY <1>1
    <3> QED
      BY <2>2, <3>1, <3>2, <3>3
  <2>4. IsInjective(rest)
    <3> SUFFICES ASSUME NEW i \in 1 .. n, NEW j \in 1 .. n, rest[i] = rest[j] PROVE i = j
      BY <2>3 DEF IsInjective
    <3>1. i + 1 \in DOMAIN ids /\ j + 1 \in DOMAIN ids /\ ids[i + 1] = ids[j + 1]
      BY <1>1, <1>2, <2>3
    <3>2. i + 1 = j + 1
      BY <1>3, <3>1 DEF IsInjective
    <3> QED
      BY <1>1, <3>2
  <2>5. r \in ToSet(rest)
    BY <1>1, <1>2, <2>1, <2>3 DEF ToSet
  <2>6. \A i \in 1 .. n : rest[i] \in ToSet(ids)
    <3> TAKE i \in 1 .. n
    <3>1. i + 1 \in DOMAIN ids /\ rest[i] = ids[i + 1]
      BY <1>1, <1>2, <2>3
    <3> QED
      BY <3>1 DEF ToSet
  <2>7. ToSet(rest) \subseteq ToSet(order) \cup {r}
    BY <1>4, <2>3, <2>6 DEF ToSet
  <2> QED
    BY <1>1, <2>1, <2>2, <2>3, <2>4, <2>5, <2>7
<1> QED
  BY <1>5, <1>6

\* What the registry may do on behalf of r: write its record, evict others.
RegistryStep(r) ==
  /\ order' \in Seq(Requests) /\ IsInjective(order') /\ Len(order') <= MaxRuns
  /\ runs' \in [ToSet(order') -> Record]
  /\ \A i \in DOMAIN runs' \ {r} : i \in DOMAIN runs /\ runs'[i] = runs[i]

LEMMA KeepOK ==
  ASSUME TypeOK, NEW r \in Requests, NEW record \in Record, Keep(r, record)
  PROVE  RegistryStep(r) /\ r \in DOMAIN runs' /\ runs'[r] = record
<1>1. /\ order \in Seq(Requests) /\ IsInjective(order) /\ Len(order) <= MaxRuns
      /\ runs \in [ToSet(order) -> Record]
  BY DEF TypeOK
<1>2. /\ order' \in Seq(Requests) /\ IsInjective(order') /\ Len(order') <= MaxRuns
      /\ r \in ToSet(order') /\ ToSet(order') \subseteq ToSet(order) \cup {r}
  BY <1>1, TrimmedOK DEF Keep
<1> DEFINE ids == ToSet(order')
<1>3. runs' = [i \in ids |-> IF i = r THEN record ELSE runs[i]]
  BY DEF Keep
<1>4. r \in ids /\ \A i \in ids : i # r => i \in DOMAIN runs /\ runs[i] \in Record
  BY <1>1, <1>2
<1> HIDE DEF ids
<1>5. /\ runs' \in [ids -> Record] /\ DOMAIN runs' = ids /\ runs'[r] = record
      /\ \A i \in ids : i # r => runs'[i] = runs[i]
  BY <1>3, <1>4
<1> QED
  BY <1>2, <1>4, <1>5 DEF RegistryStep, ids

LEMMA NothingKept ==
  ASSUME TypeOK, UNCHANGED registryVars, NEW r
  PROVE  RegistryStep(r)
BY DEF TypeOK, registryVars, RegistryStep

LEMMA CurrentOK ==
  ASSUME TypeOK, NEW r
  PROVE  /\ Current(r) \in Record
         /\ [Current(r) EXCEPT !.status = "completed", !.summary = TRUE] \in Record
         /\ [Current(r) EXCEPT !.status = "failed", !.error = TRUE] \in Record
         /\ [Current(r) EXCEPT !.status = "completed", !.summary = TRUE].status = "completed"
         /\ [Current(r) EXCEPT !.status = "failed", !.error = TRUE].status = "failed"
<1>1. r \in DOMAIN runs => runs[r] \in Record
  BY DEF TypeOK
<1>2. [status |-> "started", metadata |-> FALSE, summary |-> FALSE, error |-> FALSE] \in Record
  BY DEF Record
<1>3. Current(r) \in Record
  BY <1>1, <1>2 DEF Current
<1> QED
  BY <1>3 DEF Record

-----------------------------------------------------------------------------
(* The streams.                                                            *)

\* What may be told of a run next.
CanBeTold(kind, kinds) == \A k \in kinds : MayFollow(kind, k)

LEMMA TellOK ==
  ASSUME NEW kinds
  PROVE  /\ kinds = {} => \A kind : CanBeTold(kind, kinds)
         /\ kinds \cap Endings = {} => \A kind \in Endings \cup {"EXECUTION_STEP"} :
                                        CanBeTold(kind, kinds)
         /\ "RUN_FAILED" \notin kinds => CanBeTold("RUN_FAILED", kinds)
         /\ CanBeTold("VERDICT", kinds)
<1>1. \A k : MayFollow("VERDICT", k)
  BY DEF MayFollow
<1>2. \A k : k # "RUN_FAILED" => MayFollow("RUN_FAILED", k)
  BY DEF MayFollow
<1>3. \A k : k \notin Endings => \A kind \in Endings \cup {"EXECUTION_STEP"} : MayFollow(kind, k)
  BY DEF MayFollow, Endings
<1> QED
  BY <1>1, <1>2, <1>3 DEF CanBeTold

(* One more event in the stream.                                           *)
LEMMA OneMoreEvent ==
  ASSUME TypeOK, NEW e \in Events, published' = Append(published, e)
  PROVE  /\ published' \in Seq(Events) /\ Len(published') = Len(published) + 1
         /\ \A i \in 1 .. Len(published) : published'[i] = published[i]
         /\ published'[Len(published) + 1] = e
         /\ Said(e.run)' = Said(e.run) \cup {e.kind}
         /\ CanBeTold(e.kind, Said(e.run)) /\ Ordered(e.run) => Ordered(e.run)'
         /\ \A r : r # e.run => Said(r)' = Said(r) /\ (Ordered(r) => Ordered(r)')
<1> DEFINE n == Len(published)
           later == published'
<1>1. /\ published \in Seq(Events) /\ n \in Nat /\ DOMAIN published = 1 .. n
      /\ \A i \in 1 .. n : published[i] \in Events
  BY LenProperties, ElementOfSeq DEF TypeOK
<1>2. /\ later \in Seq(Events) /\ Len(later) = n + 1 /\ DOMAIN later = 1 .. n + 1
      /\ \A i \in 1 .. n : later[i] = published[i]
      /\ later[n + 1] = e
  BY <1>1, AppendProperties, LenProperties
<1> HIDE DEF n
<1>3. OfRun(e.run)' = OfRun(e.run) \cup {n + 1}
  BY <1>1, <1>2 DEF OfRun
<1>4. \A r : r # e.run => OfRun(r)' = OfRun(r)
  BY <1>1, <1>2 DEF OfRun
<1>5. \A r : OfRun(r) \subseteq 1 .. n
  BY <1>1 DEF OfRun
<1>6. Said(e.run)' = Said(e.run) \cup {e.kind}
  BY <1>2, <1>3, <1>5 DEF Said
<1>7. ASSUME NEW r, r # e.run PROVE Said(r)' = Said(r) /\ (Ordered(r) => Ordered(r)')
  <2>1. OfRun(r)' = OfRun(r) /\ \A i \in OfRun(r) : later[i] = published[i]
    BY <1>2, <1>4, <1>5, <1>7
  <2>2. \A i \in OfRun(r) : later[i].kind = published[i].kind
    BY <2>1
  <2>3. Said(r)' = Said(r)
    BY <2>1, <2>2 DEF Said
  <2>4. Ordered(r) => Ordered(r)'
    BY <2>1, <2>2 DEF Ordered
  <2> QED
    BY <2>3, <2>4
<1>8. ASSUME CanBeTold(e.kind, Said(e.run)), Ordered(e.run) PROVE Ordered(e.run)'
  <2>1. ASSUME NEW i \in OfRun(e.run) PROVE MayFollow(e.kind, published[i].kind)
    BY <1>8 DEF Said, CanBeTold
  <2>2. ASSUME NEW i \in OfRun(e.run) \cup {n + 1}, NEW j \in OfRun(e.run) \cup {n + 1}, i < j
        PROVE  MayFollow(later[j].kind, later[i].kind)
    <3>1. i \in OfRun(e.run) /\ i \in 1 .. n /\ later[i] = published[i]
      BY <1>1, <1>2, <1>5, <2>2
    <3>2. CASE j = n + 1
      BY <1>2, <2>1, <3>1, <3>2
    <3>3. CASE j \in OfRun(e.run)
      <4>1. later[j] = published[j]
        BY <1>2, <1>5, <3>3
      <4> QED
        BY <1>8, <2>2, <3>1, <3>3, <4>1 DEF Ordered
    <3> QED
      BY <3>2, <3>3
  <2> QED
    BY <1>3, <2>2 DEF Ordered
<1> QED
  BY <1>2, <1>6, <1>7, <1>8 DEF n

\* What a request may do to the streams: tell e, or nothing.
StreamStep(e) ==
  \/ UNCHANGED streamVars
  \/ backend = "memory" /\ Publish(e)
  \/ backend = "docker" /\ published' = Append(published, e) /\ UNCHANGED <<queue, subscribers>>

\* What is known of the streams alone.
StreamsOK ==
  /\ subscribers \subseteq Conns
  /\ queue \in [Conns -> Seq(Events)]
  /\ \A q \in Conns : Len(queue[q]) <= QueueSize
  /\ published \in Seq(Events)
  /\ \A q \in Conns : Closed(q) /\ (conn[q] # "closed" => InStep(q))

(* Publishing closes no gap and opens none: a full queue is discarded with *)
(* what it holds, every other one is given the event.                      *)
LEMMA PublishOK ==
  ASSUME Inv, NEW e \in Events, Publish(e), UNCHANGED <<backend, readerVars>>
  PROVE  StreamsOK'
<1> DEFINE stale == {q \in subscribers : Len(queue[q]) >= QueueSize}
           n == Len(published)
<1>1. TypeOK /\ \A q \in Conns : Closed(q) /\ (conn[q] # "closed" => InStep(q))
  BY DEF Inv
<1>2. /\ queue' = [q \in Conns |-> IF q \in subscribers \ stale
                                  THEN Append(queue[q], e) ELSE queue[q]]
      /\ subscribers' = subscribers \ stale
      /\ published' = Append(published, e)
      /\ UNCHANGED <<backend, conn, since, sent>>
  BY DEF Publish, readerVars
<1>3. /\ published' \in Seq(Events) /\ Len(published') = n + 1 /\ n \in Nat
      /\ \A i \in 1 .. n : published'[i] = published[i]
      /\ published'[n + 1] = e
  BY <1>1, <1>2, OneMoreEvent, LenProperties DEF TypeOK
<1> HIDE DEF n
<1>4. ASSUME NEW q \in Conns
      PROVE  /\ queue'[q] \in Seq(Events) /\ Len(queue'[q]) <= QueueSize
             /\ Closed(q)' /\ (conn'[q] # "closed" => InStep(q)')
  <2> DEFINE next == since[q] + sent[q]
             l == Len(queue[q])
  <2>1. /\ queue[q] \in Seq(Events) /\ l \in Nat /\ DOMAIN queue[q] = 1 .. l
        /\ l <= QueueSize /\ next \in Nat /\ QueueSize \in Nat
    BY <1>1, RunRegistryConstants, LenProperties DEF TypeOK
  <2>2. /\ conn[q] = "closed" => q \notin subscribers /\ queue[q] = << >>
        /\ backend # "memory" => conn[q] = "closed"
        /\ conn[q] # "closed" =>
             /\ next + l <= n
             /\ \A k \in 1 .. l : queue[q][k] = published[next + k]
             /\ q \in subscribers => next + l = n
             /\ conn[q] \in {"handed", "abandoned"} => sent[q] = 0
    BY <1>1, <2>1 DEF Closed, InStep, n
  <2>3. next' = next
    BY <1>2
  <2> HIDE DEF next, l
  <2>4. CASE q \in subscribers \ stale
    <3>1. /\ queue'[q] \in Seq(Events) /\ Len(queue'[q]) = l + 1
          /\ DOMAIN queue'[q] = 1 .. l + 1
          /\ \A k \in 1 .. l : queue'[q][k] = queue[q][k]
          /\ queue'[q][l + 1] = e
      <4>1. queue'[q] = Append(queue[q], e)
        BY <1>2, <2>4
      <4> QED
        BY <2>1, <4>1, AppendProperties, LenProperties DEF l
    <3>2. l < QueueSize
      BY <2>1, <2>4 DEF l
    <3>3. conn[q] # "closed" /\ next + l = n
      BY <2>2, <2>4
    <3>4. \A k \in 1 .. l + 1 : queue'[q][k] = published'[next + k]
      <4> TAKE k \in 1 .. l + 1
      <4>1. CASE k \in 1 .. l
        <5>1. next + k \in 1 .. n
          BY <2>1, <3>3, <4>1
        <5> QED
          BY <1>3, <2>2, <3>1, <3>3, <4>1, <5>1
      <4>2. CASE k = l + 1
        <5>1. next + k = n + 1
          BY <1>3, <2>1, <3>3, <4>2
        <5> QED
          BY <1>3, <3>1, <4>2, <5>1
      <4> QED
        BY <2>1, <4>1, <4>2
    <3>5. next + (l + 1) = n + 1
      BY <1>3, <2>1, <3>3
    <3>6. InStep(q)'
      <4>1. conn'[q] \in {"handed", "abandoned"} => sent'[q] = 0
        BY <1>2, <2>2, <3>3
      <4>2. Len(published') = n + 1 /\ next + Len(queue'[q]) = n + 1 /\ n + 1 \in Nat
        BY <1>3, <3>1, <3>5
      <4>3. next' + Len(queue'[q]) = Len(published') /\ Len(published') \in Nat
        BY <2>3, <4>2
      <4>4. \A k \in DOMAIN queue'[q] : queue'[q][k] = published'[next' + k]
        BY <2>3, <3>1, <3>4
      <4> QED
        BY <4>1, <4>3, <4>4 DEF InStep, next
    <3>7. Closed(q)'
      BY <1>2, <2>2, <3>3 DEF Closed
    <3> QED
      BY <2>1, <3>1, <3>2, <3>6, <3>7
  <2>5. CASE q \notin subscribers \ stale
    <3>1. queue'[q] = queue[q] /\ q \notin subscribers'
      BY <1>2, <2>5
    <3>2. ASSUME conn[q] # "closed" PROVE InStep(q)'
      <4>0. n \in Nat /\ DOMAIN queue'[q] = 1 .. l /\ Len(queue'[q]) = l
        BY <1>3, <2>1, <3>1 DEF l
      <4>1. next + l <= n + 1
        BY <1>3, <2>1, <2>2, <3>2
      <4>2. \A k \in 1 .. l : queue[q][k] = published'[next + k]
        <5> TAKE k \in 1 .. l
        <5>1. next + k \in 1 .. n
          BY <1>3, <2>1, <2>2, <3>2
        <5> QED
          BY <1>3, <2>2, <3>2, <5>1
      <4>3. conn'[q] \in {"handed", "abandoned"} => sent'[q] = 0
        BY <1>2, <2>2, <3>2
      <4>4. Len(published') = n + 1 /\ queue'[q] = queue[q] /\ q \notin subscribers'
        BY <1>3, <3>1
      <4> QED
        BY <2>3, <4>0, <4>1, <4>2, <4>3, <4>4 DEF InStep, next
    <3>3. Closed(q)'
      BY <1>2, <2>2, <3>1 DEF Closed
    <3> QED
      BY <1>2, <2>1, <3>1, <3>2, <3>3 DEF l
  <2> QED
    BY <2>4, <2>5
<1>5. queue' \in [Conns -> Seq(Events)]
  BY <1>2, <1>4
<1>6. subscribers' \subseteq Conns
  BY <1>1, <1>2 DEF TypeOK
<1> QED
  BY <1>3, <1>4, <1>5, <1>6 DEF StreamsOK

LEMMA StreamStepOK ==
  ASSUME Inv, NEW e \in Events, StreamStep(e), UNCHANGED <<backend, readerVars>>
  PROVE  StreamsOK'
<1>1. TypeOK /\ \A q \in Conns : Closed(q) /\ (conn[q] # "closed" => InStep(q))
  BY DEF Inv
<1>2. CASE UNCHANGED streamVars
  BY <1>1, <1>2 DEF StreamsOK, TypeOK, Closed, InStep, streamVars, readerVars
<1>3. CASE backend = "memory" /\ Publish(e)
  BY <1>3, PublishOK
<1>4. CASE backend = "docker" /\ published' = Append(published, e) /\ UNCHANGED <<queue, subscribers>>
  <2>1. published' \in Seq(Events)
    BY <1>1, <1>4, OneMoreEvent
  <2>2. \A q \in Conns : conn[q] = "closed" /\ Closed(q)' /\ conn'[q] = "closed"
    BY <1>1, <1>4 DEF Closed, readerVars
  <2> QED
    BY <1>1, <1>4, <2>1, <2>2 DEF StreamsOK, TypeOK
<1> QED
  BY <1>2, <1>3, <1>4 DEF StreamStep

-----------------------------------------------------------------------------
(* The steps of a request.                                                 *)

PCs == {"idle", "emit_start", "setup", "running", "emit_complete", "emit_failed", "over"}

(* What a step does not touch of another run: its events, its request; its *)
(* record at most goes.                                                    *)
LEMMA OtherStage ==
  ASSUME NEW r, Stage(r), Said(r)' = Said(r), Ordered(r)', pc'[r] = pc[r],
         backend' = backend, detached'[r] = detached[r],
         r \in DOMAIN runs' => r \in DOMAIN runs /\ runs'[r] = runs[r]
  PROVE  Stage(r)'
<1>1. Reached(r)'
  BY DEF Stage, Reached
<1>2. OnRecord(r)'
  BY DEF Stage, OnRecord
<1>3. OnMemory(r)'
  BY DEF Stage, OnMemory
<1> QED
  BY <1>1, <1>2, <1>3 DEF Stage

(* The stream's part in a step: e is told of its run, or nothing is.       *)
LEMMA StreamSaid ==
  ASSUME TypeOK, NEW e \in Events, StreamStep(e)
  PROVE  /\ Said(e.run)' = Said(e.run) \/ Said(e.run)' = Said(e.run) \cup {e.kind}
         /\ CanBeTold(e.kind, Said(e.run)) /\ Ordered(e.run) => Ordered(e.run)'
         /\ \A r : r # e.run => Said(r)' = Said(r) /\ (Ordered(r) => Ordered(r)')
<1>1. CASE UNCHANGED streamVars
  BY <1>1 DEF streamVars, Said, Ordered, OfRun
<1>2. CASE published' = Append(published, e)
  BY <1>2, OneMoreEvent
<1> QED
  BY <1>1, <1>2 DEF StreamStep, Publish

\* What the agents of r may do: emit, and leave events to tasks.
AgentPart(r) ==
  /\ steps' \in 0 .. MaxSteps /\ detached' \in [Requests -> Nat]
  /\ \A s \in Requests \ {r} : detached'[s] = detached[s]

LEMMA NoAgent ==
  ASSUME TypeOK, UNCHANGED agentVars, NEW r
  PROVE  AgentPart(r) /\ detached' = detached
BY DEF TypeOK, agentVars, AgentPart

(* A step of a request keeps the invariant when it brings its own run to   *)
(* its next stage.                                                         *)
LEMMA RunInv ==
  ASSUME Inv, NEW r \in Requests, NEW e \in Events, e.run = r,
         UNCHANGED <<backend, readerVars>>, AgentPart(r),
         NEW to \in PCs, pc' = [pc EXCEPT ![r] = to],
         RegistryStep(r), StreamStep(e), CanBeTold(e.kind, Said(r)),
         Reached(r)', OnRecord(r)', OnMemory(r)'
  PROVE  Inv'
<1>1. TypeOK /\ \A s \in Requests : Stage(s)
  BY DEF Inv
<1>2. StreamsOK'
  BY StreamStepOK
<1>3. pc \in [Requests -> PCs]
  BY <1>1 DEF TypeOK, PCs
<1>4. pc' \in [Requests -> PCs] /\ \A s \in Requests \ {r} : pc'[s] = pc[s]
  BY <1>3
<1>5. TypeOK'
  BY <1>1, <1>2, <1>4 DEF TypeOK, PCs, RegistryStep, StreamsOK, readerVars, AgentPart
<1>6. ASSUME NEW s \in Requests PROVE Stage(s)'
  <2>1. CASE s = r
    BY <1>1, <2>1, StreamSaid DEF Stage
  <2>2. CASE s # r
    <3>1. Said(s)' = Said(s) /\ Ordered(s)'
      BY <1>1, <2>2, StreamSaid DEF Stage
    <3>2. s \in DOMAIN runs' => s \in DOMAIN runs /\ runs'[s] = runs[s]
      BY <2>2 DEF RegistryStep
    <3>3. detached'[s] = detached[s]
      BY <2>2 DEF AgentPart
    <3> QED
      BY <1>1, <1>4, <2>2, <3>1, <3>2, <3>3, OtherStage
  <2> QED
    BY <2>1, <2>2
<1> QED
  BY <1>2, <1>5, <1>6 DEF Inv, StreamsOK

\* Every event is of a request and of a kind.
LEMMA EventOK ==
  ASSUME NEW r \in Requests, NEW kind \in Kinds
  PROVE  LET e == [run |-> r, kind |-> kind] IN e \in Events /\ e.run = r /\ e.kind = kind
BY DEF Events

LEMMA BackendOK == ASSUME TypeOK PROVE backend \in {"memory", "docker"}
BY RunRegistryConstants DEF TypeOK

(* The registry's own event.                                               *)
LEMMA RegistryPublishOK ==
  ASSUME TypeOK, NEW e \in Events, RegistryPublish(e)
  PROVE  /\ StreamStep(e)
         /\ Said(e.run)' = IF backend = "memory" THEN Said(e.run) \cup {e.kind}
                                                  ELSE Said(e.run)
<1>1. CASE backend = "memory"
  <2>1. Publish(e) /\ published' = Append(published, e)
    BY <1>1 DEF RegistryPublish, Publish
  <2> QED
    BY <1>1, <2>1, OneMoreEvent DEF StreamStep
<1>2. CASE backend # "memory"
  <2>1. UNCHANGED streamVars
    BY <1>2 DEF RegistryPublish
  <2> QED
    BY <1>2, <2>1 DEF StreamStep, streamVars, Said, OfRun
<1> QED
  BY <1>1, <1>2

(* An emission on docker.                                                  *)
LEMMA EmitOK ==
  ASSUME TypeOK, backend = "docker", NEW e \in Events, NEW raises \in BOOLEAN, Emit(e, raises)
  PROVE  StreamStep(e)
BY DEF Emit, StreamStep, streamVars

LEMMA CreateRunInv == ASSUME Inv, NEW r \in Requests, CreateRun(r) PROVE Inv'
<1> DEFINE e == [run |-> r, kind |-> "RUN_START"]
           to == IF backend = "docker" THEN "emit_start" ELSE "setup"
           record == [status |-> "started", metadata |-> TRUE, summary |-> FALSE,
                      error |-> FALSE]
<1>1. TypeOK /\ Stage(r) /\ backend \in {"memory", "docker"}
  BY BackendOK DEF Inv
<1>2. /\ pc[r] = "idle" /\ pc' = [pc EXCEPT ![r] = to]
      /\ Keep(r, record) /\ RegistryPublish(e)
      /\ UNCHANGED <<backend, agentVars, readerVars>>
  BY DEF CreateRun, Go
<1>3. e \in Events /\ e.run = r /\ e.kind = "RUN_START"
  BY EventOK DEF Kinds
<1>4. record \in Record /\ record.status = "started"
  BY DEF Record
<1> HIDE DEF e, record
<1>5. RegistryStep(r) /\ r \in DOMAIN runs' /\ runs'[r] = record
  BY <1>1, <1>2, <1>4, KeepOK
<1>6. /\ StreamStep(e)
      /\ Said(r)' = IF backend = "memory" THEN Said(r) \cup {"RUN_START"} ELSE Said(r)
  BY <1>1, <1>2, <1>3, RegistryPublishOK
<1>7. Said(r) = {} /\ CanBeTold(e.kind, Said(r)) /\ detached[r] = 0
  BY <1>1, <1>2, <1>3, TellOK DEF Stage, Reached
<1>8. pc'[r] = to /\ to \in PCs
  BY <1>1, <1>2 DEF TypeOK, PCs
<1>9. AgentPart(r) /\ detached' = detached
  BY <1>1, <1>2, NoAgent
<1>10. Reached(r)' /\ OnRecord(r)' /\ OnMemory(r)'
  <2>1. Reached(r)'
    BY <1>6, <1>7, <1>8, <1>9 DEF Reached, Endings
  <2>2. OnRecord(r)'
    BY <1>4, <1>5, <1>6, <1>7, <1>8 DEF OnRecord
  <2>3. OnMemory(r)'
    BY <1>1, <1>2, <1>4, <1>5, <1>6, <1>7, <1>8 DEF OnMemory, Endings, EndingOf
  <2> QED
    BY <2>1, <2>2, <2>3
<1> QED
  BY <1>2, <1>3, <1>5, <1>6, <1>7, <1>8, <1>9, <1>10, RunInv

LEMMA EmitStartInv == ASSUME Inv, NEW r \in Requests, EmitStart(r) PROVE Inv'
<1> DEFINE e == [run |-> r, kind |-> "RUN_START"]
<1>1. TypeOK /\ Stage(r) /\ backend \in {"memory", "docker"}
  BY BackendOK DEF Inv
<1>2. PICK raises \in BOOLEAN :
        /\ pc[r] = "emit_start"
        /\ pc' = [pc EXCEPT ![r] = IF raises THEN "over" ELSE "setup"]
        /\ Emit(e, raises)
  BY DEF EmitStart, Go
<1>3. UNCHANGED <<backend, registryVars, agentVars, readerVars>>
  BY DEF EmitStart
<1>4. backend = "docker"
  BY <1>1, <1>2 DEF Stage, OnMemory
<1>5. e \in Events /\ e.run = r /\ e.kind = "RUN_START"
  BY EventOK DEF Kinds
<1> HIDE DEF e
<1>6. StreamStep(e) /\ RegistryStep(r)
  BY <1>1, <1>2, <1>3, <1>4, <1>5, EmitOK, NothingKept
<1>7. PICK to \in PCs : pc' = [pc EXCEPT ![r] = to] /\ to \in {"over", "setup"}
  BY <1>2 DEF PCs
<1>8. pc'[r] \in {"over", "setup"}
  BY <1>1, <1>7 DEF TypeOK
<1>9. Said(r) = {} /\ Said(r)' \subseteq {"RUN_START"} /\ detached[r] = 0
  BY <1>1, <1>2, <1>5, <1>6, StreamSaid DEF Stage, Reached
<1>10. CanBeTold(e.kind, Said(r))
  BY <1>9, TellOK
<1>11. AgentPart(r) /\ detached' = detached
  BY <1>1, <1>3, NoAgent
<1>12. Reached(r)' /\ OnRecord(r)' /\ OnMemory(r)'
  BY <1>1, <1>2, <1>3, <1>4, <1>8, <1>9, <1>11
  DEF Stage, Reached, OnRecord, OnMemory, Endings, registryVars
<1> QED
  BY <1>3, <1>5, <1>6, <1>7, <1>10, <1>11, <1>12, RunInv

LEMMA SetUpInv == ASSUME Inv, NEW r \in Requests, SetUp(r) PROVE Inv'
<1> DEFINE e == [run |-> r, kind |-> "EXECUTION_STEP"]
<1>1. TypeOK /\ Stage(r)
  BY DEF Inv
<1>2. /\ pc[r] = "setup"
      /\ \E to \in {"over", "running"} : pc' = [pc EXCEPT ![r] = to]
      /\ UNCHANGED <<backend, registryVars, agentVars, streamVars, readerVars>>
  BY DEF SetUp, Go
<1>3. e \in Events /\ e.run = r /\ e.kind = "EXECUTION_STEP"
  BY EventOK DEF Kinds
<1> HIDE DEF e
<1>4. StreamStep(e) /\ RegistryStep(r) /\ Said(r)' = Said(r)
  BY <1>1, <1>2, NothingKept DEF StreamStep, streamVars, Said, OfRun
<1>5. PICK to \in PCs : pc' = [pc EXCEPT ![r] = to] /\ to \in {"over", "running"}
  BY <1>2 DEF PCs
<1>6. pc'[r] \in {"over", "running"}
  BY <1>1, <1>5 DEF TypeOK
<1>7. Said(r) \cap Endings = {}
  BY <1>1, <1>2 DEF Stage, Reached, Endings
<1>8. CanBeTold(e.kind, Said(r))
  BY <1>3, <1>7, TellOK
<1>9. Reached(r)' /\ OnRecord(r)' /\ OnMemory(r)'
  BY <1>1, <1>2, <1>4, <1>6, <1>7 DEF Stage, Reached, OnRecord, OnMemory, registryVars
<1>10. AgentPart(r) /\ detached' = detached
  BY <1>1, <1>2, NoAgent
<1> QED
  BY <1>2, <1>3, <1>4, <1>5, <1>8, <1>9, <1>10, RunInv

(* What an agent tells, now or by a task.                                  *)
LEMMA TellIsStep ==
  ASSUME TypeOK, NEW e \in Events, Tell(e)
  PROVE  StreamStep(e)
BY BackendOK, EmitOK DEF Tell, StreamStep

LEMMA AgentStepInv == ASSUME Inv, NEW r \in Requests, AgentStep(r) PROVE Inv'
<1> DEFINE e == [run |-> r, kind |-> "EXECUTION_STEP"]
<1>1. TypeOK /\ Stage(r)
  BY DEF Inv
<1>2. /\ pc[r] = "running" /\ steps < MaxSteps /\ steps' = steps + 1 /\ Tell(e)
      /\ UNCHANGED <<backend, pc, registryVars, detached, readerVars>>
  BY DEF AgentStep
<1>3. e \in Events /\ e.run = r /\ e.kind = "EXECUTION_STEP"
  BY EventOK DEF Kinds
<1> HIDE DEF e
<1>4. StreamStep(e) /\ RegistryStep(r)
  BY <1>1, <1>2, <1>3, NothingKept, TellIsStep
<1>5. pc[r] \in PCs /\ pc' = [pc EXCEPT ![r] = pc[r]]
  BY <1>1, <1>2 DEF TypeOK, PCs
<1>6. /\ Said(r) \cap Endings = {} /\ Said(r)' \cap Endings = {}
      /\ Said(r) \subseteq Said(r)'
  BY <1>1, <1>2, <1>3, <1>4, StreamSaid DEF Stage, Reached, Endings
<1>7. CanBeTold(e.kind, Said(r))
  BY <1>3, <1>6, TellOK
<1>8. Reached(r)' /\ OnRecord(r)' /\ OnMemory(r)'
  BY <1>1, <1>2, <1>6 DEF Stage, Reached, OnRecord, OnMemory, registryVars, Endings
<1>9. AgentPart(r)
  BY <1>1, <1>2, RunRegistryConstants DEF TypeOK, AgentPart
<1> QED
  BY <1>2, <1>3, <1>4, <1>5, <1>7, <1>8, <1>9, RunInv

LEMMA AgentDetachesInv == ASSUME Inv, NEW r \in Requests, AgentDetaches(r) PROVE Inv'
<1> DEFINE e == [run |-> r, kind |-> "VERDICT"]
<1>1. TypeOK /\ Stage(r)
  BY DEF Inv
<1>2. /\ pc[r] = "running" /\ steps < MaxSteps /\ steps' = steps + 1
      /\ detached' = [detached EXCEPT ![r] = @ + 1]
      /\ UNCHANGED <<backend, pc, registryVars, streamVars, readerVars>>
  BY DEF AgentDetaches
<1>3. e \in Events /\ e.run = r /\ e.kind = "VERDICT"
  BY EventOK DEF Kinds
<1> HIDE DEF e
<1>4. StreamStep(e) /\ RegistryStep(r) /\ Said(r)' = Said(r)
  BY <1>1, <1>2, NothingKept DEF StreamStep, streamVars, Said, OfRun
<1>5. pc[r] \in PCs /\ pc' = [pc EXCEPT ![r] = pc[r]]
  BY <1>1, <1>2 DEF TypeOK, PCs
<1>6. CanBeTold(e.kind, Said(r))
  BY <1>3, TellOK
<1>7. Reached(r)' /\ OnRecord(r)' /\ OnMemory(r)'
  BY <1>1, <1>2, <1>4 DEF Stage, Reached, OnRecord, OnMemory, registryVars
<1>8. AgentPart(r)
  BY <1>1, <1>2, RunRegistryConstants DEF TypeOK, AgentPart
<1> QED
  BY <1>2, <1>3, <1>4, <1>5, <1>6, <1>7, <1>8, RunInv

(* The one event that may come when its run is over.                       *)
LEMMA DetachedRunsInv == ASSUME Inv, NEW r \in Requests, DetachedRuns(r) PROVE Inv'
<1> DEFINE e == [run |-> r, kind |-> "VERDICT"]
<1>1. TypeOK /\ Stage(r)
  BY DEF Inv
<1>2. /\ detached[r] > 0 /\ detached' = [detached EXCEPT ![r] = @ - 1] /\ Tell(e)
      /\ UNCHANGED <<backend, pc, registryVars, steps, readerVars>>
  BY DEF DetachedRuns
<1>3. e \in Events /\ e.run = r /\ e.kind = "VERDICT"
  BY EventOK DEF Kinds
<1> HIDE DEF e
<1>4. StreamStep(e) /\ RegistryStep(r)
  BY <1>1, <1>2, <1>3, NothingKept, TellIsStep
<1>5. pc[r] \in PCs /\ pc' = [pc EXCEPT ![r] = pc[r]]
  BY <1>1, <1>2 DEF TypeOK, PCs
<1>6. Said(r) \subseteq Said(r)' /\ Said(r)' \subseteq Said(r) \cup {"VERDICT"}
  BY <1>1, <1>3, <1>4, StreamSaid
<1>7. CanBeTold(e.kind, Said(r))
  BY <1>3, TellOK
<1>8. detached[r] \in Nat \ {0} /\ pc[r] \notin {"idle", "emit_start", "setup"}
  BY <1>1, <1>2 DEF TypeOK, Stage, Reached
<1>9. Reached(r)' /\ OnRecord(r)' /\ OnMemory(r)'
  <2>1. Said(r)' \cap Endings = Said(r) \cap Endings
    BY <1>6 DEF Endings
  <2>2. \A k \in Endings : k \in Said(r)' <=> k \in Said(r)
    BY <2>1
  <2>3. Reached(r)'
    BY <1>1, <1>2, <1>8, <2>1, <2>2 DEF Stage, Reached, Endings
  <2>4. OnRecord(r)'
    BY <1>1, <1>2, <1>8, <2>2 DEF Stage, OnRecord, registryVars, Endings
  <2>5. OnMemory(r)'
    BY <1>1, <1>2, <1>6, <2>1, <2>2 DEF Stage, OnMemory, registryVars, Endings
  <2> QED
    BY <2>3, <2>4, <2>5
<1>10. AgentPart(r)
  BY <1>1, <1>2, <1>8 DEF TypeOK, AgentPart
<1> QED
  BY <1>2, <1>3, <1>4, <1>5, <1>7, <1>9, <1>10, RunInv

(* complete_run and fail_run: the record and, on the memory backend, the   *)
(* ending.                                                                 *)
LEMMA EndingInv ==
  ASSUME Inv, NEW r \in Requests, pc[r] = "running",
         NEW kind \in Endings, RegistryPublish([run |-> r, kind |-> kind]),
         NEW record \in Record, Keep(r, record), EndingOf(record.status) = {kind},
         record.status = (IF kind = "RUN_FAILED" THEN "failed" ELSE "completed"),
         NEW to \in {"emit_complete", "emit_failed"},
         to = "emit_failed" => kind = "RUN_FAILED",
         pc' = [pc EXCEPT ![r] = IF backend = "docker" THEN to ELSE "over"],
         UNCHANGED <<backend, agentVars, readerVars>>
  PROVE  Inv'
<1> DEFINE e == [run |-> r, kind |-> kind]
           next == IF backend = "docker" THEN to ELSE "over"
<1>1. TypeOK /\ Stage(r) /\ backend \in {"memory", "docker"}
  BY BackendOK DEF Inv
<1>2. e \in Events /\ e.run = r /\ e.kind = kind
  BY EventOK DEF Kinds
<1>3. RegistryPublish(e)
  OBVIOUS
<1> HIDE DEF e
<1>4. RegistryStep(r) /\ r \in DOMAIN runs' /\ runs'[r] = record
  BY <1>1, KeepOK
<1>5. /\ StreamStep(e)
      /\ Said(r)' = IF backend = "memory" THEN Said(r) \cup {kind} ELSE Said(r)
  BY <1>1, <1>2, <1>3, RegistryPublishOK
<1>6. Said(r) \cap Endings = {}
  BY <1>1 DEF Stage, Reached
<1>7. CanBeTold(e.kind, Said(r))
  BY <1>2, <1>6, TellOK
<1>8. pc'[r] = next /\ next \in PCs /\ pc' = [pc EXCEPT ![r] = next]
  BY <1>1 DEF TypeOK, PCs
<1>9. Reached(r)'
  BY <1>1, <1>5, <1>6, <1>8 DEF Reached, Endings
<1>10. OnRecord(r)'
  BY <1>1, <1>4, <1>5, <1>6, <1>8 DEF OnRecord, Endings
<1>11. OnMemory(r)'
  BY <1>1, <1>4, <1>5, <1>6, <1>8 DEF Stage, OnMemory, Endings
<1>12. AgentPart(r) /\ detached' = detached
  BY <1>1, NoAgent
<1> HIDE DEF next
<1> QED
  BY <1>2, <1>4, <1>5, <1>7, <1>8, <1>9, <1>10, <1>11, <1>12, RunInv

LEMMA RunEndsInv == ASSUME Inv, NEW r \in Requests, RunEnds(r) PROVE Inv'
<1> DEFINE record == [Current(r) EXCEPT !.status = "completed", !.summary = TRUE]
<1>1. /\ pc[r] = "running" /\ Keep(r, record)
      /\ pc' = [pc EXCEPT ![r] = IF backend = "docker" THEN "emit_complete" ELSE "over"]
      /\ RegistryPublish([run |-> r, kind |-> "RUN_COMPLETE"])
      /\ UNCHANGED <<backend, agentVars, readerVars>>
  BY DEF RunEnds, Go, complete_run
<1>2. record \in Record /\ record.status = "completed"
  BY CurrentOK DEF Inv
<1> HIDE DEF record
<1>3. EndingOf(record.status) = {"RUN_COMPLETE"} /\ "RUN_COMPLETE" \in Endings
  BY <1>2 DEF EndingOf, Endings
<1> QED
  BY <1>1, <1>2, <1>3, EndingInv

LEMMA RunRaisesInv == ASSUME Inv, NEW r \in Requests, RunRaises(r) PROVE Inv'
<1> DEFINE record == [Current(r) EXCEPT !.status = "failed", !.error = TRUE]
<1>1. /\ pc[r] = "running" /\ Keep(r, record)
      /\ pc' = [pc EXCEPT ![r] = IF backend = "docker" THEN "emit_failed" ELSE "over"]
      /\ RegistryPublish([run |-> r, kind |-> "RUN_FAILED"])
      /\ UNCHANGED <<backend, agentVars, readerVars>>
  BY DEF RunRaises, Go, fail_run
<1>2. record \in Record /\ record.status = "failed"
  BY CurrentOK DEF Inv
<1> HIDE DEF record
<1>3. EndingOf(record.status) = {"RUN_FAILED"} /\ "RUN_FAILED" \in Endings
  BY <1>2 DEF EndingOf, Endings
<1> QED
  BY <1>1, <1>2, <1>3, EndingInv

LEMMA EmitCompleteInv == ASSUME Inv, NEW r \in Requests, EmitComplete(r) PROVE Inv'
<1> DEFINE e == [run |-> r, kind |-> "RUN_COMPLETE"]
           record == [Current(r) EXCEPT !.status = "failed", !.error = TRUE]
<1>1. TypeOK /\ Stage(r) /\ backend \in {"memory", "docker"}
  BY BackendOK DEF Inv
<1>2. /\ pc[r] = "emit_complete" /\ UNCHANGED <<backend, agentVars, readerVars>>
      /\ Emit(e, FALSE) \/ Emit(e, TRUE)
  BY DEF EmitComplete, Go
<1>3. \/ pc' = [pc EXCEPT ![r] = "over"] /\ UNCHANGED registryVars
      \/ pc' = [pc EXCEPT ![r] = "emit_failed"] /\ Keep(r, record)
  BY DEF EmitComplete, Go
<1>4. record \in Record /\ record.status = "failed"
  BY <1>1, CurrentOK
<1>5. e \in Events /\ e.run = r /\ e.kind = "RUN_COMPLETE"
  BY EventOK DEF Kinds, Endings
<1>6. backend = "docker"
  BY <1>1, <1>2 DEF Stage, OnMemory
<1> HIDE DEF e, record
<1>7. StreamStep(e)
  BY <1>1, <1>2, <1>5, <1>6, EmitOK
<1>8. /\ Said(r) \cap Endings = {} /\ "RUN_FAILED" \notin Said(r)'
      /\ CanBeTold(e.kind, Said(r))
  BY <1>1, <1>2, <1>5, <1>7, StreamSaid, TellOK DEF Stage, Reached, Endings
<1>9. AgentPart(r) /\ detached' = detached
  BY <1>1, <1>2, NoAgent
<1>10. CASE pc' = [pc EXCEPT ![r] = "over"] /\ UNCHANGED registryVars
  <2>1. pc'[r] = "over" /\ "over" \in PCs
    BY <1>1, <1>10 DEF TypeOK, PCs
  <2>2. RegistryStep(r)
    BY <1>1, <1>10, NothingKept
  <2>3. Reached(r)' /\ OnRecord(r)' /\ OnMemory(r)'
    BY <1>2, <1>6, <1>8, <2>1 DEF Reached, OnRecord, OnMemory
  <2> QED
    BY <1>2, <1>5, <1>7, <1>8, <1>9, <1>10, <2>1, <2>2, <2>3, RunInv
<1>11. CASE pc' = [pc EXCEPT ![r] = "emit_failed"] /\ Keep(r, record)
  <2>1. pc'[r] = "emit_failed" /\ "emit_failed" \in PCs
    BY <1>1, <1>11 DEF TypeOK, PCs
  <2>2. RegistryStep(r) /\ runs'[r] = record
    BY <1>1, <1>4, <1>11, KeepOK
  <2>3. Reached(r)' /\ OnRecord(r)' /\ OnMemory(r)'
    BY <1>2, <1>4, <1>6, <1>8, <2>1, <2>2 DEF Reached, OnRecord, OnMemory
  <2> QED
    BY <1>2, <1>5, <1>7, <1>8, <1>9, <1>11, <2>1, <2>2, <2>3, RunInv
<1> QED
  BY <1>3, <1>10, <1>11

LEMMA EmitFailedInv == ASSUME Inv, NEW r \in Requests, EmitFailed(r) PROVE Inv'
<1> DEFINE e == [run |-> r, kind |-> "RUN_FAILED"]
<1>1. TypeOK /\ Stage(r) /\ backend \in {"memory", "docker"}
  BY BackendOK DEF Inv
<1>2. /\ pc[r] = "emit_failed" /\ pc' = [pc EXCEPT ![r] = "over"] /\ Emit(e, TRUE)
      /\ UNCHANGED <<backend, registryVars, agentVars, readerVars>>
  BY DEF EmitFailed, Go
<1>3. e \in Events /\ e.run = r /\ e.kind = "RUN_FAILED"
  BY EventOK DEF Kinds, Endings
<1>4. backend = "docker"
  BY <1>1, <1>2 DEF Stage, OnMemory
<1> HIDE DEF e
<1>5. StreamStep(e) /\ RegistryStep(r)
  BY <1>1, <1>2, <1>3, <1>4, EmitOK, NothingKept
<1>6. CanBeTold(e.kind, Said(r))
  BY <1>1, <1>2, <1>3, TellOK DEF Stage, Reached
<1>7. pc'[r] = "over" /\ "over" \in PCs
  BY <1>1, <1>2 DEF TypeOK, PCs
<1>8. Reached(r)' /\ OnRecord(r)' /\ OnMemory(r)'
  BY <1>1, <1>2, <1>4, <1>7 DEF Stage, Reached, OnRecord, OnMemory, registryVars
<1>9. AgentPart(r) /\ detached' = detached
  BY <1>1, <1>2, NoAgent
<1> QED
  BY <1>2, <1>3, <1>5, <1>6, <1>7, <1>8, <1>9, RunInv

-----------------------------------------------------------------------------
(* The steps of a reader.                                                  *)

LEMMA SameStage ==
  ASSUME NEW r, Stage(r), UNCHANGED <<backend, pc, registryVars, agentVars, published>>
  PROVE  Stage(r)'
<1>1. OfRun(r)' = OfRun(r)
  BY DEF OfRun
<1>2. Said(r)' = Said(r)
  BY <1>1 DEF Said
<1>3. Ordered(r)'
  BY <1>1 DEF Stage, Ordered
<1> QED
  BY <1>2, <1>3, OtherStage DEF registryVars, agentVars

(* A reader changes nothing of the runs, and nothing of other readers.     *)
LEMMA ReaderInv ==
  ASSUME Inv, NEW q \in Conns, UNCHANGED <<backend, pc, registryVars, agentVars, published>>,
         conn' \in [Conns -> {"closed", "handed", "open", "abandoned"}],
         queue' \in [Conns -> Seq(Events)], shown' \in [Conns -> Seq(Events)],
         since' \in [Conns -> Nat], sent' \in [Conns -> Nat],
         subscribers' \subseteq Conns,
         \A p \in Conns \ {q} : /\ conn'[p] = conn[p] /\ queue'[p] = queue[p]
                                /\ since'[p] = since[p] /\ sent'[p] = sent[p]
                                /\ p \in subscribers' <=> p \in subscribers,
         Len(queue'[q]) <= QueueSize, Closed(q)', conn'[q] # "closed" => InStep(q)'
  PROVE  Inv'
<1>1. TypeOK /\ \A p \in Conns : Closed(p) /\ (conn[p] # "closed" => InStep(p))
  BY DEF Inv
<1>2. ASSUME NEW p \in Conns
      PROVE  /\ Len(queue'[p]) <= QueueSize
             /\ Closed(p)' /\ (conn'[p] # "closed" => InStep(p)')
  <2>1. CASE p = q
    BY <2>1
  <2>2. CASE p # q
    <3>1. /\ conn'[p] = conn[p] /\ queue'[p] = queue[p]
          /\ since'[p] = since[p] /\ sent'[p] = sent[p]
          /\ p \in subscribers' <=> p \in subscribers
          /\ published' = published /\ backend' = backend
      BY <2>2
    <3>2. Closed(p) /\ (conn[p] # "closed" => InStep(p)) /\ Len(queue[p]) <= QueueSize
      BY <1>1 DEF TypeOK
    <3>3. Closed(p)'
      BY <3>1, <3>2 DEF Closed
    <3>4. conn'[p] # "closed" => InStep(p)'
      BY <3>1, <3>2 DEF InStep
    <3> QED
      BY <3>1, <3>2, <3>3, <3>4
  <2> QED
    BY <2>1, <2>2
<1>3. TypeOK'
  BY <1>1, <1>2 DEF TypeOK, registryVars, agentVars
<1>4. \A r \in Requests : Stage(r)'
  BY SameStage DEF Inv
<1> QED
  BY <1>2, <1>3, <1>4 DEF Inv

LEMMA ConnectInv == ASSUME Inv, NEW q \in Conns, Connect(q) PROVE Inv'
<1>1. TypeOK /\ Closed(q)
  BY DEF Inv
<1>2. /\ backend = "memory" /\ conn[q] = "closed"
      /\ conn' = [conn EXCEPT ![q] = "handed"] /\ subscribers' = subscribers \cup {q}
      /\ since' = [since EXCEPT ![q] = Len(published)] /\ sent' = [sent EXCEPT ![q] = 0]
      /\ shown' = [shown EXCEPT ![q] = << >>]
      /\ UNCHANGED <<backend, pc, registryVars, agentVars, queue, published>>
  BY DEF Connect, Reset
<1>3. queue[q] = << >> /\ Len(published) \in Nat /\ << >> \in Seq(Events) /\ Len(<< >>) = 0
  BY <1>1, <1>2, EmptySeq, LenProperties DEF Closed, TypeOK
<1>4. /\ conn' \in [Conns -> {"closed", "handed", "open", "abandoned"}]
      /\ shown' \in [Conns -> Seq(Events)] /\ since' \in [Conns -> Nat]
      /\ sent' \in [Conns -> Nat] /\ subscribers' \subseteq Conns
      /\ conn'[q] = "handed" /\ sent'[q] = 0 /\ since'[q] = Len(published)
      /\ \A p \in Conns \ {q} : /\ conn'[p] = conn[p] /\ since'[p] = since[p]
                                /\ sent'[p] = sent[p]
                                /\ p \in subscribers' <=> p \in subscribers
  BY <1>1, <1>2, <1>3 DEF TypeOK
<1>5. Closed(q)'
  BY <1>2, <1>4 DEF Closed
<1>6. InStep(q)'
  <2>1. queue'[q] = << >> /\ Len(published') = Len(published) /\ DOMAIN << >> = {}
    BY <1>2, <1>3
  <2> QED
    BY <1>3, <1>4, <2>1 DEF InStep
<1>7. queue' \in [Conns -> Seq(Events)] /\ Len(queue'[q]) <= QueueSize
  BY <1>1, <1>2 DEF TypeOK
<1> QED
  BY <1>2, <1>4, <1>5, <1>6, <1>7, ReaderInv

LEMMA StartOrAbandonInv ==
  ASSUME Inv, NEW q \in Conns, StartStream(q) \/ Abandon(q)
  PROVE  Inv'
<1>1. TypeOK /\ Closed(q) /\ (conn[q] # "closed" => InStep(q))
  BY DEF Inv
<1>2. PICK to \in {"open", "abandoned"} :
        /\ conn[q] = "handed" /\ conn' = [conn EXCEPT ![q] = to]
        /\ UNCHANGED <<backend, pc, registryVars, agentVars, streamVars, shown, since, sent>>
  BY DEF StartStream, Abandon
<1>3. /\ conn' \in [Conns -> {"closed", "handed", "open", "abandoned"}]
      /\ conn'[q] = to /\ \A p \in Conns \ {q} : conn'[p] = conn[p]
  BY <1>1, <1>2 DEF TypeOK
<1>4. Closed(q)' /\ InStep(q)'
  BY <1>1, <1>2, <1>3 DEF Closed, InStep, streamVars
<1> QED
  BY <1>1, <1>2, <1>3, <1>4, ReaderInv DEF TypeOK, streamVars

(* The queue of a connection that ends is empty and no longer subscribed.  *)
LEMMA CloseInv ==
  ASSUME Inv, NEW q \in Conns, Collect(q) \/ Disconnect(q)
  PROVE  Inv'
<1>1. TypeOK /\ Closed(q)
  BY DEF Inv
<1>2. /\ conn' = [conn EXCEPT ![q] = "closed"] /\ subscribers' = subscribers \ {q}
      /\ queue' = [queue EXCEPT ![q] = << >>]
      /\ since' = [since EXCEPT ![q] = 0] /\ sent' = [sent EXCEPT ![q] = 0]
      /\ shown' = [shown EXCEPT ![q] = << >>]
      /\ UNCHANGED <<backend, pc, registryVars, agentVars, published>>
  BY DEF Collect, Disconnect, Reset
<1>3. << >> \in Seq(Events) /\ Len(<< >>) = 0
  BY EmptySeq
<1>4. /\ conn' \in [Conns -> {"closed", "handed", "open", "abandoned"}]
      /\ shown' \in [Conns -> Seq(Events)] /\ since' \in [Conns -> Nat]
      /\ queue' \in [Conns -> Seq(Events)]
      /\ sent' \in [Conns -> Nat] /\ subscribers' \subseteq Conns
      /\ conn'[q] = "closed" /\ queue'[q] = << >>
      /\ \A p \in Conns \ {q} : /\ conn'[p] = conn[p] /\ since'[p] = since[p]
                                /\ sent'[p] = sent[p] /\ queue'[p] = queue[p]
                                /\ p \in subscribers' <=> p \in subscribers
  BY <1>1, <1>2, <1>3 DEF TypeOK
<1>5. Closed(q)'
  BY <1>2, <1>4 DEF Closed
<1>6. Len(queue'[q]) <= QueueSize
  BY <1>3, <1>4, RunRegistryConstants
<1> QED
  BY <1>2, <1>4, <1>5, <1>6, ReaderInv

LEMMA SendInv == ASSUME Inv, NEW q \in Conns, Send(q) PROVE Inv'
<1> DEFINE next == since[q] + sent[q]
           l    == Len(queue[q])
           n    == Len(published)
           rest == Tail(queue[q])
<1>1. TypeOK /\ Closed(q) /\ (conn[q] # "closed" => InStep(q))
  BY DEF Inv
<1>2. /\ conn[q] = "open" /\ queue[q] # << >>
      /\ queue' = [queue EXCEPT ![q] = rest]
      /\ sent' = [sent EXCEPT ![q] = @ + 1]
      /\ shown' = [shown EXCEPT ![q] = OnMessage(q, Head(queue[q]))]
      /\ UNCHANGED <<backend, pc, registryVars, agentVars, subscribers, published, conn, since>>
  BY DEF Send
<1>3. /\ queue[q] \in Seq(Events) /\ l \in Nat \ {0} /\ DOMAIN queue[q] = 1 .. l
      /\ l <= QueueSize /\ QueueSize \in Nat /\ n \in Nat
      /\ next \in Nat /\ since[q] \in Nat /\ sent[q] \in Nat
  BY <1>1, <1>2, EmptySeq, LenProperties, RunRegistryConstants DEF TypeOK
<1>4. /\ rest \in Seq(Events) /\ Len(rest) = l - 1 /\ DOMAIN rest = 1 .. l - 1
      /\ \A i \in 1 .. l - 1 : rest[i] = queue[q][i + 1]
      /\ Head(queue[q]) \in Events
  <2>1. rest \in Seq(Events) /\ Len(rest) = l - 1 /\ Head(queue[q]) \in Events
    BY <1>2, <1>3, HeadTailProperties
  <2>2. \A i \in 1 .. Len(rest) : rest[i] = queue[q][i + 1]
    BY <1>2, <1>3, HeadTailProperties
  <2>3. DOMAIN rest = 1 .. Len(rest)
    BY <2>1, LenProperties
  <2> QED
    BY <2>1, <2>2, <2>3
<1>5. OnMessage(q, Head(queue[q])) \in Seq(Events)
  <2>1. shown[q] \in Seq(Events)
    BY <1>1 DEF TypeOK
  <2>2. Append(shown[q], Head(queue[q])) \in Seq(Events)
    BY <1>4, <2>1, AppendProperties
  <2> QED
    BY <2>1, <2>2 DEF OnMessage
<1>6. /\ next + l <= n
      /\ \A k \in 1 .. l : queue[q][k] = published[next + k]
      /\ q \in subscribers => next + l = n
  BY <1>1, <1>2, <1>3 DEF InStep
<1> HIDE DEF l, n, rest
<1>7. /\ queue' \in [Conns -> Seq(Events)] /\ shown' \in [Conns -> Seq(Events)]
      /\ sent' \in [Conns -> Nat] /\ queue'[q] = rest /\ sent'[q] = sent[q] + 1
      /\ \A p \in Conns \ {q} : queue'[p] = queue[p] /\ sent'[p] = sent[p]
  BY <1>1, <1>2, <1>3, <1>4, <1>5 DEF TypeOK
<1>8. next' = next + 1
  <2>1. since'[q] = since[q] /\ sent'[q] = sent[q] + 1
    BY <1>2, <1>7
  <2>2. since[q] + (sent[q] + 1) = since[q] + sent[q] + 1
    BY <1>3
  <2> QED
    BY <2>1, <2>2
<1>9. InStep(q)'
  <2>1. next' + Len(queue'[q]) = next + l /\ next + l \in Nat
    <3>1. next + 1 + (l - 1) = next + l /\ next + l \in Nat
      BY <1>3
    <3>2. next' = next + 1 /\ Len(queue'[q]) = l - 1
      BY <1>4, <1>7, <1>8
    <3> QED
      BY <3>1, <3>2
  <2>2. \A k \in DOMAIN queue'[q] : queue'[q][k] = published'[next' + k]
    <3> SUFFICES ASSUME NEW k \in 1 .. l - 1 PROVE rest[k] = published[next + 1 + k]
      BY <1>2, <1>4, <1>7, <1>8
    <3>1. k + 1 \in 1 .. l /\ next + (k + 1) = next + 1 + k
      BY <1>3
    <3> QED
      BY <1>4, <1>6, <3>1
  <2>3. Len(published') = n /\ subscribers' = subscribers /\ conn'[q] = "open"
    BY <1>2 DEF n
  <2> HIDE DEF next
  <2>4. /\ next' + Len(queue'[q]) <= Len(published')
        /\ q \in subscribers' => next' + Len(queue'[q]) = Len(published')
        /\ conn'[q] \in {"handed", "abandoned"} => sent'[q] = 0
    BY <1>6, <2>1, <2>3
  <2> QED
    BY <2>2, <2>4 DEF InStep, next
<1>10. Closed(q)'
  BY <1>1, <1>2 DEF Closed
<1>11. Len(queue'[q]) <= QueueSize
  BY <1>3, <1>4, <1>7
<1> QED
  BY <1>1, <1>2, <1>7, <1>9, <1>10, <1>11, ReaderInv DEF TypeOK

-----------------------------------------------------------------------------

LEMMA InitInv == Init => Inv
<1> SUFFICES ASSUME Init PROVE Inv
  OBVIOUS
<1>1. \A S : << >> \in Seq(S) /\ Len(<< >>) = 0 /\ DOMAIN << >> = {}
  BY EmptySeq
<1>2. ToSet(order) = {} /\ IsInjective(order) /\ DOMAIN runs = {}
  BY <1>1 DEF Init, ToSet, IsInjective
<1>3. runs \in [ToSet(order) -> Record]
  BY <1>1, <1>2 DEF Init
<1>4. TypeOK
  BY <1>1, <1>2, <1>3, RunRegistryConstants DEF Init, TypeOK
<1>5. \A r : OfRun(r) = {} /\ Said(r) = {}
  BY <1>1 DEF Init, OfRun, Said
<1>6. \A r \in Requests : Stage(r)
  BY <1>2, <1>5 DEF Init, Stage, Ordered, Reached, OnRecord, OnMemory
<1>7. \A q \in Conns : Closed(q) /\ conn[q] = "closed"
  BY DEF Init, Closed
<1> QED
  BY <1>4, <1>6, <1>7 DEF Inv

LEMMA NextInv == Inv /\ [Next]_vars => Inv'
<1> SUFFICES ASSUME Inv, [Next]_vars PROVE Inv'
  OBVIOUS
<1>1. ASSUME NEW r \in Requests, CreateRun(r) \/ RunStep(r) \/ DetachedRuns(r) PROVE Inv'
  BY <1>1, CreateRunInv, EmitStartInv, SetUpInv, AgentStepInv, AgentDetachesInv, RunEndsInv,
     RunRaisesInv, EmitCompleteInv, EmitFailedInv, DetachedRunsInv DEF RunStep
<1>2. ASSUME NEW q \in Conns, ReaderStep(q) PROVE Inv'
  BY <1>2, ConnectInv, StartOrAbandonInv, CloseInv, SendInv DEF ReaderStep
<1>3. CASE UNCHANGED vars
  <2>1. UNCHANGED <<backend, pc, registryVars, agentVars, streamVars, readerVars>>
    BY <1>3 DEF vars
  <2>2. TypeOK'
    BY <2>1 DEF Inv, TypeOK, registryVars, agentVars, streamVars, readerVars
  <2>3. \A r \in Requests : Stage(r)'
    BY <2>1, SameStage DEF Inv, streamVars
  <2>4. \A q \in Conns : Closed(q)' /\ (conn'[q] # "closed" => InStep(q)')
    BY <2>1 DEF Inv, Closed, InStep, streamVars, readerVars
  <2> QED
    BY <2>2, <2>3, <2>4 DEF Inv
<1> QED
  BY <1>1, <1>2, <1>3 DEF Next

LEMMA Invariance == Spec => []Inv
<1> QED
  BY InitInv, NextInv, PTL DEF Spec

-----------------------------------------------------------------------------
(* The properties.                                                         *)

(* The data keep their types, the queues are within their maxsize, and the *)
(* registry is within max_runs, its ids and its records in step.           *)
THEOREM TypeCorrect == Spec => []TypeOK
<1>1. Inv => TypeOK
  BY DEF Inv
<1> QED
  BY <1>1, Invariance, PTL

(* The stream tells one story per run, however its publishers interleave:  *)
(* started once and first, one ending, and nothing after it but what was   *)
(* left to tasks.                                                          *)
THEOREM OneStoryPerRun == Spec => []OneStory
<1>1. ASSUME Inv, NEW r \in Requests
      PROVE  /\ \A i, j \in OfRun(r) :
                  i < j => MayFollow(published[j].kind, published[i].kind)
             /\ backend = "memory" =>
                  /\ OfRun(r) # {} => \E i \in OfRun(r) : published[i].kind = "RUN_START"
                  /\ Cardinality(Told(r)) <= 1
  <2>1. Ordered(r) /\ Reached(r) /\ OnMemory(r)
    BY <1>1 DEF Inv, Stage
  <2>2. Told(r) = Said(r) \cap Endings
    BY DEF Told, Said
  <2>3. ASSUME backend = "memory", NEW i \in OfRun(r)
        PROVE  \E k \in OfRun(r) : published[k].kind = "RUN_START"
    <3>1. published[i].kind \in Said(r)
      BY DEF Said
    <3>2. "RUN_START" \in Said(r)
      <4>1. pc[r] # "idle"
        BY <2>1, <3>1 DEF Reached
      <4> QED
        BY <2>1, <2>3, <4>1 DEF OnMemory
    <3> QED
      BY <3>2 DEF Said
  <2>4. ASSUME backend = "memory" PROVE Cardinality(Told(r)) <= 1
    <3>1. \E x : Told(r) \subseteq {x}
      BY <2>1, <2>2, <2>4 DEF OnMemory, Endings
    <3>2. PICK x : Told(r) \subseteq {x}
      BY <3>1
    <3>3. Told(r) = {} \/ Told(r) = {x}
      BY <3>2
    <3>4. Cardinality({}) = 0 /\ Cardinality({x}) = 1
      BY FS_EmptySet, FS_Singleton
    <3>5. CASE Told(r) = {}
      BY <3>4, <3>5
    <3>6. CASE Told(r) = {x}
      BY <3>4, <3>6
    <3> QED
      BY <3>3, <3>5, <3>6
  <2> QED
    BY <2>1, <2>3, <2>4 DEF Ordered
<1>2. Inv => OneStory
  BY <1>1 DEF OneStory
<1> QED
  BY <1>2, Invariance, PTL

(* GET /runs and the stream do not contradict each other, also about a run *)
(* that was evicted and put back.                                          *)
THEOREM RecordAndStoryAgree == Spec => []RecordMatchesStory
<1>1. ASSUME Inv, NEW r \in DOMAIN runs
      PROVE  /\ "RUN_FAILED" \in Told(r) => runs[r].status = "failed"
             /\ backend = "memory" => Told(r) = EndingOf(runs[r].status)
  <2>1. r \in Requests
    BY <1>1 DEF Inv, TypeOK, ToSet
  <2>2. OnRecord(r) /\ OnMemory(r)
    BY <1>1, <2>1 DEF Inv, Stage
  <2>3. Told(r) = Said(r) \cap Endings
    BY DEF Told, Said
  <2> QED
    BY <2>2, <2>3 DEF OnRecord, OnMemory
<1>2. Inv => RecordMatchesStory
  BY <1>1 DEF RecordMatchesStory, EndingOf
<1> QED
  BY <1>2, Invariance, PTL

(* A subscribed connection hears the whole stream from its subscription    *)
(* on, one that is discarded a piece of it without a gap.                  *)
THEOREM NoGapInTheStream == Spec => []StreamHasNoGap
<1>1. ASSUME Inv, NEW q \in Conns, conn[q] # "closed"
      PROVE  LET next == since[q] + sent[q]
             IN  /\ queue[q] = SubSeq(published, next + 1, next + Len(queue[q]))
                 /\ q \in subscribers => next + Len(queue[q]) = Len(published)
  <2> DEFINE next  == since[q] + sent[q]
             l     == Len(queue[q])
             piece == SubSeq(published, next + 1, next + l)
  <2>1. TypeOK /\ InStep(q)
    BY <1>1 DEF Inv
  <2>2. /\ queue[q] \in Seq(Events) /\ l \in Nat /\ DOMAIN queue[q] = 1 .. l
        /\ published \in Seq(Events) /\ Len(published) \in Nat /\ next \in Nat
        /\ \A i \in 1 .. Len(published) : published[i] \in Events
    BY <2>1, LenProperties, ElementOfSeq DEF TypeOK
  <2>3. /\ next + l <= Len(published)
        /\ \A k \in 1 .. l : queue[q][k] = published[next + k]
        /\ q \in subscribers => next + l = Len(published)
    BY <2>1, <2>2 DEF InStep
  <2> HIDE DEF next, l
  <2>4. \A i \in next + 1 .. next + l : published[i] \in Events
    BY <2>2, <2>3
  <2>5. /\ piece \in Seq(Events)
        /\ Len(piece) = IF next + 1 <= next + l THEN next + l - (next + 1) + 1 ELSE 0
        /\ \A i \in 1 .. next + l - (next + 1) + 1 : piece[i] = published[next + 1 + i - 1]
    BY <2>2, <2>4, SubSeqProperties
  <2> HIDE DEF piece
  <2>6. /\ next + l - (next + 1) + 1 = l
        /\ (IF next + 1 <= next + l THEN next + l - (next + 1) + 1 ELSE 0) = l
        /\ \A i \in 1 .. l : next + 1 + i - 1 = next + i
    BY <2>2
  <2>7. Len(piece) = l /\ \A i \in 1 .. l : piece[i] = queue[q][i]
    BY <2>3, <2>5, <2>6
  <2>8. queue[q] = piece
    BY <2>2, <2>5, <2>7, SeqEqual DEF l
  <2> QED
    BY <2>3, <2>8 DEF next, l, piece
<1>2. Inv => StreamHasNoGap
  BY <1>1 DEF StreamHasNoGap
<1> QED
  BY <1>2, Invariance, PTL

(* What an abandoned connection costs is bounded by the size of its queue. *)
THEOREM BoundedLeak == Spec => []LeakIsBounded
<1>1. ASSUME Inv, NEW q \in subscribers, conn[q] = "abandoned"
      PROVE  Len(published) - since[q] <= QueueSize
  <2>1. q \in Conns
    BY <1>1 DEF Inv, TypeOK
  <2>2. InStep(q) /\ TypeOK
    BY <1>1, <2>1 DEF Inv
  <2>3. /\ queue[q] \in Seq(Events) /\ Len(queue[q]) \in Nat /\ Len(queue[q]) <= QueueSize
        /\ since[q] \in Nat /\ QueueSize \in Nat
    BY <2>1, <2>2, LenProperties, RunRegistryConstants DEF TypeOK
  <2>4. sent[q] = 0 /\ since[q] + sent[q] + Len(queue[q]) = Len(published)
    BY <1>1, <2>2 DEF InStep
  <2> QED
    BY <2>3, <2>4
<1>2. Inv => LeakIsBounded
  BY <1>1 DEF LeakIsBounded
<1> QED
  BY <1>2, Invariance, PTL
=============================================================================
