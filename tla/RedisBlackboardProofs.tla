------------------------ MODULE RedisBlackboardProofs ------------------------
(***************************************************************************)
(* What TLAPS proves of the Redis blackboard, for all tasks and agents,    *)
(* any max_retries and any size of a batch, agents dying at will: one live *)
(* entry per task, one holder, and that it implements the task board.      *)
(*                                                                         *)
(* A task that can be acted on has one token: its pending XADD, its entry  *)
(* in the stream or in an agent's batch, or the agent that consumed the    *)
(* entry, until fail_task adds a new one.                                  *)
(***************************************************************************)
EXTENDS RedisBlackboard, SequenceTheorems, FiniteSetTheorems, TLAPS

Elems(q)    == {q[i] : i \in DOMAIN q}
Distinct(q) == \A i, j \in DOMAIN q : q[i] = q[j] => i = j

\* The agents between the consumption of an entry and the end of what they
\* do for it; those that will add an entry once more or are done with it.
Carrying(a) == pc[a] \in {"requeue", "take"}
Keeping(a)  == pc[a] \in {"claimed", "start", "working", "complete", "read", "bury", "readd"}
Token(a, t) == (Carrying(a) \/ Keeping(a)) /\ task[a] = t

OneToken ==
  /\ Distinct(queue)
  /\ \A t \in Elems(queue) :
       t \notin posting /\ \A a \in Agents : t \notin Elems(batch[a]) /\ ~Token(a, t)
  /\ \A a \in Agents :
       /\ Distinct(batch[a])
       /\ \A t \in Elems(batch[a]) :
            /\ t \notin posting
            /\ \A b \in Agents : ~Token(b, t) /\ (b # a => t \notin Elems(batch[b]))
       /\ \A t \in Tasks : Token(a, t) =>
            t \notin posting /\ \A b \in Agents : Token(b, t) => b = a

\* A task that is not there has no token.
NoneBefore ==
  \A t \in Tasks : status[t] = "absent" =>
    /\ t \notin posting /\ t \notin Elems(queue)
    /\ \A a \in Agents : t \notin Elems(batch[a])

\* What an agent knows of the task it acts on.
OnRecord ==
  \A a \in Agents :
    /\ pc[a] \notin {"idle", "scan"} => task[a] \in Tasks
    /\ Carrying(a) => status[task[a]] = "posted"
    /\ Holds(a) => claimed_by[task[a]] = a /\ status[task[a]] \in Active

\* The retries are counted from what fail_task read.
Counted ==
  /\ \A t \in Tasks : status[t] # "dead" => retry_count[t] < MaxRetries
  /\ \A a \in Agents :
       /\ pc[a] \in {"bury", "readd", "repost"} => seen[a] = retry_count[task[a]]
       /\ pc[a] = "bury" => seen[a] + 1 >= MaxRetries
       /\ pc[a] \in {"readd", "repost"} => seen[a] + 1 < MaxRetries

Inv == TypeOK /\ OneToken /\ NoneBefore /\ OnRecord /\ Counted

-----------------------------------------------------------------------------
(* The entries of sequences.                                               *)

LEMMA AppendElems ==
  ASSUME NEW S, NEW q \in Seq(S), NEW x \in S
  PROVE  /\ Append(q, x) \in Seq(S) /\ Elems(Append(q, x)) = Elems(q) \cup {x}
         /\ Distinct(q) /\ x \notin Elems(q) => Distinct(Append(q, x))
<1>1. /\ Append(q, x) \in Seq(S) /\ Len(Append(q, x)) = Len(q) + 1
      /\ \A i \in 1 .. Len(q) : Append(q, x)[i] = q[i]
      /\ Append(q, x)[Len(q) + 1] = x
      /\ DOMAIN q = 1 .. Len(q) /\ Len(q) \in Nat
      /\ DOMAIN Append(q, x) = 1 .. Len(q) + 1
  OBVIOUS
<1> DEFINE p == Append(q, x)
<1> HIDE DEF p
<1>2. Elems(p) = Elems(q) \cup {x}
  <2>1. \A y \in Elems(p) : y \in Elems(q) \cup {x}
    BY <1>1 DEF Elems, p
  <2>2. \A y \in Elems(q) : y \in Elems(p)
    BY <1>1 DEF Elems, p
  <2>3. x \in Elems(p)
    BY <1>1 DEF Elems, p
  <2> QED
    BY <2>1, <2>2, <2>3
<1>3. ASSUME Distinct(q), x \notin Elems(q) PROVE Distinct(p)
  BY <1>1, <1>3 DEF Distinct, Elems, p
<1> QED
  BY <1>1, <1>2, <1>3 DEF p

(* The first n entries and the others.                                     *)
LEMMA SplitElems ==
  ASSUME NEW S, NEW q \in Seq(S), NEW n \in 0 .. Len(q)
  PROVE  LET first == SubSeq(q, 1, n)
             rest  == SubSeq(q, n + 1, Len(q))
         IN  /\ first \in Seq(S) /\ rest \in Seq(S)
             /\ Elems(first) \subseteq Elems(q) /\ Elems(rest) \subseteq Elems(q)
             /\ Distinct(q) => /\ Distinct(first) /\ Distinct(rest)
                               /\ Elems(first) \cap Elems(rest) = {}
<1> DEFINE first == SubSeq(q, 1, n)
           rest  == SubSeq(q, n + 1, Len(q))
<1>1. Len(q) \in Nat /\ DOMAIN q = 1 .. Len(q) /\ n \in Nat /\ n <= Len(q)
  OBVIOUS
<1>2. /\ first \in Seq(S) /\ Len(first) = n /\ DOMAIN first = 1 .. n
      /\ \A i \in 1 .. n : first[i] = q[i]
  <2>1. \A i \in 1 .. n : q[i] \in S
    BY <1>1
  <2>2. /\ first \in Seq(S) /\ Len(first) = IF 1 <= n THEN n - 1 + 1 ELSE 0
        /\ \A i \in 1 .. n - 1 + 1 : first[i] = q[1 + i - 1]
    BY <1>1, <2>1, SubSeqProperties
  <2> HIDE DEF first
  <2> QED
    BY <1>1, <2>2
<1>3. /\ rest \in Seq(S) /\ Len(rest) = Len(q) - n /\ DOMAIN rest = 1 .. Len(q) - n
      /\ \A i \in 1 .. Len(q) - n : rest[i] = q[n + i]
  <2>1. \A i \in n + 1 .. Len(q) : q[i] \in S
    BY <1>1
  <2>2. /\ rest \in Seq(S)
        /\ Len(rest) = IF n + 1 <= Len(q) THEN Len(q) - (n + 1) + 1 ELSE 0
        /\ \A i \in 1 .. Len(q) - (n + 1) + 1 : rest[i] = q[(n + 1) + i - 1]
    BY <1>1, <2>1, SubSeqProperties
  <2> HIDE DEF rest
  <2>3. ASSUME NEW l \in Nat, n <= l
        PROVE  /\ l - (n + 1) + 1 = l - n
               /\ (IF n + 1 <= l THEN l - (n + 1) + 1 ELSE 0) = l - n
               /\ \A i \in 1 .. l - n : (n + 1) + i - 1 = n + i
    BY <1>1, <2>3
  <2>4. /\ Len(q) - (n + 1) + 1 = Len(q) - n
        /\ (IF n + 1 <= Len(q) THEN Len(q) - (n + 1) + 1 ELSE 0) = Len(q) - n
        /\ \A i \in 1 .. Len(q) - n : (n + 1) + i - 1 = n + i
    BY <1>1, <2>3
  <2>5. Len(rest) = Len(q) - n
    <3>1. Len(rest) = IF n + 1 <= Len(q) THEN Len(q) - (n + 1) + 1 ELSE 0
      BY <2>2
    <3> QED
      BY <2>4, <3>1, Zenon
  <2>6. DOMAIN rest = 1 .. Len(rest)
    BY <2>2, LenProperties
  <2> QED
    BY <2>2, <2>4, <2>5, <2>6
<1> HIDE DEF first, rest
<1>4. Elems(first) \subseteq Elems(q) /\ Elems(rest) \subseteq Elems(q)
  <2>1. \A y \in Elems(first) : y \in Elems(q)
    BY <1>1, <1>2 DEF Elems
  <2>2. \A y \in Elems(rest) : y \in Elems(q)
    <3> SUFFICES ASSUME NEW i \in 1 .. Len(q) - n PROVE rest[i] \in Elems(q)
      BY <1>3 DEF Elems
    <3>1. n + i \in DOMAIN q /\ rest[i] = q[n + i]
      BY <1>1, <1>3
    <3> QED
      BY <3>1 DEF Elems
  <2> QED
    BY <2>1, <2>2
<1>5. ASSUME Distinct(q)
      PROVE  Distinct(first) /\ Distinct(rest) /\ Elems(first) \cap Elems(rest) = {}
  <2>1. Distinct(first)
    BY <1>1, <1>2, <1>5 DEF Distinct
  <2>2. Distinct(rest)
    <3> SUFFICES ASSUME NEW i \in 1 .. Len(q) - n, NEW j \in 1 .. Len(q) - n,
                        rest[i] = rest[j]
                 PROVE  i = j
      BY <1>3 DEF Distinct
    <3>1. n + i \in DOMAIN q /\ n + j \in DOMAIN q /\ q[n + i] = q[n + j]
      BY <1>1, <1>3
    <3>2. n + i = n + j
      BY <1>5, <3>1 DEF Distinct
    <3> QED
      BY <1>1, <3>2
  <2>3. ASSUME NEW i \in 1 .. n, NEW j \in 1 .. Len(q) - n PROVE first[i] # rest[j]
    <3>1. i \in DOMAIN q /\ n + j \in DOMAIN q /\ i # n + j
      BY <1>1
    <3> QED
      BY <1>2, <1>3, <1>5, <3>1 DEF Distinct
  <2> QED
    BY <1>2, <1>3, <2>1, <2>2, <2>3 DEF Elems
<1> QED
  BY <1>2, <1>3, <1>4, <1>5 DEF first, rest

(* The next entry and the others.                                          *)
LEMMA HeadTailElems ==
  ASSUME NEW S, NEW q \in Seq(S), q # << >>
  PROVE  /\ Head(q) \in Elems(q) /\ Head(q) \in S /\ Tail(q) \in Seq(S)
         /\ Elems(Tail(q)) \subseteq Elems(q)
         /\ Distinct(q) => Distinct(Tail(q)) /\ Head(q) \notin Elems(Tail(q))
<1> DEFINE rest == Tail(q)
<1>1. /\ Len(q) \in Nat /\ Len(q) >= 1 /\ DOMAIN q = 1 .. Len(q)
      /\ Head(q) = q[1] /\ q[1] \in S
      /\ rest \in Seq(S) /\ DOMAIN rest = 1 .. Len(q) - 1
      /\ \A i \in 1 .. Len(q) - 1 : rest[i] = q[i + 1] /\ i + 1 \in DOMAIN q
  OBVIOUS
<1> HIDE DEF rest
<1>2. Elems(rest) \subseteq Elems(q) /\ Head(q) \in Elems(q)
  <2>1. ASSUME NEW i \in DOMAIN rest PROVE rest[i] \in Elems(q)
    <3>1. i + 1 \in DOMAIN q /\ rest[i] = q[i + 1]
      BY <1>1
    <3> QED
      BY <3>1 DEF Elems
  <2>2. 1 \in DOMAIN q
    BY <1>1
  <2> QED
    BY <1>1, <2>1, <2>2 DEF Elems
<1>3. ASSUME Distinct(q) PROVE Distinct(rest) /\ Head(q) \notin Elems(rest)
  <2>1. ASSUME NEW i \in DOMAIN rest PROVE i + 1 \in DOMAIN q /\ i + 1 # 1
    BY <1>1
  <2>2. \A i, j \in DOMAIN rest : rest[i] = rest[j] => i + 1 = j + 1
    BY <1>1, <1>3, <2>1 DEF Distinct
  <2>3. Distinct(rest)
    BY <1>1, <2>2 DEF Distinct
  <2>4. \A i \in DOMAIN rest : rest[i] # q[1]
    BY <1>1, <1>3, <2>1 DEF Distinct
  <2> QED
    BY <1>1, <2>3, <2>4 DEF Elems
<1> QED
  BY <1>1, <1>2, <1>3 DEF rest

LEMMA NoElems == Elems(<< >>) = {} /\ Distinct(<< >>) /\ \A S : << >> \in Seq(S)
BY DEF Elems, Distinct

-----------------------------------------------------------------------------
(* An agent's command leaves what other agents have read alone.            *)
OthersStay(a) == \A b \in Agents \ {a} :
  pc'[b] = pc[b] /\ batch'[b] = batch[b] /\ task'[b] = task[b] /\ seen'[b] = seen[b]

(* Tokens are only lost.                                                   *)
LEMMA FewerTokens ==
  ASSUME OneToken, posting' \subseteq posting,
         Elems(queue') \subseteq Elems(queue), Distinct(queue'),
         \A a \in Agents : Elems(batch'[a]) \subseteq Elems(batch[a]) /\ Distinct(batch'[a]),
         \A a \in Agents : \A t : Token(a, t)' => Token(a, t)
  PROVE  OneToken'
BY DEF OneToken

LEMMA NoneBeforeStays ==
  ASSUME NoneBefore, posting' \subseteq posting, Elems(queue') \subseteq Elems(queue),
         \A a \in Agents : Elems(batch'[a]) \subseteq Elems(batch[a]),
         \A t \in Tasks : status'[t] = "absent" => status[t] = "absent"
  PROVE  NoneBefore'
BY DEF NoneBefore

LEMMA PostHashInv == ASSUME Inv, NEW t \in Tasks, PostHash(t) PROVE Inv'
<1>1. TypeOK /\ OneToken /\ NoneBefore /\ OnRecord /\ Counted
  BY DEF Inv
<1>2. /\ status[t] = "absent" /\ posting' = posting \cup {t}
      /\ status' = [status EXCEPT ![t] = "posted"]
      /\ UNCHANGED <<queue, claimed_by, retry_count, pc, batch, task, seen>>
  BY DEF PostHash, agentVars
<1>3. TypeOK'
  BY <1>1, <1>2 DEF TypeOK
<1>4. /\ status'[t] = "posted"
      /\ \A u \in Tasks : u # t => status'[u] = status[u]
  BY <1>1, <1>2 DEF TypeOK
<1>5. t \notin Elems(queue) /\ \A a \in Agents : t \notin Elems(batch[a])
  BY <1>1, <1>2 DEF NoneBefore
<1>6. \A a \in Agents : pc[a] \notin {"idle", "scan"} => task[a] # t
  BY <1>1, <1>2 DEF OnRecord, Carrying, Holds, Active
<1>7. \A a \in Agents : \A u : Token(a, u)' <=> Token(a, u)
  BY <1>2 DEF Token, Carrying, Keeping
<1>8. \A a \in Agents : ~Token(a, t)
  BY <1>6 DEF Token, Carrying, Keeping
<1>9. OneToken'
  BY <1>1, <1>2, <1>5, <1>7, <1>8 DEF OneToken
<1>10. NoneBefore'
  BY <1>1, <1>2, <1>4 DEF NoneBefore
<1>11. OnRecord'
  BY <1>1, <1>2, <1>4, <1>6 DEF OnRecord, Carrying, Holds
<1>12. Counted'
  BY <1>1, <1>2, <1>4 DEF Counted
<1> QED
  BY <1>3, <1>9, <1>10, <1>11, <1>12 DEF Inv

LEMMA PostEntryInv == ASSUME Inv, NEW t \in Tasks, PostEntry(t) PROVE Inv'
<1>1. TypeOK /\ OneToken /\ NoneBefore /\ OnRecord /\ Counted
  BY DEF Inv
<1>2. /\ t \in posting /\ posting' = posting \ {t} /\ queue' = Append(queue, t)
      /\ UNCHANGED <<status, claimed_by, retry_count, pc, batch, task, seen>>
  BY DEF PostEntry, hashVars, agentVars
<1>3. queue \in Seq(Tasks)
  BY <1>1 DEF TypeOK
<1>4. t \notin Elems(queue) /\ \A a \in Agents : t \notin Elems(batch[a]) /\ ~Token(a, t)
  BY <1>1, <1>2 DEF OneToken
<1>5. /\ queue' \in Seq(Tasks) /\ Elems(queue') = Elems(queue) \cup {t}
      /\ Distinct(queue) => Distinct(queue')
  BY <1>2, <1>3, <1>4, AppendElems
<1>6. \A a \in Agents : \A u : Token(a, u)' <=> Token(a, u)
  BY <1>2 DEF Token, Carrying, Keeping
<1>7. TypeOK'
  BY <1>1, <1>2, <1>5 DEF TypeOK
<1>8. OneToken'
  BY <1>1, <1>2, <1>4, <1>5, <1>6 DEF OneToken
<1>9. NoneBefore'
  BY <1>1, <1>2, <1>5 DEF NoneBefore
<1>10. OnRecord' /\ Counted'
  BY <1>1, <1>2 DEF OnRecord, Carrying, Holds, Counted
<1> QED
  BY <1>7, <1>8, <1>9, <1>10 DEF Inv

LEMMA ReadGroupInv == ASSUME Inv, NEW a \in Agents, ReadGroup(a) PROVE Inv'
<1>1. TypeOK /\ OneToken /\ NoneBefore /\ OnRecord /\ Counted
  BY DEF Inv
<1> DEFINE n == IF Len(queue) < BatchSize THEN Len(queue) ELSE BatchSize
           first == SubSeq(queue, 1, n)
           rest  == SubSeq(queue, n + 1, Len(queue))
<1>2. /\ pc[a] = "idle" /\ pc' = [pc EXCEPT ![a] = "scan"]
      /\ batch' = [batch EXCEPT ![a] = first] /\ queue' = rest
      /\ UNCHANGED <<status, claimed_by, retry_count, posting, task, seen>>
  BY DEF ReadGroup, Goto, hashVars
<1>3. queue \in Seq(Tasks) /\ n \in 0 .. Len(queue)
  BY <1>1, RedisConstants DEF TypeOK
<1> HIDE DEF n
<1>4. /\ first \in Seq(Tasks) /\ rest \in Seq(Tasks)
      /\ Elems(first) \subseteq Elems(queue) /\ Elems(rest) \subseteq Elems(queue)
      /\ Distinct(queue) => /\ Distinct(first) /\ Distinct(rest)
                            /\ Elems(first) \cap Elems(rest) = {}
  BY <1>3, SplitElems
<1> HIDE DEF first, rest
<1>5. /\ pc'[a] = "scan" /\ batch'[a] = first
      /\ \A b \in Agents \ {a} : pc'[b] = pc[b] /\ batch'[b] = batch[b]
  BY <1>1, <1>2 DEF TypeOK
<1>6. TypeOK'
  BY <1>1, <1>2, <1>4 DEF TypeOK, PCs
<1>7. \A b \in Agents : \A u : Token(b, u)' <=> Token(b, u)
  BY <1>2, <1>5 DEF Token, Carrying, Keeping
<1>8. OneToken'
  BY <1>1, <1>2, <1>4, <1>5, <1>7 DEF OneToken
<1>9. NoneBefore'
  BY <1>1, <1>2, <1>4, <1>5 DEF NoneBefore
<1>10. OnRecord' /\ Counted'
  BY <1>1, <1>2, <1>5 DEF OnRecord, Carrying, Holds, Counted
<1> QED
  BY <1>6, <1>8, <1>9, <1>10 DEF Inv

LEMMA ScanInv == ASSUME Inv, NEW a \in Agents, Scan(a) PROVE Inv'
<1>1. TypeOK /\ OneToken /\ NoneBefore /\ OnRecord /\ Counted
  BY DEF Inv
<1> DEFINE t == Head(batch[a])
           rest == Tail(batch[a])
           next == IF status[t] # "posted" THEN "scan" ELSE AfterEntry(a, t)
<1>2. /\ batch[a] # << >> /\ pc[a] = "scan" /\ pc' = [pc EXCEPT ![a] = next]
      /\ task' = [task EXCEPT ![a] = t] /\ batch' = [batch EXCEPT ![a] = rest]
      /\ UNCHANGED <<status, claimed_by, retry_count, posting, queue, seen>>
  BY DEF Scan, ScanTo, Goto, hashVars
<1>3. next \in {"scan", "take", "requeue"} /\ (next # "scan" => status[t] = "posted")
  BY DEF AfterEntry
<1>4. batch[a] \in Seq(Tasks)
  BY <1>1 DEF TypeOK
<1>5. /\ t \in Elems(batch[a]) /\ t \in Tasks /\ rest \in Seq(Tasks)
      /\ Elems(rest) \subseteq Elems(batch[a])
      /\ Distinct(batch[a]) => Distinct(rest) /\ t \notin Elems(rest)
  BY <1>2, <1>4, HeadTailElems
<1> HIDE DEF t, rest, next
<1>6. /\ pc'[a] = next /\ batch'[a] = rest /\ task'[a] = t /\ OthersStay(a)
  BY <1>1, <1>2 DEF TypeOK, OthersStay
<1>7. TypeOK'
  BY <1>1, <1>2, <1>3, <1>5 DEF TypeOK, PCs
<1>8. \A b \in Agents : \A u : Token(b, u)' => Token(b, u) \/ (b = a /\ u = t)
  BY <1>6 DEF Token, Carrying, Keeping, OthersStay
<1>9. /\ t \notin Elems(rest) /\ t \notin posting /\ t \notin Elems(queue)
      /\ \A b \in Agents : ~Token(b, t) /\ (b # a => t \notin Elems(batch[b]))
  BY <1>1, <1>5 DEF OneToken
<1>10. /\ \A b \in Agents : Elems(batch'[b]) \subseteq Elems(batch[b]) /\ Distinct(batch'[b])
       /\ \A b \in Agents : t \notin Elems(batch'[b])
  BY <1>1, <1>5, <1>6, <1>9 DEF OneToken, OthersStay
<1>11. OneToken'
  BY <1>1, <1>2, <1>8, <1>9, <1>10 DEF OneToken
<1>12. NoneBefore'
  BY <1>1, <1>2, <1>10, NoneBeforeStays
<1>13. OnRecord'
  BY <1>1, <1>2, <1>3, <1>5, <1>6 DEF OnRecord, Carrying, Holds, OthersStay
<1>14. Counted'
  BY <1>1, <1>2, <1>3, <1>6 DEF Counted, OthersStay
<1> QED
  BY <1>7, <1>11, <1>12, <1>13, <1>14 DEF Inv

LEMMA ScanEndsInv == ASSUME Inv, NEW a \in Agents, ScanEnds(a) PROVE Inv'
<1>1. TypeOK /\ OneToken /\ NoneBefore /\ OnRecord /\ Counted
  BY DEF Inv
<1>2. /\ pc[a] = "scan" /\ pc' = [pc EXCEPT ![a] = "idle"]
      /\ task' = [task EXCEPT ![a] = NULL]
      /\ UNCHANGED <<status, claimed_by, retry_count, posting, queue, batch, seen>>
  BY DEF ScanEnds, Goto, hashVars
<1>3. pc'[a] = "idle" /\ OthersStay(a)
  BY <1>1, <1>2 DEF TypeOK, OthersStay
<1>4. TypeOK'
  BY <1>1, <1>2 DEF TypeOK, PCs
<1>5. \A b \in Agents : \A u : Token(b, u)' => Token(b, u)
  BY <1>3 DEF Token, Carrying, Keeping, OthersStay
<1>6. OneToken' /\ NoneBefore'
  BY <1>1, <1>2, <1>5 DEF OneToken, NoneBefore
<1>7. OnRecord' /\ Counted'
  BY <1>1, <1>2, <1>3 DEF OnRecord, Carrying, Holds, Counted, OthersStay
<1> QED
  BY <1>4, <1>6, <1>7 DEF Inv

(* The token goes back into the stream.                                    *)
LEMMA AddEntry ==
  ASSUME Inv, NEW a \in Agents, NEW t \in Tasks, Token(a, t), queue' = Append(queue, t),
         \A u : ~Token(a, u)', OthersStay(a), batch' = batch, posting' = posting,
         status' = status
  PROVE  queue' \in Seq(Tasks) /\ OneToken' /\ NoneBefore'
<1>1. TypeOK /\ OneToken /\ NoneBefore /\ OnRecord
  BY DEF Inv
<1>2. /\ t \notin Elems(queue) /\ t \notin posting
      /\ \A b \in Agents : t \notin Elems(batch[b]) /\ (Token(b, t) => b = a)
  BY <1>1 DEF OneToken
<1>3. queue \in Seq(Tasks)
  BY <1>1 DEF TypeOK
<1>4. /\ queue' \in Seq(Tasks) /\ Elems(queue') = Elems(queue) \cup {t}
      /\ Distinct(queue) => Distinct(queue')
  BY <1>2, <1>3, AppendElems
<1>5. \A b \in Agents : \A u : Token(b, u)' => Token(b, u) /\ b # a
  BY DEF Token, Carrying, Keeping, OthersStay
<1>6. OneToken'
  BY <1>1, <1>2, <1>4, <1>5 DEF OneToken
<1>7. status[t] # "absent"
  BY <1>1 DEF OnRecord, Token, Keeping, Carrying, Holds, Active
<1>8. NoneBefore'
  BY <1>1, <1>4, <1>7 DEF NoneBefore
<1> QED
  BY <1>4, <1>6, <1>8

LEMMA RequeueInv == ASSUME Inv, NEW a \in Agents, Requeue(a) PROVE Inv'
<1>1. TypeOK /\ OneToken /\ NoneBefore /\ OnRecord /\ Counted
  BY DEF Inv
<1> DEFINE t == task[a]
<1>2. /\ pc[a] = "requeue" /\ pc' = [pc EXCEPT ![a] = "scan"] /\ queue' = Append(queue, t)
      /\ UNCHANGED <<status, claimed_by, retry_count, posting, batch, task, seen>>
  BY DEF Requeue, Goto, hashVars
<1>3. pc'[a] = "scan" /\ OthersStay(a)
  BY <1>1, <1>2 DEF TypeOK, OthersStay
<1>4. t \in Tasks /\ Token(a, t)
  BY <1>1, <1>2 DEF OnRecord, Token, Carrying
<1>5. \A u : ~Token(a, u)'
  BY <1>3 DEF Token, Carrying, Keeping
<1>6. queue' \in Seq(Tasks) /\ OneToken' /\ NoneBefore'
  BY <1>2, <1>3, <1>4, <1>5, AddEntry
<1>7. TypeOK'
  BY <1>1, <1>2, <1>6 DEF TypeOK, PCs
<1>8. OnRecord' /\ Counted'
  BY <1>1, <1>2, <1>3 DEF OnRecord, Carrying, Holds, Counted, OthersStay
<1> QED
  BY <1>6, <1>7, <1>8 DEF Inv

LEMMA ReaddInv == ASSUME Inv, NEW a \in Agents, Readd(a) PROVE Inv'
<1>1. TypeOK /\ OneToken /\ NoneBefore /\ OnRecord /\ Counted
  BY DEF Inv
<1> DEFINE t == task[a]
<1>2. /\ pc[a] = "readd" /\ pc' = [pc EXCEPT ![a] = "repost"] /\ queue' = Append(queue, t)
      /\ UNCHANGED <<status, claimed_by, retry_count, posting, batch, task, seen>>
  BY DEF Readd, Goto, hashVars
<1>3. pc'[a] = "repost" /\ OthersStay(a)
  BY <1>1, <1>2 DEF TypeOK, OthersStay
<1>4. t \in Tasks /\ Token(a, t)
  BY <1>1, <1>2 DEF OnRecord, Token, Keeping
<1>5. \A u : ~Token(a, u)'
  BY <1>3 DEF Token, Carrying, Keeping
<1>6. queue' \in Seq(Tasks) /\ OneToken' /\ NoneBefore'
  BY <1>2, <1>3, <1>4, <1>5, AddEntry
<1>7. TypeOK'
  BY <1>1, <1>2, <1>6 DEF TypeOK, PCs
<1>8. OnRecord'
  BY <1>1, <1>2, <1>3 DEF OnRecord, Carrying, Holds, OthersStay
<1>9. Counted'
  BY <1>1, <1>2, <1>3 DEF Counted, OthersStay
<1> QED
  BY <1>6, <1>7, <1>8, <1>9 DEF Inv

-----------------------------------------------------------------------------
(* The commands of an agent about the task it has taken.                   *)

(* Two agents that act on a task act on different tasks.                   *)
LEMMA TasksDiffer ==
  ASSUME Inv, NEW a \in Agents, NEW b \in Agents, a # b,
         pc[a] \notin {"idle", "scan"}, pc[b] \notin {"idle", "scan"}
  PROVE  task[a] # task[b]
<1>1. OneToken /\ OnRecord
  BY DEF Inv
<1>2. CASE Carrying(a) /\ Carrying(b)
  BY <1>1, <1>2 DEF OneToken, OnRecord, Token
<1>3. CASE Holds(a) /\ Holds(b)
  BY <1>1, <1>3 DEF OnRecord
<1>4. CASE (Holds(a) /\ Carrying(b)) \/ (Carrying(a) /\ Holds(b))
  BY <1>1, <1>4 DEF OnRecord, Active
<1>5. (Holds(a) \/ Carrying(a)) /\ (Holds(b) \/ Carrying(b))
  BY DEF Holds, Carrying
<1> QED
  BY <1>2, <1>3, <1>4, <1>5

(* What a command that adds no entry and writes at most the hash of the    *)
(* agent's task leaves to be shown: what becomes of the agent itself.      *)
LEMMA CommandInv ==
  ASSUME Inv, NEW a \in Agents, pc[a] \notin {"idle", "scan"}, OthersStay(a), TypeOK',
         queue' = queue, posting' = posting, batch'[a] \in {batch[a], << >>},
         \A u : Token(a, u)' => Token(a, u),
         \A u \in Tasks \ {task[a]} : /\ status'[u] = status[u]
                                      /\ claimed_by'[u] = claimed_by[u]
                                      /\ retry_count'[u] = retry_count[u],
         status'[task[a]] # "absent",
         status'[task[a]] # "dead" => retry_count'[task[a]] < MaxRetries,
         pc'[a] \notin {"requeue", "take"},
         pc'[a] # "idle" => task'[a] = task[a],
         Holds(a)' => claimed_by'[task[a]] = a /\ status'[task[a]] \in Active,
         pc'[a] \in {"bury", "readd", "repost"} => seen'[a] = retry_count'[task[a]],
         pc'[a] = "bury" => seen'[a] + 1 >= MaxRetries,
         pc'[a] \in {"readd", "repost"} => seen'[a] + 1 < MaxRetries,
         pc'[a] # "scan"
  PROVE  Inv'
<1>1. TypeOK /\ OneToken /\ NoneBefore /\ OnRecord /\ Counted
  BY DEF Inv
<1>2. task[a] \in Tasks
  BY <1>1 DEF OnRecord
<1>3. \A b \in Agents : Elems(batch'[b]) \subseteq Elems(batch[b]) /\ Distinct(batch'[b])
  BY <1>1, NoElems DEF OthersStay, OneToken
<1>4. \A b \in Agents : \A u : Token(b, u)' => Token(b, u)
  BY DEF OthersStay, Token, Carrying, Keeping
<1>5. OneToken'
  BY <1>1, <1>3, <1>4, FewerTokens DEF OneToken
<1>6. NoneBefore'
  BY <1>1, <1>3, NoneBeforeStays
<1>7. ASSUME NEW b \in Agents \ {a}, pc[b] \notin {"idle", "scan"}
      PROVE  /\ task[b] \in Tasks \ {task[a]} /\ task'[b] = task[b]
             /\ pc'[b] = pc[b] /\ seen'[b] = seen[b]
  BY <1>1, <1>7, TasksDiffer DEF OthersStay, OnRecord
<1>8. OnRecord'
  <2> SUFFICES ASSUME NEW b \in Agents
               PROVE  /\ pc'[b] \notin {"idle", "scan"} => task'[b] \in Tasks
                      /\ Carrying(b)' => status'[task'[b]] = "posted"
                      /\ Holds(b)' => /\ claimed_by'[task'[b]] = b
                                      /\ status'[task'[b]] \in Active
    BY DEF OnRecord, Active
  <2>1. CASE b = a
    BY <1>2, <2>1 DEF Carrying, Holds
  <2>2. CASE b # a /\ pc[b] \in {"idle", "scan"}
    BY <2>2 DEF OthersStay, Carrying, Holds
  <2>3. CASE b # a /\ pc[b] \notin {"idle", "scan"}
    BY <1>1, <1>7, <2>3 DEF OnRecord, Carrying, Holds
  <2> QED
    BY <2>1, <2>2, <2>3
<1>9. Counted'
  <2>1. ASSUME NEW u \in Tasks, status'[u] # "dead" PROVE retry_count'[u] < MaxRetries
    BY <1>1, <2>1 DEF Counted
  <2>2. ASSUME NEW b \in Agents
        PROVE  /\ pc'[b] \in {"bury", "readd", "repost"} => seen'[b] = retry_count'[task'[b]]
               /\ pc'[b] = "bury" => seen'[b] + 1 >= MaxRetries
               /\ pc'[b] \in {"readd", "repost"} => seen'[b] + 1 < MaxRetries
    <3>1. CASE b = a
      BY <3>1
    <3>2. CASE b # a /\ pc[b] \in {"idle", "scan"}
      BY <3>2 DEF OthersStay
    <3>3. CASE b # a /\ pc[b] \notin {"idle", "scan"}
      BY <1>1, <1>7, <3>3 DEF Counted
    <3> QED
      BY <3>1, <3>2, <3>3
  <2> QED
    BY <2>1, <2>2 DEF Counted
<1> QED
  BY <1>5, <1>6, <1>8, <1>9 DEF Inv

LEMMA TakeInv == ASSUME Inv, NEW a \in Agents, Take(a) PROVE Inv'
<1>1. TypeOK /\ OnRecord /\ Counted
  BY DEF Inv
<1>2. /\ pc[a] = "take" /\ task[a] \in Tasks /\ status[task[a]] = "posted"
      /\ UNCHANGED <<queue, retry_count, posting, task, seen>>
  BY <1>1 DEF Take, Goto, OnRecord, Carrying
<1>3. TypeOK'
  BY <1>1, <1>2, NoElems DEF Take, Goto, TypeOK, PCs, Active
<1>4. /\ pc'[a] = "claimed" /\ batch'[a] = << >> /\ OthersStay(a)
      /\ status'[task[a]] = "claimed" /\ claimed_by'[task[a]] = a
      /\ \A u \in Tasks \ {task[a]} : /\ status'[u] = status[u]
                                      /\ claimed_by'[u] = claimed_by[u]
  BY <1>1, <1>2 DEF Take, Goto, TypeOK, OthersStay
<1>5. \A u : Token(a, u)' => Token(a, u)
  BY <1>2 DEF Token, Carrying
<1>6. retry_count'[task[a]] < MaxRetries
  BY <1>1, <1>2 DEF Counted
<1> QED
  BY <1>2, <1>3, <1>4, <1>5, <1>6, CommandInv DEF Active

(* HGETALL before a task is started or completed, and the end of a handler. *)
LEMMA PatchReadInv ==
  ASSUME Inv, NEW a \in Agents,
         NEW from \in {"claimed", "working"}, NEW to \in {"start", "complete", "read"},
         PatchRead(a, from, to)
  PROVE  Inv'
<1>1. TypeOK /\ OnRecord /\ Counted
  BY DEF Inv
<1>2. /\ pc[a] = from /\ task[a] \in Tasks /\ Holds(a)
      /\ UNCHANGED <<queue, status, claimed_by, retry_count, posting, batch, task, seen>>
  BY <1>1 DEF PatchRead, Goto, OnRecord, Holds, hashVars
<1>3. TypeOK'
  BY <1>1, <1>2 DEF PatchRead, Goto, TypeOK, PCs
<1>4. pc'[a] = to /\ OthersStay(a)
  BY <1>1, <1>2 DEF PatchRead, Goto, TypeOK, OthersStay
<1>5. \A u : Token(a, u)' => Token(a, u)
  BY <1>2 DEF Token, Keeping
<1>6. claimed_by[task[a]] = a /\ status[task[a]] \in Active
  BY <1>1, <1>2 DEF OnRecord
<1>7. retry_count[task[a]] < MaxRetries /\ status[task[a]] # "absent"
  BY <1>1, <1>2, <1>6 DEF Counted, Active
<1> QED
  BY <1>2, <1>3, <1>4, <1>5, <1>6, <1>7, CommandInv

LEMMA StartTaskInv == ASSUME Inv, NEW a \in Agents, StartTask(a) PROVE Inv'
<1>1. TypeOK /\ OnRecord /\ Counted
  BY DEF Inv
<1>2. /\ pc[a] = "start" /\ task[a] \in Tasks /\ Holds(a)
      /\ UNCHANGED <<queue, claimed_by, retry_count, posting, batch, task, seen>>
  BY <1>1 DEF StartTask, Goto, OnRecord, Holds
<1>3. TypeOK'
  BY <1>1, <1>2 DEF StartTask, Goto, TypeOK, PCs, Active
<1>4. /\ pc'[a] = "working" /\ OthersStay(a) /\ status'[task[a]] = "in_progress"
      /\ \A u \in Tasks \ {task[a]} : status'[u] = status[u]
  BY <1>1, <1>2 DEF StartTask, Goto, TypeOK, OthersStay
<1>5. \A u : Token(a, u)' => Token(a, u)
  BY <1>2 DEF Token, Keeping
<1>6. claimed_by[task[a]] = a /\ retry_count[task[a]] < MaxRetries
  BY <1>1, <1>2 DEF OnRecord, Counted, Active
<1> QED
  BY <1>2, <1>3, <1>4, <1>5, <1>6, CommandInv DEF Active

LEMMA CompleteTaskInv == ASSUME Inv, NEW a \in Agents, CompleteTask(a) PROVE Inv'
<1>1. TypeOK /\ OnRecord /\ Counted
  BY DEF Inv
<1>2. /\ pc[a] = "complete" /\ task[a] \in Tasks /\ Holds(a)
      /\ UNCHANGED <<queue, claimed_by, retry_count, posting, batch, seen>>
  BY <1>1 DEF CompleteTask, Leave, Goto, OnRecord, Holds
<1>3. TypeOK'
  BY <1>1, <1>2 DEF CompleteTask, Leave, Goto, TypeOK, PCs, Settled
<1>4. /\ pc'[a] = "idle" /\ OthersStay(a) /\ status'[task[a]] = "completed"
      /\ \A u \in Tasks \ {task[a]} : status'[u] = status[u]
  BY <1>1, <1>2 DEF CompleteTask, Leave, Goto, TypeOK, OthersStay
<1>5. (\A u : Token(a, u)' => Token(a, u)) /\ ~Holds(a)'
  BY <1>4 DEF Token, Keeping, Carrying, Holds
<1>6. retry_count[task[a]] < MaxRetries
  BY <1>1, <1>2 DEF OnRecord, Counted, Active
<1> QED
  BY <1>2, <1>3, <1>4, <1>5, <1>6, CommandInv

LEMMA FailReadInv == ASSUME Inv, NEW a \in Agents, FailRead(a) PROVE Inv'
<1>1. TypeOK /\ OnRecord /\ Counted
  BY DEF Inv
<1> DEFINE last == retry_count[task[a]] + 1 >= MaxRetries
           next == IF last THEN "bury" ELSE "readd"
<1>2. /\ pc[a] = "read" /\ task[a] \in Tasks /\ Holds(a)
      /\ pc' = [pc EXCEPT ![a] = next]
      /\ seen' = [seen EXCEPT ![a] = retry_count[task[a]]]
      /\ UNCHANGED <<queue, status, claimed_by, retry_count, posting, batch, task>>
  BY <1>1 DEF FailRead, FailTo, Goto, OnRecord, Holds, hashVars
<1>3. retry_count[task[a]] \in Nat
  BY <1>1, <1>2 DEF TypeOK
<1>4. TypeOK'
  BY <1>1, <1>2, <1>3 DEF TypeOK, PCs
<1>5. pc'[a] = next /\ seen'[a] = retry_count[task[a]] /\ OthersStay(a)
  BY <1>1, <1>2 DEF TypeOK, OthersStay
<1>6. \A u : Token(a, u)' => Token(a, u)
  BY <1>2 DEF Token, Keeping
<1>7. claimed_by[task[a]] = a /\ status[task[a]] \in Active
  BY <1>1, <1>2 DEF OnRecord
<1>8. retry_count[task[a]] < MaxRetries /\ status[task[a]] # "absent"
  BY <1>1, <1>2, <1>7 DEF Counted, Active
<1>9. /\ pc'[a] = "bury" => seen'[a] + 1 >= MaxRetries
      /\ pc'[a] \in {"readd", "repost"} => seen'[a] + 1 < MaxRetries
  BY <1>3, <1>5, RedisConstants
<1> QED
  BY <1>2, <1>4, <1>5, <1>6, <1>7, <1>8, <1>9, CommandInv

LEMMA BuryInv == ASSUME Inv, NEW a \in Agents, Bury(a) PROVE Inv'
<1>1. TypeOK /\ OnRecord
  BY DEF Inv
<1>2. /\ pc[a] = "bury" /\ task[a] \in Tasks
      /\ UNCHANGED <<queue, claimed_by, posting, batch, seen>>
  BY <1>1 DEF Bury, Leave, Goto, OnRecord
<1>3. TypeOK'
  BY <1>1, <1>2 DEF Bury, Leave, Goto, TypeOK, PCs, Settled
<1>4. /\ pc'[a] = "idle" /\ OthersStay(a) /\ status'[task[a]] = "dead"
      /\ \A u \in Tasks \ {task[a]} :
           status'[u] = status[u] /\ retry_count'[u] = retry_count[u]
  BY <1>1, <1>2 DEF Bury, Leave, Goto, TypeOK, OthersStay
<1>5. (\A u : Token(a, u)' => Token(a, u)) /\ ~Holds(a)'
  BY <1>4 DEF Token, Keeping, Carrying, Holds
<1> QED
  BY <1>2, <1>3, <1>4, <1>5, CommandInv

LEMMA RepostInv == ASSUME Inv, NEW a \in Agents, Repost(a) PROVE Inv'
<1>1. TypeOK /\ OnRecord /\ Counted
  BY DEF Inv
<1>2. /\ pc[a] = "repost" /\ task[a] \in Tasks /\ seen[a] + 1 < MaxRetries
      /\ UNCHANGED <<queue, posting, batch, seen>>
  BY <1>1 DEF Repost, Leave, Goto, OnRecord, Counted
<1>3. TypeOK'
  BY <1>1, <1>2 DEF Repost, Leave, Goto, TypeOK, PCs
<1>4. /\ pc'[a] = "idle" /\ OthersStay(a)
      /\ status'[task[a]] = "posted" /\ retry_count'[task[a]] = seen[a] + 1
      /\ \A u \in Tasks \ {task[a]} : /\ status'[u] = status[u]
                                      /\ claimed_by'[u] = claimed_by[u]
                                      /\ retry_count'[u] = retry_count[u]
  BY <1>1, <1>2 DEF Repost, Leave, Goto, TypeOK, OthersStay
<1>5. (\A u : Token(a, u)' => Token(a, u)) /\ ~Holds(a)'
  BY <1>4 DEF Token, Keeping, Carrying, Holds
<1> QED
  BY <1>2, <1>3, <1>4, <1>5, CommandInv

LEMMA AgentDiesInv == ASSUME Inv, NEW a \in Agents, AgentDies(a) PROVE Inv'
<1>1. TypeOK /\ OneToken /\ NoneBefore /\ OnRecord /\ Counted
  BY DEF Inv
<1>2. UNCHANGED <<queue, status, claimed_by, retry_count, posting, seen>>
  BY DEF AgentDies, hashVars
<1>3. TypeOK'
  BY <1>1, <1>2, NoElems DEF AgentDies, TypeOK, PCs
<1>4. pc'[a] = "idle" /\ batch'[a] = << >> /\ OthersStay(a)
  BY <1>1, <1>2 DEF AgentDies, TypeOK, OthersStay
<1>5. \A b \in Agents : Elems(batch'[b]) \subseteq Elems(batch[b]) /\ Distinct(batch'[b])
  BY <1>1, <1>4, NoElems DEF OthersStay, OneToken
<1>6. \A b \in Agents : \A u : Token(b, u)' => Token(b, u)
  BY <1>4 DEF OthersStay, Token, Carrying, Keeping
<1>7. OneToken' /\ NoneBefore'
  BY <1>1, <1>2, <1>5, <1>6, FewerTokens, NoneBeforeStays DEF OneToken
<1>8. OnRecord' /\ Counted'
  BY <1>1, <1>2, <1>4 DEF OnRecord, Carrying, Holds, Counted, OthersStay
<1> QED
  BY <1>3, <1>7, <1>8 DEF Inv

-----------------------------------------------------------------------------

LEMMA InitInv == Init => Inv
<1> SUFFICES ASSUME Init PROVE Inv
  OBVIOUS
<1>1. TypeOK
  BY NoElems DEF Init, TypeOK, PCs
<1>2. /\ Elems(queue) = {} /\ Distinct(queue) /\ posting = {}
      /\ \A a \in Agents : Elems(batch[a]) = {} /\ Distinct(batch[a]) /\ pc[a] = "idle"
  BY NoElems DEF Init
<1>3. \A a \in Agents : \A u : ~Token(a, u)
  BY <1>2 DEF Token, Carrying, Keeping
<1>4. OneToken /\ NoneBefore
  BY <1>2, <1>3 DEF OneToken, NoneBefore
<1>5. OnRecord
  BY <1>2 DEF OnRecord, Carrying, Holds
<1>6. Counted
  BY <1>2, RedisConstants DEF Init, Counted
<1> QED
  BY <1>1, <1>4, <1>5, <1>6 DEF Inv

LEMMA AgentStepInv == ASSUME Inv, NEW a \in Agents, AgentStep(a) PROVE Inv'
<1>1. CASE ReadGroup(a) \/ Scan(a) \/ ScanEnds(a) \/ Requeue(a) \/ Take(a)
  BY <1>1, ReadGroupInv, ScanInv, ScanEndsInv, RequeueInv, TakeInv
<1>2. CASE PatchRead(a, "claimed", "start") \/ HandlerEnds(a)
  BY <1>2, PatchReadInv DEF HandlerEnds
<1>3. CASE StartTask(a) \/ CompleteTask(a)
  BY <1>3, StartTaskInv, CompleteTaskInv
<1>4. CASE FailRead(a) \/ Bury(a) \/ Readd(a) \/ Repost(a)
  BY <1>4, FailReadInv, BuryInv, ReaddInv, RepostInv
<1> QED
  BY <1>1, <1>2, <1>3, <1>4 DEF AgentStep

LEMMA NextInv == Inv /\ [Next]_vars => Inv'
<1> SUFFICES ASSUME Inv, [Next]_vars PROVE Inv'
  OBVIOUS
<1>1. ASSUME NEW t \in Tasks, PostHash(t) \/ PostEntry(t) PROVE Inv'
  BY <1>1, PostHashInv, PostEntryInv
<1>2. ASSUME NEW a \in Agents, AgentStep(a) \/ AgentDies(a) PROVE Inv'
  BY <1>2, AgentStepInv, AgentDiesInv
<1>3. CASE UNCHANGED vars
  BY <1>3 DEF vars, hashVars, agentVars, Inv, TypeOK, OneToken, NoneBefore, OnRecord, Counted,
              Token, Carrying, Keeping, Holds
<1> QED
  BY <1>1, <1>2, <1>3 DEF Next, Live

LEMMA Invariance == Spec => []Inv
<1> QED
  BY InitInv, NextInv, PTL DEF Spec

-----------------------------------------------------------------------------
(* The properties.                                                         *)

(* The data keep their types.                                              *)
THEOREM TypeCorrect == Spec => []TypeOK
<1>1. Inv => TypeOK
  BY DEF Inv
<1> QED
  BY <1>1, Invariance, PTL

(* No two agents hold a task, and the holder is the one on record.         *)
THEOREM OneHolder == Spec => []HolderIsOnRecord
<1>1. ASSUME Inv, NEW a \in Agents, Holds(a)
      PROVE  /\ claimed_by[task[a]] = a /\ status[task[a]] \in Active
             /\ \A b \in Agents \ {a} : Holds(b) => task[b] # task[a]
  BY <1>1 DEF Inv, OnRecord
<1>2. Inv => HolderIsOnRecord
  BY <1>1 DEF HolderIsOnRecord
<1> QED
  BY <1>2, Invariance, PTL

LEMMA AtMostOne ==
  ASSUME NEW S, \A x, y \in S : x = y
  PROVE  Cardinality(S) <= 1
<1>1. CASE S = {}
  BY <1>1, FS_EmptySet
<1>2. ASSUME NEW x \in S PROVE Cardinality(S) <= 1
  <2>1. S = {x}
    BY <1>2
  <2> QED
    BY <2>1, FS_Singleton
<1> QED
  BY <1>1, <1>2

(* All that can be done for a task is done with its one entry.             *)
THEOREM OneEntryPerTask == Spec => []AtMostOneEntry
<1>1. ASSUME Inv, NEW t \in Tasks PROVE Cardinality(LiveEntries(t)) <= 1
  <2> DEFINE Held    == UNION {{<<a, i>> : i \in Positions(t, batch[a])} : a \in Agents}
             Carried == {<<a, 0>> : a \in Carriers(t)}
  <2>1. OneToken
    BY <1>1 DEF Inv
  <2>2. \A i \in Positions(t, queue) : i \in DOMAIN queue /\ queue[i] = t /\ t \in Elems(queue)
    BY DEF Positions, Elems
  <2>3. ASSUME NEW e \in Held
        PROVE  \E a \in Agents : \E i \in DOMAIN batch[a] :
                 e = <<a, i>> /\ batch[a][i] = t /\ t \in Elems(batch[a])
    <3>1. PICK a \in Agents : e \in {<<a, i>> : i \in Positions(t, batch[a])}
      OBVIOUS
    <3>2. PICK i \in DOMAIN batch[a] : batch[a][i] = t /\ e = <<a, i>>
      BY <3>1 DEF Positions
    <3> QED
      BY <3>2 DEF Elems
  <2>4. ASSUME NEW e \in Carried PROVE \E a \in Agents : e = <<a, 0>> /\ Token(a, t)
    BY DEF Carriers, Token, Carrying
  <2>5. LiveEntries(t) = Positions(t, queue) \cup Held \cup Carried
    BY DEF LiveEntries
  <2> HIDE DEF Held, Carried
  <2>6. \A x, y \in Positions(t, queue) : x = y
    BY <2>1, <2>2 DEF OneToken, Distinct
  <2>7. ASSUME NEW x \in Held, NEW y \in Held PROVE x = y
    <3>1. PICK a \in Agents : \E i \in DOMAIN batch[a] :
            x = <<a, i>> /\ batch[a][i] = t /\ t \in Elems(batch[a])
      BY <2>3
    <3>2. PICK b \in Agents : \E j \in DOMAIN batch[b] :
            y = <<b, j>> /\ batch[b][j] = t /\ t \in Elems(batch[b])
      BY <2>3
    <3>3. a = b /\ Distinct(batch[a])
      BY <2>1, <3>1, <3>2 DEF OneToken
    <3> QED
      BY <3>1, <3>2, <3>3 DEF Distinct
  <2>8. \A x, y \in Carried : x = y
    BY <1>1, <2>1, <2>4 DEF OneToken
  <2>9. /\ Positions(t, queue) = {} \/ (Held = {} /\ Carried = {})
        /\ Held = {} \/ Carried = {}
    BY <2>1, <2>2, <2>3, <2>4 DEF OneToken
  <2> QED
    BY <2>5, <2>6, <2>7, <2>8, <2>9, AtMostOne
<1>2. Inv => AtMostOneEntry
  BY <1>1 DEF AtMostOneEntry
<1> QED
  BY <1>2, Invariance, PTL

-----------------------------------------------------------------------------
(***************************************************************************)
(* Refinement: a command that writes a hash is a step of the task board,   *)
(* or changes nothing the task board sees.                                 *)
(***************************************************************************)

LEMMA AbstractInit == Init => Abstract!Init
<1> SUFFICES ASSUME Init PROVE Abstract!Init
  OBVIOUS
<1>1. ASSUME NEW t \in Tasks PROVE StateOf(t) = "absent" /\ AttemptsOf(t) = 0
  <2>1. status[t] = "absent" /\ retry_count[t] = 0
    BY DEF Init
  <2> QED
    BY <2>1 DEF StateOf, AttemptsOf, Active
<1> QED
  BY <1>1 DEF Abstract!Init, stateBar, attemptsBar

(* A command that writes the hash of u alone, seen by the task board.      *)
LEMMA OneTaskStep ==
  ASSUME NEW u \in Tasks,
         \A t \in Tasks \ {u} : status'[t] = status[t] /\ retry_count'[t] = retry_count[t]
  PROVE  /\ stateBar' = [stateBar EXCEPT ![u] = StateOf(u)']
         /\ attemptsBar' = [attemptsBar EXCEPT ![u] = AttemptsOf(u)']
<1>1. ASSUME NEW t \in Tasks, t # u
      PROVE  StateOf(t)' = StateOf(t) /\ AttemptsOf(t)' = AttemptsOf(t)
  BY <1>1 DEF StateOf, AttemptsOf
<1> QED
  BY <1>1 DEF stateBar, attemptsBar

(* The same, when the task board sees the same of u, too.                  *)
LEMMA OneTaskStutter ==
  ASSUME NEW u \in Tasks,
         \A t \in Tasks \ {u} : status'[t] = status[t] /\ retry_count'[t] = retry_count[t],
         StateOf(u)' = StateOf(u), AttemptsOf(u)' = AttemptsOf(u)
  PROVE  stateBar' = stateBar /\ attemptsBar' = attemptsBar
<1>1. ASSUME NEW t \in Tasks PROVE StateOf(t)' = StateOf(t) /\ AttemptsOf(t)' = AttemptsOf(t)
  BY <1>1 DEF StateOf, AttemptsOf
<1> QED
  BY <1>1 DEF stateBar, attemptsBar

(* fail_task's last write ends the attempt its reader was given.           *)
LEMMA GivesUp ==
  ASSUME Inv, NEW a \in Agents, NEW t \in Tasks, t = task[a], Bury(a) \/ Repost(a)
  PROVE  Abstract!GiveUp({t})
<1>1. TypeOK /\ OnRecord /\ Counted
  BY DEF Inv
<1>2. /\ status[t] \in Active /\ seen[a] = retry_count[t]
      /\ retry_count[t] \in Nat /\ retry_count[t] < MaxRetries
  BY <1>1 DEF Bury, Repost, Leave, Goto, OnRecord, Counted, Holds, TypeOK, Active
<1>3. /\ retry_count'[t] = retry_count[t] + 1
      /\ status'[t] = IF retry_count[t] + 1 = MaxRetries THEN "dead" ELSE "posted"
      /\ \A u \in Tasks \ {t} : status'[u] = status[u] /\ retry_count'[u] = retry_count[u]
  <2>1. CASE Bury(a)
    <3>1. retry_count[t] + 1 = MaxRetries
      BY <1>1, <1>2, <2>1, RedisConstants DEF Bury, Leave, Goto, Counted
    <3> QED
      BY <1>1, <1>2, <2>1, <3>1 DEF Bury, TypeOK
  <2>2. CASE Repost(a)
    <3>1. retry_count[t] + 1 # MaxRetries
      BY <1>1, <1>2, <2>2, RedisConstants DEF Repost, Leave, Goto, Counted
    <3> QED
      BY <1>1, <1>2, <2>2, <3>1 DEF Repost, TypeOK
  <2> QED
    BY <2>1, <2>2
<1>4. /\ StateOf(t) = "held" /\ AttemptsOf(t)' = AttemptsOf(t)
      /\ StateOf(t)' = IF AttemptsOf(t) = MaxRetries THEN "dead" ELSE "open"
  BY <1>2, <1>3 DEF StateOf, AttemptsOf, Active
<1>5. /\ stateBar' = [stateBar EXCEPT ![t] = StateOf(t)']
      /\ attemptsBar' = [attemptsBar EXCEPT ![t] = AttemptsOf(t)']
  BY <1>2, <1>3, OneTaskStep
<1>6. stateBar[t] = "held" /\ attemptsBar[t] = AttemptsOf(t) /\ attemptsBar' = attemptsBar
  BY <1>2, <1>4, <1>5 DEF stateBar, attemptsBar
<1>7. stateBar' = [u \in Tasks |-> IF u \notin {t} THEN stateBar[u]
                                   ELSE IF attemptsBar[u] = MaxRetries THEN "dead"
                                   ELSE "open"]
  BY <1>2, <1>4, <1>5, <1>6 DEF stateBar
<1> QED
  BY <1>6, <1>7 DEF Abstract!GiveUp

LEMMA AbstractAgentStep ==
  ASSUME Inv, NEW a \in Agents, AgentStep(a)
  PROVE  \/ \E t \in Tasks : Abstract!Take(t) \/ Abstract!Finish(t)
         \/ \E S \in SUBSET Tasks : Abstract!GiveUp(S)
         \/ stateBar' = stateBar /\ attemptsBar' = attemptsBar
<1>1. TypeOK /\ OnRecord
  BY DEF Inv
<1>2. pc[a] \notin {"idle", "scan"} => \E t \in Tasks : t = task[a]
  BY <1>1 DEF OnRecord
<1>3. CASE Take(a)
  <2>0. PICK t \in Tasks : t = task[a]
    BY <1>2, <1>3 DEF Take, Goto
  <2>1. /\ status[t] = "posted" /\ status'[t] = "claimed"
        /\ retry_count' = retry_count
        /\ \A u \in Tasks \ {t} : status'[u] = status[u]
    BY <1>1, <1>3, <2>0 DEF Take, Goto, OnRecord, Carrying, TypeOK
  <2>2. StateOf(t) = "open" /\ StateOf(t)' = "held" /\ AttemptsOf(t)' = AttemptsOf(t) + 1
    BY <2>1 DEF StateOf, AttemptsOf, Active
  <2>3. Abstract!Take(t)
    BY <2>1, <2>2, OneTaskStep DEF Abstract!Take, stateBar, attemptsBar
  <2> QED
    BY <2>1, <2>3
<1>4. CASE CompleteTask(a)
  <2>0. PICK t \in Tasks : t = task[a]
    BY <1>2, <1>4 DEF CompleteTask, Leave, Goto
  <2>1. /\ status[t] \in Active /\ status'[t] = "completed"
        /\ retry_count' = retry_count
        /\ \A u \in Tasks \ {t} : status'[u] = status[u]
    BY <1>1, <1>4, <2>0 DEF CompleteTask, Leave, Goto, OnRecord, Holds, TypeOK
  <2>2. StateOf(t) = "held" /\ StateOf(t)' = "done" /\ AttemptsOf(t)' = AttemptsOf(t)
    BY <2>1 DEF StateOf, AttemptsOf, Active
  <2>3. Abstract!Finish(t)
    BY <2>1, <2>2, OneTaskStep DEF Abstract!Finish, stateBar, attemptsBar
  <2> QED
    BY <2>1, <2>3
<1>5. CASE StartTask(a)
  <2>0. PICK t \in Tasks : t = task[a]
    BY <1>2, <1>5 DEF StartTask, Goto
  <2>1. /\ status[t] \in Active /\ status'[t] = "in_progress"
        /\ retry_count' = retry_count
        /\ \A u \in Tasks \ {t} : status'[u] = status[u]
    BY <1>1, <1>5, <2>0 DEF StartTask, Goto, OnRecord, Holds, TypeOK
  <2>2. StateOf(t)' = StateOf(t) /\ AttemptsOf(t)' = AttemptsOf(t)
    BY <2>1 DEF StateOf, AttemptsOf, Active
  <2> QED
    BY <2>1, <2>2, OneTaskStutter
<1>6. CASE Bury(a) \/ Repost(a)
  <2>0. PICK t \in Tasks : t = task[a]
    BY <1>2, <1>6 DEF Bury, Repost, Leave, Goto
  <2>1. Abstract!GiveUp({t})
    BY <1>6, <2>0, GivesUp
  <2> QED
    BY <2>1
<1>7. ASSUME UNCHANGED hashVars PROVE stateBar' = stateBar /\ attemptsBar' = attemptsBar
  BY <1>7 DEF hashVars, stateBar, attemptsBar, StateOf, AttemptsOf
<1> QED
  BY <1>3, <1>4, <1>5, <1>6, <1>7
  DEF AgentStep, ReadGroup, Scan, ScanTo, ScanEnds, Requeue, HandlerEnds, PatchRead,
      FailRead, FailTo, Readd

LEMMA AbstractStep == Inv /\ [Next]_vars => [Abstract!Next]_(Abstract!vars)
<1> SUFFICES ASSUME Inv, [Next]_vars
             PROVE  Abstract!Next \/ (stateBar' = stateBar /\ attemptsBar' = attemptsBar)
  BY DEF Abstract!vars
<1>1. ASSUME NEW t \in Tasks, PostHash(t) PROVE Abstract!Post(t)
  <2>1. /\ status[t] = "absent" /\ status'[t] = "posted" /\ retry_count' = retry_count
        /\ \A u \in Tasks \ {t} : status'[u] = status[u]
    BY <1>1 DEF PostHash, Inv, TypeOK
  <2>2. StateOf(t) = "absent" /\ StateOf(t)' = "open" /\ AttemptsOf(t)' = AttemptsOf(t)
    BY <2>1 DEF StateOf, AttemptsOf, Active
  <2> QED
    BY <2>1, <2>2, OneTaskStep DEF Abstract!Post, stateBar, attemptsBar
<1>2. ASSUME NEW a \in Agents, AgentStep(a)
      PROVE  Abstract!Next \/ (stateBar' = stateBar /\ attemptsBar' = attemptsBar)
  BY <1>2, AbstractAgentStep DEF Abstract!Next
<1>3. ASSUME UNCHANGED hashVars PROVE stateBar' = stateBar /\ attemptsBar' = attemptsBar
  BY <1>3 DEF hashVars, stateBar, attemptsBar, StateOf, AttemptsOf
<1> QED
  BY <1>1, <1>2, <1>3 DEF Next, Live, PostEntry, AgentDies, vars, Abstract!Next

(* Without a lock, and whoever dies, the Redis blackboard implements the   *)
(* task board: no attempt is lost, doubled or given to two agents.         *)
THEOREM RedisImplementsTaskBoard == Spec => ImplementsTaskBoard
<1>1. Init => Abstract!Init
  BY AbstractInit
<1>2. Inv /\ [Next]_vars => [Abstract!Next]_(Abstract!vars)
  BY AbstractStep
<1> QED
  BY <1>1, <1>2, Invariance, PTL DEF Spec, ImplementsTaskBoard, Abstract!SafeSpec
=============================================================================
