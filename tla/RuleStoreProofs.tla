-------------------------- MODULE RuleStoreProofs ---------------------------
(***************************************************************************)
(* What TLAPS proves of the rule store, for all rules, versions, texts and *)
(* clients, on either backend, with requests that overlap and without.     *)
(*                                                                         *)
(* Base: the types, and that requests work on rules the store has.  The    *)
(* safety invariant Consistent adds what a request may rely on at each of  *)
(* its statements as long as no other is in progress (Aware).              *)
(***************************************************************************)
EXTENDS RuleStore, WellFoundedInduction, TLAPS

RowsType   == [Rules -> [Versions -> Row \cup {NULL}]]
Statements == {"idle", "history", "deprecate", "reject", "insert", "select", "detect"}
Decisions  == [Rules -> [Versions -> {"none", "approved", "rejected"}]]

\* The row of a rule's copy.
There(d)  == rows[d.rule][d.version] # NULL
Column(d) == rows[d.rule][d.version].column

\* Statements about a row that exists.
InPlace == \A r \in Rules, v \in Versions :
  rows[r][v] # NULL => rows[r][v].doc.rule = r /\ rows[r][v].doc.version = v

\* A request works on rules, which are there once they were read or inserted.
Existing == \A c \in Clients :
  /\ pc[c] # "idle" => doc[c] \in Docs
  /\ pc[c] \notin {"idle", "insert"} => There(doc[c])
  /\ \A d \in todo[c] : There(d)

Base == TypeOK /\ InPlace /\ Existing

(* A whole row is written: its column is the status of the rule in it.     *)
LEMMA WriteRowIs ==
  ASSUME TypeOK, NEW d \in Docs, WriteRow(d)
  PROVE  /\ rows' \in RowsType
         /\ rows'[d.rule][d.version].doc = d
         /\ rows'[d.rule][d.version].column = d.status
         /\ rows'[d.rule][d.version] # NULL
         /\ \A r \in Rules, v \in Versions :
              r # d.rule \/ v # d.version => rows'[r][v] = rows[r][v]
<1>1. d.rule \in Rules /\ d.version \in Versions /\ d.status \in Statuses
  BY DEF Docs
<1> DEFINE new == [column |-> d.status, doc |-> d]
<1>2. new \in Row /\ new.doc = d /\ new.column = d.status
  BY <1>1 DEF Row
<1>3. rows \in RowsType
  BY DEF TypeOK, RowsType
<1>4. rows' = [rows EXCEPT ![d.rule][d.version] = new]
  BY DEF WriteRow
<1> HIDE DEF new
<1> QED
  BY <1>1, <1>2, <1>3, <1>4, NullIsNoRule DEF RowsType

(* The JSON of a row that exists is written: the column stays.             *)
LEMMA WriteJsonIs ==
  ASSUME TypeOK, NEW d \in Docs, There(d), WriteJson(d)
  PROVE  /\ rows' \in RowsType
         /\ rows'[d.rule][d.version].doc = d
         /\ rows'[d.rule][d.version].column = Column(d)
         /\ rows'[d.rule][d.version] # NULL
         /\ \A r \in Rules, v \in Versions :
              r # d.rule \/ v # d.version => rows'[r][v] = rows[r][v]
<1>1. d.rule \in Rules /\ d.version \in Versions
  BY DEF Docs
<1>2. rows \in RowsType
  BY DEF TypeOK, RowsType
<1>3. rows[d.rule][d.version] \in Row
  BY <1>1, <1>2 DEF RowsType, There
<1> DEFINE new == [rows[d.rule][d.version] EXCEPT !.doc = d]
<1>4. new \in Row /\ new.doc = d /\ new.column = Column(d)
  BY <1>3 DEF Row, Column
<1>5. rows' = [rows EXCEPT ![d.rule][d.version] = new]
  BY DEF WriteJson
<1> HIDE DEF new
<1> QED
  BY <1>1, <1>2, <1>4, <1>5, NullIsNoRule DEF RowsType

\* The same after a step, of a rule from before it.
ThereNext(d) == rows'[d.rule][d.version] # NULL

(* Every write leaves each row with its own rule in it, and no row is lost.*)
LEMMA Written ==
  ASSUME TypeOK, InPlace, NEW d \in Docs, WriteRow(d) \/ (There(d) /\ WriteJson(d))
  PROVE  /\ rows' \in RowsType /\ InPlace' /\ ThereNext(d)
         /\ \A e \in Docs : There(e) => ThereNext(e)
<1>1. /\ rows' \in RowsType
      /\ rows'[d.rule][d.version].doc = d
      /\ rows'[d.rule][d.version] # NULL
      /\ \A r \in Rules, v \in Versions :
           r # d.rule \/ v # d.version => rows'[r][v] = rows[r][v]
  <2>1. CASE WriteRow(d)
    BY <2>1, WriteRowIs
  <2>2. CASE There(d) /\ WriteJson(d)
    BY <2>2, WriteJsonIs
  <2> QED
    BY <2>1, <2>2
<1>2. \A e \in Docs : e.rule \in Rules /\ e.version \in Versions
  BY DEF Docs
<1>3. InPlace'
  BY <1>1 DEF InPlace
<1> QED
  BY <1>1, <1>2, <1>3 DEF There, ThereNext

(* One client's request goes on, on rules that are there.                  *)
LEMMA ClientGoesOn ==
  ASSUME Base, NEW c \in Clients, NEW p \in Statements, NEW d \in Docs \cup {NULL},
         NEW S \in SUBSET Docs,
         pc' = [pc EXCEPT ![c] = p], doc' = [doc EXCEPT ![c] = d],
         todo' = [todo EXCEPT ![c] = S],
         p # "idle" => d \in Docs,
         p \notin {"idle", "insert"} => ThereNext(d),
         \A e \in S : ThereNext(e),
         rows' \in RowsType, InPlace', \A e \in Docs : There(e) => ThereNext(e),
         decision' \in Decisions, backend' = backend,
         overlapped' \in BOOLEAN, requests' \in 0 .. MaxRequests
  PROVE  Base'
<1>1. /\ pc \in [Clients -> Statements]
      /\ doc \in [Clients -> Docs \cup {NULL}]
      /\ todo \in [Clients -> SUBSET Docs]
  BY DEF Base, TypeOK, Statements
<1>2. ASSUME NEW b \in Clients
      PROVE  /\ pc'[b] # "idle" => doc'[b] \in Docs
             /\ pc'[b] \notin {"idle", "insert"} => ThereNext(doc'[b])
             /\ \A e \in todo'[b] : ThereNext(e)
  <2>1. CASE b = c
    BY <1>1, <2>1
  <2>2. CASE b # c
    <3>1. pc'[b] = pc[b] /\ doc'[b] = doc[b] /\ todo'[b] = todo[b]
      BY <1>1, <2>2
    <3>2. todo[b] \in SUBSET Docs
      BY <1>1
    <3> QED
      BY <3>1, <3>2 DEF Base, Existing
  <2> QED
    BY <2>1, <2>2
<1>3. Existing'
  BY <1>2 DEF Existing, There, ThereNext
<1>4. TypeOK'
  <2>1. /\ pc' \in [Clients -> Statements]
        /\ doc' \in [Clients -> Docs \cup {NULL}]
        /\ todo' \in [Clients -> SUBSET Docs]
    BY <1>1
  <2> QED
    BY <2>1 DEF Base, TypeOK, Statements, RowsType, Decisions
<1> QED
  BY <1>3, <1>4 DEF Base

(* The rules in the store are there, in rows of their own.                 *)
LEMMA StoredIs ==
  ASSUME TypeOK, InPlace, NEW r \in Rules, NEW v \in Stored(r)
  PROVE  /\ v \in Versions /\ rows[r][v] \in Row /\ rows[r][v].doc \in Docs
         /\ rows[r][v].doc.rule = r /\ rows[r][v].doc.version = v
         /\ There(rows[r][v].doc)
<1>1. v \in Versions /\ rows[r][v] # NULL
  BY DEF Stored
<1>2. rows[r][v] \in Row
  BY <1>1 DEF TypeOK
<1>3. rows[r][v].doc \in Docs
  BY <1>2 DEF Row
<1>4. rows[r][v].doc.rule = r /\ rows[r][v].doc.version = v
  BY <1>1 DEF InPlace
<1> QED
  BY <1>1, <1>2, <1>3, <1>4 DEF There

LEMMA AllDocsAre ==
  ASSUME TypeOK, InPlace, NEW d \in AllDocs
  PROVE  /\ d \in Docs /\ There(d)
         /\ d.version \in Stored(d.rule) /\ d = rows[d.rule][d.version].doc
<1>1. PICK r \in Rules : d \in {rows[r][v].doc : v \in Stored(r)}
  BY DEF AllDocs
<1>2. PICK v \in Stored(r) : d = rows[r][v].doc
  BY <1>1
<1> QED
  BY <1>2, StoredIs

\* Changes of a copy.
LEMMA Changed ==
  ASSUME NEW d \in Docs
  PROVE  /\ \A s \in Statuses :
              /\ [d EXCEPT !.status = s] \in Docs /\ [d EXCEPT !.status = s].status = s
              /\ [d EXCEPT !.status = s].rule = d.rule
              /\ [d EXCEPT !.status = s].version = d.version
              /\ [d EXCEPT !.status = s].text = d.text
              /\ [d EXCEPT !.status = s].conflicts = d.conflicts
         /\ \A x \in Texts :
              /\ [d EXCEPT !.text = x] \in Docs
              /\ [d EXCEPT !.text = x].rule = d.rule
              /\ [d EXCEPT !.text = x].version = d.version
              /\ [d EXCEPT !.text = x].status = d.status
         /\ \A q \in Rules :
              LET e == [d EXCEPT !.conflicts = @ \cup {q}]
              IN  /\ e \in Docs /\ e.conflicts = d.conflicts \cup {q}
                  /\ e.rule = d.rule /\ e.version = d.version
                  /\ e.status = d.status /\ e.text = d.text
BY DEF Docs

(* Ingested and seeded rules.                                              *)
LEMMA ProposalIs ==
  ASSUME NEW r \in Rules, NEW v \in Versions, NEW s \in Statuses, NEW x \in Texts
  PROVE  /\ Proposal(r, v, s, x) \in Docs
         /\ Proposal(r, v, s, x).rule = r /\ Proposal(r, v, s, x).version = v
         /\ Proposal(r, v, s, x).status = s /\ Proposal(r, v, s, x).text = x
BY DEF Proposal, Docs

(* What a request begins with.                                             *)
LEMMA RequestIs ==
  ASSUME TypeOK, InPlace, NEW c \in Clients, Request(c)
  PROVE  \E d \in Docs, p \in {"history", "reject", "insert"} :
           /\ Begin(c, d, p)
           /\ p # "insert" => There(d)
           /\ p = "reject" => d = rows[d.rule][d.version].doc
           /\ p = "insert" => \/ d.rule \in Seeds
                              \/ d.status = "proposed" /\ d.version = NextVersion(d.rule)
<1>1. CASE Approve(c)
  <2>1. PICK r \in Rules :
          \E v \in Stored(r) : \E x \in Texts \cup {rows[r][v].doc.text} :
            Begin(c, [rows[r][v].doc EXCEPT !.text = x], "history")
    BY <1>1 DEF Approve
  <2>2. PICK v \in Stored(r) : \E x \in Texts \cup {rows[r][v].doc.text} :
          Begin(c, [rows[r][v].doc EXCEPT !.text = x], "history")
    BY <2>1
  <2> DEFINE old == rows[r][v].doc
  <2>3. PICK x \in Texts \cup {old.text} : Begin(c, [old EXCEPT !.text = x], "history")
    BY <2>2
  <2> DEFINE d == [old EXCEPT !.text = x]
  <2>4. old \in Docs /\ There(old)
    BY StoredIs
  <2>5. x \in Texts
    BY <2>4 DEF Docs
  <2>6. Begin(c, d, "history")
    BY <2>3
  <2> HIDE DEF old
  <2>7. d \in Docs /\ d.rule = old.rule /\ d.version = old.version
    BY <2>4, <2>5, Changed
  <2> HIDE DEF d
  <2>8. There(d)
    BY <2>4, <2>7 DEF There
  <2> QED
    BY <2>6, <2>7, <2>8
<1>2. CASE Reject(c)
  <2>1. PICK r \in Rules : \E v \in Stored(r) : Begin(c, rows[r][v].doc, "reject")
    BY <1>2 DEF Reject
  <2>2. PICK v \in Stored(r) : Begin(c, rows[r][v].doc, "reject")
    BY <2>1
  <2> DEFINE d == rows[r][v].doc
  <2>3. d \in Docs /\ There(d) /\ d.rule = r /\ d.version = v
    BY StoredIs
  <2>4. Begin(c, d, "reject") /\ d = rows[d.rule][d.version].doc
    BY <2>2, <2>3
  <2> HIDE DEF d
  <2> QED
    BY <2>3, <2>4
<1>3. CASE Ingest(c)
  <2>1. PICK r \in Rules, x \in Texts :
          /\ NextVersion(r) \in Versions
          /\ Begin(c, Proposal(r, NextVersion(r), "proposed", x), "insert")
    BY <1>3 DEF Ingest
  <2> DEFINE d == Proposal(r, NextVersion(r), "proposed", x)
  <2>2. "proposed" \in Statuses
    BY DEF Statuses
  <2>3. d \in Docs /\ d.rule = r /\ d.version = NextVersion(r) /\ d.status = "proposed"
    BY <2>1, <2>2, ProposalIs
  <2>4. Begin(c, d, "insert")
    BY <2>1
  <2> HIDE DEF d
  <2> QED
    BY <2>3, <2>4
<1>4. CASE Seed(c)
  <2>1. PICK r \in Seeds : Begin(c, Proposal(r, 1, "approved", SeedText[r]), "insert")
    BY <1>4 DEF Seed
  <2> DEFINE d == Proposal(r, 1, "approved", SeedText[r])
  <2>2. "approved" \in Statuses /\ 1 \in Versions /\ r \in Rules /\ SeedText[r] \in Texts
    BY RuleStoreConstants DEF Statuses, Versions
  <2>3. d \in Docs /\ d.rule \in Seeds
    BY <2>2, ProposalIs
  <2>4. Begin(c, d, "insert")
    BY <2>1
  <2> HIDE DEF d
  <2> QED
    BY <2>3, <2>4
<1> QED
  BY <1>1, <1>2, <1>3, <1>4 DEF Request

(* Every step keeps the types, and the rows of requests.                   *)
LEMMA RequestBase == ASSUME Base, NEW c \in Clients, Request(c) PROVE Base'
<1>1. TypeOK /\ InPlace /\ Existing
  BY DEF Base
<1>2. PICK d \in Docs, p \in {"history", "reject", "insert"} :
        Begin(c, d, p) /\ (p # "insert" => There(d))
  BY <1>1, RequestIs
<1>3. /\ pc' = [pc EXCEPT ![c] = p] /\ doc' = [doc EXCEPT ![c] = d]
      /\ todo' = [todo EXCEPT ![c] = todo[c]] /\ rows' = rows
      /\ todo[c] \in SUBSET Docs
  BY <1>1, <1>2 DEF Begin, TypeOK
<1>4. \A e : There(e) => ThereNext(e)
  BY <1>3 DEF There, ThereNext
<1>5. \A e \in todo[c] : ThereNext(e)
  BY <1>1, <1>4 DEF Existing
<1>6. requests' \in 0 .. MaxRequests /\ overlapped' \in BOOLEAN
  BY <1>1, <1>2, RuleStoreConstants DEF Begin, TypeOK
<1>7. backend' = backend /\ decision' \in Decisions
  BY <1>1, <1>2 DEF Begin, TypeOK, Decisions
<1>8. rows' \in RowsType /\ InPlace'
  BY <1>1, <1>3 DEF TypeOK, RowsType, InPlace
<1>9. p \in Statements
  BY DEF Statements
<1> QED
  BY <1>2, <1>3, <1>4, <1>5, <1>6, <1>7, <1>8, <1>9, ClientGoesOn

(* A statement of a request writes at most one rule, and goes on with      *)
(* rules that are there.                                                   *)
LEMMA StatementBase == ASSUME Base, NEW c \in Clients, Statement(c) PROVE Base'
<1>1. /\ TypeOK /\ InPlace /\ Existing
      /\ pc \in [Clients -> Statements] /\ doc \in [Clients -> Docs \cup {NULL}]
      /\ todo \in [Clients -> SUBSET Docs] /\ rows \in RowsType
      /\ decision \in Decisions /\ overlapped \in BOOLEAN /\ requests \in 0 .. MaxRequests
  BY DEF Base, TypeOK, Statements, RowsType, Decisions
<1>2. /\ {"idle", "history", "deprecate", "reject", "insert", "select", "detect"}
           \subseteq Statements
      /\ {"proposed", "approved", "deprecated"} \subseteq Statuses
  BY DEF Statements, Statuses
<1>3. /\ pc[c] # "idle" => doc[c] \in Docs
      /\ pc[c] \notin {"idle", "insert"} => There(doc[c])
      /\ \A d \in todo[c] : d \in Docs /\ There(d)
  BY <1>1 DEF Existing
<1>4. ASSUME UNCHANGED rows
      PROVE  rows' \in RowsType /\ InPlace' /\ \A e : There(e) => ThereNext(e)
  BY <1>1, <1>4 DEF InPlace, There, ThereNext
<1>5. ASSUME NEW d \in Docs, NEW w \in {"none", "approved", "rejected"}, Decide(d, w)
      PROVE  decision' \in Decisions
  <2>1. d.rule \in Rules /\ d.version \in Versions
    BY DEF Docs
  <2>2. decision' = [decision EXCEPT ![d.rule][d.version] = w]
    BY <1>5 DEF Decide
  <2> QED
    BY <1>1, <2>1, <2>2 DEF Decisions
<1>6. CASE ReadHistory(c)
  <2> DEFINE S == {d \in AllDocs : d.rule = doc[c].rule /\ d.version # doc[c].version
                                   /\ d.status = "approved"}
  <2>1. S \in SUBSET Docs /\ \A d \in S : There(d)
    BY <1>1, AllDocsAre
  <2>2. /\ pc' = [pc EXCEPT ![c] = "deprecate"] /\ doc' = [doc EXCEPT ![c] = doc[c]]
        /\ todo' = [todo EXCEPT ![c] = S] /\ pc[c] = "history"
        /\ UNCHANGED <<rows, backend, decision, overlapped, requests>>
    BY <1>1, <1>6 DEF ReadHistory, historyVars
  <2> HIDE DEF S
  <2> QED
    BY <1>1, <1>2, <1>3, <1>4, <2>1, <2>2, ClientGoesOn
<1>7. CASE Deprecate(c)
  <2>1. PICK d \in todo[c] : /\ WriteRow([d EXCEPT !.status = "deprecated"])
                             /\ todo' = [todo EXCEPT ![c] = todo[c] \ {d}]
    BY <1>7 DEF Deprecate
  <2>2. PICK e \in Docs : WriteRow(e)
    BY <1>2, <1>3, <2>1, Changed
  <2>3. /\ pc' = [pc EXCEPT ![c] = pc[c]] /\ doc' = [doc EXCEPT ![c] = doc[c]]
        /\ pc[c] = "deprecate" /\ todo[c] \ {d} \in SUBSET Docs
        /\ UNCHANGED <<backend, decision, overlapped, requests>>
    BY <1>1, <1>7 DEF Deprecate, historyVars
  <2>4. rows' \in RowsType /\ InPlace' /\ \A f \in Docs : There(f) => ThereNext(f)
    BY <1>1, <2>2, Written
  <2>5. \A f \in todo[c] \ {d} : ThereNext(f)
    BY <1>3, <2>4
  <2>6. ThereNext(doc[c]) /\ doc[c] \in Docs
    BY <1>3, <2>3, <2>4
  <2> QED
    BY <1>1, <1>2, <2>1, <2>3, <2>4, <2>5, <2>6, ClientGoesOn
<1>8. CASE SaveApproved(c)
  <2> DEFINE d == [doc[c] EXCEPT !.status = "approved"]
  <2>1. /\ pc[c] = "deprecate" /\ WriteRow(d) /\ Decide(d, "approved")
        /\ pc' = [pc EXCEPT ![c] = "select"] /\ doc' = [doc EXCEPT ![c] = d]
        /\ todo' = [todo EXCEPT ![c] = todo[c]] /\ todo[c] = {}
        /\ UNCHANGED <<backend, overlapped, requests>>
    BY <1>1, <1>8 DEF SaveApproved
  <2>2. d \in Docs
    BY <1>2, <1>3, <2>1, Changed
  <2> HIDE DEF d
  <2>3. rows' \in RowsType /\ InPlace' /\ ThereNext(d)
        /\ \A f \in Docs : There(f) => ThereNext(f)
    BY <1>1, <2>1, <2>2, Written
  <2>4. decision' \in Decisions
    BY <1>5, <2>1, <2>2
  <2> QED
    BY <1>1, <1>2, <2>1, <2>2, <2>3, <2>4, ClientGoesOn
<1>9. CASE SaveRejected(c)
  <2> DEFINE d == [doc[c] EXCEPT !.status = "deprecated"]
  <2>1. /\ pc[c] = "reject" /\ WriteRow(d) /\ Decide(doc[c], "rejected")
        /\ pc' = [pc EXCEPT ![c] = "idle"] /\ doc' = [doc EXCEPT ![c] = NULL]
        /\ todo' = [todo EXCEPT ![c] = todo[c]]
        /\ UNCHANGED <<backend, overlapped, requests>>
    BY <1>1, <1>9 DEF SaveRejected, End
  <2>2. d \in Docs /\ doc[c] \in Docs
    BY <1>2, <1>3, <2>1, Changed
  <2> HIDE DEF d
  <2>3. rows' \in RowsType /\ InPlace' /\ \A f \in Docs : There(f) => ThereNext(f)
    BY <1>1, <2>1, <2>2, Written
  <2>4. decision' \in Decisions
    BY <1>5, <2>1, <2>2
  <2>5. todo[c] \in SUBSET Docs /\ \A f \in todo[c] : ThereNext(f)
    BY <1>1, <1>3, <2>3
  <2> QED
    BY <1>1, <1>2, <2>1, <2>3, <2>4, <2>5, ClientGoesOn
<1>10. CASE Insert(c)
  <2>1. /\ pc[c] = "insert" /\ WriteRow(doc[c]) /\ doc[c] \in Docs
        /\ todo' = [todo EXCEPT ![c] = todo[c]]
        /\ UNCHANGED <<backend, overlapped, requests>>
    BY <1>1, <1>3, <1>10 DEF Insert
  <2>2. PICK p \in {"idle", "select"}, d \in {doc[c], NULL} :
          /\ pc' = [pc EXCEPT ![c] = p] /\ doc' = [doc EXCEPT ![c] = d]
          /\ p = "select" => d = doc[c]
    BY <1>1, <1>10 DEF Insert, End
  <2>3. rows' \in RowsType /\ InPlace' /\ ThereNext(doc[c])
        /\ \A f \in Docs : There(f) => ThereNext(f)
    BY <1>1, <2>1, Written
  <2>4. decision' \in Decisions
    BY <1>1, <1>5, <1>10, <2>1 DEF Insert
  <2>5. todo[c] \in SUBSET Docs /\ \A f \in todo[c] : ThereNext(f)
    BY <1>1, <1>3, <2>3
  <2>6. p \in Statements /\ d \in Docs \cup {NULL}
    BY <1>2, <2>1
  <2> QED
    BY <1>1, <2>1, <2>2, <2>3, <2>4, <2>5, <2>6, ClientGoesOn
<1>11. CASE ReadActive(c)
  <2> DEFINE S == {d \in UNION {{rows[r][v].doc : v \in Approved(r)} : r \in Rules \ {doc[c].rule}} :
                     <<doc[c].text, d.text>> \in Contradicting}
  <2>1. S \in SUBSET Docs /\ \A d \in S : There(d)
    <3>1. ASSUME NEW d \in S PROVE d \in Docs /\ There(d)
      <4>1. PICK r \in Rules : \E v \in Approved(r) : d = rows[r][v].doc
        OBVIOUS
      <4>2. PICK v \in Stored(r) : d = rows[r][v].doc
        BY <4>1 DEF Approved
      <4> QED
        BY <1>1, <4>2, StoredIs
    <3> QED
      BY <3>1
  <2>2. /\ pc' = [pc EXCEPT ![c] = "detect"] /\ doc' = [doc EXCEPT ![c] = doc[c]]
        /\ todo' = [todo EXCEPT ![c] = S] /\ pc[c] = "select"
        /\ UNCHANGED <<rows, backend, decision, overlapped, requests>>
    BY <1>1, <1>11 DEF ReadActive, historyVars
  <2> HIDE DEF S
  <2> QED
    BY <1>1, <1>2, <1>3, <1>4, <2>1, <2>2, ClientGoesOn
<1>12. CASE MarkNew(c)
  <2>1. PICK e \in todo[c] :
          LET d == [doc[c] EXCEPT !.conflicts = @ \cup {e.rule}]
          IN  WriteJson(d) /\ doc' = [doc EXCEPT ![c] = d]
    BY <1>12 DEF MarkNew
  <2> DEFINE d == [doc[c] EXCEPT !.conflicts = @ \cup {e.rule}]
  <2>2. /\ pc[c] = "detect" /\ pc' = [pc EXCEPT ![c] = pc[c]]
        /\ todo' = [todo EXCEPT ![c] = todo[c]] /\ todo[c] \in SUBSET Docs
        /\ UNCHANGED <<backend, decision, overlapped, requests>>
    BY <1>1, <1>12 DEF MarkNew, historyVars
  <2>3. WriteJson(d) /\ doc' = [doc EXCEPT ![c] = d]
    BY <2>1
  <2>4. e.rule \in Rules
    BY <1>3 DEF Docs
  <2>5. d \in Docs /\ d.rule = doc[c].rule /\ d.version = doc[c].version
    BY <1>3, <2>2, <2>4, Changed
  <2> HIDE DEF d
  <2>6. There(d)
    BY <1>3, <2>2, <2>5 DEF There
  <2>7. rows' \in RowsType /\ InPlace' /\ ThereNext(d)
        /\ \A f \in Docs : There(f) => ThereNext(f)
    BY <1>1, <2>3, <2>5, <2>6, Written
  <2>8. \A f \in todo[c] : ThereNext(f)
    BY <1>3, <2>7
  <2> QED
    BY <1>1, <1>2, <2>2, <2>3, <2>5, <2>7, <2>8, ClientGoesOn
<1>13. CASE MarkExisting(c)
  <2>1. PICK e \in todo[c] :
          /\ LET marked == [e EXCEPT !.conflicts = @ \cup {doc[c].rule}] IN
               IF marked = e THEN UNCHANGED rows
               ELSE IF backend = "sqlite" THEN WriteJson(marked) ELSE WriteRow(marked)
          /\ doc' = [doc EXCEPT ![c].conflicts = @ \cup {e.rule}]
          /\ todo' = [todo EXCEPT ![c] = todo[c] \ {e}]
    BY <1>13 DEF MarkExisting
  <2> DEFINE marked == [e EXCEPT !.conflicts = @ \cup {doc[c].rule}]
             d == [doc[c] EXCEPT !.conflicts = @ \cup {e.rule}]
  <2>2. /\ pc[c] = "detect" /\ pc' = [pc EXCEPT ![c] = pc[c]]
        /\ todo[c] \ {e} \in SUBSET Docs
        /\ UNCHANGED <<backend, decision, overlapped, requests>>
    BY <1>1, <1>13 DEF MarkExisting, historyVars
  <2>3. e \in Docs /\ There(e) /\ e.rule \in Rules
        /\ doc[c] \in Docs /\ There(doc[c]) /\ doc[c].rule \in Rules
    BY <1>3, <2>2 DEF Docs
  <2>4. doc' = [doc EXCEPT ![c] = d]
    BY <1>1, <2>1
  <2>5. /\ d \in Docs /\ d.rule = doc[c].rule /\ d.version = doc[c].version
        /\ marked \in Docs /\ marked.rule = e.rule /\ marked.version = e.version
    BY <2>3, Changed
  <2>6. UNCHANGED rows \/ WriteJson(marked) \/ WriteRow(marked)
    BY <2>1
  <2> HIDE DEF d, marked
  <2>7. There(marked) /\ There(d)
    BY <2>3, <2>5 DEF There
  <2>8. rows' \in RowsType /\ InPlace' /\ \A f \in Docs : There(f) => ThereNext(f)
    BY <1>1, <1>4, <2>5, <2>6, <2>7, Written
  <2>9. \A f \in todo[c] \ {e} : ThereNext(f)
    BY <1>3, <2>8
  <2> QED
    BY <1>1, <1>2, <2>1, <2>2, <2>4, <2>5, <2>7, <2>8, <2>9, ClientGoesOn
<1>14. CASE EndDetect(c)
  <2>1. /\ pc[c] = "detect" /\ (UNCHANGED rows \/ WriteRow(doc[c])) /\ todo[c] = {}
        /\ pc' = [pc EXCEPT ![c] = "idle"] /\ doc' = [doc EXCEPT ![c] = NULL]
        /\ todo' = [todo EXCEPT ![c] = todo[c]]
        /\ UNCHANGED <<backend, decision, overlapped, requests>>
    BY <1>1, <1>14 DEF EndDetect, End, historyVars
  <2>2. rows' \in RowsType /\ InPlace' /\ \A f \in Docs : There(f) => ThereNext(f)
    BY <1>1, <1>3, <1>4, <2>1, Written
  <2> QED
    BY <1>1, <1>2, <2>1, <2>2, ClientGoesOn
<1> QED
  BY <1>6, <1>7, <1>8, <1>9, <1>10, <1>11, <1>12, <1>13, <1>14 DEF Statement

LEMMA StutterBase == ASSUME Base, UNCHANGED vars PROVE Base'
BY DEF Base, TypeOK, InPlace, Existing, There, vars, clientVars, historyVars

(* The types.  Every row holds the rule it is kept under, and a request    *)
(* works on rules the store has.                                           *)
THEOREM BaseHolds == Spec => []Base
<1>1. ASSUME Init PROVE Base
  <2>1. \A r \in Rules, v \in Versions : rows[r][v] = NULL
    BY <1>1 DEF Init
  <2>2. InPlace /\ Existing
    BY <1>1, <2>1 DEF Init, InPlace, Existing
  <2>3. rows \in [Rules -> [Versions -> Row \cup {NULL}]]
    BY <1>1 DEF Init
  <2>4. decision \in [Rules -> [Versions -> {"none", "approved", "rejected"}]]
    BY <1>1 DEF Init
  <2>5. /\ pc \in [Clients -> {"idle", "history", "deprecate", "reject", "insert",
                               "select", "detect"}]
        /\ doc \in [Clients -> Docs \cup {NULL}]
        /\ todo \in [Clients -> SUBSET Docs]
    BY <1>1 DEF Init
  <2>6. requests \in 0 .. MaxRequests /\ backend \in Backends
    BY <1>1, RuleStoreConstants DEF Init
  <2>7. overlapped \in BOOLEAN
    BY <1>1, Zenon DEF Init
  <2> QED
    BY <2>2, <2>3, <2>4, <2>5, <2>6, <2>7 DEF Base, TypeOK
<1>2. Base /\ [Next]_vars => Base'
  BY RequestBase, StatementBase, StutterBase DEF Next
<1> QED
  BY <1>1, <1>2, PTL DEF Spec

THEOREM TypeCorrect == Spec => []TypeOK
<1>1. Base => TypeOK
  BY DEF Base
<1> QED
  BY <1>1, BaseHolds, PTL

-----------------------------------------------------------------------------
(* The versions of a rule have a latest one, and the next is a new one.    *)

Less == {ss \in Nat \X Nat : ss[1] < ss[2]}

LEMMA LessIsWellFounded == IsWellFoundedOn(Less, Nat)
BY NatLessThanWellFounded, Zenon DEF OpToRel, Less

LEMMA NextVersionIsNew == ASSUME NEW r \in Rules PROVE NextVersion(r) \notin Stored(r)
<1>1. CASE Stored(r) = {}
  BY <1>1
<1>2. CASE Stored(r) # {}
  <2> DEFINE S == Stored(r)
             Bounds == {n \in Nat : \A v \in S : v <= n}
  <2>1. S \subseteq Versions /\ MaxVersion \in Nat
    BY RuleStoreConstants DEF Stored
  <2>2. \A v \in S : v \in Nat /\ 1 <= v /\ v <= MaxVersion
    BY <2>1 DEF Versions
  <2>3. MaxVersion \in Bounds
    BY <2>1, <2>2
  <2>4. PICK m \in Bounds : \A n \in Bounds : ~ (<<n, m>> \in Less)
    <3>1. Bounds \subseteq Nat /\ Bounds # {}
      BY <2>3
    <3> HIDE DEF Bounds
    <3> QED
      BY <3>1, LessIsWellFounded, WFMin
  <2>5. ASSUME NEW n \in Bounds PROVE m <= n
    <3>1. n \in Nat /\ m \in Nat /\ <<n, m>> \notin Less
      BY <2>4
    <3>2. ~ (n < m)
      BY <3>1 DEF Less
    <3> QED
      BY <3>1, <3>2
  <2>6. m \in S
    <3> SUFFICES ASSUME m \notin S PROVE FALSE
      OBVIOUS
    <3>1. m \in Nat /\ \A v \in S : v <= m - 1
      BY <2>2, <2>4
    <3>2. m - 1 \in Nat
      BY <1>2, <2>2, <3>1
    <3> QED
      BY <2>5, <3>1, <3>2
  <2>7. \A v \in S : m >= v
    BY <2>2, <2>4
  <2>8. Max(S) \in S /\ \A v \in S : Max(S) >= v
    BY <2>6, <2>7 DEF Max
  <2> QED
    BY <1>2, <2>2, <2>8 DEF NextVersion
<1> QED
  BY <1>1, <1>2

-----------------------------------------------------------------------------
(* The safety invariant.                                                   *)

\* A copy that is what the store has.
Current(d) == rows[d.rule][d.version].doc = d /\ Column(d) = d.status

\* Every approved rule that contradicts d is still to be marked, or d and it
\* name each other.
Marking(d, left) ==
  \A r \in Rules, v \in Versions :
    /\ r # d.rule /\ rows[r][v] # NULL /\ rows[r][v].column = "approved"
    /\ <<d.text, rows[r][v].doc.text>> \in Contradicting
    => \/ rows[r][v].doc \in left
       \/ r \in d.conflicts /\ d.rule \in rows[r][v].doc.conflicts

\* What a request may rely on at each of its statements when no other request
\* is in progress.
RejectAware(c) == rows[doc[c].rule][doc[c].version].doc = doc[c]

InsertAware(c) == doc[c].rule \in Seeds \/ ~There(doc[c])

DeprecateAware(c) ==
  /\ \A d \in todo[c] : d.rule = doc[c].rule /\ d.version # doc[c].version
  /\ \A v \in Versions :
       rows[doc[c].rule][v] # NULL /\ rows[doc[c].rule][v].column = "approved" =>
         v = doc[c].version \/ \E d \in todo[c] : d.version = v

DetectAware(c) ==
  /\ Column(doc[c]) = doc[c].status
  /\ rows[doc[c].rule][doc[c].version].doc.text = doc[c].text
  /\ backend = "sqlite" => rows[doc[c].rule][doc[c].version].doc = doc[c]
  /\ \A d \in todo[c] : Current(d) /\ d.rule # doc[c].rule
  /\ Marking(doc[c], todo[c])

Aware(c) ==
  /\ pc[c] = "reject"    => RejectAware(c)
  /\ pc[c] = "insert"    => InsertAware(c)
  /\ pc[c] = "deprecate" => DeprecateAware(c)
  /\ pc[c] = "select"    => Current(doc[c])
  /\ pc[c] = "detect"    => DetectAware(c)

\* Only seeds are inserted approved.
Proposed == \A c \in Clients :
  pc[c] = "insert" => doc[c].rule \in Seeds \/ doc[c].status = "proposed"

OneAtATime ==
  Serial => \A c \in Clients :
    Aware(c) /\ (pc[c] # "idle" => \A b \in Clients \ {c} : pc[b] = "idle")

Consistent ==
  Proposed /\ OneAtATime /\ StatusesAgree /\ SerialOneApproved /\ RejectionHolds

(* A statement concerns its own client; when requests do not overlap the   *)
(* others are idle.                                                        *)
LEMMA StatementAlone ==
  ASSUME Base, OneAtATime, NEW c \in Clients, Statement(c)
  PROVE  /\ pc[c] # "idle" /\ overlapped' = overlapped /\ backend' = backend
         /\ \A b \in Clients \ {c} : pc'[b] = pc[b] /\ doc'[b] = doc[b]
         /\ Serial => \A b \in Clients \ {c} : pc'[b] = "idle"
         /\ pc'[c] # "insert"
<1>1. /\ pc \in [Clients -> Statements] /\ doc \in [Clients -> Docs \cup {NULL}]
  BY DEF Base, TypeOK, Statements
<1>2. /\ pc[c] # "idle" /\ overlapped' = overlapped /\ backend' = backend
      /\ \A b \in Clients \ {c} : pc'[b] = pc[b] /\ doc'[b] = doc[b]
      /\ pc'[c] # "insert"
  <2>1. CASE ReadHistory(c)
    BY <1>1, <2>1 DEF ReadHistory, historyVars
  <2>2. CASE Deprecate(c)
    BY <1>1, <2>2 DEF Deprecate, historyVars
  <2>3. CASE SaveApproved(c)
    BY <1>1, <2>3 DEF SaveApproved
  <2>4. CASE SaveRejected(c)
    BY <1>1, <2>4 DEF SaveRejected, End
  <2>5. CASE Insert(c)
    BY <1>1, <2>5 DEF Insert, End
  <2>6. CASE ReadActive(c)
    BY <1>1, <2>6 DEF ReadActive, historyVars
  <2>7. CASE MarkNew(c)
    BY <1>1, <2>7 DEF MarkNew, historyVars
  <2>8. CASE MarkExisting(c)
    BY <1>1, <2>8 DEF MarkExisting, historyVars
  <2>9. CASE EndDetect(c)
    BY <1>1, <2>9 DEF EndDetect, End, historyVars
  <2> QED
    BY <2>1, <2>2, <2>3, <2>4, <2>5, <2>6, <2>7, <2>8, <2>9 DEF Statement
<1> QED
  BY <1>2 DEF OneAtATime

(* What is left to show of a statement.                                    *)
LEMMA StatementConsistent ==
  ASSUME Base, Consistent, NEW c \in Clients, Statement(c),
         Serial => Aware(c)', StatusesAgree', SerialOneApproved', RejectionHolds'
  PROVE  Consistent'
<1>1. /\ pc[c] # "idle" /\ overlapped' = overlapped
      /\ \A b \in Clients \ {c} : pc'[b] = pc[b] /\ doc'[b] = doc[b]
      /\ Serial => \A b \in Clients \ {c} : pc'[b] = "idle"
      /\ pc'[c] # "insert"
  BY StatementAlone DEF Consistent
<1>2. Proposed'
  BY <1>1 DEF Consistent, Proposed
<1>3. Serial' => Serial
  BY <1>1 DEF Serial
<1>4. OneAtATime'
  <2> SUFFICES ASSUME Serial', NEW b \in Clients
               PROVE  Aware(b)' /\ (pc'[b] # "idle" =>
                                      \A a \in Clients \ {b} : pc'[a] = "idle")
    BY DEF OneAtATime
  <2>1. CASE b = c
    BY <1>1, <1>3, <2>1
  <2>2. CASE b # c
    <3>1. pc'[b] = "idle"
      BY <1>1, <1>3, <2>2
    <3> QED
      BY <3>1 DEF Aware
  <2> QED
    BY <2>1, <2>2
<1> QED
  BY <1>2, <1>4 DEF Consistent

-----------------------------------------------------------------------------
(* What a step does to the columns.                                        *)

\* No row comes or goes, and no column changes.
SameColumns == \A r \in Rules, v \in Versions :
  /\ rows'[r][v] = NULL <=> rows[r][v] = NULL
  /\ rows[r][v] # NULL => rows'[r][v].column = rows[r][v].column

LEMMA ApprovedIs ==
  \A r, v : v \in Approved(r) <=>
    v \in Versions /\ rows[r][v] # NULL /\ rows[r][v].column = "approved"
BY DEF Approved, Stored

LEMMA ApprovedNextIs ==
  \A r, v : v \in Approved(r)' <=>
    v \in Versions /\ rows'[r][v] # NULL /\ rows'[r][v].column = "approved"
BY DEF Approved, Stored

(* No version gets approved: one at most is still.                         *)
LEMMA FewerApproved ==
  ASSUME Consistent, Serial' => Serial,
         Serial => \A r \in Reviewed : Approved(r)' \subseteq Approved(r)
  PROVE  SerialOneApproved'
BY DEF Consistent, SerialOneApproved, OneApproved

LEMMA StillRejected ==
  ASSUME Consistent, Serial' => Serial, backend' = backend,
         Serial \/ backend = "sqlite" =>
           \A r \in Reviewed : \A v \in Approved(r)' :
             \/ v \in Approved(r) /\ decision'[r][v] = decision[r][v]
             \/ decision'[r][v] # "rejected"
  PROVE  RejectionHolds'
BY DEF Consistent, RejectionHolds, KeepsRejected

(* A step that writes no column.                                           *)
LEMMA NoColumnWritten ==
  ASSUME Consistent, Serial' => Serial, backend' = backend, decision' = decision,
         Serial \/ backend = "sqlite" => SameColumns
  PROVE  SerialOneApproved' /\ RejectionHolds'
<1>1. Serial \/ backend = "sqlite" => \A r \in Rules : Approved(r)' = Approved(r)
  <2>1. ASSUME Serial \/ backend = "sqlite", NEW r \in Rules, NEW v
        PROVE  v \in Approved(r)' <=> v \in Approved(r)
    BY <2>1, ApprovedIs, ApprovedNextIs DEF SameColumns
  <2> QED
    BY <2>1
<1>2. Reviewed \subseteq Rules
  BY DEF Reviewed
<1> QED
  BY <1>1, <1>2, FewerApproved, StillRejected

(* The columns agree with the JSON when a whole row is written, or the     *)
(* JSON of a rule whose status is the column's.                            *)
LEMMA StillAgree ==
  ASSUME TypeOK, Consistent, Serial' => Serial, backend' = backend,
         \/ UNCHANGED rows
         \/ \E d \in Docs : WriteRow(d)
         \/ \E d \in Docs : /\ WriteJson(d) /\ There(d) /\ backend = "sqlite"
                            /\ Serial => Column(d) = d.status
  PROVE  StatusesAgree'
<1>1. SUFFICES ASSUME Serial' \/ backend = "postgres", NEW r \in Rules, NEW v \in Versions,
                      rows'[r][v] # NULL
               PROVE  rows'[r][v].column = rows'[r][v].doc.status
  BY DEF StatusesAgree, Stored
<1>2. rows[r][v] # NULL => rows[r][v].column = rows[r][v].doc.status
  BY <1>1 DEF Consistent, StatusesAgree, Stored
<1>3. CASE UNCHANGED rows
  BY <1>1, <1>2, <1>3
<1>4. ASSUME NEW d \in Docs, WriteRow(d)
      PROVE  rows'[r][v].column = rows'[r][v].doc.status
  BY <1>1, <1>2, <1>4, WriteRowIs
<1>5. ASSUME NEW d \in Docs, WriteJson(d), There(d), backend = "sqlite",
             Serial => Column(d) = d.status
      PROVE  rows'[r][v].column = rows'[r][v].doc.status
  <2>1. Serial
    BY <1>1, <1>5
  <2> QED
    BY <1>1, <1>2, <1>5, <2>1, WriteJsonIs
<1> QED
  BY <1>3, <1>4, <1>5

-----------------------------------------------------------------------------
(* One lemma for each statement.                                           *)

LEMMA Facts ==
  ASSUME Base, NEW c \in Clients
  PROVE  /\ TypeOK /\ InPlace /\ backend \in {"sqlite", "postgres"}
         /\ pc \in [Clients -> Statements] /\ doc \in [Clients -> Docs \cup {NULL}]
         /\ todo \in [Clients -> SUBSET Docs]
         /\ pc[c] # "idle" => doc[c] \in Docs
         /\ pc[c] \notin {"idle", "insert"} => There(doc[c])
         /\ \A d \in todo[c] : d \in Docs /\ There(d)
BY RuleStoreConstants DEF Base, TypeOK, Statements, Existing

LEMMA RequestConsistent ==
  ASSUME Base, Consistent, NEW c \in Clients, Request(c) PROVE Consistent'
<1>1. /\ TypeOK /\ InPlace
      /\ pc \in [Clients -> Statements] /\ doc \in [Clients -> Docs \cup {NULL}]
  BY Facts
<1>2. PICK d \in Docs, p \in {"history", "reject", "insert"} :
        /\ Begin(c, d, p)
        /\ p = "reject" => d = rows[d.rule][d.version].doc
        /\ p = "insert" => \/ d.rule \in Seeds
                           \/ d.status = "proposed" /\ d.version = NextVersion(d.rule)
  BY <1>1, RequestIs
<1>3. /\ pc'[c] = p /\ doc'[c] = d
      /\ \A b \in Clients \ {c} : pc'[b] = pc[b] /\ doc'[b] = doc[b]
      /\ UNCHANGED <<backend, rows, decision>>
  BY <1>1, <1>2 DEF Begin
<1>4. Serial' => Serial /\ \A b \in Clients \ {c} : pc[b] = "idle"
  BY <1>2 DEF Begin, Serial
<1>5. SameColumns
  BY <1>3 DEF SameColumns
<1>6. StatusesAgree' /\ SerialOneApproved' /\ RejectionHolds'
  BY <1>1, <1>3, <1>4, <1>5, NoColumnWritten, StillAgree
<1>7. Proposed'
  BY <1>2, <1>3 DEF Consistent, Proposed
<1>8. p = "insert" => d.rule \in Seeds \/ ~There(d)
  <2>1. d.rule \in Rules /\ d.version \in Versions
    BY DEF Docs
  <2>2. d.version = NextVersion(d.rule) => ~There(d)
    BY <2>1, NextVersionIsNew DEF Stored, There
  <2> QED
    BY <1>2, <2>2
<1>9. Aware(c)'
  BY <1>2, <1>3, <1>8 DEF Aware, RejectAware, InsertAware, There
<1>10. OneAtATime'
  <2> SUFFICES ASSUME Serial', NEW b \in Clients
               PROVE  Aware(b)' /\ (pc'[b] # "idle" =>
                                      \A a \in Clients \ {b} : pc'[a] = "idle")
    BY DEF OneAtATime
  <2>1. CASE b = c
    BY <1>3, <1>4, <1>9, <2>1
  <2>2. CASE b # c
    <3>1. pc'[b] = "idle"
      BY <1>3, <1>4, <2>2
    <3> QED
      BY <3>1 DEF Aware
  <2> QED
    BY <2>1, <2>2
<1> QED
  BY <1>6, <1>7, <1>10 DEF Consistent

(* The approved versions that a request reads are all there are but its    *)
(* own.                                                                    *)
LEMMA ReadHistoryConsistent ==
  ASSUME Base, Consistent, NEW c \in Clients, ReadHistory(c) PROVE Consistent'
<1> DEFINE S == {d \in AllDocs : d.rule = doc[c].rule /\ d.version # doc[c].version
                                 /\ d.status = "approved"}
<1>1. TypeOK /\ InPlace /\ pc[c] = "history" /\ doc[c] \in Docs /\ Statement(c)
  BY Facts DEF ReadHistory, Statement
<1>2. /\ pc'[c] = "deprecate" /\ doc' = doc /\ todo'[c] = S
      /\ UNCHANGED <<rows, backend, decision, overlapped>>
  BY Facts DEF ReadHistory, historyVars
<1>3. Serial' => Serial
  BY <1>2 DEF Serial
<1>4. SameColumns
  BY <1>2 DEF SameColumns
<1>5. StatusesAgree' /\ SerialOneApproved' /\ RejectionHolds'
  BY <1>1, <1>2, <1>3, <1>4, NoColumnWritten, StillAgree
<1>6. ASSUME Serial, NEW v \in Versions, v # doc[c].version,
             rows[doc[c].rule][v] # NULL, rows[doc[c].rule][v].column = "approved"
      PROVE  \E d \in S : d.version = v
  <2> DEFINE r == doc[c].rule
             d == rows[r][v].doc
  <2>1. r \in Rules
    BY <1>1 DEF Docs
  <2>2. v \in Stored(r)
    BY <1>6 DEF Stored
  <2>3. d \in AllDocs
    BY <2>1, <2>2 DEF AllDocs
  <2>4. d.rule = r /\ d.version = v
    BY <1>1, <2>1, <2>2, StoredIs
  <2>5. d.status = "approved"
    BY <1>6, <2>1, <2>2 DEF Consistent, StatusesAgree
  <2> HIDE DEF d
  <2>6. d \in S
    BY <1>6, <2>3, <2>4, <2>5
  <2> QED
    BY <2>4, <2>6
<1>7. Serial => Aware(c)'
  <2>1. \A d \in S : d.rule = doc[c].rule /\ d.version # doc[c].version
    OBVIOUS
  <2> HIDE DEF S
  <2> QED
    BY <1>2, <1>6, <2>1 DEF Aware, DeprecateAware
<1> QED
  BY <1>1, <1>5, <1>7, StatementConsistent

LEMMA DeprecateConsistent ==
  ASSUME Base, Consistent, NEW c \in Clients, Deprecate(c) PROVE Consistent'
<1>1. /\ TypeOK /\ InPlace /\ pc[c] = "deprecate" /\ doc[c] \in Docs /\ Statement(c)
      /\ \A f \in todo[c] : f \in Docs
  BY Facts DEF Deprecate, Statement
<1>2. PICK d \in todo[c] : /\ WriteRow([d EXCEPT !.status = "deprecated"])
                           /\ todo'[c] = todo[c] \ {d}
  BY Facts DEF Deprecate
<1> DEFINE e == [d EXCEPT !.status = "deprecated"]
<1>3. /\ e \in Docs /\ e.rule = d.rule /\ e.version = d.version /\ e.status = "deprecated"
      /\ WriteRow(e) /\ d \in Docs
  BY <1>1, <1>2, Changed DEF Statuses
<1> HIDE DEF e
<1>4. /\ UNCHANGED <<pc, doc, backend, decision, overlapped>>
  BY DEF Deprecate, historyVars
<1>5. Serial' => Serial
  BY <1>4 DEF Serial
<1>6. /\ rows'[d.rule][d.version].column = "deprecated"
      /\ \A r \in Rules, v \in Versions :
           r # d.rule \/ v # d.version => rows'[r][v] = rows[r][v]
  BY <1>1, <1>3, WriteRowIs
<1>7. \A r \in Rules : Approved(r)' \subseteq Approved(r)
  <2> SUFFICES ASSUME NEW r \in Rules, NEW v \in Approved(r)' PROVE v \in Approved(r)
    OBVIOUS
  <2> QED
    BY <1>6, ApprovedIs, ApprovedNextIs
<1>8. SerialOneApproved' /\ RejectionHolds'
  <2>1. Reviewed \subseteq Rules
    BY DEF Reviewed
  <2> QED
    BY <1>4, <1>5, <1>7, <2>1, FewerApproved, StillRejected
<1>9. StatusesAgree'
  BY <1>1, <1>3, <1>4, <1>5, StillAgree
<1>10. Serial => Aware(c)'
  <2>1. SUFFICES ASSUME Serial PROVE DeprecateAware(c)'
    BY <1>1, <1>4 DEF Aware
  <2>2. DeprecateAware(c)
    BY <1>1, <2>1 DEF Consistent, OneAtATime, Aware
  <2>3. d.rule = doc[c].rule /\ doc[c].rule \in Rules
    BY <1>1, <2>2 DEF DeprecateAware, Docs
  <2>4. ASSUME NEW v \in Versions, rows'[doc[c].rule][v] # NULL,
               rows'[doc[c].rule][v].column = "approved"
        PROVE  v = doc[c].version \/ \E f \in todo[c] \ {d} : f.version = v
    <3>1. v # d.version
      BY <1>6, <2>3, <2>4
    <3>2. rows'[doc[c].rule][v] = rows[doc[c].rule][v]
      BY <1>6, <2>3, <3>1
    <3> QED
      BY <2>2, <2>4, <3>1, <3>2 DEF DeprecateAware
  <2> QED
    BY <1>2, <1>4, <2>2, <2>4 DEF DeprecateAware
<1> QED
  BY <1>1, <1>8, <1>9, <1>10, StatementConsistent

(* The rule is approved when no other version is left.                     *)
LEMMA SaveApprovedConsistent ==
  ASSUME Base, Consistent, NEW c \in Clients, SaveApproved(c) PROVE Consistent'
<1>1. /\ TypeOK /\ InPlace /\ pc[c] = "deprecate" /\ doc[c] \in Docs /\ Statement(c)
      /\ todo[c] = {}
  BY Facts DEF SaveApproved, Statement
<1> DEFINE d == [doc[c] EXCEPT !.status = "approved"]
<1>2. /\ d \in Docs /\ d.rule = doc[c].rule /\ d.version = doc[c].version
      /\ d.status = "approved"
  BY <1>1, Changed DEF Statuses
<1>3. /\ WriteRow(d) /\ Decide(d, "approved") /\ doc'[c] = d /\ pc'[c] = "select"
      /\ UNCHANGED <<backend, overlapped>>
  BY Facts DEF SaveApproved
<1> HIDE DEF d
<1>4. Serial' => Serial
  BY <1>3 DEF Serial
<1>5. /\ rows'[d.rule][d.version].doc = d
      /\ rows'[d.rule][d.version].column = "approved"
      /\ \A r \in Rules, v \in Versions :
           r # d.rule \/ v # d.version => rows'[r][v] = rows[r][v]
  BY <1>1, <1>2, <1>3, WriteRowIs
<1>6. SerialOneApproved'
  <2>1. SUFFICES ASSUME Serial, NEW r \in Reviewed, NEW v \in Approved(r)',
                        NEW w \in Approved(r)'
                 PROVE  v = w
    BY <1>4 DEF SerialOneApproved, OneApproved
  <2>2. DeprecateAware(c) /\ r \in Rules
    BY <1>1, <2>1 DEF Consistent, OneAtATime, Aware, Reviewed
  <2>3. CASE r = d.rule
    <3>1. ASSUME NEW u \in Approved(r)' PROVE u = d.version
      BY <1>1, <1>2, <1>5, <2>2, <2>3, <3>1, ApprovedNextIs DEF DeprecateAware
    <3> QED
      BY <3>1
  <2>4. CASE r # d.rule
    <3>1. v \in Approved(r) /\ w \in Approved(r)
      BY <1>5, <2>2, <2>4, ApprovedIs, ApprovedNextIs
    <3> QED
      BY <2>1, <3>1 DEF Consistent, SerialOneApproved, OneApproved
  <2> QED
    BY <2>3, <2>4
<1>7. RejectionHolds'
  <2>1. decision' = [decision EXCEPT ![d.rule][d.version] = "approved"]
    BY <1>3 DEF Decide
  <2>2. decision \in Decisions /\ d.rule \in Rules /\ d.version \in Versions
    BY <1>1, <1>2 DEF TypeOK, Decisions, Docs
  <2>3. ASSUME NEW r \in Reviewed, NEW v \in Approved(r)'
        PROVE  \/ v \in Approved(r) /\ decision'[r][v] = decision[r][v]
               \/ decision'[r][v] # "rejected"
    <3>1. r \in Rules /\ v \in Versions
      BY <2>3, ApprovedNextIs DEF Reviewed
    <3>2. CASE r = d.rule /\ v = d.version
      <4>1. decision'[r][v] = "approved"
        BY <2>1, <2>2, <3>2 DEF Decisions
      <4> QED
        BY <4>1
    <3>3. CASE r # d.rule \/ v # d.version
      <4>1. decision'[r][v] = decision[r][v]
        BY <2>1, <2>2, <3>1, <3>3 DEF Decisions
      <4>2. v \in Approved(r)
        BY <1>5, <2>3, <3>1, <3>3, ApprovedIs, ApprovedNextIs
      <4> QED
        BY <4>1, <4>2
    <3> QED
      BY <3>2, <3>3
  <2> QED
    BY <1>3, <1>4, <2>3, StillRejected
<1>8. StatusesAgree'
  BY <1>1, <1>2, <1>3, <1>4, StillAgree
<1>9. Aware(c)'
  BY <1>2, <1>3, <1>5 DEF Aware, Current, Column
<1> QED
  BY <1>1, <1>6, <1>7, <1>8, <1>9, StatementConsistent

LEMMA SaveRejectedConsistent ==
  ASSUME Base, Consistent, NEW c \in Clients, SaveRejected(c) PROVE Consistent'
<1>1. /\ TypeOK /\ InPlace /\ pc[c] = "reject" /\ doc[c] \in Docs /\ Statement(c)
  BY Facts DEF SaveRejected, Statement
<1> DEFINE d == [doc[c] EXCEPT !.status = "deprecated"]
<1>2. /\ d \in Docs /\ d.rule = doc[c].rule /\ d.version = doc[c].version
      /\ d.status = "deprecated"
  BY <1>1, Changed DEF Statuses
<1>3. /\ WriteRow(d) /\ Decide(doc[c], "rejected") /\ pc'[c] = "idle"
      /\ UNCHANGED <<backend, overlapped>>
  BY Facts DEF SaveRejected, End
<1> HIDE DEF d
<1>4. Serial' => Serial
  BY <1>3 DEF Serial
<1>5. /\ rows'[d.rule][d.version].column = "deprecated"
      /\ \A r \in Rules, v \in Versions :
           r # d.rule \/ v # d.version => rows'[r][v] = rows[r][v]
  BY <1>1, <1>2, <1>3, WriteRowIs
<1>6. ASSUME NEW r \in Reviewed, NEW v \in Approved(r)'
      PROVE  /\ v \in Approved(r) /\ r \in Rules /\ v \in Versions
             /\ r # d.rule \/ v # d.version
  BY <1>5, <1>6, ApprovedIs, ApprovedNextIs DEF Reviewed
<1>7. SerialOneApproved'
  BY <1>4, <1>6, FewerApproved
<1>8. RejectionHolds'
  <2>1. decision' = [decision EXCEPT ![d.rule][d.version] = "rejected"]
    BY <1>2, <1>3 DEF Decide
  <2>2. decision \in Decisions /\ d.rule \in Rules /\ d.version \in Versions
    BY <1>1, <1>2 DEF TypeOK, Decisions, Docs
  <2>3. ASSUME NEW r \in Reviewed, NEW v \in Approved(r)'
        PROVE  v \in Approved(r) /\ decision'[r][v] = decision[r][v]
    <3>1. v \in Approved(r) /\ r \in Rules /\ v \in Versions
          /\ (r # d.rule \/ v # d.version)
      BY <1>6
    <3> QED
      BY <2>1, <2>2, <3>1 DEF Decisions
  <2> QED
    BY <1>3, <1>4, <2>3, StillRejected
<1>9. StatusesAgree'
  BY <1>1, <1>2, <1>3, <1>4, StillAgree
<1>10. Aware(c)'
  BY <1>3 DEF Aware
<1> QED
  BY <1>1, <1>7, <1>8, <1>9, <1>10, StatementConsistent

(* Only seeds are inserted approved.                                       *)
LEMMA InsertConsistent ==
  ASSUME Base, Consistent, NEW c \in Clients, Insert(c) PROVE Consistent'
<1> DEFINE d == doc[c]
<1>1. /\ TypeOK /\ InPlace /\ d \in Docs /\ Statement(c)
      /\ d.rule \in Seeds \/ d.status = "proposed"
  BY Facts DEF Insert, Statement, Consistent, Proposed
<1>2. /\ WriteRow(d) /\ UNCHANGED <<backend, overlapped>>
      /\ pc'[c] = "idle" \/ (pc'[c] = "select" /\ doc'[c] = d)
      /\ IF d.status = "proposed" THEN Decide(d, "none") ELSE UNCHANGED decision
  BY Facts DEF Insert, End
<1> HIDE DEF d
<1>3. Serial' => Serial
  BY <1>2 DEF Serial
<1>4. /\ rows'[d.rule][d.version].doc = d
      /\ rows'[d.rule][d.version].column = d.status
      /\ \A r \in Rules, v \in Versions :
           r # d.rule \/ v # d.version => rows'[r][v] = rows[r][v]
  BY <1>1, <1>2, WriteRowIs
<1>5. ASSUME NEW r \in Reviewed, NEW v \in Approved(r)'
      PROVE  /\ v \in Approved(r) /\ r \in Rules /\ v \in Versions
             /\ r # d.rule \/ v # d.version
  <2>1. r \in Rules /\ r \notin Seeds /\ v \in Versions
    BY <1>5, ApprovedNextIs DEF Reviewed
  <2>2. r # d.rule \/ v # d.version
    BY <1>1, <1>4, <1>5, <2>1, ApprovedNextIs
  <2> QED
    BY <1>4, <1>5, <2>1, <2>2, ApprovedIs, ApprovedNextIs
<1>6. SerialOneApproved'
  BY <1>3, <1>5, FewerApproved
<1>7. RejectionHolds'
  <2>1. \/ decision' = [decision EXCEPT ![d.rule][d.version] = "none"]
        \/ decision' = decision
    BY <1>2 DEF Decide
  <2>2. decision \in Decisions /\ d.rule \in Rules /\ d.version \in Versions
    BY <1>1 DEF TypeOK, Decisions, Docs
  <2>3. ASSUME NEW r \in Reviewed, NEW v \in Approved(r)'
        PROVE  v \in Approved(r) /\ decision'[r][v] = decision[r][v]
    <3>1. v \in Approved(r) /\ r \in Rules /\ v \in Versions
          /\ (r # d.rule \/ v # d.version)
      BY <1>5
    <3> QED
      BY <2>1, <2>2, <3>1 DEF Decisions
  <2> QED
    BY <1>2, <1>3, <2>3, StillRejected
<1>8. StatusesAgree'
  BY <1>1, <1>2, <1>3, StillAgree
<1>9. Aware(c)'
  BY <1>2, <1>4 DEF Aware, Current, Column
<1> QED
  BY <1>1, <1>6, <1>7, <1>8, <1>9, StatementConsistent

-----------------------------------------------------------------------------
(* The search for conflicts.                                               *)

(* What is read are the approved rules that contradict, as they are.       *)
LEMMA ReadActiveConsistent ==
  ASSUME Base, Consistent, NEW c \in Clients, ReadActive(c) PROVE Consistent'
<1> DEFINE S == {d \in UNION {{rows[r][v].doc : v \in Approved(r)} : r \in Rules \ {doc[c].rule}} :
                   <<doc[c].text, d.text>> \in Contradicting}
<1>1. TypeOK /\ InPlace /\ pc[c] = "select" /\ doc[c] \in Docs /\ Statement(c)
  BY Facts DEF ReadActive, Statement
<1>2. /\ pc'[c] = "detect" /\ doc' = doc /\ todo'[c] = S
      /\ UNCHANGED <<rows, backend, decision, overlapped>>
  BY Facts DEF ReadActive, historyVars
<1>3. Serial' => Serial
  BY <1>2 DEF Serial
<1>4. SameColumns
  BY <1>2 DEF SameColumns
<1>5. StatusesAgree' /\ SerialOneApproved' /\ RejectionHolds'
  BY <1>1, <1>2, <1>3, <1>4, NoColumnWritten, StillAgree
<1>6. ASSUME Serial, NEW d \in S PROVE Current(d) /\ d.rule # doc[c].rule
  <2>1. PICK r \in Rules \ {doc[c].rule} : \E v \in Approved(r) : d = rows[r][v].doc
    OBVIOUS
  <2>2. PICK v \in Approved(r) : d = rows[r][v].doc
    BY <2>1
  <2>3. v \in Stored(r) /\ rows[r][v].column = "approved"
    BY <2>2 DEF Approved
  <2>4. d.rule = r /\ d.version = v
    BY <1>1, <2>2, <2>3, StoredIs
  <2>5. rows[r][v].column = rows[r][v].doc.status
    BY <1>6, <2>1, <2>3 DEF Consistent, StatusesAgree
  <2> HIDE DEF S
  <2> QED
    BY <2>1, <2>2, <2>4, <2>5 DEF Current, Column
<1>7. Marking(doc[c], S)
  <2> SUFFICES ASSUME NEW r \in Rules, NEW v \in Versions, r # doc[c].rule,
                      rows[r][v] # NULL, rows[r][v].column = "approved",
                      <<doc[c].text, rows[r][v].doc.text>> \in Contradicting
               PROVE  rows[r][v].doc \in S
    BY DEF Marking
  <2>1. v \in Approved(r) /\ r \in Rules \ {doc[c].rule}
    BY ApprovedIs
  <2> QED
    BY <2>1
<1>8. Serial => Aware(c)'
  <2>1. SUFFICES ASSUME Serial PROVE DetectAware(c)'
    BY <1>2 DEF Aware
  <2>2. Current(doc[c])
    BY <1>1, <2>1 DEF Consistent, OneAtATime, Aware
  <2>3. \A d \in S : Current(d) /\ d.rule # doc[c].rule
    BY <1>6, <2>1
  <2> HIDE DEF S
  <2> QED
    BY <1>2, <1>7, <2>2, <2>3 DEF DetectAware, Current, Column, Marking
<1> QED
  BY <1>1, <1>5, <1>8, StatementConsistent

LEMMA MarkNewConsistent ==
  ASSUME Base, Consistent, NEW c \in Clients, MarkNew(c) PROVE Consistent'
<1>1. /\ TypeOK /\ InPlace /\ pc[c] = "detect" /\ doc[c] \in Docs /\ Statement(c)
      /\ There(doc[c]) /\ backend = "sqlite"
      /\ \A f \in todo[c] : f \in Docs
  BY Facts DEF MarkNew, Statement
<1>2. PICK e \in todo[c] :
        LET d == [doc[c] EXCEPT !.conflicts = @ \cup {e.rule}]
        IN  WriteJson(d) /\ doc'[c] = d
  BY Facts DEF MarkNew
<1> DEFINE d == [doc[c] EXCEPT !.conflicts = @ \cup {e.rule}]
<1>3. e.rule \in Rules
  BY <1>1 DEF Docs
<1>4. /\ d \in Docs /\ d.rule = doc[c].rule /\ d.version = doc[c].version
      /\ d.status = doc[c].status /\ d.text = doc[c].text
      /\ d.conflicts = doc[c].conflicts \cup {e.rule}
  BY <1>1, <1>3, Changed
<1>5. /\ WriteJson(d) /\ doc'[c] = d
      /\ UNCHANGED <<pc, todo, backend, decision, overlapped>>
  BY <1>2 DEF MarkNew, historyVars
<1> HIDE DEF d
<1>6. There(d) /\ Column(d) = Column(doc[c])
  BY <1>1, <1>4 DEF There, Column
<1>7. Serial' => Serial
  BY <1>5 DEF Serial
<1>8. /\ rows'[d.rule][d.version].doc = d
      /\ rows'[d.rule][d.version].column = Column(d)
      /\ rows'[d.rule][d.version] # NULL
      /\ \A r \in Rules, v \in Versions :
           r # d.rule \/ v # d.version => rows'[r][v] = rows[r][v]
  BY <1>1, <1>4, <1>5, <1>6, WriteJsonIs
<1>9. SameColumns
  BY <1>6, <1>8 DEF SameColumns, There, Column
<1>10. Serial => DetectAware(c)
  BY <1>1 DEF Consistent, OneAtATime, Aware
<1>11. StatusesAgree' /\ SerialOneApproved' /\ RejectionHolds'
  <2>1. Serial => Column(d) = d.status
    BY <1>4, <1>6, <1>10 DEF DetectAware
  <2> QED
    BY <1>1, <1>4, <1>5, <1>6, <1>7, <1>9, <2>1, NoColumnWritten, StillAgree
<1>12. Serial => Aware(c)'
  <2>1. SUFFICES ASSUME Serial PROVE DetectAware(c)'
    BY <1>1, <1>5 DEF Aware
  <2>2. /\ rows'[doc'[c].rule][doc'[c].version].doc = doc'[c]
        /\ Column(doc[c])' = doc'[c].status
    BY <1>4, <1>5, <1>6, <1>8, <1>10, <2>1 DEF DetectAware, Column
  <2>3. ASSUME NEW f \in todo[c]
        PROVE  Current(f)' /\ f.rule # d.rule
    <3>1. Current(f) /\ f.rule # doc[c].rule /\ f.rule \in Rules /\ f.version \in Versions
      BY <1>1, <1>10, <2>1 DEF DetectAware, Docs
    <3>2. rows'[f.rule][f.version] = rows[f.rule][f.version]
      BY <1>4, <1>8, <3>1
    <3> QED
      BY <1>4, <3>1, <3>2 DEF Current, Column
  <2>4. Marking(doc[c], todo[c])'
    <3> SUFFICES ASSUME NEW r \in Rules, NEW v \in Versions, r # d.rule,
                        rows'[r][v] # NULL, rows'[r][v].column = "approved",
                        <<d.text, rows'[r][v].doc.text>> \in Contradicting
                 PROVE  \/ rows'[r][v].doc \in todo[c]
                        \/ r \in d.conflicts /\ d.rule \in rows'[r][v].doc.conflicts
      BY <1>5 DEF Marking
    <3>1. rows'[r][v] = rows[r][v]
      BY <1>8
    <3> QED
      BY <1>4, <1>10, <2>1, <3>1 DEF DetectAware, Marking
  <2> QED
    BY <1>5, <2>2, <2>3, <2>4 DEF DetectAware
<1> QED
  BY <1>1, <1>11, <1>12, StatementConsistent

(* The rule of a copy that is current gets the mark, on either backend.    *)
LEMMA MarkExistingConsistent ==
  ASSUME Base, Consistent, NEW c \in Clients, MarkExisting(c) PROVE Consistent'
<1>1. /\ TypeOK /\ InPlace /\ pc[c] = "detect" /\ doc[c] \in Docs /\ Statement(c)
      /\ There(doc[c]) /\ backend \in {"sqlite", "postgres"}
      /\ \A f \in todo[c] : f \in Docs /\ There(f)
  BY Facts DEF MarkExisting, Statement
<1>2. PICK e \in todo[c] :
        /\ backend = "sqlite" => e.rule \in doc[c].conflicts
        /\ LET marked == [e EXCEPT !.conflicts = @ \cup {doc[c].rule}] IN
             IF marked = e THEN UNCHANGED rows
             ELSE IF backend = "sqlite" THEN WriteJson(marked) ELSE WriteRow(marked)
        /\ doc'[c] = [doc[c] EXCEPT !.conflicts = @ \cup {e.rule}]
        /\ todo'[c] = todo[c] \ {e}
  BY Facts DEF MarkExisting
<1> DEFINE marked == [e EXCEPT !.conflicts = @ \cup {doc[c].rule}]
           d == [doc[c] EXCEPT !.conflicts = @ \cup {e.rule}]
<1>3. e \in Docs /\ There(e) /\ e.rule \in Rules /\ doc[c].rule \in Rules
  BY <1>1 DEF Docs
<1>4. /\ d \in Docs /\ d.rule = doc[c].rule /\ d.version = doc[c].version
      /\ d.status = doc[c].status /\ d.text = doc[c].text
      /\ d.conflicts = doc[c].conflicts \cup {e.rule}
  BY <1>1, <1>3, Changed
<1>5. /\ marked \in Docs /\ marked.rule = e.rule /\ marked.version = e.version
      /\ marked.status = e.status /\ marked.conflicts = e.conflicts \cup {doc[c].rule}
  BY <1>3, Changed
<1>6. /\ \/ UNCHANGED rows /\ marked = e
         \/ WriteJson(marked) /\ backend = "sqlite"
         \/ WriteRow(marked) /\ backend = "postgres"
      /\ doc'[c] = d
  BY <1>1, <1>2
<1>7. e.rule \in doc[c].conflicts => d = doc[c]
  <2> SUFFICES ASSUME e.rule \in doc[c].conflicts PROVE d = doc[c]
    OBVIOUS
  <2>1. doc[c].conflicts \cup {e.rule} = doc[c].conflicts
    OBVIOUS
  <2>2. d = [doc[c] EXCEPT !.conflicts = doc[c].conflicts]
    BY <2>1
  <2> QED
    BY <1>1, <2>2 DEF Docs
<1>8. UNCHANGED <<pc, backend, decision, overlapped>>
  BY DEF MarkExisting, historyVars
<1> HIDE DEF d, marked
<1>9. There(marked) /\ Column(marked) = Column(e)
  BY <1>3, <1>5 DEF There, Column
<1>10. Serial' => Serial
  BY <1>8 DEF Serial
<1>11. Serial => DetectAware(c) /\ Current(e) /\ e.rule # doc[c].rule
  BY <1>1 DEF Consistent, OneAtATime, Aware, DetectAware
<1>12. /\ rows'[e.rule][e.version] # NULL
       /\ \A r \in Rules, v \in Versions :
            r # e.rule \/ v # e.version => rows'[r][v] = rows[r][v]
       /\ Serial \/ backend = "sqlite" => rows'[e.rule][e.version].column = Column(e)
       /\ Serial => rows'[e.rule][e.version].doc = marked
  <2>1. CASE UNCHANGED rows /\ marked = e
    BY <1>3, <1>11, <2>1 DEF There, Current, Column
  <2>2. CASE WriteJson(marked) /\ backend = "sqlite"
    BY <1>1, <1>5, <1>9, <2>2, WriteJsonIs
  <2>3. CASE WriteRow(marked) /\ backend = "postgres"
    BY <1>1, <1>5, <1>11, <2>3, WriteRowIs DEF Current
  <2> QED
    BY <1>6, <2>1, <2>2, <2>3
<1>13. Serial \/ backend = "sqlite" => SameColumns
  BY <1>3, <1>12 DEF SameColumns, There, Column
<1>14. StatusesAgree' /\ SerialOneApproved' /\ RejectionHolds'
  <2>1. Serial => Column(marked) = marked.status
    BY <1>5, <1>9, <1>11 DEF Current
  <2>2. StatusesAgree'
    BY <1>1, <1>5, <1>6, <1>8, <1>9, <1>10, <2>1, StillAgree
  <2> QED
    BY <1>8, <1>10, <1>13, <2>2, NoColumnWritten
<1>15. Serial => Aware(c)'
  <2>1. SUFFICES ASSUME Serial PROVE DetectAware(c)'
    BY <1>1, <1>8 DEF Aware
  <2>2. /\ Column(doc[c])' = doc'[c].status
        /\ rows'[doc'[c].rule][doc'[c].version].doc.text = doc'[c].text
        /\ backend' = "sqlite" => rows'[doc'[c].rule][doc'[c].version].doc = doc'[c]
    <3>1. doc[c].rule \in Rules /\ doc[c].version \in Versions
      BY <1>1 DEF Docs
    <3>2. rows'[d.rule][d.version] = rows[doc[c].rule][doc[c].version]
      BY <1>4, <1>11, <1>12, <2>1, <3>1
    <3> QED
      BY <1>2, <1>4, <1>6, <1>7, <1>8, <1>11, <2>1, <3>2 DEF DetectAware, Column
  <2>3. ASSUME NEW f \in todo[c] \ {e}
        PROVE  Current(f)' /\ f.rule # d.rule
    <3>1. /\ Current(f) /\ Current(e) /\ f.rule # doc[c].rule
          /\ f.rule \in Rules /\ f.version \in Versions
      BY <1>1, <1>11, <2>1 DEF DetectAware, Docs
    <3>2. f.rule # e.rule \/ f.version # e.version
      BY <3>1 DEF Current
    <3>3. rows'[f.rule][f.version] = rows[f.rule][f.version]
      BY <1>12, <3>1, <3>2
    <3> QED
      BY <1>4, <3>1, <3>3 DEF Current, Column
  <2>4. Marking(doc[c], todo[c])'
    <3> SUFFICES ASSUME NEW r \in Rules, NEW v \in Versions, r # d.rule,
                        rows'[r][v] # NULL, rows'[r][v].column = "approved",
                        <<d.text, rows'[r][v].doc.text>> \in Contradicting
                 PROVE  \/ rows'[r][v].doc \in todo[c] \ {e}
                        \/ r \in d.conflicts /\ d.rule \in rows'[r][v].doc.conflicts
      BY <1>2, <1>6 DEF Marking
    <3>1. CASE r = e.rule /\ v = e.version
      BY <1>4, <1>5, <1>12, <2>1, <3>1
    <3>2. CASE r # e.rule \/ v # e.version
      <4>1. rows'[r][v] = rows[r][v]
        BY <1>12, <3>2
      <4>2. rows[r][v].doc.rule = r /\ rows[r][v].doc.version = v
        BY <1>1, <4>1 DEF InPlace
      <4>3. rows[r][v].doc # e
        BY <3>2, <4>2
      <4> QED
        BY <1>4, <1>11, <2>1, <4>1, <4>3 DEF DetectAware, Marking
    <3> QED
      BY <3>1, <3>2
  <2> QED
    BY <1>2, <1>6, <2>2, <2>3, <2>4 DEF DetectAware
<1> QED
  BY <1>1, <1>14, <1>15, StatementConsistent

LEMMA EndDetectConsistent ==
  ASSUME Base, Consistent, NEW c \in Clients, EndDetect(c) PROVE Consistent'
<1>1. /\ TypeOK /\ InPlace /\ pc[c] = "detect" /\ doc[c] \in Docs /\ Statement(c)
      /\ There(doc[c]) /\ backend \in {"sqlite", "postgres"}
  BY Facts DEF EndDetect, Statement
<1>2. /\ pc'[c] = "idle" /\ UNCHANGED <<backend, decision, overlapped>>
      /\ \/ UNCHANGED rows
         \/ WriteRow(doc[c]) /\ backend = "postgres"
  BY Facts DEF EndDetect, End, historyVars
<1>3. Serial' => Serial
  BY <1>2 DEF Serial
<1>4. Serial \/ backend = "sqlite" => SameColumns
  <2>1. CASE UNCHANGED rows
    BY <2>1 DEF SameColumns
  <2>2. CASE Serial /\ WriteRow(doc[c])
    <3>1. Column(doc[c]) = doc[c].status
      BY <1>1, <2>2 DEF Consistent, OneAtATime, Aware, DetectAware
    <3> QED
      BY <1>1, <2>2, <3>1, WriteRowIs DEF SameColumns, There, Column
  <2> QED
    BY <1>2, <2>1, <2>2
<1>5. StatusesAgree' /\ SerialOneApproved' /\ RejectionHolds'
  BY <1>1, <1>2, <1>3, <1>4, NoColumnWritten, StillAgree
<1>6. Aware(c)'
  BY <1>2 DEF Aware
<1> QED
  BY <1>1, <1>5, <1>6, StatementConsistent

-----------------------------------------------------------------------------
LEMMA StatementKeepsConsistent ==
  ASSUME Base, Consistent, NEW c \in Clients, Statement(c) PROVE Consistent'
BY ReadHistoryConsistent, DeprecateConsistent, SaveApprovedConsistent,
   SaveRejectedConsistent, InsertConsistent, ReadActiveConsistent,
   MarkNewConsistent, MarkExistingConsistent, EndDetectConsistent
   DEF Statement

LEMMA StutterConsistent == ASSUME Consistent, UNCHANGED vars PROVE Consistent'
<1>1. UNCHANGED <<backend, rows, pc, doc, todo, decision, overlapped>>
  BY DEF vars, clientVars, historyVars
<1>2. Serial' = Serial
  BY <1>1 DEF Serial
<1>3. Proposed'
  BY <1>1 DEF Consistent, Proposed
<1>4. OneAtATime'
  <2>1. ASSUME NEW c \in Clients, Aware(c) PROVE Aware(c)'
    BY <1>1, <2>1 DEF Aware, RejectAware, InsertAware, DeprecateAware, DetectAware, Marking,
                      Current, Column, There, Approved, Stored
  <2> QED
    BY <1>1, <1>2, <2>1 DEF Consistent, OneAtATime
<1>5. StatusesAgree'
  BY <1>1, <1>2 DEF Consistent, StatusesAgree, Stored
<1>6. SerialOneApproved'
  BY <1>1, <1>2 DEF Consistent, SerialOneApproved, OneApproved, Approved, Stored
<1>7. RejectionHolds'
  BY <1>1, <1>2 DEF Consistent, RejectionHolds, KeepsRejected, Approved, Stored
<1> QED
  BY <1>3, <1>4, <1>5, <1>6, <1>7 DEF Consistent

(* The safety invariant.                                                   *)
THEOREM ConsistentHolds == Spec => [](Base /\ Consistent)
<1>1. ASSUME Init PROVE Consistent
  <2>1. \A r \in Rules, v \in Versions : rows[r][v] = NULL
    BY <1>1 DEF Init
  <2>2. \A r \in Rules : Stored(r) = {} /\ Approved(r) = {}
    BY <2>1 DEF Stored, Approved
  <2>3. \A c \in Clients : pc[c] = "idle"
    BY <1>1 DEF Init
  <2>4. Proposed /\ OneAtATime
    BY <2>3 DEF Proposed, OneAtATime, Aware
  <2>5. StatusesAgree /\ SerialOneApproved /\ RejectionHolds
    BY <2>2 DEF StatusesAgree, SerialOneApproved, OneApproved, RejectionHolds,
                KeepsRejected, Reviewed
  <2> QED
    BY <2>4, <2>5 DEF Consistent
<1>2. Base /\ Consistent /\ [Next]_vars => Consistent'
  BY RequestConsistent, StatementKeepsConsistent, StutterConsistent DEF Next
<1> QED
  BY <1>1, <1>2, BaseHolds, PTL DEF Spec

(* The status in the JSON of a row is its column's: in Postgres however    *)
(* the requests overlap, in SQLite when they do not.                       *)
THEOREM StatusesStayTogether == Spec => []StatusesAgree
<1>1. Consistent => StatusesAgree
  BY DEF Consistent
<1> QED
  BY <1>1, ConsistentHolds, PTL

(* Requests that come one after the other leave one approved version of    *)
(* every rule a reviewer decides about.                                    *)
THEOREM OneVersionIsTested == Spec => []SerialOneApproved
<1>1. Consistent => SerialOneApproved
  BY DEF Consistent
<1> QED
  BY <1>1, ConsistentHolds, PTL

(* A rejected rule stays out of the runs: in SQLite however the requests   *)
(* overlap, in Postgres when they do not.                                  *)
THEOREM RejectedStaysOut == Spec => []RejectionHolds
<1>1. Consistent => RejectionHolds
  BY DEF Consistent
<1> QED
  BY <1>1, ConsistentHolds, PTL

-----------------------------------------------------------------------------
(* Action properties.                                                      *)

(* A search for conflicts ends in its last statement.                      *)
LEMMA DetectEndsIn ==
  ASSUME Base, [Next]_vars, NEW c \in Clients, pc[c] = "detect", pc'[c] = "idle"
  PROVE  EndDetect(c)
<1>1. pc \in [Clients -> Statements] /\ doc \in [Clients -> Docs \cup {NULL}]
  BY Facts
<1>2. PICK b \in Clients : Request(b) \/ Statement(b)
  BY DEF Next, vars, clientVars
<1>3. CASE Request(b)
  <2>1. PICK d \in Docs, p \in {"history", "reject", "insert"} : Begin(b, d, p)
    BY <1>3, Facts, RequestIs
  <2> QED
    BY <1>1, <2>1 DEF Begin
<1>4. CASE ReadHistory(b)
  BY <1>1, <1>4 DEF ReadHistory
<1>5. CASE Deprecate(b)
  BY <1>5 DEF Deprecate
<1>6. CASE SaveApproved(b)
  BY <1>1, <1>6 DEF SaveApproved
<1>7. CASE SaveRejected(b)
  BY <1>1, <1>7 DEF SaveRejected, End
<1>8. CASE Insert(b)
  BY <1>1, <1>8 DEF Insert, End
<1>9. CASE ReadActive(b)
  BY <1>1, <1>9 DEF ReadActive
<1>10. CASE MarkNew(b)
  BY <1>10 DEF MarkNew
<1>11. CASE MarkExisting(b)
  BY <1>11 DEF MarkExisting
<1>12. CASE EndDetect(b)
  BY <1>1, <1>12 DEF EndDetect, End
<1> QED
  BY <1>2, <1>3, <1>4, <1>5, <1>6, <1>7, <1>8, <1>9, <1>10, <1>11, <1>12 DEF Statement

(* When a search for conflicts has ended, the rule and every approved rule *)
(* it contradicts name each other, if the request was the only one.        *)
THEOREM ConflictsNameEachOther == Spec => ConflictsAreMarked
<1> DEFINE A == \A c \in Clients : pc[c] = "detect" /\ pc'[c] = "idle" /\ Serial =>
                  LET new == rows'[doc[c].rule][doc[c].version].doc
                  IN  \A r \in Rules \ {new.rule} : \A v \in Approved(r)' :
                        <<new.text, rows'[r][v].doc.text>> \in Contradicting =>
                          r \in new.conflicts /\ new.rule \in rows'[r][v].doc.conflicts
<1>1. ASSUME Base, Consistent, [Next]_vars PROVE A
  <2> DEFINE new(c) == rows'[doc[c].rule][doc[c].version].doc
  <2>1. SUFFICES ASSUME NEW c \in Clients, pc[c] = "detect", pc'[c] = "idle", Serial,
                        NEW r \in Rules \ {new(c).rule}, NEW v \in Approved(r)',
                        <<new(c).text, rows'[r][v].doc.text>> \in Contradicting
                 PROVE  r \in new(c).conflicts /\ new(c).rule \in rows'[r][v].doc.conflicts
    OBVIOUS
  <2>2. EndDetect(c)
    BY <1>1, <2>1, DetectEndsIn
  <2>3. /\ TypeOK /\ doc[c] \in Docs /\ backend \in {"sqlite", "postgres"}
        /\ doc[c].rule \in Rules /\ doc[c].version \in Versions
    BY <1>1, <2>1, Facts DEF Docs
  <2>4. DetectAware(c) /\ todo[c] = {}
    BY <1>1, <2>1, <2>2 DEF Consistent, OneAtATime, Aware, EndDetect
  <2>5. /\ new(c) = doc[c]
        /\ \A q \in Rules, w \in Versions :
             q # doc[c].rule => rows'[q][w] = rows[q][w]
    <3>1. CASE backend = "postgres"
      <4>1. WriteRow(doc[c])
        BY <2>2, <3>1 DEF EndDetect
      <4> QED
        BY <2>3, <4>1, WriteRowIs
    <3>2. CASE backend = "sqlite"
      BY <2>2, <2>4, <3>2 DEF EndDetect, DetectAware
    <3> QED
      BY <2>3, <3>1, <3>2
  <2>6. /\ r # doc[c].rule /\ v \in Versions /\ rows'[r][v] = rows[r][v]
        /\ rows[r][v] # NULL /\ rows[r][v].column = "approved"
    BY <2>1, <2>5, ApprovedNextIs
  <2>7. Marking(doc[c], {})
    BY <2>4 DEF DetectAware
  <2> HIDE DEF new
  <2> QED
    BY <2>1, <2>5, <2>6, <2>7 DEF Marking
<1>2. [][Next]_vars /\ [](Base /\ Consistent) => [][A]_vars
  BY <1>1, PTL
<1>3. Spec => [][A]_vars
  BY <1>2, ConsistentHolds, PTL DEF Spec
<1> QED
  BY <1>3 DEF ConflictsAreMarked

\* What the version says is not changed by the step.
SameTexts == \A r \in Rules, v \in Versions :
  rows'[r][v].doc.text = rows[r][v].doc.text

LEMMA TextStays ==
  ASSUME TypeOK, NEW d \in Docs, There(d), WriteRow(d) \/ WriteJson(d),
         rows[d.rule][d.version].doc.text = d.text
  PROVE  SameTexts
<1>1. /\ rows'[d.rule][d.version].doc = d
      /\ \A r \in Rules, v \in Versions :
           r # d.rule \/ v # d.version => rows'[r][v] = rows[r][v]
  BY WriteRowIs, WriteJsonIs
<1> QED
  BY <1>1 DEF SameTexts

(* What a statement does to what the versions say.                         *)
LEMMA StatementText ==
  ASSUME Base, Consistent, NEW c \in Clients, Statement(c), Serial,
         NEW r \in Reviewed, NEW v \in Stored(r),
         rows'[r][v].doc.text # rows[r][v].doc.text
  PROVE  pc[c] = "deprecate" /\ doc[c].rule = r
<1>1. /\ TypeOK
      /\ pc[c] # "idle" => doc[c] \in Docs
      /\ backend \in {"sqlite", "postgres"} /\ Aware(c)
      /\ pc[c] \notin {"idle", "insert"} => There(doc[c])
      /\ \A d \in todo[c] : d \in Docs /\ There(d)
  BY Facts DEF Consistent, OneAtATime
<1>2. r \in Rules /\ r \notin Seeds /\ v \in Versions /\ rows[r][v] # NULL
  BY DEF Reviewed, Stored
<1>3. ~SameTexts /\ rows' # rows
  BY <1>2 DEF SameTexts
<1>4. ASSUME NEW d \in Docs, WriteRow(d) PROVE r = d.rule /\ v = d.version
  BY <1>1, <1>2, <1>4, WriteRowIs
<1>5. CASE ReadHistory(c)
  BY <1>3, <1>5 DEF ReadHistory
<1>6. CASE Deprecate(c)
  <2>1. PICK d \in todo[c] : WriteRow([d EXCEPT !.status = "deprecated"])
    BY <1>6 DEF Deprecate
  <2>2. /\ [d EXCEPT !.status = "deprecated"] \in Docs
        /\ [d EXCEPT !.status = "deprecated"].rule = d.rule
    BY <1>1, Changed DEF Statuses
  <2>3. r = d.rule
    BY <1>4, <2>1, <2>2
  <2> QED
    BY <1>1, <1>6, <2>3 DEF Deprecate, Aware, DeprecateAware
<1>7. CASE SaveApproved(c)
  <2> DEFINE d == [doc[c] EXCEPT !.status = "approved"]
  <2>1. pc[c] = "deprecate" /\ WriteRow(d)
    BY <1>7 DEF SaveApproved
  <2>2. d \in Docs /\ d.rule = doc[c].rule
    BY <1>1, <2>1, Changed DEF Statuses
  <2> HIDE DEF d
  <2> QED
    BY <1>4, <2>1, <2>2
<1>8. CASE SaveRejected(c)
  <2> DEFINE d == [doc[c] EXCEPT !.status = "deprecated"]
  <2>1. pc[c] = "reject" /\ WriteRow(d)
    BY <1>8 DEF SaveRejected
  <2>2. /\ d \in Docs /\ d.rule = doc[c].rule /\ d.version = doc[c].version
        /\ d.text = doc[c].text
    BY <1>1, <2>1, Changed DEF Statuses
  <2> HIDE DEF d
  <2>3. There(d) /\ rows[d.rule][d.version].doc.text = d.text
    BY <1>1, <2>1, <2>2 DEF Aware, RejectAware, There
  <2> QED
    BY <1>1, <1>3, <2>1, <2>2, <2>3, TextStays
<1>9. CASE Insert(c)
  <2>1. pc[c] = "insert" /\ WriteRow(doc[c])
    BY <1>9 DEF Insert
  <2>2. r = doc[c].rule /\ v = doc[c].version
    BY <1>1, <1>4, <2>1
  <2> QED
    BY <1>1, <1>2, <2>1, <2>2 DEF Aware, InsertAware, There
<1>10. CASE ReadActive(c)
  BY <1>3, <1>10 DEF ReadActive
<1>11. CASE MarkNew(c)
  <2>1. PICK e \in todo[c] : WriteJson([doc[c] EXCEPT !.conflicts = @ \cup {e.rule}])
    BY <1>11 DEF MarkNew
  <2> DEFINE d == [doc[c] EXCEPT !.conflicts = @ \cup {e.rule}]
  <2>2. pc[c] = "detect" /\ e.rule \in Rules /\ WriteJson(d)
    BY <1>1, <1>11, <2>1 DEF MarkNew, Docs
  <2>3. /\ d \in Docs /\ d.rule = doc[c].rule /\ d.version = doc[c].version
        /\ d.text = doc[c].text
    BY <1>1, <2>2, Changed
  <2> HIDE DEF d
  <2>4. There(d) /\ rows[d.rule][d.version].doc.text = d.text
    BY <1>1, <2>2, <2>3 DEF Aware, DetectAware, There
  <2> QED
    BY <1>1, <1>3, <2>2, <2>3, <2>4, TextStays
<1>12. CASE MarkExisting(c)
  <2>1. PICK e \in todo[c] :
          LET marked == [e EXCEPT !.conflicts = @ \cup {doc[c].rule}] IN
            IF marked = e THEN UNCHANGED rows
            ELSE IF backend = "sqlite" THEN WriteJson(marked) ELSE WriteRow(marked)
    BY <1>12 DEF MarkExisting
  <2> DEFINE d == [e EXCEPT !.conflicts = @ \cup {doc[c].rule}]
  <2>2. pc[c] = "detect" /\ doc[c].rule \in Rules /\ (WriteJson(d) \/ WriteRow(d))
    BY <1>1, <1>3, <1>12, <2>1 DEF MarkExisting, Docs
  <2>3. d \in Docs /\ d.rule = e.rule /\ d.version = e.version /\ d.text = e.text
    BY <1>1, <2>2, Changed
  <2> HIDE DEF d
  <2>4. There(d) /\ rows[d.rule][d.version].doc.text = d.text
    BY <1>1, <2>2, <2>3 DEF Aware, DetectAware, Current, There
  <2> QED
    BY <1>1, <1>3, <2>2, <2>3, <2>4, TextStays
<1>13. CASE EndDetect(c)
  <2>1. pc[c] = "detect" /\ WriteRow(doc[c])
    BY <1>3, <1>13 DEF EndDetect
  <2>2. There(doc[c]) /\ rows[doc[c].rule][doc[c].version].doc.text = doc[c].text
    BY <1>1, <2>1 DEF Aware, DetectAware
  <2> QED
    BY <1>1, <1>3, <2>1, <2>2, TextStays
<1> QED
  BY <1>5, <1>6, <1>7, <1>8, <1>9, <1>10, <1>11, <1>12, <1>13 DEF Statement

(* What a version of a rule says changes by the edits of a reviewer alone, *)
(* when requests do not overlap.                                           *)
THEOREM VersionsKeepTheirText == Spec => NothingIsReplaced
<1> DEFINE A == Serial' => \A r \in Reviewed : \A v \in Stored(r) :
                  rows'[r][v].doc.text # rows[r][v].doc.text =>
                    \E c \in Clients : pc[c] = "deprecate" /\ doc[c].rule = r
<1>1. ASSUME Base, Consistent, [Next]_vars PROVE A
  <2>1. SUFFICES ASSUME Serial', NEW r \in Reviewed, NEW v \in Stored(r),
                        rows'[r][v].doc.text # rows[r][v].doc.text
                 PROVE  \E c \in Clients : pc[c] = "deprecate" /\ doc[c].rule = r
    OBVIOUS
  <2>2. PICK c \in Clients : Request(c) \/ Statement(c)
    BY <1>1, <2>1 DEF Next, vars
  <2>3. CASE Request(c)
    <3>1. PICK d \in Docs, p \in {"history", "reject", "insert"} : Begin(c, d, p)
      BY <1>1, <2>3, Facts, RequestIs
    <3> QED
      BY <2>1, <3>1 DEF Begin
  <2>4. CASE Statement(c)
    <3>1. Serial
      BY <1>1, <2>1, <2>4, StatementAlone DEF Consistent, Serial
    <3> QED
      BY <1>1, <2>1, <2>4, <3>1, StatementText
  <2> QED
    BY <2>2, <2>3, <2>4
<1>2. [][Next]_vars /\ [](Base /\ Consistent) => [][A]_vars
  BY <1>1, PTL
<1>3. Spec => [][A]_vars
  BY <1>2, ConsistentHolds, PTL DEF Spec
<1> QED
  BY <1>3 DEF NothingIsReplaced
=============================================================================
