----------------------------- MODULE RuleStore ------------------------------
(***************************************************************************)
(* The rule store, src/app/memory/rule_store.py (SQLite) and               *)
(* src/app/memory/postgres_rule_store.py, under the requests that change   *)
(* it: approve and reject (api/rules.py), ingestion                        *)
(* (agents/ingestion/pipeline.py) and the seeding of a run                 *)
(* (memory/seeds.py).                                                      *)
(*                                                                         *)
(* A row has a status column, which selects the rules a run tests, and the *)
(* rule as JSON, which has a status of its own.  A request is a coroutine; *)
(* each of its SQL statements is one atomic step, and a request works on   *)
(* the copies of the rules it read.                                        *)
(***************************************************************************)
EXTENDS Naturals, FiniteSets, FiniteSetsExt

CONSTANTS
  Backends,       \* storage_backend may be any of these: "sqlite", "postgres"
  Rules,          \* rule ids
  MaxVersion,     \* bound: versions of one rule
  Texts,          \* what a rule says: its conditions and entities
  Contradicting,  \* <<new, existing>> pairs of texts found in contradiction
  Seeds,          \* the rule ids of starter_rules
  SeedText,       \* the text of each of them
  Clients,        \* requests that may be in progress at one time
  MaxRequests,    \* bound: requests of a behaviour
  NULL

ASSUME RuleStoreConstants ==
  /\ Backends \subseteq {"sqlite", "postgres"}
  /\ MaxVersion \in Nat \ {0}
  /\ MaxRequests \in Nat
  /\ Contradicting \subseteq Texts \X Texts
  /\ Seeds \subseteq Rules /\ SeedText \in [Seeds -> Texts]
  /\ NULL \notin Texts

VARIABLES
  backend,     \* the backend the process was started with
  rows,        \* rule -> version -> its row, NULL when there is none
  pc,          \* client -> the statement its request issues next
  doc,         \* client -> the rule its request is about, as it last read it
  todo,        \* client -> copies of other rules it has yet to write
  decision,    \* history: what a reviewer last said of a version
  overlapped,  \* history: two requests were in progress at one time
  requests     \* history: requests so far

clientVars  == <<pc, doc, todo>>
historyVars == <<decision, overlapped, requests>>
vars        == <<backend, rows, clientVars, historyVars>>

Versions == 1 .. MaxVersion
Statuses == {"proposed", "approved", "deprecated"}
Docs == [rule : Rules, version : Versions, status : Statuses, text : Texts,
         conflicts : SUBSET Rules]
Row  == [column : Statuses, doc : Docs]

ASSUME NullIsNoRule == NULL \notin Docs \cup Row

TypeOK ==
  /\ backend \in Backends
  /\ rows \in [Rules -> [Versions -> Row \cup {NULL}]]
  /\ pc \in [Clients -> {"idle", "history", "deprecate", "reject", "insert",
                         "select", "detect"}]
  /\ doc \in [Clients -> Docs \cup {NULL}]
  /\ todo \in [Clients -> SUBSET Docs]
  /\ decision \in [Rules -> [Versions -> {"none", "approved", "rejected"}]]
  /\ overlapped \in BOOLEAN
  /\ requests \in 0 .. MaxRequests

Init ==
  /\ backend \in Backends
  /\ rows = [r \in Rules |-> [v \in Versions |-> NULL]]
  /\ pc = [c \in Clients |-> "idle"]
  /\ doc = [c \in Clients |-> NULL]
  /\ todo = [c \in Clients |-> {}]
  /\ decision = [r \in Rules |-> [v \in Versions |-> "none"]]
  /\ overlapped = FALSE
  /\ requests = 0

Stored(r)   == {v \in Versions : rows[r][v] # NULL}
Approved(r) == {v \in Stored(r) : rows[r][v].column = "approved"}
AllDocs     == UNION {{rows[r][v].doc : v \in Stored(r)} : r \in Rules}

-----------------------------------------------------------------------------
(* Statements that write.                                                  *)

WriteRow(d) ==
  rows' = [rows EXCEPT ![d.rule][d.version] = [column |-> d.status, doc |-> d]]

\* Mutant: the conflicts are saved with the whole row, as Postgres does.
WriteJsonAndStatus(d) ==
  rows' = [rows EXCEPT ![d.rule][d.version] = [column |-> d.status, doc |-> d]]

(* _patch_conflicts: the JSON without the status column.                   *)
WriteJson(d) == rows' = [rows EXCEPT ![d.rule][d.version].doc = d]

Decide(d, what) == decision' = [decision EXCEPT ![d.rule][d.version] = what]

-----------------------------------------------------------------------------
(* The first statement of a request.                                       *)

Begin(c, d, statement) ==
  /\ pc[c] = "idle"
  /\ requests < MaxRequests
  /\ requests' = requests + 1
  /\ overlapped' = (overlapped \/ \E b \in Clients \ {c} : pc[b] # "idle")
  /\ pc' = [pc EXCEPT ![c] = statement]
  /\ doc' = [doc EXCEPT ![c] = d]
  /\ UNCHANGED <<backend, rows, todo, decision>>

End(c) == pc' = [pc EXCEPT ![c] = "idle"] /\ doc' = [doc EXCEPT ![c] = NULL]

(* get_rule, of a version that exists or of the latest; the edits of the   *)
(* reviewer go into the copy.                                              *)
Approve(c) ==
  \E r \in Rules : \E v \in Stored(r) :
    \E text \in Texts \cup {rows[r][v].doc.text} :
      Begin(c, [rows[r][v].doc EXCEPT !.text = text], "history")

Reject(c) ==
  \E r \in Rules : \E v \in Stored(r) : Begin(c, rows[r][v].doc, "reject")


\* Mutant: the latest version is taken again.
NextVersionLatest(r) == IF Stored(r) = {} THEN 1 ELSE Max(Stored(r))

(* _assign_version, from get_rule_history.                                 *)
NextVersion(r) == IF Stored(r) = {} THEN 1 ELSE Max(Stored(r)) + 1

Proposal(r, v, status, text) ==
  [rule |-> r, version |-> v, status |-> status, text |-> text, conflicts |-> {}]

Ingest(c) ==
  \E r \in Rules, text \in Texts :
    /\ NextVersion(r) \in Versions
    /\ Begin(c, Proposal(r, NextVersion(r), "proposed", text), "insert")

(* A run with seed_starter: version 1, approved, whatever is there.        *)
Seed(c) ==
  \E r \in Seeds : Begin(c, Proposal(r, 1, "approved", SeedText[r]), "insert")

-----------------------------------------------------------------------------
(* approve_rule and reject_rule.                                           *)

\* Mutant: only the versions before the one that is approved.
ReadHistoryBefore(c) ==
  /\ pc[c] = "history"
  /\ todo' = [todo EXCEPT ![c] =
       {d \in AllDocs : d.rule = doc[c].rule /\ d.version < doc[c].version
                        /\ d.status = "approved"}]
  /\ pc' = [pc EXCEPT ![c] = "deprecate"]
  /\ UNCHANGED <<backend, rows, doc, historyVars>>

(* get_rule_history: the approved versions, by their JSON.                 *)
ReadHistory(c) ==
  /\ pc[c] = "history"
  /\ todo' = [todo EXCEPT ![c] =
       {d \in AllDocs : d.rule = doc[c].rule /\ d.version # doc[c].version
                        /\ d.status = "approved"}]
  /\ pc' = [pc EXCEPT ![c] = "deprecate"]
  /\ UNCHANGED <<backend, rows, doc, historyVars>>

(* save_rule of the copies, by version.                                    *)
Deprecate(c) ==
  /\ pc[c] = "deprecate"
  /\ \E d \in todo[c] :
       /\ \A e \in todo[c] : d.version <= e.version
       /\ WriteRow([d EXCEPT !.status = "deprecated"])
       /\ todo' = [todo EXCEPT ![c] = @ \ {d}]
  /\ UNCHANGED <<backend, pc, doc, historyVars>>

\* Mutant: the status column is set, the JSON is not.
SaveApprovedColumn(c) ==
  /\ pc[c] = "deprecate" /\ todo[c] = {}
  /\ rows' = [rows EXCEPT ![doc[c].rule][doc[c].version].column = "approved"]
  /\ Decide(doc[c], "approved")
  /\ pc' = [pc EXCEPT ![c] = "select"]
  /\ UNCHANGED <<backend, doc, todo, overlapped, requests>>

SaveApproved(c) ==
  /\ pc[c] = "deprecate" /\ todo[c] = {}
  /\ LET d == [doc[c] EXCEPT !.status = "approved"] IN
       /\ WriteRow(d)
       /\ Decide(d, "approved")
       /\ doc' = [doc EXCEPT ![c] = d]
  /\ pc' = [pc EXCEPT ![c] = "select"]
  /\ UNCHANGED <<backend, todo, overlapped, requests>>

\* Mutant: a status the schema does not have.
SaveRejectedMisspelt(c) ==
  /\ pc[c] = "reject"
  /\ WriteRow([doc[c] EXCEPT !.status = "rejected"])
  /\ Decide(doc[c], "rejected")
  /\ End(c)
  /\ UNCHANGED <<backend, todo, overlapped, requests>>

SaveRejected(c) ==
  /\ pc[c] = "reject"
  /\ WriteRow([doc[c] EXCEPT !.status = "deprecated"])
  /\ Decide(doc[c], "rejected")
  /\ End(c)
  /\ UNCHANGED <<backend, todo, overlapped, requests>>

-----------------------------------------------------------------------------
(* insert_rule: INSERT OR REPLACE.  Postgres looks for conflicts of an     *)
(* approved rule only.                                                     *)

Insert(c) ==
  /\ pc[c] = "insert"
  /\ WriteRow(doc[c])
  /\ IF doc[c].status = "proposed" THEN Decide(doc[c], "none") ELSE UNCHANGED decision
  /\ IF backend = "postgres" /\ doc[c].status # "approved"
       THEN End(c)
       ELSE pc' = [pc EXCEPT ![c] = "select"] /\ UNCHANGED doc
  /\ UNCHANGED <<backend, todo, overlapped, requests>>

-----------------------------------------------------------------------------
(* _detect_conflicts.                                                      *)

(* get_active_rules, by the status column: the rules in contradiction.     *)
ReadActive(c) ==
  /\ pc[c] = "select"
  /\ todo' = [todo EXCEPT ![c] =
       {d \in UNION {{rows[r][v].doc : v \in Approved(r)} : r \in Rules \ {doc[c].rule}} :
          <<doc[c].text, d.text>> \in Contradicting}]
  /\ pc' = [pc EXCEPT ![c] = "detect"]
  /\ UNCHANGED <<backend, rows, doc, historyVars>>

(* SQLite first patches the new rule, when it does not mark the other yet. *)
MarkNew(c) ==
  /\ pc[c] = "detect" /\ backend = "sqlite"
  /\ \A e \in todo[c] : e.rule \notin doc[c].conflicts
  /\ \E e \in todo[c] :
       LET d == [doc[c] EXCEPT !.conflicts = @ \cup {e.rule}]
       IN  WriteJson(d) /\ doc' = [doc EXCEPT ![c] = d]
  /\ UNCHANGED <<backend, pc, todo, historyVars>>

\* Mutant: the other rule is marked in memory and not written.
MarkExistingUnsaved(c) ==
  /\ pc[c] = "detect"
  /\ \E e \in todo[c] :
       /\ backend = "sqlite" => e.rule \in doc[c].conflicts
       /\ doc' = [doc EXCEPT ![c].conflicts = @ \cup {e.rule}]
       /\ todo' = [todo EXCEPT ![c] = @ \ {e}]
  /\ UNCHANGED <<backend, rows, pc, historyVars>>

(* Then the other rule, when it does not mark the new one: SQLite its      *)
(* JSON, Postgres the whole row.                                           *)
MarkExisting(c) ==
  /\ pc[c] = "detect"
  /\ \E e \in todo[c] :
       /\ backend = "sqlite" => e.rule \in doc[c].conflicts
       /\ LET marked == [e EXCEPT !.conflicts = @ \cup {doc[c].rule}] IN
            IF marked = e THEN UNCHANGED rows
            ELSE IF backend = "sqlite" THEN WriteJson(marked) ELSE WriteRow(marked)
       /\ doc' = [doc EXCEPT ![c].conflicts = @ \cup {e.rule}]
       /\ todo' = [todo EXCEPT ![c] = @ \ {e}]
  /\ UNCHANGED <<backend, pc, historyVars>>

(* Postgres writes the new rule once, after the others.                    *)
EndDetect(c) ==
  /\ pc[c] = "detect" /\ todo[c] = {}
  /\ IF backend = "postgres" THEN WriteRow(doc[c]) ELSE UNCHANGED rows
  /\ End(c)
  /\ UNCHANGED <<backend, todo, historyVars>>

-----------------------------------------------------------------------------
Request(c) == Approve(c) \/ Reject(c) \/ Ingest(c) \/ Seed(c)

Statement(c) ==
  \/ ReadHistory(c) \/ Deprecate(c) \/ SaveApproved(c) \/ SaveRejected(c)
  \/ Insert(c) \/ ReadActive(c) \/ MarkNew(c) \/ MarkExisting(c) \/ EndDetect(c)

Next == \E c \in Clients : Request(c) \/ Statement(c)

Spec == Init /\ [][Next]_vars

-----------------------------------------------------------------------------
(* "Old version transitions to deprecated": of a rule at most one version  *)
(* is approved, and tested by the runs.                                    *)
OneApproved(r)     == \A v, w \in Approved(r) : v = w
OneApprovedVersion == \A r \in Rules : OneApproved(r)

(* "Rules enter memory only after approval": no version of a rule that a   *)
(* reviewer rejected is tested by a run until a reviewer approves it.      *)
KeepsRejected(r) == \A v \in Approved(r) : decision[r][v] # "rejected"

-----------------------------------------------------------------------------
(* What holds of which rules under which requests.  The rules that are not *)
(* seeded are those a reviewer alone decides about.                        *)

Serial   == ~overlapped
Reviewed == Rules \ Seeds

(* Requests that come one after the other leave one approved version.      *)
SerialOneApproved == Serial => \A r \in Reviewed : OneApproved(r)

(* SQLite keeps a rejected rule out however the requests overlap, Postgres *)
(* when they do not.                                                       *)
RejectionHolds ==
  Serial \/ backend = "sqlite" => \A r \in Reviewed : KeepsRejected(r)

(* "status/approval metadata stays consistent": the JSON of a row has the  *)
(* status of its column; in Postgres however the requests overlap, in      *)
(* SQLite when they do not.                                                *)
StatusesAgree ==
  Serial \/ backend = "postgres" =>
    \A r \in Rules : \A v \in Stored(r) : rows[r][v].column = rows[r][v].doc.status

(* "If conditions contradict, populate conflicts_with on both rules": when *)
(* a request has looked for conflicts, its rule and every approved rule    *)
(* that it was found to contradict name each other in the store, though    *)
(* the marks are written one by one, from copies.                          *)
ConflictsAreMarked ==
  [][\A c \in Clients : pc[c] = "detect" /\ pc'[c] = "idle" /\ Serial =>
       LET new == rows'[doc[c].rule][doc[c].version].doc
       IN  \A r \in Rules \ {new.rule} : \A v \in Approved(r)' :
             <<new.text, rows'[r][v].doc.text>> \in Contradicting =>
               r \in new.conflicts /\ new.rule \in rows'[r][v].doc.conflicts]_vars

(* An ingested rule gets a version of its own: what a version says is      *)
(* changed by the edits of a reviewer and by nothing else.                 *)
NothingIsReplaced ==
  [][Serial' => \A r \in Reviewed : \A v \in Stored(r) :
       rows'[r][v].doc.text # rows[r][v].doc.text =>
         \E c \in Clients : pc[c] = "deprecate" /\ doc[c].rule = r]_vars
=============================================================================
