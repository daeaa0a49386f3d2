------------------------------ MODULE Pipeline ------------------------------
(***************************************************************************)
(* How a scenario becomes a verdict, in runs that go on at the same time:  *)
(* the loop over a run's scenarios (rule_runner.py), the flow planner, the *)
(* executor (all in src/app/agents/testing), the state store of            *)
(* src/app/memory, and the mock API they call (src/app/mock_api).  Module  *)
(* Conditions has the oracle.                                              *)
(*                                                                         *)
(* The store keeps the entities of each run apart; the API's shipments are *)
(* those of all runs.  An action is one request, from the executor's       *)
(* sending it to its update of the store: in between, other runs only      *)
(* write entities of their own.  Over the network a request, or its answer *)
(* after it was served, may be lost; within the process it may not.        *)
(***************************************************************************)
EXTENDS Conditions, FiniteSets, SequencesExt

CONSTANTS
  Runs,     \* runs that go on at the same time
  Weights,  \* bound: the weights of scenarios, each a Num, or None where there is none
  CaseLists \* run -> the lists of scenarios it may be given, over all its rules

\* A scenario: its rule and the inputs the code reads.
Unnamed == "" \* the vehicle of a scenario without one
Case(rule, weight, vehicle, assign, expected) ==
  [rule |-> rule, weight |-> weight, vehicle |-> vehicle, assign |-> assign,
   expected |-> expected]

VARIABLES
  redis,     \* whether the state store is Redis
  network,   \* whether the executor reaches the API over the network
  shipments, \* _shipments of the API, by number, and (history) who created each
  ships,     \* run -> Shipment entities of the store, in order of insertion
  vehicles,  \* run -> Vehicle entities, in order of insertion
  list,      \* run -> its scenarios
  at,        \* run -> step of the plan, and the values the executor has so far
  verdicts   \* run -> the verdicts, with what they were about

vars == <<redis, network, shipments, ships, vehicles, list, at, verdicts>>

Capacity == [VH_001 |-> 1000, VH_002 |-> 2000, VH_003 |-> 500]

\* starter_rules: type and conditions.  SHIP_009 and
\* SHIP_010 stand for ingested rules.
Rule == [
  SHIP_001 |-> [type |-> "constraint", conditions |->
    {Compare("scenario.shipment_weight", "<=", Path("entities.vehicle.capacity"))}],
  SHIP_002 |-> [type |-> "precondition", conditions |->
    {Equals("entities.shipment.status", "==", "ASSIGNED")}],
  SHIP_003 |-> [type |-> "postcondition", conditions |->
    {Equals("entities.shipment.status", "==", "DISPATCHED"),
     Null("entities.shipment.dispatched_at", "!=")}],
  SHIP_009 |-> [type |-> "constraint", conditions |->
    {Member("entities.shipment.status", "not in", {"CREATED"}),
     Compare("entities.vehicle.capacity", ">=", Num(500))}],
  SHIP_010 |-> [type |-> "constraint", conditions |-> {Prose}]]

Cases == [rule : DOMAIN Rule, weight : Weights, vehicle : STRING, assign : BOOLEAN,
          expected : {"pass", "fail"}]

ASSUME PipelineConstants ==
  /\ \A w \in Weights : w = None \/ (w[2] \in Int /\ w = Num(w[2]))
  /\ \A r \in Runs : CaseLists[r] \subseteq Seq(Cases)

\* Steps of at, next to those of a plan (1 .. 3).
Idle    == 0
Judging == 4
Raised  == 5

\* vehicle_capacity is no key of state_values before the assign step.
Unset == <<"unset">>
Start == [step |-> Idle, id |-> 0, capacity |-> Unset, code |-> 0]

Init ==
  /\ redis \in BOOLEAN /\ network \in BOOLEAN
  /\ shipments = <<>>
  /\ ships = [r \in Runs |-> <<>>] /\ vehicles = [r \in Runs |-> <<>>]
  /\ list \in [Runs -> UNION {CaseLists[r] : r \in Runs}]
  /\ \A r \in Runs : list[r] \in CaseLists[r]
  /\ at = [r \in Runs |-> Start]
  /\ verdicts = [r \in Runs |-> <<>>]

----------------------------------------------------------------------------
(* The flow planner.                                                       *)

Current(r) == list[r][Len(verdicts[r]) + 1]

ShouldAssign(c) == Rule[c.rule].type # "precondition" \/ c.assign

Plan(c) == IF ShouldAssign(c) THEN <<"create", "assign", "dispatch">>
                              ELSE <<"create", "dispatch">>

ExpectedStatus(c, step) ==
  CASE step = "create" -> 201 [] step = "assign" -> 200
    [] step = "dispatch" -> IF c.expected = "pass" THEN 200 ELSE 400

----------------------------------------------------------------------------
(* The mock API: the code of its answer, and the shipments afterwards.     *)

Code(c, step, id) ==
  CASE step = "create" ->
         IF c.weight = None THEN 422 ELSE IF c.weight[2] <= 0 THEN 400 ELSE 201
    [] step = "assign" ->
         IF c.vehicle = Unnamed THEN 422
         ELSE IF id \notin DOMAIN shipments \/ c.vehicle \notin DOMAIN Capacity THEN 404
         ELSE IF shipments[id].status # "CREATED" THEN 400 ELSE 200
    [] step = "dispatch" ->
         IF id \notin DOMAIN shipments THEN 404
         ELSE IF shipments[id].status # "ASSIGNED" THEN 400 ELSE 200

Served(r, c, step, id) ==
  IF Code(c, step, id) \notin {200, 201} THEN shipments
  ELSE CASE step = "create" -> Append(shipments, [status |-> "CREATED", weight |-> c.weight[2],
                                                  capacity |-> 0, by |-> r])
         [] step = "assign" -> [shipments EXCEPT ![id].status = "ASSIGNED",
                                                 ![id].capacity = Capacity[c.vehicle]]
         [] step = "dispatch" -> [shipments EXCEPT ![id].status = "DISPATCHED"]

----------------------------------------------------------------------------
(* The executor's update of the state store.                               *)

\* update_entity: a new entity goes to the end, a known one stays where it is.
Put(entities, e) ==
  IF \E i \in DOMAIN entities : entities[i].id = e.id
  THEN [i \in DOMAIN entities |-> IF entities[i].id = e.id THEN e ELSE entities[i]]
  ELSE Append(entities, e)

\* Mutant: the key of an entity lacks the run.
StoredForAll(store, r, e) == [x \in Runs |-> Put(store[x], e)]
Stored(store, r, e) == [store EXCEPT ![r] = Put(@, e)]

Known(entities, id, default) ==
  IF \E i \in DOMAIN entities : entities[i].id = id
  THEN entities[CHOOSE i \in DOMAIN entities : entities[i].id = id]
  ELSE default

NoShip    == [id |-> 0, status |-> None, dispatched |-> None]
NoVehicle == [id |-> Unnamed, capacity |-> None]

StatusAfter == [create |-> "CREATED", assign |-> "ASSIGNED", dispatch |-> "DISPATCHED"]

\* Redis stores str(None), which is read back as a string.
Encode(value) == IF redis /\ value = None THEN Str("None") ELSE value

\* Mutant: a status is stored whatever the API answered.
ShipPatchOptimistic(old, id, step, ok) ==
  [id |-> id, status |-> Str(StatusAfter[step]),
   dispatched |-> IF ok /\ step = "dispatch" THEN Str("set") ELSE old.dispatched]
ShipPatch(old, id, step, ok) ==
  [id         |-> id,
   status     |-> IF ok THEN Str(StatusAfter[step]) ELSE old.status,
   dispatched |-> IF ok /\ step = "dispatch" THEN Str("set") ELSE old.dispatched]

VehiclePatch(old, id, capacity) ==
  [id |-> id, capacity |-> IF capacity = Unset THEN old.capacity ELSE Encode(capacity)]

\* The executor goes on after the status it expects.
\* Mutant: after any answer that is no server error.
GoesOnAfterMismatch(c, step, code) == code \notin {0, 500}
GoesOn(c, step, code) == code = ExpectedStatus(c, step)

----------------------------------------------------------------------------
(* Steps of a run.                                                         *)

\* The next scenario of the run: its plan, and an empty state_values.
StartScenario(r) ==
  /\ at[r].step = Idle /\ Len(verdicts[r]) < Len(list[r])
  /\ at' = [at EXCEPT ![r] = [Start EXCEPT !.step = 1]]
  /\ UNCHANGED <<redis, network, shipments, ships, vehicles, list, verdicts>>

StepOf(r) == Plan(Current(r))[at[r].step]

\* 0 stands for no answer: _execute_step caught an exception.
CodeOf(r, fate) == IF fate = "served" THEN Code(Current(r), StepOf(r), at[r].id) ELSE 0
Ok(code) == code \in {200, 201}

\* What is extracted of an answer that does not have it is None, and so is
\* what is extracted of a failure.
IdAfter(r, code) ==
  CASE StepOf(r) # "create" -> at[r].id
    [] StepOf(r) = "create" -> IF Ok(code) THEN Len(shipments) + 1 ELSE 0
CapacityAfter(r, code) ==
  CASE StepOf(r) # "assign" -> at[r].capacity
    [] StepOf(r) = "assign" -> IF Ok(code) THEN Num(Capacity[Current(r).vehicle]) ELSE None

SyncShip(r, id, ok) ==
  ships' = IF id = 0 THEN ships
           ELSE Stored(ships, r, ShipPatch(Known(ships[r], id, NoShip), id, StepOf(r), ok))
SyncVehicle(r, id, capacity) ==
  vehicles' = IF id = Unnamed THEN vehicles
              ELSE Stored(vehicles, r,
                          VehiclePatch(Known(vehicles[r], id, NoVehicle), id, capacity))

\* _execute_step and _sync_entities: the request, its answer, the store.
Send(r, fate) ==
  /\ at[r].step \in 1 .. 3
  /\ fate = "served" \/ network
  /\ shipments' = IF fate = "unserved" THEN shipments
                  ELSE Served(r, Current(r), StepOf(r), at[r].id)
  /\ LET code     == CodeOf(r, fate)
         id       == IdAfter(r, code)
         capacity == CapacityAfter(r, code)
     IN  /\ SyncShip(r, id, Ok(code))
         /\ SyncVehicle(r, Current(r).vehicle, capacity)
         /\ at' = [at EXCEPT ![r] =
              [step |-> IF GoesOn(Current(r), StepOf(r), code)
                             /\ at[r].step < Len(Plan(Current(r)))
                        THEN at[r].step + 1 ELSE Judging,
               id |-> id, capacity |-> capacity, code |-> code]]
  /\ UNCHANGED <<redis, network, list, verdicts>>

\* build_eval_context: the last entity of a type.  The snapshot has them in the
\* order of insertion in memory, and in any order from Redis (KEYS).
\* Mutant: the first entity of a type.
FirstOf(entities, none) ==
  IF entities = <<>> THEN {none} ELSE IF redis THEN Range(entities) ELSE {Head(entities)}
LastOf(entities, none) ==
  IF entities = <<>> THEN {none} ELSE IF redis THEN Range(entities) ELSE {Last(entities)}

Context(c, ship, vehicle) ==
  [p \in {"scenario.shipment_weight", "entities.shipment.status",
          "entities.shipment.dispatched_at", "entities.vehicle.capacity"} |->
     CASE p = "scenario.shipment_weight"        -> c.weight
       [] p = "entities.shipment.status"        -> ship.status
       [] p = "entities.shipment.dispatched_at" -> ship.dispatched
       [] p = "entities.vehicle.capacity"       -> vehicle.capacity]

\* Mutant: an inconclusive scenario waits for an LLM that is not there.
JudgeConclusive(r) ==
  /\ at[r].step = Judging
  /\ \E ship \in LastOf(ships[r], NoShip), vehicle \in LastOf(vehicles[r], NoVehicle) :
       LET c == Current(r)
           result == Verdict(Rule[c.rule].conditions, Context(c, ship, vehicle), at[r].code)
       IN  /\ result # "inconclusive"
           /\ verdicts' = [verdicts EXCEPT ![r] = Append(@,
                [own |-> at[r].id, judged |-> ship.id, code |-> at[r].code, result |-> result])]
  /\ at' = [at EXCEPT ![r] = Start]
  /\ UNCHANGED <<redis, network, shipments, ships, vehicles, list>>
\* The snapshot, the log's append, and the oracle.
Judge(r) ==
  /\ at[r].step = Judging
  /\ \E ship \in LastOf(ships[r], NoShip), vehicle \in LastOf(vehicles[r], NoVehicle) :
       LET c == Current(r) IN
       verdicts' = [verdicts EXCEPT ![r] = Append(@,
         [own |-> at[r].id, judged |-> ship.id, code |-> at[r].code,
          result |-> Verdict(Rule[c.rule].conditions, Context(c, ship, vehicle), at[r].code)])]
  /\ at' = [at EXCEPT ![r] = Start]
  /\ UNCHANGED <<redis, network, shipments, ships, vehicles, list>>

\* The log cannot be written: the run ends with the exception.
LogRaises(r) ==
  /\ at[r].step = Judging
  /\ at' = [at EXCEPT ![r].step = Raised]
  /\ UNCHANGED <<redis, network, shipments, ships, vehicles, list, verdicts>>

Step(r) ==
  \/ StartScenario(r) \/ Judge(r)
  \/ \E fate \in {"served", "unserved", "unanswered"} : Send(r, fate)

Next == \E r \in Runs : Step(r) \/ LogRaises(r)

\* The event loop runs every run on; a request is answered or times out.
Spec == Init /\ [][Next]_vars /\ \A r \in Runs : WF_vars(Step(r))

----------------------------------------------------------------------------
(* What a verdict is worth.                                                *)

\* The i-th scenario of run r is the first to have a shipment, as far as the
\* run knows; all scenarios so far used its vehicle, or none.
FirstShipment(r, i) == \A j \in 1 .. i - 1 : verdicts[r][j].own = 0
OneVehicle(r, i) == \A j \in 1 .. i : list[r][j].vehicle \in {Unnamed, list[r][i].vehicle}

Statuses   == {"CREATED", "ASSIGNED", "DISPATCHED"}
Codes      == {0, 200, 201, 400, 404, 422}
Capacities == {None, Str("None")} \cup {Num(Capacity[v]) : v \in DOMAIN Capacity}
Shipment   == [status : Statuses, weight : Nat \ {0}, capacity : Nat, by : Runs]
ShipEntity == [id : Nat \ {0}, status : {None} \cup {Str(s) : s \in Statuses},
               dispatched : {None, Str("set")}]
VehicleEntity == [id : STRING \ {Unnamed}, capacity : Capacities]

\* Type correctness.
TypeOK ==
  /\ redis \in BOOLEAN /\ network \in BOOLEAN
  /\ shipments \in Seq(Shipment)
  /\ ships \in [Runs -> Seq(ShipEntity)] /\ vehicles \in [Runs -> Seq(VehicleEntity)]
  /\ list \in [Runs -> Seq(Cases)]
  /\ at \in [Runs -> [step : Idle .. Raised, id : Nat, capacity : Capacities \cup {Unset},
                      code : Codes]]
  /\ verdicts \in [Runs -> Seq([own : Nat, judged : Nat, code : Codes,
                                result : {"pass", "fail", "inconclusive"}])]

\* A scenario that got a shipment is judged by the state of that shipment,
\* although the context only has the last entity of each type.  The state
\* store in Redis keeps this for the run's first shipment only.
VerdictIsOnOwnShipment ==
  \A r \in Runs : \A i \in DOMAIN verdicts[r] :
    LET v == verdicts[r][i]
    IN  v.own # 0 /\ (~redis \/ FirstShipment(r, i)) => v.judged = v.own

\* An overweight shipment that the API dispatched fails SHIP_001, and no other
\* one does, if the run used one vehicle so far (the bug router.py has on
\* purpose).  A second vehicle may take the place of the one that was loaded.
OverweightIsCaught ==
  \A r \in Runs : \A i \in DOMAIN verdicts[r] :
    LET v == verdicts[r][i]
        overweight == shipments[v.own].weight > shipments[v.own].capacity
    IN  list[r][i].rule = "SHIP_001" /\ v.code = 200 /\ OneVehicle(r, i) =>
          v.result = IF overweight THEN "fail" ELSE "pass"

\* Every shipment in the store is one of the API's, and its status is the one
\* the API has, unless an answer was lost on the way; it is never ahead.
StoreFollowsApi ==
  \A r \in Runs : \A e \in Range(ships[r]) :
    /\ e.id \in DOMAIN shipments
    /\ ~network => e.status = Str(shipments[e.id].status)
    /\ e.dispatched # None => shipments[e.id].status = "DISPATCHED"
    /\ e.status = Str("ASSIGNED") => shipments[e.id].status # "CREATED"

\* The store has of a run only shipments that its own requests created, and
\* only vehicles of its own scenarios, while other runs use the same API.
RunsAreIsolated ==
  \A r \in Runs :
    /\ \A e \in Range(ships[r]) : e.id \in DOMAIN shipments => shipments[e.id].by = r
    /\ \A e \in Range(vehicles[r]) : \E c \in Range(list[r]) : c.vehicle = e.id

\* A request for a shipment is sent only when the run has one, in the status
\* the plan brought it to: the plan's expectations make the executor stop
\* before a request that has lost its ground.
RequestsHaveGround ==
  \A r \in Runs :
    at[r].step \in 2 .. 3 =>
      LET c == Current(r)
      IN  /\ at[r].id \in DOMAIN shipments /\ shipments[at[r].id].by = r
          /\ shipments[at[r].id].status =
               IF Plan(c)[at[r].step] = "dispatch" /\ ShouldAssign(c)
               THEN "ASSIGNED" ELSE "CREATED"

\* Every run ends, with a verdict on each scenario or with an exception.
EveryRunEnds ==
  \A r \in Runs : <>(Len(verdicts[r]) = Len(list[r]) \/ at[r].step = Raised)
=============================================================================
