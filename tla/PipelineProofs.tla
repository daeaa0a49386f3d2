--------------------------- MODULE PipelineProofs ---------------------------
(***************************************************************************)
(* What TLAPS proves of the pipeline, for any number of runs, any lists of *)
(* scenarios, either state store, and requests and answers lost at will:   *)
(* type correctness, that runs on one API keep apart, that no request is   *)
(* sent without ground, which shipment a verdict is about, that the store  *)
(* never runs ahead of the API, and that no shipment heavier than its      *)
(* vehicle passes SHIP_001.                                                *)
(***************************************************************************)
EXTENDS Pipeline, SequenceTheorems, TLAPS

----------------------------------------------------------------------------
(* The pure parts.                                                         *)

(* Two or three steps, in this order.                                      *)
LEMMA PlanSteps ==
  ASSUME NEW c
  PROVE  /\ Len(Plan(c)) = IF ShouldAssign(c) THEN 3 ELSE 2
         /\ Plan(c)[1] = "create"
         /\ Plan(c)[2] = IF ShouldAssign(c) THEN "assign" ELSE "dispatch"
         /\ ShouldAssign(c) => Plan(c)[3] = "dispatch"
<1>1. CASE ShouldAssign(c)
  <2>1. Plan(c) = <<"create", "assign", "dispatch">>
    BY <1>1 DEF Plan
  <2> QED
    BY <1>1, <2>1
<1>2. CASE ~ShouldAssign(c)
  <2>1. Plan(c) = <<"create", "dispatch">>
    BY <1>2 DEF Plan
  <2> QED
    BY <1>2, <2>1
<1> QED
  BY <1>1, <1>2

(* An entity that is stored again stays at its place.                      *)
LEMMA PutKnown ==
  ASSUME NEW T, NEW entities \in Seq(T), NEW e \in T,
         \E i \in DOMAIN entities : entities[i].id = e.id
  PROVE  /\ Put(entities, e) \in Seq(T)
         /\ Len(Put(entities, e)) = Len(entities)
         /\ DOMAIN Put(entities, e) = DOMAIN entities
         /\ \A i \in DOMAIN entities : Put(entities, e)[i].id = entities[i].id
<1> DEFINE n == Len(entities)
<1>1. n \in Nat /\ DOMAIN entities = 1 .. n /\ \A i \in 1 .. n : entities[i] \in T
  BY LenProperties
<1>2. Put(entities, e) = [i \in 1 .. n |-> IF entities[i].id = e.id THEN e ELSE entities[i]]
  BY <1>1 DEF Put
<1>3. Put(entities, e) \in [1 .. n -> T]
  BY <1>1, <1>2
<1>4. Put(entities, e) \in Seq(T) /\ Len(Put(entities, e)) = n
  BY <1>1, <1>3
<1> QED
  BY <1>1, <1>2, <1>4

(* A new entity goes to the end.                                           *)
LEMMA PutNew ==
  ASSUME NEW T, NEW entities \in Seq(T), NEW e \in T,
         ~\E i \in DOMAIN entities : entities[i].id = e.id
  PROVE  /\ Put(entities, e) \in Seq(T)
         /\ Len(Put(entities, e)) = Len(entities) + 1
         /\ \A i \in DOMAIN entities : Put(entities, e)[i] = entities[i]
         /\ Put(entities, e)[Len(entities) + 1] = e
<1>1. Put(entities, e) = Append(entities, e)
  BY DEF Put
<1> QED
  BY <1>1, AppendProperties, LenProperties

(* Either way the ids stored are those there were and the new one.         *)
LEMMA PutIds ==
  ASSUME NEW T, NEW entities \in Seq(T), NEW e \in T
  PROVE  /\ Put(entities, e) \in Seq(T)
         /\ \A x \in Range(Put(entities, e)) :
              x.id = e.id \/ \E y \in Range(entities) : x.id = y.id
<1>1. CASE \E i \in DOMAIN entities : entities[i].id = e.id
  <2>1. \A i \in DOMAIN Put(entities, e) :
          i \in DOMAIN entities /\ Put(entities, e)[i].id = entities[i].id
    BY <1>1, PutKnown
  <2> QED
    BY <1>1, <2>1, PutKnown DEF Range
<1>2. CASE ~\E i \in DOMAIN entities : entities[i].id = e.id
  <2>1. DOMAIN Put(entities, e) = 1 .. Len(entities) + 1 /\ DOMAIN entities = 1 .. Len(entities)
    BY <1>2, PutNew, LenProperties
  <2>2. \A i \in DOMAIN Put(entities, e) :
          Put(entities, e)[i] = e \/ (i \in DOMAIN entities /\ Put(entities, e)[i] = entities[i])
    <3>1. Len(entities) \in Nat
      BY LenProperties
    <3>2. \A i \in 1 .. Len(entities) + 1 : i \in 1 .. Len(entities) \/ i = Len(entities) + 1
      BY <3>1
    <3>3. /\ \A i \in DOMAIN entities : Put(entities, e)[i] = entities[i]
          /\ Put(entities, e)[Len(entities) + 1] = e
      BY <1>2, PutNew
    <3> QED
      BY <2>1, <3>2, <3>3
  <2> QED
    BY <1>2, <2>2, PutNew DEF Range
<1> QED
  BY <1>1, <1>2

(* What is known of an entity is one of the store's, or the default.       *)
LEMMA KnownIs ==
  ASSUME NEW T, NEW entities \in Seq(T), NEW id, NEW default
  PROVE  Known(entities, id, default) \in T \/ Known(entities, id, default) = default
<1>1. \A i \in DOMAIN entities : entities[i] \in T
  BY LenProperties
<1> QED
  BY <1>1 DEF Known

----------------------------------------------------------------------------
(* Where a run is in its scenarios and plans.                              *)

InProgress(r) ==
  /\ Len(verdicts[r]) <= Len(list[r])
  /\ at[r].step \in 1 .. Judging => Len(verdicts[r]) < Len(list[r])
  /\ at[r].step \in 1 .. 3 => at[r].step <= Len(Plan(Current(r)))
  /\ at[r].step \in {Idle, 1} => at[r].id = 0

Progress == \A r \in Runs : InProgress(r)

StepNames == {"create", "assign", "dispatch"}

(* The current scenario is one of the run's.                               *)
LEMMA CurrentIsCase ==
  ASSUME TypeOK, Progress, NEW r \in Runs, at[r].step \in 1 .. Judging
  PROVE  Current(r) \in Cases /\ Current(r) \in Range(list[r])
<1>1. list[r] \in Seq(Cases) /\ Len(verdicts[r]) \in Nat
  BY LenProperties DEF TypeOK
<1>2. Len(verdicts[r]) < Len(list[r]) /\ Len(list[r]) \in Nat
  BY <1>1, LenProperties DEF Progress, InProgress
<1>3. /\ Len(verdicts[r]) + 1 \in DOMAIN list[r]
      /\ \A i \in DOMAIN list[r] : list[r][i] \in Cases
  BY <1>1, <1>2, LenProperties
<1> QED
  BY <1>3 DEF Current, Range

(* A request is one of the plan's: which it is, and whether more follow.   *)
LEMMA StepIs ==
  ASSUME TypeOK, Progress, NEW r \in Runs, at[r].step \in 1 .. 3
  PROVE  /\ StepOf(r) \in StepNames
         /\ at[r].step = 1 <=> StepOf(r) = "create"
         /\ StepOf(r) = "assign" => at[r].step = 2 /\ ShouldAssign(Current(r))
         /\ at[r].step < Len(Plan(Current(r))) =>
              \/ at[r].step = 1
              \/ at[r].step = 2 /\ StepOf(r) = "assign"
<1>1. at[r].step <= Len(Plan(Current(r)))
  BY DEF Progress, InProgress
<1>2. at[r].step \in {1, 2, 3}
  OBVIOUS
<1> DEFINE c == Current(r)
<1>3. /\ Len(Plan(c)) = IF ShouldAssign(c) THEN 3 ELSE 2
      /\ Plan(c)[1] = "create"
      /\ Plan(c)[2] = IF ShouldAssign(c) THEN "assign" ELSE "dispatch"
      /\ ShouldAssign(c) => Plan(c)[3] = "dispatch"
  BY PlanSteps
<1>4. StepOf(r) = Plan(c)[at[r].step]
  BY DEF StepOf
<1> HIDE DEF c
<1>5. CASE at[r].step = 1
  BY <1>3, <1>4, <1>5 DEF StepNames
<1>6. CASE at[r].step = 2
  BY <1>3, <1>4, <1>6 DEF StepNames, c
<1>7. CASE at[r].step = 3
  BY <1>1, <1>3, <1>4, <1>7 DEF StepNames, c
<1> QED
  BY <1>2, <1>5, <1>6, <1>7

(* The vehicles the API knows carry something.                             *)
LEMMA CapacityIs == \A v \in DOMAIN Capacity : Capacity[v] \in Nat
BY DEF Capacity

(* The API's answers, and what an accepted request had.                    *)
LEMMA CodeIs ==
  ASSUME NEW c \in Cases, NEW step \in StepNames, NEW id
  PROVE  LET code == Code(c, step, id)
         IN  /\ code \in Codes \ {0}
             /\ step = "create" => code # 200
             /\ step # "create" => code # 201
             /\ code = 201 => c.weight[2] \in Nat \ {0}
             /\ code = 200 => id \in DOMAIN shipments
             /\ code = 200 /\ step = "assign" => c.vehicle \in DOMAIN Capacity
             /\ code = 200 /\ step = "dispatch" => shipments[id].status = "ASSIGNED"
<1>1. CASE step = "create"
  <2>1. c.weight \in Weights
    BY DEF Cases
  <2>2. c.weight = None \/ c.weight[2] \in Int
    BY <2>1, PipelineConstants
  <2>3. Code(c, step, id) = IF c.weight = None THEN 422
                            ELSE IF c.weight[2] <= 0 THEN 400 ELSE 201
    BY <1>1 DEF Code
  <2> QED
    BY <1>1, <2>2, <2>3 DEF Codes
<1>2. CASE step = "assign"
  <2>1. Code(c, step, id) =
          IF c.vehicle = Unnamed THEN 422
          ELSE IF id \notin DOMAIN shipments \/ c.vehicle \notin DOMAIN Capacity THEN 404
          ELSE IF shipments[id].status # "CREATED" THEN 400 ELSE 200
    BY <1>2 DEF Code
  <2> DEFINE code == Code(c, step, id)
  <2> HIDE DEF code
  <2>2. /\ code \in {200, 400, 404, 422}
        /\ code = 200 => id \in DOMAIN shipments /\ c.vehicle \in DOMAIN Capacity
    BY <2>1 DEF code
  <2> QED
    BY <1>2, <2>2 DEF Codes, code
<1>3. CASE step = "dispatch"
  <2>1. Code(c, step, id) =
          IF id \notin DOMAIN shipments THEN 404
          ELSE IF shipments[id].status # "ASSIGNED" THEN 400 ELSE 200
    BY <1>3 DEF Code
  <2> QED
    BY <1>3, <2>1 DEF Codes
<1> QED
  BY <1>1, <1>2, <1>3 DEF StepNames

----------------------------------------------------------------------------
(* What one request does.                                                  *)

(* The API: other shipments than the one asked for stay as they are, none  *)
(* changes its creator, and a new one goes to the end.                     *)
LEMMA ServedIs ==
  ASSUME TypeOK, NEW r \in Runs, NEW c \in Cases, NEW step \in StepNames, NEW id
  PROVE  LET new == Served(r, c, step, id)
         IN  /\ new \in Seq(Shipment) /\ Len(new) >= Len(shipments)
             /\ \A i \in DOMAIN shipments :
                  /\ i \in DOMAIN new /\ new[i].by = shipments[i].by
                  /\ i # id => new[i] = shipments[i]
             /\ step = "create" /\ Code(c, step, id) = 201 =>
                  /\ Len(shipments) + 1 \in DOMAIN new
                  /\ new[Len(shipments) + 1].by = r
                  /\ new[Len(shipments) + 1].status = "CREATED"
             /\ step = "assign" /\ Code(c, step, id) = 200 =>
                  new[id].status = "ASSIGNED"
<1> DEFINE new == Served(r, c, step, id)
<1>1. /\ shipments \in Seq(Shipment) /\ Len(shipments) \in Nat
      /\ DOMAIN shipments = 1 .. Len(shipments)
      /\ \A i \in DOMAIN shipments : shipments[i] \in Shipment
  BY LenProperties DEF TypeOK
<1>2. CASE Code(c, step, id) \notin {200, 201}
  <2>1. new = shipments
    BY <1>2 DEF Served
  <2> QED
    BY <1>1, <1>2, <2>1
<1>3. CASE step = "create" /\ Code(c, step, id) = 201
  <2> DEFINE s == [status |-> "CREATED", weight |-> c.weight[2], capacity |-> 0, by |-> r]
  <2>1. s \in Shipment /\ s.by = r /\ s.status = "CREATED"
    BY <1>3, CodeIs DEF Shipment, Statuses
  <2>2. new = Append(shipments, s)
    BY <1>3 DEF Served
  <2> HIDE DEF s, new
  <2>3. /\ new \in Seq(Shipment) /\ Len(new) = Len(shipments) + 1
        /\ DOMAIN new = 1 .. Len(shipments) + 1
        /\ \A i \in 1 .. Len(shipments) : new[i] = shipments[i]
        /\ new[Len(shipments) + 1] = s
    BY <1>1, <2>1, <2>2, AppendProperties, LenProperties
  <2>4. \A i \in DOMAIN shipments : i \in DOMAIN new /\ new[i] = shipments[i]
    BY <1>1, <2>3
  <2>5. Len(shipments) + 1 \in DOMAIN new /\ Len(new) >= Len(shipments)
    BY <1>1, <2>3
  <2> QED
    BY <1>3, <2>1, <2>3, <2>4, <2>5 DEF new
<1>4. CASE step # "create" /\ Code(c, step, id) = 200
  <2>1. id \in DOMAIN shipments
    BY <1>4, CodeIs
  <2>2. PICK s \in Shipment :
          /\ new = [shipments EXCEPT ![id] = s]
          /\ s.by = shipments[id].by
          /\ step = "assign" => s.status = "ASSIGNED"
    <3>1. CASE step = "assign"
      <4> DEFINE s == [shipments[id] EXCEPT !.status = "ASSIGNED",
                                            !.capacity = Capacity[c.vehicle]]
      <4>1. Capacity[c.vehicle] \in Nat
        BY <1>4, <3>1, CodeIs, CapacityIs
      <4>2. s \in Shipment /\ s.by = shipments[id].by /\ s.status = "ASSIGNED"
        BY <1>1, <2>1, <4>1 DEF Shipment, Statuses
      <4>3. new = [shipments EXCEPT ![id] = s]
        BY <1>1, <1>4, <2>1, <3>1 DEF Served
      <4> QED
        BY <4>2, <4>3
    <3>2. CASE step = "dispatch"
      <4> DEFINE s == [shipments[id] EXCEPT !.status = "DISPATCHED"]
      <4>1. s \in Shipment /\ s.by = shipments[id].by
        BY <1>1, <2>1 DEF Shipment, Statuses
      <4>2. new = [shipments EXCEPT ![id] = s]
        BY <1>4, <3>2 DEF Served
      <4> QED
        BY <3>2, <4>1, <4>2
    <3> QED
      BY <1>4, <3>1, <3>2 DEF StepNames
  <2> HIDE DEF new
  <2>3. /\ new \in Seq(Shipment) /\ Len(new) = Len(shipments)
        /\ DOMAIN new = DOMAIN shipments
        /\ new[id] = s
        /\ \A i \in DOMAIN shipments : i # id => new[i] = shipments[i]
    BY <1>1, <2>1, <2>2
  <2>4. Len(new) >= Len(shipments)
    BY <1>1, <2>3
  <2> QED
    BY <1>4, <2>2, <2>3, <2>4 DEF new
<1> QED
  BY <1>2, <1>3, <1>4, CodeIs

Fates == {"served", "unserved", "unanswered"}

(* What the executor takes from the answer to its request.                 *)
LEMMA AnswerIs ==
  ASSUME TypeOK, Progress, NEW r \in Runs, at[r].step \in 1 .. 3, NEW fate \in Fates
  PROVE  LET code == CodeOf(r, fate)
         IN  /\ code \in Codes
             /\ Ok(code) => fate = "served" /\ code = Code(Current(r), StepOf(r), at[r].id)
             /\ IdAfter(r, code) \in Nat
             /\ CapacityAfter(r, code) \in Capacities \cup {Unset}
<1> DEFINE code == CodeOf(r, fate)
<1>1. Current(r) \in Cases /\ StepOf(r) \in StepNames
  BY CurrentIsCase, StepIs DEF Judging
<1>2. Code(Current(r), StepOf(r), at[r].id) \in Codes
  BY <1>1, CodeIs
<1>3. code \in Codes
  BY <1>2 DEF CodeOf, Codes
<1>4. Ok(code) => fate = "served" /\ code = Code(Current(r), StepOf(r), at[r].id)
  BY DEF CodeOf, Ok
<1>5. at[r].id \in Nat /\ at[r].capacity \in Capacities \cup {Unset} /\ Len(shipments) \in Nat
  BY LenProperties DEF TypeOK
<1>6. IdAfter(r, code) \in Nat
  BY <1>5 DEF IdAfter
<1>7. CapacityAfter(r, code) \in Capacities \cup {Unset}
  <2>1. CASE StepOf(r) # "assign"
    BY <1>5, <2>1 DEF CapacityAfter
  <2>2. CASE StepOf(r) = "assign" /\ ~Ok(code)
    BY <2>2 DEF CapacityAfter, Capacities
  <2>3. CASE StepOf(r) = "assign" /\ Ok(code)
    <3>1. code = 200
      BY <1>1, <1>4, <2>3, CodeIs DEF Ok
    <3>2. Current(r).vehicle \in DOMAIN Capacity
      BY <1>1, <1>4, <2>3, <3>1, CodeIs
    <3> QED
      BY <2>3, <3>2 DEF CapacityAfter, Capacities
  <2> QED
    BY <2>1, <2>2, <2>3
<1> QED
  BY <1>3, <1>4, <1>6, <1>7

(* The patch of a shipment is an entity with the id of that shipment.      *)
LEMMA ShipPatchIs ==
  ASSUME TypeOK, NEW r \in Runs, NEW id \in Nat \ {0}, NEW step \in StepNames, NEW ok
  PROVE  LET e == ShipPatch(Known(ships[r], id, NoShip), id, step, ok)
         IN  e \in ShipEntity /\ e.id = id
<1> DEFINE old == Known(ships[r], id, NoShip)
           Stats == {None} \cup {Str(s) : s \in Statuses}
<1>1. ships[r] \in Seq(ShipEntity)
  BY DEF TypeOK
<1>2. old \in ShipEntity \/ old = NoShip
  BY <1>1 DEF Known
<1>3. old.status \in Stats /\ old.dispatched \in {None, Str("set")}
  <2>1. CASE old \in ShipEntity
    BY <2>1 DEF ShipEntity
  <2>2. CASE old = NoShip
    BY <2>2 DEF NoShip
  <2> QED
    BY <1>2, <2>1, <2>2
<1> HIDE DEF old
<1>4. StatusAfter[step] \in Statuses
  BY DEF StatusAfter, StepNames, Statuses
<1>5. Str(StatusAfter[step]) \in Stats
  BY <1>4
<1> HIDE DEF Stats
<1> DEFINE e == ShipPatch(old, id, step, ok)
<1>6. e = [id |-> id, status |-> e.status, dispatched |-> e.dispatched]
  BY DEF ShipPatch
<1>7. e.status \in Stats /\ e.dispatched \in {None, Str("set")}
  BY <1>3, <1>5 DEF ShipPatch
<1> HIDE DEF e
<1>8. e \in ShipEntity /\ e.id = id
  BY <1>6, <1>7 DEF ShipEntity, Stats
<1> QED
  BY <1>8 DEF e, old

(* The patch of a vehicle is an entity with the id of that vehicle.        *)
LEMMA VehiclePatchIs ==
  ASSUME TypeOK, NEW r \in Runs, NEW id \in STRING \ {Unnamed},
         NEW capacity \in Capacities \cup {Unset}
  PROVE  LET e == VehiclePatch(Known(vehicles[r], id, NoVehicle), id, capacity)
         IN  e \in VehicleEntity /\ e.id = id
<1> DEFINE old == Known(vehicles[r], id, NoVehicle)
<1>1. vehicles[r] \in Seq(VehicleEntity)
  BY DEF TypeOK
<1>2. old \in VehicleEntity \/ old = NoVehicle
  BY <1>1 DEF Known
<1>3. old.capacity \in Capacities
  <2>1. CASE old \in VehicleEntity
    BY <2>1 DEF VehicleEntity
  <2>2. CASE old = NoVehicle
    BY <2>2 DEF NoVehicle, Capacities
  <2> QED
    BY <1>2, <2>1, <2>2
<1> HIDE DEF old
<1>4. capacity # Unset => Encode(capacity) \in Capacities
  BY DEF Encode, Capacities
<1> DEFINE e == VehiclePatch(old, id, capacity)
<1>5. e = [id |-> id, capacity |-> e.capacity] /\ e.capacity \in Capacities
  BY <1>3, <1>4 DEF VehiclePatch
<1> HIDE DEF e
<1>6. e \in VehicleEntity /\ e.id = id
  BY <1>5 DEF VehicleEntity
<1> QED
  BY <1>6 DEF e, old

(* The store of the run, after its request; other runs' is untouched.      *)
LEMMA StoreIs ==
  ASSUME TypeOK, Progress, NEW r \in Runs, NEW fate \in Fates, Send(r, fate)
  PROVE  LET id == IdAfter(r, CodeOf(r, fate))
         IN  /\ \A q \in Runs \ {r} : ships'[q] = ships[q] /\ vehicles'[q] = vehicles[q]
             /\ ships' \in [Runs -> Seq(ShipEntity)]
             /\ vehicles' \in [Runs -> Seq(VehicleEntity)]
             /\ id = 0 => ships' = ships
             /\ id # 0 => \E e \in ShipEntity : e.id = id /\ ships'[r] = Put(ships[r], e)
             /\ vehicles' = vehicles
                  \/ \E e \in VehicleEntity : /\ e.id = Current(r).vehicle
                                              /\ vehicles'[r] = Put(vehicles[r], e)
<1> DEFINE code == CodeOf(r, fate)
           id   == IdAfter(r, code)
           cap  == CapacityAfter(r, code)
           v    == Current(r).vehicle
<1>1. /\ at[r].step \in 1 .. 3
      /\ SyncShip(r, id, Ok(code)) /\ SyncVehicle(r, v, cap)
  BY DEF Send
<1>2. id \in Nat /\ cap \in Capacities \cup {Unset}
  BY <1>1, AnswerIs
<1>3. Current(r) \in Cases /\ StepOf(r) \in StepNames
  BY <1>1, CurrentIsCase, StepIs DEF Judging
<1>4. v \in STRING
  BY <1>3 DEF Cases
<1>5. /\ ships \in [Runs -> Seq(ShipEntity)]
      /\ vehicles \in [Runs -> Seq(VehicleEntity)]
  BY DEF TypeOK
<1> HIDE DEF code, id, cap, v
<1>6. id # 0 => \E e \in ShipEntity : e.id = id /\ ships' = Stored(ships, r, e)
  BY <1>1, <1>2, <1>3, ShipPatchIs DEF SyncShip
<1>7. id = 0 => ships' = ships
  BY <1>1 DEF SyncShip
<1>8. v # Unnamed => \E e \in VehicleEntity : e.id = v /\ vehicles' = Stored(vehicles, r, e)
  BY <1>1, <1>2, <1>4, VehiclePatchIs DEF SyncVehicle
<1>9. v = Unnamed => vehicles' = vehicles
  BY <1>1 DEF SyncVehicle
<1>10. /\ \A q \in Runs \ {r} : ships'[q] = ships[q]
       /\ ships' \in [Runs -> Seq(ShipEntity)]
       /\ id # 0 => \E e \in ShipEntity : e.id = id /\ ships'[r] = Put(ships[r], e)
  <2>1. CASE id = 0
    BY <1>5, <1>7, <2>1
  <2>2. CASE id # 0
    <3>1. PICK e \in ShipEntity : e.id = id /\ ships' = Stored(ships, r, e)
      BY <1>6, <2>2
    <3>2. ships[r] \in Seq(ShipEntity)
      BY <1>5
    <3>3. Put(ships[r], e) \in Seq(ShipEntity)
      BY <3>2, PutIds
    <3> QED
      BY <1>5, <3>1, <3>3 DEF Stored
  <2> QED
    BY <2>1, <2>2
<1>11. /\ \A q \in Runs \ {r} : vehicles'[q] = vehicles[q]
       /\ vehicles' \in [Runs -> Seq(VehicleEntity)]
       /\ vehicles' = vehicles
            \/ \E e \in VehicleEntity : e.id = v /\ vehicles'[r] = Put(vehicles[r], e)
  <2>1. CASE v = Unnamed
    BY <1>5, <1>9, <2>1
  <2>2. CASE v # Unnamed
    <3>1. PICK e \in VehicleEntity : e.id = v /\ vehicles' = Stored(vehicles, r, e)
      BY <1>8, <2>2
    <3>2. vehicles[r] \in Seq(VehicleEntity)
      BY <1>5
    <3>3. Put(vehicles[r], e) \in Seq(VehicleEntity)
      BY <3>2, PutIds
    <3> QED
      BY <1>5, <3>1, <3>3 DEF Stored
  <2> QED
    BY <2>1, <2>2
<1> QED
  BY <1>7, <1>10, <1>11 DEF code, id, v

(* The API's shipments after the request, served or not.                   *)
LEMMA ShipmentsAre ==
  ASSUME TypeOK, Progress, NEW r \in Runs, NEW fate \in Fates, Send(r, fate)
  PROVE  /\ shipments' \in Seq(Shipment) /\ Len(shipments') >= Len(shipments)
         /\ \A i \in DOMAIN shipments :
              /\ i \in DOMAIN shipments' /\ shipments'[i].by = shipments[i].by
              /\ i # at[r].id => shipments'[i] = shipments[i]
         /\ StepOf(r) = "create" /\ Ok(CodeOf(r, fate)) =>
              /\ Len(shipments) + 1 \in DOMAIN shipments'
              /\ shipments'[Len(shipments) + 1].by = r
              /\ shipments'[Len(shipments) + 1].status = "CREATED"
         /\ StepOf(r) = "assign" /\ Ok(CodeOf(r, fate)) =>
              shipments'[at[r].id].status = "ASSIGNED"
<1>1. /\ at[r].step \in 1 .. 3
      /\ shipments' = IF fate = "unserved" THEN shipments
                      ELSE Served(r, Current(r), StepOf(r), at[r].id)
  BY DEF Send
<1>2. Current(r) \in Cases /\ StepOf(r) \in StepNames
  BY <1>1, CurrentIsCase, StepIs DEF Judging
<1>3. CASE fate = "unserved"
  <2>1. ~Ok(CodeOf(r, fate))
    BY <1>3 DEF CodeOf, Ok
  <2>2. shipments' = shipments /\ shipments \in Seq(Shipment) /\ Len(shipments) \in Nat
    BY <1>1, <1>3, LenProperties DEF TypeOK
  <2> QED
    BY <2>1, <2>2
<1>4. CASE fate # "unserved"
  <2>1. shipments' = Served(r, Current(r), StepOf(r), at[r].id)
    BY <1>1, <1>4
  <2>2. ASSUME Ok(CodeOf(r, fate))
        PROVE  /\ StepOf(r) = "create" => Code(Current(r), StepOf(r), at[r].id) = 201
               /\ StepOf(r) = "assign" => Code(Current(r), StepOf(r), at[r].id) = 200
    BY <1>1, <1>2, <2>2, AnswerIs, CodeIs DEF Ok
  <2> QED
    BY <1>2, <2>1, <2>2, ServedIs
<1> QED
  BY <1>3, <1>4

----------------------------------------------------------------------------
(* Types, and the way through the scenarios.                               *)

VerdictOf == [own : Nat, judged : Nat, code : Codes,
              result : {"pass", "fail", "inconclusive"}]

(* What a step of the executor leaves in at.                               *)
LEMMA SendAt ==
  ASSUME TypeOK, Progress, NEW r \in Runs, NEW fate \in Fates, Send(r, fate)
  PROVE  LET code == CodeOf(r, fate)
         IN  /\ at' \in [Runs -> [step : Idle .. Raised, id : Nat,
                                  capacity : Capacities \cup {Unset}, code : Codes]]
             /\ at'[r].id = IdAfter(r, code)
             /\ at'[r].step = Judging \/
                  /\ at'[r].step = at[r].step + 1 /\ GoesOn(Current(r), StepOf(r), code)
                  /\ at[r].step < Len(Plan(Current(r))) /\ at'[r].step \in {2, 3}
             /\ \A q \in Runs \ {r} : at'[q] = at[q]
<1> DEFINE code == CodeOf(r, fate)
           id   == IdAfter(r, code)
           cap  == CapacityAfter(r, code)
           more == GoesOn(Current(r), StepOf(r), code) /\ at[r].step < Len(Plan(Current(r)))
           new  == [step |-> IF more THEN at[r].step + 1 ELSE Judging,
                    id |-> id, capacity |-> cap, code |-> code]
<1>1. at[r].step \in 1 .. 3 /\ at' = [at EXCEPT ![r] = new]
  BY DEF Send
<1>2. code \in Codes /\ id \in Nat /\ cap \in Capacities \cup {Unset}
  BY <1>1, AnswerIs
<1>3. more => at[r].step + 1 \in {2, 3}
  BY <1>1, StepIs
<1>4. (IF more THEN at[r].step + 1 ELSE Judging) \in Idle .. Raised
  BY <1>3 DEF Judging, Idle, Raised
<1> HIDE DEF code, id, cap, more
<1>5. new \in [step : Idle .. Raised, id : Nat, capacity : Capacities \cup {Unset},
               code : Codes]
  BY <1>2, <1>4
<1>6. /\ new.id = id
      /\ new.step = IF more THEN at[r].step + 1 ELSE Judging
  OBVIOUS
<1> HIDE DEF new
<1>7. at'[r] = new /\ \A q \in Runs \ {r} : at'[q] = at[q]
  BY <1>1 DEF TypeOK
<1>8. at' \in [Runs -> [step : Idle .. Raised, id : Nat, capacity : Capacities \cup {Unset},
                        code : Codes]]
  BY <1>1, <1>5 DEF TypeOK
<1> QED
  BY <1>3, <1>6, <1>7, <1>8 DEF code, id, more

(* What the oracle leaves.                                                 *)
LEMMA JudgeIs ==
  ASSUME TypeOK, NEW r \in Runs, Judge(r)
  PROVE  \E ship \in LastOf(ships[r], NoShip), v \in VerdictOf :
           /\ v.own = at[r].id /\ v.judged = ship.id
           /\ verdicts' = [verdicts EXCEPT ![r] = Append(@, v)]
<1>1. PICK ship \in LastOf(ships[r], NoShip), vehicle \in LastOf(vehicles[r], NoVehicle) :
        verdicts' = [verdicts EXCEPT ![r] = Append(@,
          [own |-> at[r].id, judged |-> ship.id, code |-> at[r].code,
           result |-> Verdict(Rule[Current(r).rule].conditions,
                              Context(Current(r), ship, vehicle), at[r].code)])]
  BY DEF Judge
<1> DEFINE result == Verdict(Rule[Current(r).rule].conditions,
                             Context(Current(r), ship, vehicle), at[r].code)
           v == [own |-> at[r].id, judged |-> ship.id, code |-> at[r].code,
                 result |-> result]
<1>2. result \in {"pass", "fail", "inconclusive"}
  BY DEF Verdict
<1> HIDE DEF result
<1>3. at[r].id \in Nat /\ at[r].code \in Codes
  BY DEF TypeOK
<1>4. ship.id \in Nat
  <2>1. ships[r] \in Seq(ShipEntity)
    BY DEF TypeOK
  <2>2. ship = NoShip \/ ship \in ShipEntity
    <3>1. CASE ships[r] = <<>>
      BY <1>1, <3>1 DEF LastOf
    <3>2. CASE ships[r] # <<>>
      <4>1. /\ \A i \in DOMAIN ships[r] : ships[r][i] \in ShipEntity
            /\ Len(ships[r]) \in DOMAIN ships[r]
        BY <2>1, <3>2, LenProperties, EmptySeq
      <4> QED
        BY <1>1, <3>2, <4>1 DEF LastOf, Range, Last
    <3> QED
      BY <3>1, <3>2
  <2>3. NoShip.id = 0
    BY DEF NoShip
  <2> QED
    BY <2>2, <2>3 DEF ShipEntity
<1>5. v \in VerdictOf
  BY <1>2, <1>3, <1>4 DEF VerdictOf
<1>6. verdicts' = [verdicts EXCEPT ![r] = Append(@, v)]
  BY <1>1 DEF result
<1>7. v.own = at[r].id /\ v.judged = ship.id
  OBVIOUS
<1> HIDE DEF v
<1> QED
  BY <1>1, <1>5, <1>6, <1>7

AtRecord == [step : Idle .. Raised, id : Nat, capacity : Capacities \cup {Unset},
             code : Codes]

(* What the other steps leave in at and in the verdicts.                   *)
LEMMA StartAt ==
  ASSUME TypeOK, NEW r \in Runs, StartScenario(r)
  PROVE  /\ at' \in [Runs -> AtRecord]
         /\ at'[r].step = 1 /\ at'[r].id = 0 /\ \A q \in Runs \ {r} : at'[q] = at[q]
<1>1. [Start EXCEPT !.step = 1] = [step |-> 1, id |-> 0, capacity |-> Unset, code |-> 0]
  BY DEF Start
<1>2. [step |-> 1, id |-> 0, capacity |-> Unset, code |-> 0] \in AtRecord
  BY DEF AtRecord, Idle, Raised, Codes
<1>3. at \in [Runs -> AtRecord]
  BY DEF TypeOK, AtRecord
<1> QED
  BY <1>1, <1>2, <1>3 DEF StartScenario

LEMMA JudgeAt ==
  ASSUME TypeOK, NEW r \in Runs, Judge(r)
  PROVE  /\ at' \in [Runs -> AtRecord] /\ verdicts' \in [Runs -> Seq(VerdictOf)]
         /\ at'[r].step = Idle /\ at'[r].id = 0
         /\ \A q \in Runs \ {r} : at'[q] = at[q] /\ verdicts'[q] = verdicts[q]
         /\ Len(verdicts'[r]) = Len(verdicts[r]) + 1
         /\ \A i \in DOMAIN verdicts[r] : verdicts'[r][i] = verdicts[r][i]
         /\ verdicts'[r][Len(verdicts[r]) + 1].own = at[r].id
         /\ \E ship \in LastOf(ships[r], NoShip) :
              verdicts'[r][Len(verdicts[r]) + 1].judged = ship.id
<1>1. Start = [step |-> Idle, id |-> 0, capacity |-> Unset, code |-> 0]
  BY DEF Start
<1>2. Start \in AtRecord
  BY <1>1 DEF AtRecord, Idle, Raised, Codes
<1>3. at \in [Runs -> AtRecord] /\ verdicts \in [Runs -> Seq(VerdictOf)]
  BY DEF TypeOK, AtRecord, VerdictOf
<1>4. at' \in [Runs -> AtRecord] /\ at'[r] = Start /\ \A q \in Runs \ {r} : at'[q] = at[q]
  BY <1>2, <1>3 DEF Judge
<1>5. PICK ship \in LastOf(ships[r], NoShip), v \in VerdictOf :
        /\ v.own = at[r].id /\ v.judged = ship.id
        /\ verdicts' = [verdicts EXCEPT ![r] = Append(@, v)]
  BY JudgeIs
<1>6. /\ Append(verdicts[r], v) \in Seq(VerdictOf)
      /\ Len(Append(verdicts[r], v)) = Len(verdicts[r]) + 1
      /\ \A i \in 1 .. Len(verdicts[r]) : Append(verdicts[r], v)[i] = verdicts[r][i]
      /\ Append(verdicts[r], v)[Len(verdicts[r]) + 1] = v
      /\ DOMAIN verdicts[r] = 1 .. Len(verdicts[r])
  BY <1>3, <1>5, AppendProperties, LenProperties
<1>7. /\ verdicts' \in [Runs -> Seq(VerdictOf)]
      /\ verdicts'[r] = Append(verdicts[r], v)
      /\ \A q \in Runs \ {r} : verdicts'[q] = verdicts[q]
  BY <1>3, <1>5, <1>6
<1>8. /\ verdicts'[r][Len(verdicts[r]) + 1].own = at[r].id
      /\ \E s \in LastOf(ships[r], NoShip) :
           verdicts'[r][Len(verdicts[r]) + 1].judged = s.id
  BY <1>5, <1>6, <1>7
<1> QED
  BY <1>1, <1>4, <1>6, <1>7, <1>8

LEMMA RaiseAt ==
  ASSUME TypeOK, NEW r \in Runs, LogRaises(r)
  PROVE  /\ at' \in [Runs -> AtRecord]
         /\ at'[r].step = Raised /\ at'[r].id = at[r].id
         /\ \A q \in Runs \ {r} : at'[q] = at[q]
<1>1. at \in [Runs -> AtRecord]
  BY DEF TypeOK, AtRecord
<1>2. at' = [at EXCEPT ![r].step = Raised] /\ Raised \in Idle .. Raised
  BY DEF LogRaises, Idle, Raised
<1> QED
  BY <1>1, <1>2 DEF AtRecord

(* Which steps there are.                                                  *)
LEMMA StepsAre ==
  ASSUME Next
  PROVE  \E r \in Runs : \/ StartScenario(r) \/ Judge(r) \/ LogRaises(r)
                         \/ \E fate \in Fates : Send(r, fate)
BY DEF Next, Step, Fates

LEMMA TypeStep == TypeOK /\ Progress /\ [Next]_vars => TypeOK'
<1> SUFFICES ASSUME TypeOK, Progress, [Next]_vars PROVE TypeOK'
  OBVIOUS
<1>1. ASSUME NEW r \in Runs, StartScenario(r) PROVE TypeOK'
  BY <1>1, StartAt DEF StartScenario, TypeOK, AtRecord
<1>2. ASSUME NEW r \in Runs, Judge(r) PROVE TypeOK'
  BY <1>2, JudgeAt DEF Judge, TypeOK, AtRecord, VerdictOf
<1>3. ASSUME NEW r \in Runs, LogRaises(r) PROVE TypeOK'
  BY <1>3, RaiseAt DEF LogRaises, TypeOK, AtRecord
<1>4. ASSUME NEW r \in Runs, NEW fate \in Fates, Send(r, fate) PROVE TypeOK'
  <2>1. UNCHANGED <<redis, network, list, verdicts>>
    BY <1>4 DEF Send
  <2>2. at' \in [Runs -> AtRecord]
    BY <1>4, SendAt DEF AtRecord
  <2>3. shipments' \in Seq(Shipment)
    BY <1>4, ShipmentsAre
  <2>4. ships' \in [Runs -> Seq(ShipEntity)] /\ vehicles' \in [Runs -> Seq(VehicleEntity)]
    BY <1>4, StoreIs
  <2> QED
    BY <2>1, <2>2, <2>3, <2>4 DEF TypeOK, AtRecord
<1>5. CASE UNCHANGED vars
  BY <1>5 DEF vars, TypeOK
<1> QED
  BY <1>1, <1>2, <1>3, <1>4, <1>5, StepsAre

(* Another run's step changes nothing about where a run is.                *)
LEMMA InProgressStays ==
  ASSUME NEW q \in Runs, InProgress(q), list' = list, at'[q] = at[q],
         verdicts'[q] = verdicts[q]
  PROVE  InProgress(q)'
BY DEF InProgress, Current

LEMMA ProgressStep == TypeOK /\ Progress /\ [Next]_vars => Progress'
<1> SUFFICES ASSUME TypeOK, Progress, [Next]_vars, NEW q \in Runs PROVE InProgress(q)'
  BY DEF Progress
<1>0. /\ Len(verdicts[q]) \in Nat /\ Len(list[q]) \in Nat /\ InProgress(q)
      /\ at[q].step \in Idle .. Raised
  BY LenProperties DEF TypeOK, Progress
<1>1. ASSUME NEW r \in Runs, StartScenario(r) PROVE InProgress(q)'
  <2>1. CASE q = r
    <3>1. /\ at'[q].step = 1 /\ at'[q].id = 0 /\ verdicts' = verdicts /\ list' = list
          /\ Len(verdicts[q]) < Len(list[q])
      BY <1>1, <2>1, StartAt DEF StartScenario
    <3>2. 1 <= Len(Plan(Current(q)'))
      BY PlanSteps
    <3> QED
      BY <1>0, <3>1, <3>2 DEF InProgress, Idle
  <2>2. CASE q # r
    BY <1>0, <1>1, <2>2, StartAt, InProgressStays DEF StartScenario
  <2> QED
    BY <2>1, <2>2
<1>2. ASSUME NEW r \in Runs, Judge(r) PROVE InProgress(q)'
  <2>1. CASE q = r
    <3>1. /\ at'[q].step = Idle /\ at'[q].id = 0 /\ list' = list /\ at[q].step = Judging
          /\ Len(verdicts'[q]) = Len(verdicts[q]) + 1
      BY <1>2, <2>1, JudgeAt DEF Judge
    <3> QED
      BY <1>0, <3>1 DEF InProgress, Idle, Judging
  <2>2. CASE q # r
    BY <1>0, <1>2, <2>2, JudgeAt, InProgressStays DEF Judge
  <2> QED
    BY <2>1, <2>2
<1>3. ASSUME NEW r \in Runs, LogRaises(r) PROVE InProgress(q)'
  <2>1. CASE q = r
    <3>1. at'[q].step = Raised /\ list' = list /\ verdicts' = verdicts
      BY <1>3, <2>1, RaiseAt DEF LogRaises
    <3> QED
      BY <1>0, <3>1 DEF InProgress, Idle, Judging, Raised
  <2>2. CASE q # r
    BY <1>0, <1>3, <2>2, RaiseAt, InProgressStays DEF LogRaises
  <2> QED
    BY <2>1, <2>2
<1>4. ASSUME NEW r \in Runs, NEW fate \in Fates, Send(r, fate) PROVE InProgress(q)'
  <2>1. list' = list /\ verdicts' = verdicts /\ at[r].step \in 1 .. 3
    BY <1>4 DEF Send
  <2>2. CASE q = r
    <3>1. \/ at'[q].step = Judging
          \/ /\ at'[q].step = at[q].step + 1 /\ at'[q].step \in {2, 3}
             /\ at[q].step < Len(Plan(Current(q)))
      BY <1>4, <2>2, SendAt
    <3>2. Current(q)' = Current(q) /\ Len(Plan(Current(q))) \in {2, 3}
      BY <2>1, PlanSteps DEF Current
    <3>3. Len(verdicts[q]) < Len(list[q])
      BY <1>0, <2>1, <2>2 DEF InProgress, Judging
    <3> QED
      BY <1>0, <2>1, <2>2, <3>1, <3>2, <3>3 DEF InProgress, Idle, Judging
  <2>3. CASE q # r
    BY <1>0, <1>4, <2>1, <2>3, SendAt, InProgressStays
  <2> QED
    BY <2>2, <2>3
<1>5. CASE UNCHANGED vars
  BY <1>0, <1>5, InProgressStays DEF vars
<1> QED
  BY <1>1, <1>2, <1>3, <1>4, <1>5, StepsAre

LEMMA TypeInit == Init => TypeOK /\ Progress
<1> SUFFICES ASSUME Init PROVE TypeOK /\ Progress
  OBVIOUS
<1>1. Start \in AtRecord /\ Start.step = Idle /\ Start.id = 0
  BY DEF Start, AtRecord, Idle, Raised, Codes
<1>2. at \in [Runs -> AtRecord] /\ \A r \in Runs : at[r].step = Idle /\ at[r].id = 0
  BY <1>1 DEF Init
<1>3. list \in [Runs -> Seq(Cases)]
  BY PipelineConstants DEF Init
<1>4. TypeOK
  BY <1>2, <1>3 DEF Init, TypeOK, AtRecord
<1>5. ASSUME NEW r \in Runs PROVE InProgress(r)
  <2>1. Len(list[r]) \in Nat /\ verdicts[r] = <<>>
    BY <1>3, LenProperties DEF Init
  <2> QED
    BY <1>2, <2>1 DEF InProgress, Idle, Judging
<1> QED
  BY <1>4, <1>5 DEF Progress

(* Shipments, store, plans and verdicts keep their types, and a run its    *)
(* way through its scenarios.                                              *)
THEOREM TypeCorrect == Spec => []TypeOK
BY TypeInit, TypeStep, ProgressStep, PTL DEF Spec

LEMMA ProgressHolds == Spec => []Progress
BY TypeInit, TypeStep, ProgressStep, PTL DEF Spec

----------------------------------------------------------------------------
(* Runs that share the API keep apart.                                     *)

\* The run created the shipment.
Own(r, id) == id \in DOMAIN shipments /\ shipments[id].by = r

\* The same after a step, of an id from before it.
OwnNext(r, id) == id \in DOMAIN shipments' /\ shipments'[id].by = r

IsApart(r) ==
  /\ at[r].id # 0 => Own(r, at[r].id)
  /\ \A e \in Range(ships[r]) : Own(r, e.id)
  /\ \A e \in Range(vehicles[r]) : \E c \in Range(list[r]) : c.vehicle = e.id

Apart == \A r \in Runs : IsApart(r)

(* A shipment never gets another creator, and is never lost.               *)
LEMMA OwnStays ==
  ASSUME TypeOK, Progress, [Next]_vars
  PROVE  \A q \in Runs : \A id : Own(q, id) => OwnNext(q, id)
<1>1. ASSUME NEW r \in Runs, NEW fate \in Fates, Send(r, fate)
      PROVE  \A q \in Runs : \A id : Own(q, id) => OwnNext(q, id)
  BY <1>1, ShipmentsAre DEF Own, OwnNext
<1>2. ASSUME shipments' = shipments
      PROVE  \A q \in Runs : \A id : Own(q, id) => OwnNext(q, id)
  BY <1>2 DEF Own, OwnNext
<1>3. ASSUME NEW r \in Runs, StartScenario(r) \/ Judge(r) \/ LogRaises(r)
      PROVE  shipments' = shipments
  BY <1>3 DEF StartScenario, Judge, LogRaises
<1>4. UNCHANGED vars => shipments' = shipments
  BY DEF vars
<1> QED
  BY <1>1, <1>2, <1>3, <1>4, StepsAre

(* What the executor takes for its shipment is one that the run created.   *)
LEMMA NewIdIsOwn ==
  ASSUME TypeOK, Progress, NEW r \in Runs, NEW fate \in Fates, Send(r, fate), IsApart(r)
  PROVE  LET id == IdAfter(r, CodeOf(r, fate))
         IN  id # 0 => OwnNext(r, id)
<1> DEFINE code == CodeOf(r, fate)
           id == IdAfter(r, code)
<1>1. CASE StepOf(r) # "create"
  <2>1. id = at[r].id
    BY <1>1 DEF IdAfter
  <2>2. id # 0 => Own(r, id)
    BY <2>1 DEF IsApart
  <2> QED
    BY <2>2, ShipmentsAre DEF Own, OwnNext
<1>2. CASE StepOf(r) = "create"
  <2>1. id = IF Ok(code) THEN Len(shipments) + 1 ELSE 0
    BY <1>2 DEF IdAfter
  <2>2. Ok(code) => OwnNext(r, Len(shipments) + 1)
    BY <1>2, ShipmentsAre DEF Own, OwnNext
  <2> QED
    BY <2>1, <2>2, ShipmentsAre DEF Own, OwnNext
<1> QED
  BY <1>1, <1>2

LEMMA ApartStep == TypeOK /\ Progress /\ Apart /\ [Next]_vars => Apart'
<1> SUFFICES ASSUME TypeOK, Progress, Apart, [Next]_vars, NEW q \in Runs PROVE IsApart(q)'
  BY DEF Apart
<1>0. IsApart(q) /\ \A id : Own(q, id) => OwnNext(q, id)
  BY OwnStays DEF Apart
<1>1. ASSUME at'[q].id = at[q].id \/ at'[q].id = 0,
             ships'[q] = ships[q], vehicles'[q] = vehicles[q], list' = list
      PROVE  IsApart(q)'
  BY <1>0, <1>1 DEF IsApart, Own, OwnNext
<1>2. ASSUME NEW r \in Runs, StartScenario(r) PROVE IsApart(q)'
  BY <1>1, <1>2, StartAt DEF StartScenario
<1>3. ASSUME NEW r \in Runs, Judge(r) PROVE IsApart(q)'
  BY <1>1, <1>3, JudgeAt DEF Judge
<1>4. ASSUME NEW r \in Runs, LogRaises(r) PROVE IsApart(q)'
  BY <1>1, <1>4, RaiseAt DEF LogRaises
<1>5. ASSUME NEW r \in Runs, NEW fate \in Fates, Send(r, fate) PROVE IsApart(q)'
  <2> DEFINE id == IdAfter(r, CodeOf(r, fate))
  <2>1. list' = list /\ at[r].step \in 1 .. 3
    BY <1>5 DEF Send
  <2>2. CASE q # r
    <3>1. at'[q] = at[q]
      BY <1>5, <2>2, SendAt
    <3>2. ships'[q] = ships[q] /\ vehicles'[q] = vehicles[q]
      BY <1>5, <2>2, StoreIs
    <3> QED
      BY <1>1, <2>1, <3>1, <3>2
  <2>3. CASE q = r
    <3>1. at'[q].id = id
      BY <1>5, <2>3, SendAt
    <3>2. id # 0 => OwnNext(q, id)
      BY <1>0, <1>5, <2>3, NewIdIsOwn
    <3> HIDE DEF id
    <3>3. \A e \in Range(ships'[q]) : OwnNext(q, e.id)
      <4>1. CASE id = 0
        <5>1. ships' = ships
          BY <1>5, <4>1, StoreIs DEF id
        <5> QED
          BY <1>0, <5>1 DEF IsApart
      <4>2. CASE id # 0
        <5>1. PICK e \in ShipEntity : e.id = id /\ ships'[q] = Put(ships[q], e)
          BY <1>5, <2>3, <4>2, StoreIs DEF id
        <5>2. ships[q] \in Seq(ShipEntity)
          BY DEF TypeOK
        <5>3. \A x \in Range(ships'[q]) : x.id = id \/ \E y \in Range(ships[q]) : x.id = y.id
          <6>1. \A x \in Range(Put(ships[q], e)) :
                  x.id = e.id \/ \E y \in Range(ships[q]) : x.id = y.id
            BY <5>2, PutIds
          <6> QED
            BY <5>1, <6>1
        <5> QED
          BY <1>0, <3>2, <4>2, <5>3 DEF IsApart
      <4> QED
        BY <4>1, <4>2
    <3>4. \A e \in Range(vehicles'[q]) : \E c \in Range(list'[q]) : c.vehicle = e.id
      <4>1. CASE vehicles' = vehicles
        BY <1>0, <2>1, <4>1 DEF IsApart
      <4>2. CASE vehicles' # vehicles
        <5>1. PICK e \in VehicleEntity : e.id = Current(q).vehicle
                                         /\ vehicles'[q] = Put(vehicles[q], e)
          BY <1>5, <2>3, <4>2, StoreIs
        <5>2. vehicles[q] \in Seq(VehicleEntity)
          BY DEF TypeOK
        <5>3. \A x \in Range(vehicles'[q]) :
                x.id = Current(q).vehicle \/ \E y \in Range(vehicles[q]) : x.id = y.id
          BY <5>1, <5>2, PutIds
        <5>4. Current(q) \in Range(list[q])
          BY <2>1, <2>3, CurrentIsCase DEF Judging
        <5> QED
          BY <1>0, <2>1, <5>3, <5>4 DEF IsApart
      <4> QED
        BY <4>1, <4>2
    <3> QED
      BY <3>1, <3>2, <3>3, <3>4 DEF IsApart, Own, OwnNext
  <2> QED
    BY <2>2, <2>3
<1>6. CASE UNCHANGED vars
  BY <1>1, <1>6 DEF vars
<1> QED
  BY <1>2, <1>3, <1>4, <1>5, <1>6, StepsAre

LEMMA ApartInit == Init => Apart
<1> SUFFICES ASSUME Init, NEW r \in Runs PROVE IsApart(r)
  BY DEF Apart
<1>1. at[r].id = 0 /\ ships[r] = <<>> /\ vehicles[r] = <<>>
  BY DEF Init, Start
<1>2. Range(<<>>) = {}
  BY DEF Range
<1> QED
  BY <1>1, <1>2 DEF IsApart

LEMMA ApartHolds == Spec => []Apart
BY ApartInit, ApartStep, TypeCorrect, ProgressHolds, PTL DEF Spec

(* The store of a run never has a shipment that another run created, nor a *)
(* vehicle of none of its scenarios, however many runs share the API.      *)
THEOREM RunsKeepApart == Spec => []RunsAreIsolated
<1>1. Apart => RunsAreIsolated
  BY DEF Apart, IsApart, Own, RunsAreIsolated
<1> QED
  BY <1>1, ApartHolds, PTL

----------------------------------------------------------------------------
(* No request without ground.                                              *)

StatusNeeded(r) ==
  IF StepOf(r) = "dispatch" /\ ShouldAssign(Current(r)) THEN "ASSIGNED" ELSE "CREATED"

HasGround(r) ==
  at[r].step \in 2 .. 3 =>
    Own(r, at[r].id) /\ shipments[at[r].id].status = StatusNeeded(r)

Ground == \A r \in Runs : HasGround(r)

(* Another run's request is about a shipment of that run.                  *)
LEMMA OthersKeepGround ==
  ASSUME TypeOK, Progress, Apart, NEW r \in Runs, NEW fate \in Fates, Send(r, fate),
         NEW q \in Runs \ {r}, HasGround(q)
  PROVE  HasGround(q)'
<1>1. at'[q] = at[q] /\ list' = list /\ verdicts' = verdicts
  BY SendAt DEF Send
<1>2. StatusNeeded(q)' = StatusNeeded(q)
  BY <1>1 DEF StatusNeeded, StepOf, Current
<1>3. ASSUME at[q].step \in 2 .. 3
      PROVE  /\ at[q].id \in DOMAIN shipments'
             /\ shipments'[at[q].id] = shipments[at[q].id]
  <2>1. at[q].id \in DOMAIN shipments /\ shipments[at[q].id].by = q
    BY <1>3 DEF HasGround, Own
  <2>2. at[q].id # 0
    BY <2>1, LenProperties DEF TypeOK
  <2>3. at[r].id # 0 => shipments[at[r].id].by = r
    BY DEF Apart, IsApart, Own
  <2>4. at[q].id # at[r].id
    BY <2>1, <2>2, <2>3
  <2> QED
    BY <2>1, <2>4, ShipmentsAre
<1> QED
  BY <1>1, <1>2, <1>3 DEF HasGround, Own

(* The run's own request brings its shipment to where the next one needs   *)
(* it, or the executor stops.                                              *)
LEMMA SenderKeepsGround ==
  ASSUME TypeOK, Progress, Apart, NEW r \in Runs, NEW fate \in Fates, Send(r, fate),
         HasGround(r)
  PROVE  HasGround(r)'
<1> DEFINE code == CodeOf(r, fate)
<1>1. SUFFICES ASSUME at'[r].step \in 2 .. 3 PROVE HasGround(r)'
  BY DEF HasGround
<1>2. /\ at[r].step \in 1 .. 3 /\ list' = list /\ verdicts' = verdicts
      /\ at'[r].step = at[r].step + 1 /\ at'[r].id = IdAfter(r, code)
      /\ GoesOn(Current(r), StepOf(r), code) /\ at[r].step < Len(Plan(Current(r)))
  <2>1. at[r].step \in 1 .. 3 /\ list' = list /\ verdicts' = verdicts
    BY DEF Send
  <2>2. at'[r].step # Judging
    BY <1>1 DEF Judging
  <2> QED
    BY <2>1, <2>2, SendAt
<1>3. Current(r)' = Current(r)
  BY <1>2 DEF Current
<1>4. \/ at[r].step = 1 /\ StepOf(r) = "create"
      \/ at[r].step = 2 /\ StepOf(r) = "assign" /\ ShouldAssign(Current(r))
  BY <1>2, StepIs
<1>5. CASE at[r].step = 1 /\ StepOf(r) = "create"
  <2>1. Ok(code)
    BY <1>2, <1>5 DEF GoesOn, ExpectedStatus, Ok
  <2>2. at'[r].id = Len(shipments) + 1
    BY <1>2, <1>5, <2>1 DEF IdAfter
  <2>3. StatusNeeded(r)' = "CREATED"
    <3>1. StepOf(r)' = Plan(Current(r))[2]
      BY <1>2, <1>3, <1>5 DEF StepOf
    <3>2. ShouldAssign(Current(r)) => StepOf(r)' = "assign"
      BY <3>1, PlanSteps
    <3>3. ShouldAssign(Current(r))' = ShouldAssign(Current(r))
      BY <1>3 DEF ShouldAssign
    <3> QED
      BY <3>2, <3>3 DEF StatusNeeded
  <2>4. /\ Len(shipments) + 1 \in DOMAIN shipments'
        /\ shipments'[Len(shipments) + 1].by = r
        /\ shipments'[Len(shipments) + 1].status = "CREATED"
    BY <1>5, <2>1, ShipmentsAre
  <2> QED
    BY <2>2, <2>3, <2>4 DEF HasGround, Own
<1>6. CASE at[r].step = 2 /\ StepOf(r) = "assign" /\ ShouldAssign(Current(r))
  <2>1. Ok(code)
    BY <1>2, <1>6 DEF GoesOn, ExpectedStatus, Ok
  <2>2. at'[r].id = at[r].id
    BY <1>2, <1>6 DEF IdAfter
  <2>3. StatusNeeded(r)' = "ASSIGNED"
    <3>1. StepOf(r)' = Plan(Current(r))[3]
      BY <1>2, <1>3, <1>6 DEF StepOf
    <3>2. StepOf(r)' = "dispatch"
      BY <1>6, <3>1, PlanSteps
    <3>3. ShouldAssign(Current(r))'
      BY <1>3, <1>6 DEF ShouldAssign
    <3> QED
      BY <3>2, <3>3 DEF StatusNeeded
  <2>4. shipments'[at[r].id].status = "ASSIGNED"
    BY <1>6, <2>1, ShipmentsAre
  <2>5. at[r].id \in DOMAIN shipments' /\ shipments'[at[r].id].by = r
    BY <1>6, ShipmentsAre DEF HasGround, Own
  <2> QED
    BY <2>2, <2>3, <2>4, <2>5 DEF HasGround, Own
<1> QED
  BY <1>4, <1>5, <1>6

LEMMA GroundStep == TypeOK /\ Progress /\ Apart /\ Ground /\ [Next]_vars => Ground'
<1> SUFFICES ASSUME TypeOK, Progress, Apart, Ground, [Next]_vars, NEW q \in Runs
             PROVE  HasGround(q)'
  BY DEF Ground
<1>0. HasGround(q)
  BY DEF Ground
<1>1. ASSUME at'[q] = at[q] \/ at'[q].step \notin 2 .. 3,
             UNCHANGED shipments, at'[q] = at[q] => verdicts'[q] = verdicts[q],
             list' = list
      PROVE  HasGround(q)'
  <2>1. CASE at'[q].step \notin 2 .. 3
    BY <2>1 DEF HasGround
  <2>2. CASE at'[q] = at[q]
    BY <1>0, <1>1, <2>2 DEF HasGround, StatusNeeded, StepOf, Current, Own
  <2> QED
    BY <1>1, <2>1, <2>2
<1>2. ASSUME NEW r \in Runs, StartScenario(r) PROVE HasGround(q)'
  BY <1>1, <1>2, StartAt DEF StartScenario
<1>3. ASSUME NEW r \in Runs, Judge(r) PROVE HasGround(q)'
  <2>1. q # r => at'[q] = at[q] /\ verdicts'[q] = verdicts[q]
    BY <1>3, JudgeAt
  <2>2. q = r => at'[q].step \notin 2 .. 3
    BY <1>3, JudgeAt DEF Idle
  <2>3. shipments' = shipments /\ list' = list
    BY <1>3 DEF Judge
  <2>4. CASE q = r
    BY <2>2, <2>4 DEF HasGround
  <2> QED
    BY <1>1, <2>1, <2>3, <2>4
<1>4. ASSUME NEW r \in Runs, LogRaises(r) PROVE HasGround(q)'
  BY <1>1, <1>4, RaiseAt DEF LogRaises, Raised
<1>5. ASSUME NEW r \in Runs, NEW fate \in Fates, Send(r, fate) PROVE HasGround(q)'
  BY <1>0, <1>5, OthersKeepGround, SenderKeepsGround
<1>6. CASE UNCHANGED vars
  BY <1>1, <1>6 DEF vars
<1> QED
  BY <1>2, <1>3, <1>4, <1>5, <1>6, StepsAre

LEMMA GroundHolds == Spec => []Ground
<1>1. Init => Ground
  BY DEF Init, Ground, HasGround, Start, Idle
<1> QED
  BY <1>1, GroundStep, TypeCorrect, ProgressHolds, ApartHolds, PTL DEF Spec

(* No request for a shipment is sent unless the run created the shipment   *)
(* and brought it to the status the plan counts on, whatever other runs do *)
(* on the API and whatever is lost on the way.                             *)
THEOREM NoRequestWithoutGround == Spec => []RequestsHaveGround
<1>1. Ground => RequestsHaveGround
  BY DEF Ground, HasGround, Own, StatusNeeded, StepOf, RequestsHaveGround
<1> QED
  BY <1>1, GroundHolds, PTL

----------------------------------------------------------------------------
(* Which shipment a verdict is about.                                      *)

\* The shipment at hand is the last one in the store, and all the others are
\* those of scenarios that were judged.
StoreInOrder(r) ==
  /\ at[r].id # 0 => /\ Len(ships[r]) \in DOMAIN ships[r]
                     /\ ships[r][Len(ships[r])].id = at[r].id
  /\ \A e \in Range(ships[r]) :
       e.id = at[r].id \/ \E j \in DOMAIN verdicts[r] : verdicts[r][j].own = e.id

OnOwn(r) ==
  \A i \in DOMAIN verdicts[r] :
    verdicts[r][i].own # 0 /\ (~redis \/ FirstShipment(r, i)) =>
      verdicts[r][i].judged = verdicts[r][i].own

Judged(r) == StoreInOrder(r) /\ OnOwn(r)

(* A request for the shipment at hand leaves it at the end of the store,   *)
(* and a created one goes there.                                           *)
LEMMA SendInOrder ==
  ASSUME TypeOK, Progress, Apart, NEW r \in Runs, NEW fate \in Fates, Send(r, fate),
         StoreInOrder(r)
  PROVE  StoreInOrder(r)'
<1> DEFINE code == CodeOf(r, fate)
           id == IdAfter(r, code)
<1>1. /\ at'[r].id = id /\ verdicts' = verdicts /\ at[r].step \in 1 .. 3
      /\ ships[r] \in Seq(ShipEntity) /\ Len(ships[r]) \in Nat
      /\ DOMAIN ships[r] = 1 .. Len(ships[r])
  BY SendAt, LenProperties DEF Send, TypeOK
<1>2. at[r].step = 1 => at[r].id = 0
  BY DEF Progress, InProgress
<1>3. at[r].step = 1 <=> StepOf(r) = "create"
  BY <1>1, StepIs
<1>4. CASE id = 0
  <2>1. ships' = ships
    BY <1>4, StoreIs
  <2>2. at[r].id = 0
    BY <1>2, <1>3, <1>4 DEF IdAfter
  <2> QED
    BY <1>1, <1>4, <2>1, <2>2 DEF StoreInOrder
<1>5. CASE id # 0 /\ StepOf(r) # "create"
  <2>1. id = at[r].id
    BY <1>5 DEF IdAfter
  <2>2. PICK e \in ShipEntity : e.id = id /\ ships'[r] = Put(ships[r], e)
    BY <1>5, StoreIs
  <2>3. /\ Len(ships[r]) \in DOMAIN ships[r]
        /\ ships[r][Len(ships[r])].id = e.id
    BY <1>5, <2>1, <2>2 DEF StoreInOrder
  <2>4. /\ Len(Put(ships[r], e)) = Len(ships[r])
        /\ DOMAIN Put(ships[r], e) = DOMAIN ships[r]
        /\ \A i \in DOMAIN ships[r] : Put(ships[r], e)[i].id = ships[r][i].id
    BY <1>1, <2>2, <2>3, PutKnown
  <2>5. /\ Len(ships'[r]) \in DOMAIN ships'[r] /\ ships'[r][Len(ships'[r])].id = id
        /\ \A i \in DOMAIN ships'[r] : i \in DOMAIN ships[r] /\ ships'[r][i].id = ships[r][i].id
    BY <2>2, <2>3, <2>4
  <2>6. \A x \in Range(ships'[r]) : \E y \in Range(ships[r]) : x.id = y.id
    BY <2>5 DEF Range
  <2> HIDE DEF id
  <2> QED
    BY <1>1, <2>1, <2>5, <2>6 DEF StoreInOrder
<1>6. CASE id # 0 /\ StepOf(r) = "create"
  <2>1. id = Len(shipments) + 1 /\ at[r].id = 0
    BY <1>2, <1>3, <1>6 DEF IdAfter
  <2>2. PICK e \in ShipEntity : e.id = id /\ ships'[r] = Put(ships[r], e)
    BY <1>6, StoreIs
  <2>3. ~\E i \in DOMAIN ships[r] : ships[r][i].id = e.id
    <3>1. \A i \in DOMAIN ships[r] : ships[r][i].id \in DOMAIN shipments
      BY DEF Apart, IsApart, Own, Range
    <3>2. Len(shipments) + 1 \notin DOMAIN shipments
      BY LenProperties DEF TypeOK
    <3> QED
      BY <2>1, <2>2, <3>1, <3>2
  <2>4. /\ Put(ships[r], e) \in Seq(ShipEntity)
        /\ Len(Put(ships[r], e)) = Len(ships[r]) + 1
        /\ \A i \in DOMAIN ships[r] : Put(ships[r], e)[i] = ships[r][i]
        /\ Put(ships[r], e)[Len(ships[r]) + 1] = e
    <3>1. ships[r] \in Seq(ShipEntity) /\ e \in ShipEntity
      BY <1>1, <2>2
    <3> QED
      BY <2>3, <3>1, PutNew
  <2>5. Len(ships'[r]) \in DOMAIN ships'[r] /\ ships'[r][Len(ships'[r])].id = id
    BY <1>1, <2>2, <2>4, LenProperties
  <2>6. \A x \in Range(ships'[r]) : x.id = id \/ \E y \in Range(ships[r]) : x.id = y.id
    <3>1. \A x \in Range(Put(ships[r], e)) :
            x.id = e.id \/ \E y \in Range(ships[r]) : x.id = y.id
      <4>1. ships[r] \in Seq(ShipEntity) /\ e \in ShipEntity
        BY <1>1, <2>2
      <4> QED
        BY <4>1, PutIds
    <3> QED
      BY <2>2, <3>1
  <2>7. \A y \in Range(ships[r]) : y.id # 0
    <3>1. \A i \in DOMAIN ships[r] : ships[r][i] \in ShipEntity
      BY <1>1
    <3> QED
      BY <3>1 DEF Range, ShipEntity
  <2> HIDE DEF id
  <2> QED
    BY <1>1, <2>1, <2>5, <2>6, <2>7 DEF StoreInOrder
<1> QED
  BY <1>4, <1>5, <1>6

(* The entity a verdict is about is the one at hand: in memory because it  *)
(* is the last one, in Redis where it is the only one.                     *)
LEMMA JudgedIsOwn ==
  ASSUME TypeOK, NEW r \in Runs, StoreInOrder(r), at[r].id # 0,
         ~redis \/ \A j \in DOMAIN verdicts[r] : verdicts[r][j].own = 0,
         NEW ship \in LastOf(ships[r], NoShip)
  PROVE  ship.id = at[r].id
<1>1. ships[r] # <<>> /\ Len(ships[r]) \in DOMAIN ships[r]
  BY DEF StoreInOrder
<1>2. CASE ~redis
  <2>1. ship = ships[r][Len(ships[r])]
    BY <1>1, <1>2 DEF LastOf, Last
  <2> QED
    BY <2>1 DEF StoreInOrder
<1>3. CASE redis
  <2>1. ship \in Range(ships[r])
    BY <1>1, <1>3 DEF LastOf
  <2>2. \A i \in DOMAIN ships[r] : ships[r][i] \in ShipEntity
    BY LenProperties DEF TypeOK
  <2>3. ship.id # 0
    BY <2>1, <2>2 DEF Range, ShipEntity
  <2> QED
    BY <1>3, <2>1, <2>3 DEF StoreInOrder
<1> QED
  BY <1>2, <1>3

LEMMA JudgeKeeps ==
  ASSUME TypeOK, Progress, NEW r \in Runs, Judge(r), Judged(r)
  PROVE  Judged(r)'
<1> DEFINE n == Len(verdicts[r])
<1>1. /\ n \in Nat /\ DOMAIN verdicts[r] = 1 .. n
      /\ DOMAIN verdicts'[r] = 1 .. n + 1
      /\ \A i \in 1 .. n : verdicts'[r][i] = verdicts[r][i]
      /\ verdicts'[r][n + 1].own = at[r].id
      /\ at'[r].id = 0
  <2>1. verdicts[r] \in Seq(VerdictOf)
    BY DEF TypeOK, VerdictOf
  <2>2. verdicts'[r] \in Seq(VerdictOf) /\ Len(verdicts'[r]) = n + 1
    BY JudgeAt
  <2> QED
    BY <2>1, <2>2, JudgeAt, LenProperties
<1>2. PICK ship \in LastOf(ships[r], NoShip) : verdicts'[r][n + 1].judged = ship.id
  BY JudgeAt
<1>3. ships' = ships /\ redis' = redis
  BY DEF Judge
<1> HIDE DEF n
<1>4. StoreInOrder(r)'
  <2>1. ASSUME NEW e \in Range(ships[r])
        PROVE  \E j \in DOMAIN verdicts'[r] : verdicts'[r][j].own = e.id
    <3>1. CASE e.id = at[r].id
      BY <1>1, <3>1
    <3>2. CASE e.id # at[r].id
      <4>1. PICK j \in DOMAIN verdicts[r] : verdicts[r][j].own = e.id
        BY <2>1, <3>2 DEF Judged, StoreInOrder
      <4>2. j \in 1 .. n + 1 /\ j \in 1 .. n
        BY <1>1, <4>1
      <4> QED
        BY <1>1, <4>1, <4>2
    <3> QED
      BY <3>1, <3>2
  <2> QED
    BY <1>1, <1>3, <2>1 DEF StoreInOrder
<1>5. ASSUME NEW i \in 1 .. n + 1,
             verdicts'[r][i].own # 0, ~redis \/ FirstShipment(r, i)'
      PROVE  verdicts'[r][i].judged = verdicts'[r][i].own
  <2>1. CASE i \in 1 .. n
    <3>1. FirstShipment(r, i)' => FirstShipment(r, i)
      <4>1. \A j \in 1 .. i - 1 : j \in 1 .. n
        BY <1>1, <2>1
      <4> QED
        BY <1>1, <4>1 DEF FirstShipment
    <3> QED
      BY <1>1, <1>5, <2>1, <3>1 DEF Judged, OnOwn
  <2>2. CASE i = n + 1
    <3>1. at[r].id # 0
      BY <1>1, <1>5, <2>2
    <3>2. ~redis \/ \A j \in DOMAIN verdicts[r] : verdicts[r][j].own = 0
      <4>1. i - 1 = n
        BY <1>1, <2>2
      <4> QED
        BY <1>1, <1>5, <4>1 DEF FirstShipment
    <3>3. ship.id = at[r].id
      BY <1>2, <3>1, <3>2, JudgedIsOwn DEF Judged
    <3> QED
      BY <1>1, <1>2, <2>2, <3>3
  <2> QED
    BY <1>1, <2>1, <2>2
<1> QED
  BY <1>1, <1>3, <1>4, <1>5 DEF Judged, OnOwn

JudgedAll == \A r \in Runs : Judged(r)

LEMMA JudgedStep == TypeOK /\ Progress /\ Apart /\ JudgedAll /\ [Next]_vars => JudgedAll'
<1> SUFFICES ASSUME TypeOK, Progress, Apart, JudgedAll, [Next]_vars, NEW q \in Runs
             PROVE  Judged(q)'
  BY DEF JudgedAll
<1>0. Judged(q)
  BY DEF JudgedAll
<1>1. ASSUME verdicts'[q] = verdicts[q], ships'[q] = ships[q], at'[q].id = at[q].id,
             redis' = redis
      PROVE  Judged(q)'
  BY <1>0, <1>1 DEF Judged, StoreInOrder, OnOwn, FirstShipment
<1>2. ASSUME NEW r \in Runs, StartScenario(r) PROVE Judged(q)'
  <2>1. at'[q].id = at[q].id
    <3>1. CASE q = r
      <4>1. at[q].id = 0
        BY <1>2, <3>1 DEF StartScenario, Progress, InProgress
      <4> QED
        BY <1>2, <3>1, <4>1, StartAt
    <3>2. CASE q # r
      BY <1>2, <3>2, StartAt
    <3> QED
      BY <3>1, <3>2
  <2> QED
    BY <1>1, <1>2, <2>1 DEF StartScenario
<1>3. ASSUME NEW r \in Runs, Judge(r) PROVE Judged(q)'
  <2>1. CASE q = r
    BY <1>0, <1>3, <2>1, JudgeKeeps
  <2>2. CASE q # r
    BY <1>1, <1>3, <2>2, JudgeAt DEF Judge
  <2> QED
    BY <2>1, <2>2
<1>4. ASSUME NEW r \in Runs, LogRaises(r) PROVE Judged(q)'
  <2>1. at'[q].id = at[q].id
    BY <1>4, RaiseAt
  <2> QED
    BY <1>1, <1>4, <2>1 DEF LogRaises
<1>5. ASSUME NEW r \in Runs, NEW fate \in Fates, Send(r, fate) PROVE Judged(q)'
  <2>1. redis' = redis /\ verdicts' = verdicts
    BY <1>5 DEF Send
  <2>2. CASE q = r
    <3>1. StoreInOrder(q)'
      BY <1>0, <1>5, <2>2, SendInOrder DEF Judged
    <3>2. OnOwn(q)'
      BY <1>0, <2>1 DEF Judged, OnOwn, FirstShipment
    <3> QED
      BY <3>1, <3>2 DEF Judged
  <2>3. CASE q # r
    <3>1. at'[q] = at[q] /\ ships'[q] = ships[q]
      BY <1>5, <2>3, SendAt, StoreIs
    <3> QED
      BY <1>1, <2>1, <3>1
  <2> QED
    BY <2>2, <2>3
<1>6. CASE UNCHANGED vars
  BY <1>1, <1>6 DEF vars
<1> QED
  BY <1>2, <1>3, <1>4, <1>5, <1>6, StepsAre

LEMMA JudgedHolds == Spec => []JudgedAll
<1>1. Init => JudgedAll
  <2> SUFFICES ASSUME Init, NEW r \in Runs PROVE Judged(r)
    BY DEF JudgedAll
  <2>1. at[r].id = 0 /\ ships[r] = <<>> /\ verdicts[r] = <<>>
    BY DEF Init, Start
  <2> QED
    BY <2>1 DEF Judged, StoreInOrder, OnOwn, Range
<1> QED
  BY <1>1, JudgedStep, TypeCorrect, ProgressHolds, ApartHolds, PTL DEF Spec

(* A scenario that got a shipment is judged by that shipment's state: for  *)
(* every scenario of a run with the store in memory, for the first one     *)
(* that got a shipment with the store in Redis (resolver.py).              *)
THEOREM JudgedByOwnShipment == Spec => []VerdictIsOnOwnShipment
<1>1. JudgedAll => VerdictIsOnOwnShipment
  BY DEF JudgedAll, Judged, OnOwn, VerdictIsOnOwnShipment
<1> QED
  BY <1>1, JudgedHolds, PTL

----------------------------------------------------------------------------
(* The store follows the API.                                              *)

\* What the store has of a shipment is what the API has, or older.
Follows(e, all) ==
  /\ e.id \in DOMAIN all
  /\ ~network => e.status = Str(all[e.id].status)
  /\ e.dispatched # None => all[e.id].status = "DISPATCHED"
  /\ e.status = Str("ASSIGNED") => all[e.id].status # "CREATED"

InStep == \A r \in Runs : \A e \in Range(ships[r]) : Follows(e, shipments)

(* What is stored again takes the place of what had its id.                *)
LEMMA PutElements ==
  ASSUME NEW T, NEW entities \in Seq(T), NEW e \in T
  PROVE  /\ \A x \in Range(Put(entities, e)) :
              x = e \/ (x \in Range(entities) /\ x.id # e.id)
         /\ e \in Range(Put(entities, e))
<1>1. CASE \E i \in DOMAIN entities : entities[i].id = e.id
  <2>1. Put(entities, e)
          = [i \in DOMAIN entities |-> IF entities[i].id = e.id THEN e ELSE entities[i]]
    BY <1>1 DEF Put
  <2> QED
    BY <1>1, <2>1 DEF Range
<1>2. CASE ~\E i \in DOMAIN entities : entities[i].id = e.id
  <2>1. /\ Len(entities) \in Nat /\ DOMAIN entities = 1 .. Len(entities)
        /\ DOMAIN Put(entities, e) = 1 .. Len(entities) + 1
    BY <1>2, PutNew, LenProperties
  <2>2. \A i \in 1 .. Len(entities) + 1 : i \in 1 .. Len(entities) \/ i = Len(entities) + 1
    BY <2>1
  <2>3. /\ \A i \in DOMAIN entities : Put(entities, e)[i] = entities[i]
        /\ Put(entities, e)[Len(entities) + 1] = e
    BY <1>2, PutNew
  <2> QED
    BY <1>2, <2>1, <2>2, <2>3 DEF Range
<1> QED
  BY <1>1, <1>2

(* What is known of an entity that the store has is that entity.           *)
LEMMA KnownIsStored ==
  ASSUME NEW entities, NEW id, NEW default, \E i \in DOMAIN entities : entities[i].id = id
  PROVE  /\ Known(entities, id, default) \in Range(entities)
         /\ Known(entities, id, default).id = id
BY DEF Known, Range

(* An accepted assignment, and an accepted dispatch; nothing else touches  *)
(* a shipment that there was.                                              *)
LEMMA ServedMoves ==
  ASSUME TypeOK, NEW r \in Runs, NEW c \in Cases, NEW step \in StepNames, NEW id
  PROVE  LET new  == Served(r, c, step, id)
             code == Code(c, step, id)
         IN  /\ code \notin {200, 201} => new = shipments
             /\ step = "create" /\ code = 201 =>
                  new[Len(shipments) + 1].weight = c.weight[2]
             /\ step = "create" => \A i \in DOMAIN shipments : new[i] = shipments[i]
             /\ step = "assign" /\ code = 200 =>
                  /\ id \in DOMAIN shipments /\ shipments[id].status = "CREATED"
                  /\ new[id].status = "ASSIGNED" /\ new[id].weight = shipments[id].weight
                  /\ new[id].capacity = Capacity[c.vehicle]
             /\ step = "dispatch" /\ code = 200 =>
                  /\ id \in DOMAIN shipments /\ shipments[id].status = "ASSIGNED"
                  /\ new[id].status = "DISPATCHED" /\ new[id].weight = shipments[id].weight
                  /\ new[id].capacity = shipments[id].capacity
<1> DEFINE new == Served(r, c, step, id)
           code == Code(c, step, id)
<1>1. /\ shipments \in Seq(Shipment) /\ Len(shipments) \in Nat
      /\ DOMAIN shipments = 1 .. Len(shipments)
      /\ \A i \in DOMAIN shipments : shipments[i] \in Shipment
  BY LenProperties DEF TypeOK
<1>2. code \notin {200, 201} => new = shipments
  BY DEF Served
<1>3. CASE step = "create"
  <2> DEFINE s == [status |-> "CREATED", weight |-> c.weight[2], capacity |-> 0, by |-> r]
  <2>1. code # 200
    BY <1>3, CodeIs
  <2>2. CASE code = 201
    <3>1. s \in Shipment /\ s.weight = c.weight[2]
      BY <1>3, <2>2, CodeIs DEF Shipment, Statuses
    <3>2. new = Append(shipments, s)
      BY <1>3, <2>2 DEF Served
    <3> HIDE DEF s
    <3>3. /\ new[Len(shipments) + 1] = s
          /\ \A i \in DOMAIN shipments : new[i] = shipments[i]
      BY <1>1, <3>1, <3>2, AppendProperties
    <3> QED
      BY <1>3, <2>2, <3>1, <3>3
  <2> QED
    BY <1>2, <1>3, <2>1, <2>2
<1>4. CASE step = "assign"
  <2>1. CASE code = 200
    <3>1. id \in DOMAIN shipments
      BY <2>1, CodeIs
    <3>2. shipments[id].status = "CREATED"
      BY <1>4, <2>1 DEF Code
    <3>3. new = [shipments EXCEPT ![id].status = "ASSIGNED",
                                  ![id].capacity = Capacity[c.vehicle]]
      BY <1>4, <2>1 DEF Served
    <3>4. /\ new[id].status = "ASSIGNED" /\ new[id].weight = shipments[id].weight
          /\ new[id].capacity = Capacity[c.vehicle]
      BY <1>1, <3>1, <3>3 DEF Shipment
    <3> QED
      BY <1>4, <2>1, <3>1, <3>2, <3>4
  <2> QED
    BY <1>2, <1>4, <2>1, CodeIs
<1>5. CASE step = "dispatch"
  <2>1. CASE code = 200
    <3>1. id \in DOMAIN shipments /\ shipments[id].status = "ASSIGNED"
      BY <1>5, <2>1, CodeIs
    <3>2. new = [shipments EXCEPT ![id].status = "DISPATCHED"]
      BY <1>5, <2>1 DEF Served
    <3>3. /\ new[id].status = "DISPATCHED" /\ new[id].weight = shipments[id].weight
          /\ new[id].capacity = shipments[id].capacity
      BY <1>1, <3>1, <3>2 DEF Shipment
    <3> QED
      BY <1>5, <2>1, <3>1, <3>3
  <2> QED
    BY <1>2, <1>5, <2>1, CodeIs
<1> QED
  BY <1>3, <1>4, <1>5 DEF StepNames

(* A shipment's status only advances, and after its dispatch nothing of it *)
(* changes any more.                                                       *)
LEMMA StatusAdvances ==
  ASSUME TypeOK, Progress, NEW r \in Runs, NEW fate \in Fates, Send(r, fate)
  PROVE  \A i \in DOMAIN shipments :
           /\ i \in DOMAIN shipments'
           /\ shipments[i].status # "CREATED" => shipments'[i].status # "CREATED"
           /\ shipments[i].status = "DISPATCHED" => shipments'[i] = shipments[i]
           /\ shipments'[i].weight = shipments[i].weight
<1> SUFFICES ASSUME NEW i \in DOMAIN shipments
             PROVE  /\ i \in DOMAIN shipments'
                    /\ shipments[i].status # "CREATED" => shipments'[i].status # "CREATED"
                    /\ shipments[i].status = "DISPATCHED" => shipments'[i] = shipments[i]
                    /\ shipments'[i].weight = shipments[i].weight
  OBVIOUS
<1>1. Current(r) \in Cases /\ StepOf(r) \in StepNames
  BY CurrentIsCase, StepIs DEF Send, Judging
<1>2. i \in DOMAIN shipments' /\ (i # at[r].id => shipments'[i] = shipments[i])
  BY ShipmentsAre
<1>3. shipments' = shipments \/ shipments' = Served(r, Current(r), StepOf(r), at[r].id)
  BY DEF Send
<1>4. CASE shipments' = shipments
  BY <1>2, <1>4
<1>5. CASE shipments' = Served(r, Current(r), StepOf(r), at[r].id)
  <2> DEFINE code == Code(Current(r), StepOf(r), at[r].id)
  <2>1. code \in {200, 201} \/ code \notin {200, 201}
    OBVIOUS
  <2>2. CASE code \notin {200, 201}
    <3>1. shipments' = shipments
      BY <1>1, <1>5, <2>2, ServedMoves
    <3> QED
      BY <1>4, <3>1
  <2>3. CASE code \in {200, 201} /\ StepOf(r) = "create"
    <3>1. shipments'[i] = shipments[i]
      BY <1>1, <1>5, <2>3, ServedMoves
    <3> QED
      BY <1>2, <3>1
  <2>4. CASE code \in {200, 201} /\ StepOf(r) # "create"
    <3>1. code = 200
      BY <1>1, <2>4, CodeIs
    <3>2. \/ /\ shipments[at[r].id].status = "CREATED"
             /\ shipments'[at[r].id].status = "ASSIGNED"
             /\ shipments'[at[r].id].weight = shipments[at[r].id].weight
          \/ /\ shipments[at[r].id].status = "ASSIGNED"
             /\ shipments'[at[r].id].status = "DISPATCHED"
             /\ shipments'[at[r].id].weight = shipments[at[r].id].weight
      <4>1. CASE StepOf(r) = "assign"
        BY <1>1, <1>5, <3>1, <4>1, ServedMoves
      <4>2. CASE StepOf(r) = "dispatch"
        BY <1>1, <1>5, <3>1, <4>2, ServedMoves
      <4> QED
        BY <1>1, <2>4, <4>1, <4>2 DEF StepNames
    <3> HIDE DEF code
    <3> QED
      BY <1>2, <3>2
  <2> QED
    BY <2>1, <2>2, <2>3, <2>4
<1> QED
  BY <1>3, <1>4, <1>5

(* What was stored before follows shipments that only advance, as long as  *)
(* it is not the one the request was about, or the request may be lost.    *)
LEMMA FollowsStays ==
  ASSUME TypeOK, Progress, NEW r \in Runs, NEW fate \in Fates, Send(r, fate),
         NEW e, Follows(e, shipments), network \/ shipments'[e.id] = shipments[e.id]
  PROVE  Follows(e, shipments')
<1>1. /\ e.id \in DOMAIN shipments /\ e.id \in DOMAIN shipments'
      /\ shipments[e.id].status # "CREATED" => shipments'[e.id].status # "CREATED"
      /\ shipments[e.id].status = "DISPATCHED" => shipments'[e.id] = shipments[e.id]
  BY StatusAdvances DEF Follows
<1> QED
  BY <1>1 DEF Follows

(* The run's own request: what it stores of its shipment is what the API   *)
(* has now, or what was known before.                                      *)
LEMMA PatchFollows ==
  ASSUME TypeOK, Progress, Apart, Ground, JudgedAll, InStep,
         NEW r \in Runs, NEW fate \in Fates, Send(r, fate),
         IdAfter(r, CodeOf(r, fate)) # 0
  PROVE  LET code == CodeOf(r, fate)
             id   == IdAfter(r, code)
         IN  Follows(ShipPatch(Known(ships[r], id, NoShip), id, StepOf(r), Ok(code)),
                     shipments')
<1> DEFINE code == CodeOf(r, fate)
           id   == IdAfter(r, code)
           old  == Known(ships[r], id, NoShip)
           p    == ShipPatch(old, id, StepOf(r), Ok(code))
<1>1. /\ at[r].step \in 1 .. 3 /\ fate \in Fates
      /\ fate = "served" \/ network
      /\ shipments' = IF fate = "unserved" THEN shipments
                      ELSE Served(r, Current(r), StepOf(r), at[r].id)
      /\ Current(r) \in Cases /\ StepOf(r) \in StepNames
  BY CurrentIsCase, StepIs DEF Send, Judging
<1>2. Ok(code) => /\ shipments' = Served(r, Current(r), StepOf(r), at[r].id)
                  /\ code = Code(Current(r), StepOf(r), at[r].id)
                  /\ code \in {200, 201}
  <2> SUFFICES ASSUME Ok(code)
               PROVE  /\ shipments' = Served(r, Current(r), StepOf(r), at[r].id)
                      /\ code = Code(Current(r), StepOf(r), at[r].id)
                      /\ code \in {200, 201}
    OBVIOUS
  <2>1. fate = "served" /\ code = Code(Current(r), StepOf(r), at[r].id)
    BY <1>1, AnswerIs
  <2> QED
    BY <1>1, <2>1 DEF Ok
<1>3. CASE StepOf(r) = "create"
  <2>1. Ok(code) /\ id = Len(shipments) + 1
    BY <1>3 DEF IdAfter
  <2>2. code = 201
    BY <1>1, <1>2, <1>3, <2>1, CodeIs
  <2>3. Len(shipments) + 1 \in DOMAIN shipments' /\ shipments'[id].status = "CREATED"
    BY <1>3, <2>1, ShipmentsAre
  <2>4. ~\E i \in DOMAIN ships[r] : ships[r][i].id = id
    <3>1. \A i \in DOMAIN ships[r] : ships[r][i].id \in DOMAIN shipments
      BY DEF Apart, IsApart, Own, Range
    <3>2. Len(shipments) + 1 \notin DOMAIN shipments
      BY LenProperties DEF TypeOK
    <3> QED
      BY <2>1, <3>1, <3>2
  <2>5. old = NoShip
    BY <2>4 DEF Known
  <2> HIDE DEF code, id, old
  <2>6. p.id = id /\ p.status = Str("CREATED") /\ p.dispatched = None
    BY <1>3, <2>1, <2>5 DEF ShipPatch, StatusAfter, NoShip
  <2> HIDE DEF p
  <2>7. Str("CREATED") # Str("ASSIGNED")
    BY DEF Str
  <2>8. Follows(p, shipments')
    BY <2>1, <2>3, <2>6, <2>7 DEF Follows
  <2> QED
    BY <2>8 DEF p, code, id, old
<1>4. CASE StepOf(r) # "create"
  <2>1. /\ id = at[r].id /\ at[r].step \in 2 .. 3
        /\ Own(r, id) /\ id \in DOMAIN shipments
        /\ shipments[id].status = StatusNeeded(r)
    <3>1. at[r].step # 1
      BY <1>1, <1>4, StepIs
    <3>2. id = at[r].id /\ at[r].step \in 2 .. 3
      BY <1>1, <1>4, <3>1 DEF IdAfter
    <3> QED
      BY <3>2 DEF Ground, HasGround, Own
  <2>2. old \in Range(ships[r]) /\ old.id = id
    <3>1. Len(ships[r]) \in DOMAIN ships[r] /\ ships[r][Len(ships[r])].id = id
      BY <2>1 DEF JudgedAll, Judged, StoreInOrder
    <3> HIDE DEF id
    <3> QED
      BY <3>1, KnownIsStored
  <2>3. Follows(old, shipments)
    BY <2>2 DEF InStep
  <2>4. id \in DOMAIN shipments'
    BY <2>1, ShipmentsAre
  <2>5. CASE ~Ok(code)
    <3>1. network \/ shipments' = shipments
      <4>1. CASE ~network
        <5>1. code = Code(Current(r), StepOf(r), at[r].id) /\ fate = "served"
          BY <1>1, <4>1 DEF CodeOf
        <5>2. Code(Current(r), StepOf(r), at[r].id) \notin {200, 201}
          BY <2>5, <5>1 DEF Ok
        <5> QED
          BY <1>1, <5>1, <5>2, ServedMoves
      <4> QED
        BY <4>1
    <3>2. Follows(old, shipments')
      BY <2>3, <3>1, FollowsStays
    <3> HIDE DEF code, id, old
    <3>3. p.id = old.id /\ p.status = old.status /\ p.dispatched = old.dispatched
      BY <2>2, <2>5 DEF ShipPatch
    <3> HIDE DEF p
    <3>4. Follows(p, shipments')
      BY <3>2, <3>3 DEF Follows
    <3> QED
      BY <3>4 DEF p, code, id, old
  <2>6. CASE Ok(code) /\ StepOf(r) = "assign"
    <3>1. code = 200
      BY <1>1, <1>2, <2>6, CodeIs
    <3>2. shipments[id].status = "CREATED" /\ shipments'[id].status = "ASSIGNED"
      BY <1>1, <1>2, <2>1, <2>6, <3>1, ServedMoves
    <3>3. old.dispatched = None
      BY <2>2, <2>3, <3>2 DEF Follows
    <3> HIDE DEF code, id, old
    <3>4. p.id = id /\ p.status = Str("ASSIGNED") /\ p.dispatched = None
      BY <2>6, <3>3 DEF ShipPatch, StatusAfter
    <3> HIDE DEF p
    <3>5. Follows(p, shipments')
      BY <2>4, <3>2, <3>4 DEF Follows
    <3> QED
      BY <3>5 DEF p, code, id, old
  <2>7. CASE Ok(code) /\ StepOf(r) = "dispatch"
    <3>1. code = 200
      BY <1>1, <1>2, <2>7, CodeIs
    <3>2. shipments'[id].status = "DISPATCHED"
      BY <1>1, <1>2, <2>1, <2>7, <3>1, ServedMoves
    <3> HIDE DEF code, id, old
    <3>3. p.id = id /\ p.status = Str("DISPATCHED")
      BY <2>7 DEF ShipPatch, StatusAfter
    <3> HIDE DEF p
    <3>4. Follows(p, shipments')
      BY <2>4, <3>2, <3>3 DEF Follows
    <3> QED
      BY <3>4 DEF p, code, id, old
  <2> QED
    BY <1>1, <1>4, <2>5, <2>6, <2>7 DEF StepNames
<1> QED
  BY <1>3, <1>4

(* A request moves the shipment of its run only.                           *)
LEMMA OthersFollow ==
  ASSUME TypeOK, Progress, Apart, NEW r \in Runs, NEW fate \in Fates, Send(r, fate),
         NEW q \in Runs, NEW e \in Range(ships[q]), Follows(e, shipments),
         e.id # at[r].id \/ q # r
  PROVE  Follows(e, shipments')
<1>1. Own(q, e.id) /\ (at[r].id # 0 => Own(r, at[r].id))
  BY DEF Apart, IsApart
<1>2. e.id # at[r].id
  <2>1. CASE q # r
    <3>1. e.id \in DOMAIN shipments => e.id # 0
      BY LenProperties DEF TypeOK
    <3> QED
      BY <1>1, <2>1, <3>1 DEF Own
  <2> QED
    BY <2>1
<1>3. shipments'[e.id] = shipments[e.id]
  BY <1>1, <1>2, ShipmentsAre DEF Own
<1> QED
  BY <1>3, FollowsStays

LEMMA InStepStep ==
  TypeOK /\ Progress /\ Apart /\ Ground /\ JudgedAll /\ InStep /\ [Next]_vars => InStep'
<1> SUFFICES ASSUME TypeOK, Progress, Apart, Ground, JudgedAll, InStep, [Next]_vars,
                    NEW q \in Runs, NEW x \in Range(ships'[q])
             PROVE  Follows(x, shipments)'
  BY DEF InStep
<1>1. ASSUME network' = network, Follows(x, shipments') PROVE Follows(x, shipments)'
  BY <1>1 DEF Follows
<1>2. ASSUME UNCHANGED <<network, shipments, ships>> PROVE Follows(x, shipments)'
  BY <1>2 DEF InStep, Follows
<1>3. ASSUME NEW r \in Runs, StartScenario(r) \/ Judge(r) \/ LogRaises(r)
      PROVE  Follows(x, shipments)'
  BY <1>2, <1>3 DEF StartScenario, Judge, LogRaises
<1>4. ASSUME NEW r \in Runs, NEW fate \in Fates, Send(r, fate)
      PROVE  Follows(x, shipments)'
  <2> DEFINE code == CodeOf(r, fate)
             id   == IdAfter(r, code)
             p    == ShipPatch(Known(ships[r], id, NoShip), id, StepOf(r), Ok(code))
  <2>1. network' = network /\ SyncShip(r, id, Ok(code)) /\ at[r].step \in 1 .. 3
    BY <1>4 DEF Send
  <2>2. ASSUME NEW e \in Range(ships[q]) PROVE Follows(e, shipments)
    BY <2>2 DEF InStep
  <2>3. CASE q # r
    <3>1. ships'[q] = ships[q]
      BY <1>4, <2>3, StoreIs
    <3>2. Follows(x, shipments')
      BY <1>4, <2>2, <2>3, <3>1, OthersFollow
    <3> QED
      BY <1>1, <2>1, <3>2
  <2>4. CASE q = r /\ id = 0
    <3>1. ships' = ships
      BY <2>1, <2>4 DEF SyncShip
    <3>2. at[r].id = 0
      <4>1. CASE at[r].step = 1
        BY <4>1 DEF Progress, InProgress
      <4>2. CASE at[r].step # 1
        BY <2>1, <2>4, <4>2, StepIs DEF IdAfter
      <4> QED
        BY <4>1, <4>2
    <3>3. x.id # 0
      <4>1. \A i \in DOMAIN ships[q] : ships[q][i] \in ShipEntity
        BY LenProperties DEF TypeOK
      <4> QED
        BY <3>1, <4>1 DEF Range, ShipEntity
    <3>4. Follows(x, shipments')
      BY <1>4, <2>2, <3>1, <3>2, <3>3, OthersFollow
    <3> QED
      BY <1>1, <2>1, <3>4
  <2>5. CASE q = r /\ id # 0
    <3>1. Follows(p, shipments')
      BY <1>4, <2>5, PatchFollows
    <3>2. id \in Nat /\ StepOf(r) \in StepNames
      BY <2>1, AnswerIs, StepIs
    <3>3. p \in ShipEntity /\ p.id = id
      <4> HIDE DEF id
      <4> QED
        BY <2>5, <3>2, ShipPatchIs
    <3>4. ships'[r] = Put(ships[r], p)
      BY <2>1, <2>5 DEF SyncShip, Stored, TypeOK
    <3>5. at[r].id = id \/ at[r].id = 0
      <4>1. CASE at[r].step = 1
        BY <4>1 DEF Progress, InProgress
      <4>2. CASE at[r].step # 1
        BY <2>1, <4>2, StepIs DEF IdAfter
      <4> QED
        BY <4>1, <4>2
    <3> HIDE DEF p, id, code
    <3>6. x = p \/ (x \in Range(ships[r]) /\ x.id # id)
      <4>1. ships[r] \in Seq(ShipEntity)
        BY DEF TypeOK
      <4>2. \A y \in Range(Put(ships[r], p)) :
              y = p \/ (y \in Range(ships[r]) /\ y.id # p.id)
        BY <3>3, <4>1, PutElements
      <4> QED
        BY <2>5, <3>3, <3>4, <4>2
    <3>7. ASSUME x \in Range(ships[r]), x.id # id PROVE Follows(x, shipments')
      <4>1. x.id # 0
        <5>1. \A i \in DOMAIN ships[r] : ships[r][i] \in ShipEntity
          BY LenProperties DEF TypeOK
        <5> QED
          BY <3>7, <5>1 DEF Range, ShipEntity
      <4> QED
        BY <1>4, <2>2, <2>5, <3>5, <3>7, <4>1, OthersFollow
    <3> QED
      BY <1>1, <2>1, <3>1, <3>6, <3>7
  <2> QED
    BY <2>3, <2>4, <2>5
<1>5. CASE UNCHANGED vars
  BY <1>2, <1>5 DEF vars
<1> QED
  BY <1>3, <1>4, <1>5, StepsAre

(* What a run's store has of a shipment is what the API has, also while    *)
(* other runs write to the API; where answers get lost, it is only ever    *)
(* behind (_sync_entities).                                                *)
THEOREM StoreIsNeverAhead == Spec => []StoreFollowsApi
<1>1. Init => InStep
  BY DEF Init, InStep, Range
<1>2. InStep => StoreFollowsApi
  BY DEF InStep, Follows, StoreFollowsApi
<1> QED
  BY <1>1, <1>2, InStepStep, TypeCorrect, ProgressHolds, ApartHolds, GroundHolds, JudgedHolds,
     PTL DEF Spec

----------------------------------------------------------------------------
(* Overweight shipments.                                                   *)

\* A scenario whose shipment was loaded: the assignment was answered, and no
\* dispatch yet or with success.
IsLoaded(r) ==
  \/ at[r].step = 3
  \/ at[r].step = Judging /\ at[r].code = 200 /\ ShouldAssign(Current(r))

\* The shipment at hand has the weight of the scenario.
Weighed(r) ==
  at[r].step \in 2 .. 3 => Current(r).weight = Num(shipments[at[r].id].weight)

\* All vehicles of the scenario's name in the store have the capacity of the
\* one that was loaded, and there is one.
Loaded(r) ==
  IsLoaded(r) =>
    LET v  == Current(r).vehicle
        id == at[r].id
    IN  /\ Own(r, id) /\ Current(r).weight = Num(shipments[id].weight)
        /\ v \in DOMAIN Capacity /\ shipments[id].capacity = Capacity[v]
        /\ at[r].capacity = Num(Capacity[v])
        /\ \E e \in Range(vehicles[r]) : e.id = v
        /\ \A e \in Range(vehicles[r]) : e.id = v => e.capacity = Num(Capacity[v])
        /\ at[r].step = Judging => shipments[id].status = "DISPATCHED"

\* The vehicles in the store are those of the scenarios so far.
Used(r) ==
  \A e \in Range(vehicles[r]) :
    \E j \in 1 .. Len(verdicts[r]) + (IF at[r].step = Idle THEN 0 ELSE 1) :
      list[r][j].vehicle = e.id

\* Nothing of a dispatched shipment changes after its verdict.
Caught(r) ==
  \A i \in DOMAIN verdicts[r] :
    LET v == verdicts[r][i]
        overweight == shipments[v.own].weight > shipments[v.own].capacity
    IN  list[r][i].rule = "SHIP_001" /\ v.code = 200 =>
          /\ v.own \in DOMAIN shipments /\ shipments[v.own].status = "DISPATCHED"
          /\ OneVehicle(r, i) => v.result = IF overweight THEN "fail" ELSE "pass"

Watched(r) == Weighed(r) /\ Loaded(r) /\ Used(r) /\ Caught(r)
WatchedAll == \A r \in Runs : Watched(r)

(* SHIP_001 compares the weight of the scenario with the capacity of the   *)
(* vehicle in the context.                                                 *)
LEMMA ShipOneVerdict ==
  ASSUME NEW w \in Int, NEW k \in Int, NEW c, c.weight = Num(w),
         NEW ship, NEW vehicle, vehicle.capacity = Num(k)
  PROVE  Verdict(Rule["SHIP_001"].conditions, Context(c, ship, vehicle), 200)
           = IF w > k THEN "fail" ELSE "pass"
<1> DEFINE cond == Compare("scenario.shipment_weight", "<=", Path("entities.vehicle.capacity"))
           context == Context(c, ship, vehicle)
<1>1. Rule["SHIP_001"].conditions = {cond}
  BY DEF Rule
<1>2. /\ "scenario.shipment_weight" \in DOMAIN context
      /\ "entities.vehicle.capacity" \in DOMAIN context
      /\ context["scenario.shipment_weight"] = Num(w)
      /\ context["entities.vehicle.capacity"] = Num(k)
  BY DEF Context
<1>3. /\ Resolve("scenario.shipment_weight", context) = Num(w)
      /\ Resolve("entities.vehicle.capacity", context) = Num(k)
  BY <1>2 DEF Resolve
<1> HIDE DEF context
<1>4. /\ cond.pattern = "number" /\ cond.path = "scenario.shipment_weight" /\ cond.op = "<="
      /\ cond.rhs[1] = "path" /\ cond.rhs[2] = "entities.vehicle.capacity"
  BY DEF Compare, Path
<1> HIDE DEF cond
<1>5. /\ Num(w)[1] = "number" /\ Num(w)[2] = w /\ Num(k)[1] = "number" /\ Num(k)[2] = k
  BY DEF Num
<1>6. Evaluate(cond, context) = Truth(w <= k)
  BY <1>3, <1>4, <1>5 DEF Evaluate, Holds
<1>7. {Evaluate(x, context) : x \in {cond}} = {Truth(w <= k)}
  BY <1>6
<1>8. Accepted(200)
  BY DEF Accepted
<1>9. CASE w <= k
  <2>1. {Evaluate(x, context) : x \in {cond}} = {"true"}
    BY <1>7, <1>9 DEF Truth
  <2>2. Verdict(Rule["SHIP_001"].conditions, context, 200)
          = IF "unknown" \in {"true"} THEN "inconclusive"
            ELSE IF Accepted(200) = ("false" \notin {"true"}) THEN "pass" ELSE "fail"
    BY <1>1, <2>1 DEF Verdict
  <2>3. Accepted(200) = ("false" \notin {"true"}) /\ "unknown" \notin {"true"}
    BY <1>8 DEF Accepted
  <2>4. Verdict(Rule["SHIP_001"].conditions, context, 200) = "pass"
    BY <2>2, <2>3
  <2>5. ~(w > k)
    BY <1>9
  <2> QED
    BY <2>4, <2>5 DEF context
<1>10. CASE w > k
  <2>1. {Evaluate(x, context) : x \in {cond}} = {"false"}
    BY <1>7, <1>10 DEF Truth
  <2>2. Verdict(Rule["SHIP_001"].conditions, context, 200)
          = IF "unknown" \in {"false"} THEN "inconclusive"
            ELSE IF Accepted(200) = ("false" \notin {"false"}) THEN "pass" ELSE "fail"
    BY <1>1, <2>1 DEF Verdict
  <2>3. ~(Accepted(200) = ("false" \notin {"false"}))
    BY <1>8
  <2>4. Verdict(Rule["SHIP_001"].conditions, context, 200) = "fail"
    BY <2>2, <2>3
  <2> QED
    BY <1>10, <2>4 DEF context
<1> QED
  BY <1>9, <1>10

(* The verdict that the oracle adds.                                       *)
LEMMA JudgeAdds ==
  ASSUME TypeOK, NEW r \in Runs, Judge(r)
  PROVE  \E ship \in LastOf(ships[r], NoShip), vehicle \in LastOf(vehicles[r], NoVehicle) :
           LET v == verdicts'[r][Len(verdicts[r]) + 1]
           IN  /\ v.own = at[r].id /\ v.code = at[r].code
               /\ v.result = Verdict(Rule[Current(r).rule].conditions,
                                     Context(Current(r), ship, vehicle), at[r].code)
<1>1. PICK ship \in LastOf(ships[r], NoShip), vehicle \in LastOf(vehicles[r], NoVehicle) :
        verdicts' = [verdicts EXCEPT ![r] = Append(@,
          [own |-> at[r].id, judged |-> ship.id, code |-> at[r].code,
           result |-> Verdict(Rule[Current(r).rule].conditions,
                              Context(Current(r), ship, vehicle), at[r].code)])]
  BY DEF Judge
<1> DEFINE result == Verdict(Rule[Current(r).rule].conditions,
                             Context(Current(r), ship, vehicle), at[r].code)
           v == [own |-> at[r].id, judged |-> ship.id, code |-> at[r].code,
                 result |-> result]
<1>2. v.own = at[r].id /\ v.code = at[r].code /\ v.result = result
  OBVIOUS
<1> HIDE DEF result, v
<1>3. verdicts'[r] = Append(verdicts[r], v)
  BY <1>1 DEF TypeOK, result, v
<1>4. verdicts[r] \in Seq(VerdictOf) /\ Len(verdicts[r]) \in Nat
  BY LenProperties DEF TypeOK, VerdictOf
<1>5. verdicts'[r][Len(verdicts[r]) + 1] = v
  BY <1>3, <1>4
<1> QED
  BY <1>2, <1>5 DEF result

(* A step that leaves a run where it is, and its own shipments, leaves     *)
(* what is watched of it; dispatched shipments never change.               *)
LEMMA WatchedStays ==
  ASSUME NEW q \in Runs, Watched(q), at'[q] = at[q], vehicles'[q] = vehicles[q],
         list' = list, verdicts'[q] = verdicts[q],
         at[q].step \in 2 .. 3 => Own(q, at[q].id),
         \A i \in DOMAIN shipments :
           /\ i \in DOMAIN shipments'
           /\ shipments[i].by = q \/ shipments[i].status = "DISPATCHED" =>
                shipments'[i] = shipments[i]
  PROVE  Watched(q)'
<1>1. Current(q)' = Current(q)
  BY DEF Current
<1>2. Weighed(q)'
  BY <1>1 DEF Watched, Weighed, Own
<1>3. ShouldAssign(Current(q))' = ShouldAssign(Current(q))
  BY <1>1 DEF ShouldAssign
<1>4. Loaded(q)'
  <2>1. IsLoaded(q)' => IsLoaded(q)
    BY <1>3 DEF IsLoaded
  <2> QED
    BY <1>1, <2>1 DEF Watched, Loaded, Own
<1>5. Used(q)'
  BY DEF Watched, Used
<1>6. Caught(q)'
  <2>1. \A i : OneVehicle(q, i)' <=> OneVehicle(q, i)
    BY DEF OneVehicle
  <2> QED
    BY <2>1 DEF Watched, Caught
<1> QED
  BY <1>2, <1>4, <1>5, <1>6 DEF Watched

(* What a request leaves in at, next to SendAt.                            *)
LEMMA SendLeaves ==
  ASSUME TypeOK, Progress, NEW r \in Runs, NEW fate \in Fates, Send(r, fate)
  PROVE  LET code == CodeOf(r, fate)
         IN  /\ at'[r].code = code /\ at'[r].capacity = CapacityAfter(r, code)
             /\ GoesOn(Current(r), StepOf(r), code) /\ at[r].step < Len(Plan(Current(r)))
                  => at'[r].step = at[r].step + 1
<1> DEFINE code == CodeOf(r, fate)
           id   == IdAfter(r, code)
           cap  == CapacityAfter(r, code)
           more == GoesOn(Current(r), StepOf(r), code) /\ at[r].step < Len(Plan(Current(r)))
           new  == [step |-> IF more THEN at[r].step + 1 ELSE Judging,
                    id |-> id, capacity |-> cap, code |-> code]
<1>1. at' = [at EXCEPT ![r] = new]
  BY DEF Send
<1> HIDE DEF code, id, cap, more
<1>2. /\ new.code = code /\ new.capacity = cap
      /\ more => new.step = at[r].step + 1
  OBVIOUS
<1> HIDE DEF new
<1>3. at'[r] = new
  BY <1>1 DEF TypeOK
<1> QED
  BY <1>2, <1>3 DEF code, cap, more

(* A vehicle whose capacity the executor has is stored with it.            *)
LEMMA VehicleStored ==
  ASSUME TypeOK, Progress, NEW r \in Runs, NEW fate \in Fates, Send(r, fate),
         NEW v \in DOMAIN Capacity, Current(r).vehicle = v,
         CapacityAfter(r, CodeOf(r, fate)) = Num(Capacity[v])
  PROVE  /\ \E e \in Range(vehicles'[r]) : e.id = v
         /\ \A e \in Range(vehicles'[r]) : e.id = v => e.capacity = Num(Capacity[v])
<1> DEFINE cap == Num(Capacity[v])
           p   == VehiclePatch(Known(vehicles[r], v, NoVehicle), v, cap)
<1>1. v # Unnamed /\ v \in STRING
  <2>1. v \in {"VH_001", "VH_002", "VH_003"}
    BY DEF Capacity
  <2>2. v \in STRING
    BY CurrentIsCase DEF Send, Judging, Cases
  <2>3. v # Unnamed
    BY <2>1 DEF Unnamed
  <2> QED
    BY <2>2, <2>3
<1>2. cap \in Capacities /\ cap # Unset /\ cap # None
  BY DEF Capacities, Num, Unset, None
<1>3. vehicles' = Stored(vehicles, r, p)
  BY <1>1 DEF Send, SyncVehicle
<1>4. p.id = v /\ p.capacity = cap
  <2> HIDE DEF cap
  <2> QED
    BY <1>2 DEF VehiclePatch, Encode
<1>5. p \in VehicleEntity
  <2> HIDE DEF cap
  <2> QED
    BY <1>1, <1>2, VehiclePatchIs
<1> HIDE DEF p, cap
<1>6. vehicles'[r] = Put(vehicles[r], p) /\ vehicles[r] \in Seq(VehicleEntity)
  BY <1>3 DEF Stored, TypeOK
<1>7. /\ \A x \in Range(vehicles'[r]) :
           x = p \/ (x \in Range(vehicles[r]) /\ x.id # p.id)
      /\ p \in Range(vehicles'[r])
  BY <1>5, <1>6, PutElements
<1> QED
  BY <1>4, <1>7 DEF cap

(* A created shipment has the weight of the scenario.                      *)
LEMMA SenderWeighed ==
  ASSUME TypeOK, Progress, Apart, Ground, NEW r \in Runs, NEW fate \in Fates, Send(r, fate),
         Weighed(r)
  PROVE  Weighed(r)'
<1> DEFINE c == Current(r)
           code == CodeOf(r, fate)
<1> SUFFICES ASSUME at'[r].step \in 2 .. 3
             PROVE  Current(r)'.weight = Num(shipments'[at'[r].id].weight)
  BY DEF Weighed
<1>1. /\ at[r].step \in 1 .. 3 /\ Current(r)' = c
      /\ GoesOn(c, StepOf(r), code)
      /\ at'[r].id = IdAfter(r, code)
      /\ at[r].step = 1 \/ (at[r].step = 2 /\ StepOf(r) = "assign")
  <2>1. at[r].step \in 1 .. 3 /\ list' = list /\ verdicts' = verdicts
    BY DEF Send
  <2>2. at'[r].step # Judging
    BY DEF Judging
  <2>3. at[r].step < Len(Plan(c)) /\ GoesOn(c, StepOf(r), code) /\ at'[r].id = IdAfter(r, code)
    BY <2>2, SendAt
  <2>4. at[r].step = 1 \/ (at[r].step = 2 /\ StepOf(r) = "assign")
    BY <2>1, <2>3, StepIs
  <2> QED
    BY <2>1, <2>3, <2>4 DEF Current
<1>2. c \in Cases /\ StepOf(r) \in StepNames
  BY <1>1, CurrentIsCase, StepIs DEF Judging
<1>3. CASE at[r].step = 1
  <2>1. StepOf(r) = "create"
    BY <1>1, <1>3, StepIs
  <2>2. code = 201 /\ Ok(code)
    BY <1>1, <2>1 DEF GoesOn, ExpectedStatus, Ok
  <2>3. fate = "served" /\ Code(c, "create", at[r].id) = 201
    BY <1>1, <2>1, <2>2, AnswerIs
  <2>4. shipments' = Served(r, c, "create", at[r].id)
    BY <2>1, <2>3 DEF Send
  <2>5. shipments'[Len(shipments) + 1].weight = c.weight[2]
    BY <1>2, <2>1, <2>3, <2>4, ServedMoves
  <2>6. c.weight = Num(c.weight[2])
    <3>1. c.weight \in Weights
      BY <1>2 DEF Cases
    <3>2. c.weight # None
      BY <2>3 DEF Code
    <3> QED
      BY <3>1, <3>2, PipelineConstants
  <2>7. at'[r].id = Len(shipments) + 1
    BY <1>1, <2>1, <2>2 DEF IdAfter
  <2> QED
    BY <1>1, <2>5, <2>6, <2>7
<1>4. CASE at[r].step = 2 /\ StepOf(r) = "assign"
  <2>1. at'[r].id = at[r].id
    BY <1>1, <1>4 DEF IdAfter
  <2>2. at[r].id \in DOMAIN shipments
    BY <1>4 DEF Ground, HasGround, Own
  <2>3. shipments'[at[r].id].weight = shipments[at[r].id].weight
    BY <2>2, StatusAdvances
  <2>4. c.weight = Num(shipments[at[r].id].weight)
    BY <1>4 DEF Weighed
  <2> QED
    BY <1>1, <2>1, <2>3, <2>4
<1> QED
  BY <1>1, <1>3, <1>4

(* The capacity of the loaded vehicle is with the API, the executor and    *)
(* the store, until the dispatch is answered.                              *)
LEMMA SenderLoaded ==
  ASSUME TypeOK, Progress, Apart, Ground, NEW r \in Runs, NEW fate \in Fates, Send(r, fate),
         Weighed(r), Loaded(r), IsLoaded(r)'
  PROVE  Loaded(r)'
<1> DEFINE c    == Current(r)
           v    == c.vehicle
           code == CodeOf(r, fate)
           id   == at[r].id
<1>1. /\ at[r].step \in 1 .. 3 /\ list' = list /\ verdicts' = verdicts
      /\ Current(r)' = c /\ ShouldAssign(c)' = ShouldAssign(c)
      /\ at'[r].id = IdAfter(r, code)
      /\ at'[r].code = code /\ at'[r].capacity = CapacityAfter(r, code)
  BY SendAt, SendLeaves DEF Send, Current, ShouldAssign
<1>2. c \in Cases /\ StepOf(r) \in StepNames
  BY <1>1, CurrentIsCase, StepIs DEF Judging
<1>3. code = 200 => /\ shipments' = Served(r, c, StepOf(r), id)
                    /\ Code(c, StepOf(r), id) = 200
  <2> SUFFICES ASSUME code = 200
               PROVE  shipments' = Served(r, c, StepOf(r), id) /\ Code(c, StepOf(r), id) = 200
    OBVIOUS
  <2>1. fate = "served" /\ code = Code(c, StepOf(r), id)
    BY <1>1, AnswerIs DEF Ok
  <2> QED
    BY <2>1 DEF Send
<1>4. /\ code = 200
      /\ \/ StepOf(r) = "assign" /\ at[r].step = 2 /\ at'[r].step = 3
         \/ StepOf(r) = "dispatch" /\ at[r].step = 3 /\ at'[r].step = Judging
  <2>1. CASE at'[r].step = 3
    <3>1. at'[r].step # Judging
      BY <2>1 DEF Judging
    <3>2. /\ at[r].step = 2 /\ GoesOn(c, StepOf(r), code) /\ at[r].step < Len(Plan(c))
      BY <1>1, <2>1, <3>1, SendAt
    <3>3. StepOf(r) = "assign"
      BY <1>1, <3>2, StepIs
    <3> QED
      BY <2>1, <3>2, <3>3 DEF GoesOn, ExpectedStatus
  <2>2. CASE at'[r].step = Judging /\ at'[r].code = 200 /\ ShouldAssign(c)
    <3>1. code = 200
      BY <1>1, <2>2
    <3>2. StepOf(r) # "create"
      BY <1>2, <1>3, <3>1, CodeIs
    <3>3. at[r].step \in {2, 3}
      BY <1>1, <3>2, StepIs
    <3>4. /\ Plan(c)[2] = "assign" /\ Plan(c)[3] = "dispatch" /\ Len(Plan(c)) = 3
      BY <2>2, PlanSteps
    <3>5. at[r].step # 2
      <4> SUFFICES ASSUME at[r].step = 2 PROVE FALSE
        OBVIOUS
      <4>1. StepOf(r) = "assign"
        BY <3>4 DEF StepOf
      <4>2. GoesOn(c, StepOf(r), code)
        BY <3>1, <4>1 DEF GoesOn, ExpectedStatus
      <4>3. at'[r].step = 3
        BY <3>4, <4>2, SendLeaves
      <4> QED
        BY <2>2, <4>3 DEF Judging
    <3>6. at[r].step = 3 /\ StepOf(r) = "dispatch"
      BY <3>3, <3>4, <3>5 DEF StepOf
    <3> QED
      BY <2>2, <3>1, <3>6
  <2> QED
    BY <1>1, <2>1, <2>2 DEF IsLoaded
<1>5. /\ at'[r].id = id /\ Own(r, id) /\ id \in DOMAIN shipments
      /\ id \in DOMAIN shipments' /\ shipments'[id].by = r
  <2>1. at[r].step \in 2 .. 3
    BY <1>4
  <2>2. Own(r, id)
    BY <2>1 DEF Ground, HasGround
  <2> QED
    BY <1>1, <1>4, <2>2, ShipmentsAre DEF IdAfter, Own
<1>6. shipments'[id].weight = shipments[id].weight
  BY <1>5, StatusAdvances
<1>7. CASE StepOf(r) = "assign" /\ at[r].step = 2 /\ at'[r].step = 3
  <2>1. v \in DOMAIN Capacity
    BY <1>2, <1>3, <1>4, <1>7, CodeIs
  <2>2. shipments'[id].capacity = Capacity[v]
    BY <1>2, <1>3, <1>4, <1>7, ServedMoves
  <2>3. CapacityAfter(r, code) = Num(Capacity[v])
    BY <1>4, <1>7 DEF CapacityAfter, Ok
  <2>4. c.weight = Num(shipments[id].weight)
    BY <1>7 DEF Weighed
  <2>5. /\ \E e \in Range(vehicles'[r]) : e.id = v
        /\ \A e \in Range(vehicles'[r]) : e.id = v => e.capacity = Num(Capacity[v])
    BY <2>1, <2>3, VehicleStored
  <2>6. at'[r].step # Judging
    BY <1>7 DEF Judging
  <2> HIDE DEF c, code, id
  <2> QED
    BY <1>1, <1>5, <1>6, <2>1, <2>2, <2>3, <2>4, <2>5, <2>6 DEF Loaded, Own
<1>8. CASE StepOf(r) = "dispatch" /\ at[r].step = 3 /\ at'[r].step = Judging
  <2>1. /\ v \in DOMAIN Capacity /\ shipments[id].capacity = Capacity[v]
        /\ at[r].capacity = Num(Capacity[v]) /\ c.weight = Num(shipments[id].weight)
    BY <1>8 DEF Loaded, IsLoaded
  <2>2. shipments'[id].capacity = Capacity[v] /\ shipments'[id].status = "DISPATCHED"
    BY <1>2, <1>3, <1>4, <1>8, <2>1, ServedMoves
  <2>3. CapacityAfter(r, code) = Num(Capacity[v])
    BY <1>8, <2>1 DEF CapacityAfter
  <2>4. /\ \E e \in Range(vehicles'[r]) : e.id = v
        /\ \A e \in Range(vehicles'[r]) : e.id = v => e.capacity = Num(Capacity[v])
    BY <2>1, <2>3, VehicleStored
  <2> HIDE DEF c, code, id
  <2> QED
    BY <1>1, <1>5, <1>6, <2>1, <2>2, <2>3, <2>4 DEF Loaded, Own
<1> QED
  BY <1>4, <1>7, <1>8

(* The vehicles in the store stay those of the scenarios so far.           *)
LEMMA SenderUsed ==
  ASSUME TypeOK, Progress, NEW r \in Runs, NEW fate \in Fates, Send(r, fate), Used(r)
  PROVE  Used(r)'
<1> DEFINE n == Len(verdicts[r])
<1>1. /\ list' = list /\ verdicts' = verdicts /\ at[r].step # Idle /\ at'[r].step # Idle
      /\ n \in Nat /\ vehicles[r] \in Seq(VehicleEntity)
  <2>1. list' = list /\ verdicts' = verdicts /\ at[r].step \in 1 .. 3
    BY DEF Send
  <2>2. at'[r].step \in {2, 3, Judging}
    BY SendAt
  <2>3. verdicts[r] \in Seq(VerdictOf) /\ vehicles[r] \in Seq(VehicleEntity)
    BY DEF TypeOK, VerdictOf
  <2>4. n \in Nat
    BY <2>3, LenProperties
  <2> HIDE DEF n
  <2> QED
    BY <2>1, <2>2, <2>3, <2>4 DEF Idle, Judging
<1>2. \A e \in Range(vehicles[r]) : \E j \in 1 .. n + 1 : list[r][j].vehicle = e.id
  BY <1>1 DEF Used
<1>3. list[r][n + 1].vehicle = Current(r).vehicle /\ n + 1 \in 1 .. n + 1
  BY <1>1 DEF Current
<1>4. \A x \in Range(vehicles'[r]) :
        x.id = Current(r).vehicle \/ \E y \in Range(vehicles[r]) : x.id = y.id
  <2>1. CASE vehicles' = vehicles
    BY <2>1
  <2>2. CASE vehicles' # vehicles
    <3>1. PICK e \in VehicleEntity : e.id = Current(r).vehicle
                                     /\ vehicles'[r] = Put(vehicles[r], e)
      BY <2>2, StoreIs
    <3> QED
      BY <1>1, <3>1, PutIds
  <2> QED
    BY <2>1, <2>2
<1> HIDE DEF n
<1>5. \A x \in Range(vehicles'[r]) : \E j \in 1 .. n + 1 : list[r][j].vehicle = x.id
  BY <1>2, <1>3, <1>4
<1> QED
  BY <1>1, <1>5 DEF Used, n

(* The oracle of SHIP_001 sees the vehicle that was loaded, as long as the *)
(* run used no other.                                                      *)
LEMMA JudgeCatches ==
  ASSUME TypeOK, Progress, NEW r \in Runs, Judge(r), Watched(r),
         Current(r).rule = "SHIP_001", at[r].code = 200
  PROVE  LET n == Len(verdicts[r])
             v == verdicts'[r][n + 1]
         IN  /\ v.own \in DOMAIN shipments /\ shipments[v.own].status = "DISPATCHED"
             /\ OneVehicle(r, n + 1) =>
                  v.result = IF shipments[v.own].weight > shipments[v.own].capacity
                             THEN "fail" ELSE "pass"
<1> DEFINE n  == Len(verdicts[r])
           c  == Current(r)
           id == at[r].id
           new == verdicts'[r][n + 1]
<1>1. /\ at[r].step = Judging /\ n \in Nat /\ c = list[r][n + 1]
      /\ at[r].step # Idle /\ vehicles[r] \in Seq(VehicleEntity)
  BY LenProperties DEF Judge, Judging, Idle, Current, TypeOK
<1>2. ShouldAssign(c)
  BY DEF ShouldAssign, Rule
<1>3. IsLoaded(r)
  BY <1>1, <1>2 DEF IsLoaded
<1>4. /\ id \in DOMAIN shipments /\ shipments[id].status = "DISPATCHED"
      /\ c.weight = Num(shipments[id].weight)
      /\ c.vehicle \in DOMAIN Capacity /\ shipments[id].capacity = Capacity[c.vehicle]
      /\ \E e \in Range(vehicles[r]) : e.id = c.vehicle
      /\ \A e \in Range(vehicles[r]) :
           e.id = c.vehicle => e.capacity = Num(Capacity[c.vehicle])
  BY <1>1, <1>3 DEF Watched, Loaded, Own
<1>5. PICK ship \in LastOf(ships[r], NoShip), vehicle \in LastOf(vehicles[r], NoVehicle) :
        /\ new.own = id /\ new.code = 200
        /\ new.result = Verdict(Rule["SHIP_001"].conditions, Context(c, ship, vehicle), 200)
  BY JudgeAdds
<1>6. vehicle \in Range(vehicles[r])
  <2>1. vehicles[r] # <<>>
    BY <1>4 DEF Range
  <2>2. Len(vehicles[r]) \in DOMAIN vehicles[r]
    BY <1>1, <2>1, LenProperties, EmptySeq
  <2> QED
    BY <1>5, <2>1, <2>2 DEF LastOf, Last, Range
<1>7. ASSUME OneVehicle(r, n + 1) PROVE vehicle.capacity = Num(Capacity[c.vehicle])
  <2>1. vehicle.id # Unnamed
    <3>1. \A i \in DOMAIN vehicles[r] : vehicles[r][i] \in VehicleEntity
      BY <1>1, LenProperties
    <3> QED
      BY <1>6, <3>1 DEF Range, VehicleEntity
  <2>2. PICK j \in 1 .. n + 1 : list[r][j].vehicle = vehicle.id
    BY <1>1, <1>6 DEF Watched, Used
  <2>3. vehicle.id = c.vehicle
    BY <1>1, <1>7, <2>1, <2>2 DEF OneVehicle
  <2> QED
    BY <1>4, <1>6, <2>3
<1>8. shipments[id].weight \in Int /\ Capacity[c.vehicle] \in Int
  <2>1. shipments[id] \in Shipment
    BY <1>4, LenProperties DEF TypeOK
  <2> QED
    BY <1>4, <2>1, CapacityIs DEF Shipment
<1> HIDE DEF c, id, n, new
<1>9. OneVehicle(r, n + 1) =>
        new.result = IF shipments[id].weight > Capacity[c.vehicle] THEN "fail" ELSE "pass"
  BY <1>4, <1>5, <1>7, <1>8, ShipOneVerdict
<1>10. /\ new.own \in DOMAIN shipments /\ shipments[new.own].status = "DISPATCHED"
       /\ OneVehicle(r, n + 1) =>
            new.result = IF shipments[new.own].weight > shipments[new.own].capacity
                         THEN "fail" ELSE "pass"
  BY <1>4, <1>5, <1>9
<1> QED
  BY <1>10 DEF new, n

LEMMA JudgeWatched ==
  ASSUME TypeOK, Progress, NEW r \in Runs, Judge(r), Watched(r)
  PROVE  Watched(r)'
<1> DEFINE n == Len(verdicts[r])
<1>1. /\ n \in Nat /\ DOMAIN verdicts[r] = 1 .. n /\ DOMAIN verdicts'[r] = 1 .. n + 1
      /\ \A i \in 1 .. n : verdicts'[r][i] = verdicts[r][i]
      /\ Len(verdicts'[r]) = n + 1 /\ at'[r].step = Idle
      /\ Current(r) = list[r][n + 1]
  <2>1. verdicts[r] \in Seq(VerdictOf)
    BY DEF TypeOK, VerdictOf
  <2>2. verdicts'[r] \in Seq(VerdictOf) /\ Len(verdicts'[r]) = n + 1
    BY JudgeAt
  <2> QED
    BY <2>1, <2>2, JudgeAt, LenProperties DEF Current
<1>2. /\ vehicles' = vehicles /\ shipments' = shipments /\ list' = list
      /\ at[r].step # Idle /\ 2 > Idle /\ Idle # Judging /\ Idle # 3
  BY DEF Judge, Judging, Idle
<1>3. verdicts'[r][n + 1].code = at[r].code
  BY JudgeAdds
<1>4. Weighed(r)' /\ Loaded(r)'
  BY <1>1, <1>2 DEF Weighed, Loaded, IsLoaded, Idle
<1>5. Used(r)'
  BY <1>1, <1>2 DEF Watched, Used
<1>6. \A i : OneVehicle(r, i)' <=> OneVehicle(r, i)
  BY <1>2 DEF OneVehicle
<1>7. ASSUME NEW i \in 1 .. n + 1
      PROVE  LET v == verdicts'[r][i]
                 overweight == shipments[v.own].weight > shipments[v.own].capacity
             IN  list[r][i].rule = "SHIP_001" /\ v.code = 200 =>
                   /\ v.own \in DOMAIN shipments /\ shipments[v.own].status = "DISPATCHED"
                   /\ OneVehicle(r, i) => v.result = IF overweight THEN "fail" ELSE "pass"
  <2>1. CASE i \in 1 .. n
    BY <1>1, <2>1 DEF Watched, Caught
  <2>2. CASE i = n + 1
    <3> SUFFICES ASSUME list[r][i].rule = "SHIP_001", verdicts'[r][i].code = 200
                 PROVE  LET v == verdicts'[r][i]
                            overweight == shipments[v.own].weight > shipments[v.own].capacity
                        IN  /\ v.own \in DOMAIN shipments
                            /\ shipments[v.own].status = "DISPATCHED"
                            /\ OneVehicle(r, i) =>
                                 v.result = IF overweight THEN "fail" ELSE "pass"
      OBVIOUS
    <3>1. Current(r).rule = "SHIP_001" /\ at[r].code = 200
      BY <1>1, <1>3, <2>2
    <3>2. LET v == verdicts'[r][n + 1]
          IN  /\ v.own \in DOMAIN shipments /\ shipments[v.own].status = "DISPATCHED"
              /\ OneVehicle(r, n + 1) =>
                   v.result = IF shipments[v.own].weight > shipments[v.own].capacity
                              THEN "fail" ELSE "pass"
      BY <3>1, JudgeCatches
    <3> HIDE DEF n
    <3> QED
      BY <2>2, <3>2
  <2> QED
    BY <1>1, <2>1, <2>2
<1> HIDE DEF n
<1>8. Caught(r)'
  BY <1>1, <1>2, <1>6, <1>7 DEF Caught
<1> QED
  BY <1>4, <1>5, <1>8 DEF Watched

LEMMA WatchedStep ==
  TypeOK /\ Progress /\ Apart /\ Ground /\ WatchedAll /\ [Next]_vars => WatchedAll'
<1> SUFFICES ASSUME TypeOK, Progress, Apart, Ground, WatchedAll, [Next]_vars, NEW q \in Runs
             PROVE  Watched(q)'
  BY DEF WatchedAll
<1>0. Watched(q) /\ (at[q].step \in 2 .. 3 => Own(q, at[q].id))
  BY DEF WatchedAll, Ground, HasGround
<1>1. ASSUME shipments' = shipments, at'[q] = at[q], vehicles'[q] = vehicles[q], list' = list,
             verdicts'[q] = verdicts[q]
      PROVE  Watched(q)'
  BY <1>0, <1>1, WatchedStays
<1>2. ASSUME NEW r \in Runs, StartScenario(r) PROVE Watched(q)'
  <2>1. UNCHANGED <<shipments, vehicles, list, verdicts>> /\ at[r].step = Idle
    BY <1>2 DEF StartScenario
  <2>2. CASE q # r
    BY <1>1, <1>2, <2>1, <2>2, StartAt
  <2>3. CASE q = r
    <3>1. at'[q].step = 1
      BY <1>2, <2>3, StartAt
    <3>2. Weighed(q)' /\ Loaded(q)'
      BY <3>1 DEF Weighed, Loaded, IsLoaded, Judging
    <3>3. Used(q)'
      <4>1. Len(verdicts[q]) \in Nat
        BY LenProperties DEF TypeOK
      <4>2. ASSUME NEW e \in Range(vehicles[q])
            PROVE  \E j \in 1 .. Len(verdicts[q]) + 1 : list[q][j].vehicle = e.id
        <5>1. PICK j \in 1 .. Len(verdicts[q]) + 0 : list[q][j].vehicle = e.id
          BY <1>0, <2>1, <2>3 DEF Watched, Used
        <5>2. j \in 1 .. Len(verdicts[q]) + 1
          BY <4>1
        <5> QED
          BY <5>1, <5>2
      <4>3. vehicles'[q] = vehicles[q] /\ list'[q] = list[q] /\ verdicts'[q] = verdicts[q]
        BY <2>1
      <4>4. (IF at'[q].step = Idle THEN 0 ELSE 1) = 1
        BY <3>1 DEF Idle
      <4>5. Range(vehicles'[q]) = Range(vehicles[q])
        BY <4>3
      <4>6. Len(verdicts'[q]) + (IF at'[q].step = Idle THEN 0 ELSE 1) = Len(verdicts[q]) + 1
        BY <4>3, <4>4
      <4>7. \A e \in Range(vehicles'[q]) :
              \E j \in 1 .. Len(verdicts'[q]) + (IF at'[q].step = Idle THEN 0 ELSE 1) :
                list'[q][j].vehicle = e.id
        BY <4>2, <4>3, <4>5, <4>6
      <4> QED
        BY <4>7 DEF Used
    <3>4. Caught(q)'
      <4>1. \A i : OneVehicle(q, i)' <=> OneVehicle(q, i)
        BY <2>1 DEF OneVehicle
      <4> QED
        BY <1>0, <2>1, <4>1 DEF Watched, Caught
    <3> QED
      BY <3>2, <3>3, <3>4 DEF Watched
  <2> QED
    BY <2>2, <2>3
<1>3. ASSUME NEW r \in Runs, Judge(r) PROVE Watched(q)'
  <2>1. CASE q = r
    BY <1>0, <1>3, <2>1, JudgeWatched
  <2>2. CASE q # r
    BY <1>1, <1>3, <2>2, JudgeAt DEF Judge
  <2> QED
    BY <2>1, <2>2
<1>4. ASSUME NEW r \in Runs, LogRaises(r) PROVE Watched(q)'
  <2>1. UNCHANGED <<shipments, vehicles, list, verdicts>> /\ at[r].step = Judging
    BY <1>4 DEF LogRaises
  <2>2. CASE q # r
    BY <1>1, <1>4, <2>1, <2>2, RaiseAt
  <2>3. CASE q = r
    <3>1. at'[q].step = Raised
      BY <1>4, <2>3, RaiseAt
    <3>2. Weighed(q)' /\ Loaded(q)'
      BY <3>1 DEF Weighed, Loaded, IsLoaded, Judging, Raised
    <3>3. Used(q)'
      <4>1. /\ vehicles'[q] = vehicles[q] /\ list'[q] = list[q] /\ verdicts'[q] = verdicts[q]
            /\ (IF at'[q].step = Idle THEN 0 ELSE 1) = 1
            /\ (IF at[q].step = Idle THEN 0 ELSE 1) = 1
        BY <2>1, <2>3, <3>1 DEF Idle, Judging, Raised
      <4>2. \A e \in Range(vehicles'[q]) :
              \E j \in 1 .. Len(verdicts'[q]) + (IF at'[q].step = Idle THEN 0 ELSE 1) :
                list'[q][j].vehicle = e.id
        BY <1>0, <4>1 DEF Watched, Used
      <4> QED
        BY <4>2 DEF Used
    <3>4. Caught(q)'
      <4>1. \A i : OneVehicle(q, i)' <=> OneVehicle(q, i)
        BY <2>1 DEF OneVehicle
      <4> QED
        BY <1>0, <2>1, <4>1 DEF Watched, Caught
    <3> QED
      BY <3>2, <3>3, <3>4 DEF Watched
  <2> QED
    BY <2>2, <2>3
<1>5. ASSUME NEW r \in Runs, NEW fate \in Fates, Send(r, fate) PROVE Watched(q)'
  <2>1. list' = list /\ verdicts' = verdicts
    BY <1>5 DEF Send
  <2>2. CASE q # r
    <3>1. at'[q] = at[q] /\ vehicles'[q] = vehicles[q]
      BY <1>5, <2>2, SendAt, StoreIs
    <3>2. ASSUME NEW i \in DOMAIN shipments
          PROVE  /\ i \in DOMAIN shipments'
                 /\ shipments[i].by = q \/ shipments[i].status = "DISPATCHED" =>
                      shipments'[i] = shipments[i]
      <4>1. i \in DOMAIN shipments' /\ (i # at[r].id => shipments'[i] = shipments[i])
        BY <1>5, ShipmentsAre
      <4>2. shipments[i].status = "DISPATCHED" => shipments'[i] = shipments[i]
        BY <1>5, StatusAdvances
      <4>3. ASSUME shipments[i].by = q PROVE i # at[r].id
        <5>1. i # 0 /\ (at[r].id # 0 => shipments[at[r].id].by = r)
          BY LenProperties DEF TypeOK, Apart, IsApart, Own
        <5> QED
          BY <2>2, <4>3, <5>1
      <4> QED
        BY <4>1, <4>2, <4>3
    <3> QED
      BY <1>0, <2>1, <3>1, <3>2, WatchedStays
  <2>3. CASE q = r
    <3>1. Weighed(q)'
      BY <1>0, <1>5, <2>3, SenderWeighed DEF Watched
    <3>2. Loaded(q)'
      <4>1. CASE IsLoaded(q)'
        BY <1>0, <1>5, <2>3, <4>1, SenderLoaded DEF Watched
      <4>2. CASE ~IsLoaded(q)'
        BY <4>2 DEF Loaded
      <4> QED
        BY <4>1, <4>2
    <3>3. Used(q)'
      BY <1>0, <1>5, <2>3, SenderUsed DEF Watched
    <3>4. Caught(q)'
      <4>1. \A i : OneVehicle(q, i)' <=> OneVehicle(q, i)
        BY <2>1 DEF OneVehicle
      <4>2. \A i \in DOMAIN shipments :
              /\ i \in DOMAIN shipments'
              /\ shipments[i].status = "DISPATCHED" => shipments'[i] = shipments[i]
        BY <1>5, StatusAdvances
      <4> QED
        BY <1>0, <2>1, <4>1, <4>2 DEF Watched, Caught
    <3> QED
      BY <3>1, <3>2, <3>3, <3>4 DEF Watched
  <2> QED
    BY <2>2, <2>3
<1>6. CASE UNCHANGED vars
  BY <1>1, <1>6 DEF vars
<1> QED
  BY <1>2, <1>3, <1>4, <1>5, <1>6, StepsAre

LEMMA WatchedInit == Init => WatchedAll
<1> SUFFICES ASSUME Init, NEW r \in Runs PROVE Watched(r)
  BY DEF WatchedAll
<1>1. at[r].step = 0 /\ vehicles[r] = <<>> /\ verdicts[r] = <<>>
  BY DEF Init, Start, Idle
<1> QED
  BY <1>1 DEF Watched, Weighed, Loaded, IsLoaded, Judging, Used, Caught, Range

(* An overweight shipment that the API dispatched gets a failed verdict of *)
(* SHIP_001, and no other one does, as long as the run uses one vehicle:   *)
(* nothing that another run does, nor a lost answer, hides it.             *)
THEOREM OverweightNeverPasses == Spec => []OverweightIsCaught
<1>1. WatchedAll => OverweightIsCaught
  BY DEF WatchedAll, Watched, Caught, OverweightIsCaught
<1> QED
  BY <1>1, WatchedInit, WatchedStep, TypeCorrect, ProgressHolds, ApartHolds, GroundHolds, PTL
     DEF Spec
=============================================================================
