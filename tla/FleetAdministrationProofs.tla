---------------------- MODULE FleetAdministrationProofs ----------------------
(***************************************************************************)
(* Theorems about FleetAdministration, for any requests, accounts, fleets  *)
(* and vehicles, with requests that interleave between their calls.        *)
(***************************************************************************)
EXTENDS FleetAdministration, TLAPS

OnVehicle == {"findAssigned", "assign", "remove", "findEdited",
              "updateVehicle", "deleteVehicle"}

(* The row a request names is of the table its call writes, and its        *)
(* account has been read.                                                  *)
NamesItsRow(r) ==
    /\ step[r] # "idle" => local[r].user \in Users /\ local[r].role \in UserRoles
    /\ step[r] = "addCreator" => local[r].of \in Fleets
    /\ step[r] \in OnVehicle => local[r].of \in Vehicles
    /\ step[r] \in {"findUser", "updateUser"} => local[r].of \in Users

(* What a request has read is there as long as nobody overtakes it. *)
ReadsLast(r) ==
    /\ step[r] = "assign" =>
         /\ vehicles[local[r].of].exists
         /\ local[r].seen \in Fleets \cup {Nobody}
         /\ r \notin overtaken => local[r].seen = vehicles[local[r].of].first
    /\ step[r] = "updateUser" /\ r \notin overtaken
         => local[r].seen = users[local[r].of].tag

(* What a request has written it does not answer with an error. *)
WroteForGood(r) == r \in wrote => step[r] \in {"ok", "addCreator"}

NewVehiclesAreBlank ==
    \A v \in Vehicles : ~vehicles[v].exists => vehicles[v].first = Nobody

(* The inductive invariant. *)
FleetInv ==
    /\ FleetTypeOK
    /\ \A r \in Requests : NamesItsRow(r) /\ ReadsLast(r) /\ WroteForGood(r)
    /\ NewVehiclesAreBlank
    /\ VehicleHasOneSide

-----------------------------------------------------------------------------
LEMMA FleetInvInit == FleetInit => FleetInv
<1> SUFFICES ASSUME FleetInit PROVE FleetInv
  OBVIOUS
<1>1. \A o \in Users \cup {Nobody}, f \in Fleets \cup {Nobody} :
        Place(o, f) \in Vehicle
  BY DEF Place, Vehicle
<1>10. \A o, f : /\ Place(o, f).exists
                 /\ Place(o, f).owner = o /\ Place(o, f).fleet = f
  BY DEF Place
<1>2. NoVehicle \in Vehicle /\ ~NoVehicle.exists /\ NoVehicle.first = Nobody
  BY DEF NoVehicle, Place, Vehicle
<1>3. \A v \in Vehicles :
        \/ vehicles[v] = NoVehicle
        \/ \E o \in Users : vehicles[v] = Place(o, Nobody)
        \/ \E f \in Fleets : vehicles[v] = Place(Nobody, f)
  BY DEF FleetInit
<1>4. users \in [Users -> User]
  BY DEF FleetInit, User, Tags, UserRoles
<1>5. local \in [Requests -> Local]
  BY DEF FleetInit, Local
<1>6. vehicles \in [Vehicles -> Vehicle]
  <2>1. vehicles = [v \in Vehicles |-> vehicles[v]]
    BY DEF FleetInit
  <2>2. \A v \in Vehicles : vehicles[v] \in Vehicle
    BY <1>1, <1>2, <1>3
  <2> QED
    BY <2>1, <2>2
<1>7. FleetTypeOK
  BY <1>4, <1>5, <1>6 DEF FleetInit, FleetTypeOK
<1>8. VehicleHasOneSide
  BY <1>10, <1>2, <1>3, NobodyAssumption DEF VehicleHasOneSide
<1>9. NewVehiclesAreBlank
  BY <1>10, <1>2, <1>3 DEF NewVehiclesAreBlank
<1> QED
  BY <1>7, <1>8, <1>9 DEF FleetInit, FleetInv, NamesItsRow, ReadsLast,
     WroteForGood, OnVehicle

-----------------------------------------------------------------------------
(* Steps of one request that write no vehicle and no account. *)
LEMMA OtherStepInv ==
    ASSUME FleetInv, NEW r \in Requests, FleetTypeOK',
           UNCHANGED <<users, vehicles, loose, overtaken>>,
           \A q \in Requests \ {r} : /\ step'[q] = step[q]
                                     /\ local'[q] = local[q]
                                     /\ q \in wrote' => q \in wrote,
           NamesItsRow(r)', ReadsLast(r)', WroteForGood(r)'
    PROVE  FleetInv'
<1>1. ASSUME NEW q \in Requests, q # r
      PROVE  (NamesItsRow(q) /\ ReadsLast(q) /\ WroteForGood(q))'
  <2>1. NamesItsRow(q) /\ ReadsLast(q) /\ WroteForGood(q)
    BY DEF FleetInv
  <2> QED
    BY <1>1, <2>1 DEF NamesItsRow, ReadsLast, WroteForGood
<1>2. (NewVehiclesAreBlank /\ VehicleHasOneSide)'
  BY DEF FleetInv, NewVehiclesAreBlank, VehicleHasOneSide
<1> QED
  BY <1>1, <1>2 DEF FleetInv

LEMMA BeginInv ==
    ASSUME FleetInv, NEW r \in Requests, NEW u \in Users, NEW roles,
           NEW call \in Calls \ {"addCreator", "assign", "updateUser"},
           NEW of \in Fleets \cup Vehicles \cup Users \cup {Nobody},
           call \in OnVehicle => of \in Vehicles,
           call = "findUser" => of \in Users,
           Begin(r, u, roles, call, of)
    PROVE  FleetInv'
<1> DEFINE new == [user |-> u, role |-> users[u].role, of |-> of, seen |-> Nobody]
<1>1. new \in Local /\ users[u].role \in UserRoles
  BY DEF FleetInv, FleetTypeOK, User, Local
<1>2. /\ step'[r] = call /\ local'[r] = new
      /\ \A q \in Requests \ {r} : step'[q] = step[q] /\ local'[q] = local[q]
      /\ UNCHANGED <<users, fleets, vehicles, managers, loose, overtaken, wrote>>
  BY DEF Begin, rows, FleetInv, FleetTypeOK
<1>3. FleetTypeOK'
  BY <1>1 DEF FleetInv, FleetTypeOK, Begin, rows
<1>4. r \notin wrote
  BY DEF FleetInv, WroteForGood, Begin
<1>5. (NamesItsRow(r) /\ ReadsLast(r) /\ WroteForGood(r))'
  BY <1>1, <1>2, <1>4 DEF NamesItsRow, ReadsLast, WroteForGood, Calls
<1> QED
  BY <1>2, <1>3, <1>5, OtherStepInv

(* A read: what is seen is the column it names. *)
LEMMA ReadsInv ==
    ASSUME FleetInv, NEW r \in Requests, NEW call \in Calls,
           NEW next \in Calls, NEW x \in Fleets \cup Tags \cup {Nobody},
           Reads(r, call, next, x),
           \/ /\ call = "findAssigned" /\ next = "assign"
              /\ x = vehicles[local[r].of].first /\ vehicles[local[r].of].exists
              /\ x \in Fleets \cup {Nobody}
           \/ call = "findEdited" /\ next = "updateVehicle"
           \/ /\ call = "findUser" /\ next = "updateUser"
              /\ x = users[local[r].of].tag
    PROVE  FleetInv'
<1>0. local[r] \in Local /\ step[r] = call /\ NamesItsRow(r) /\ WroteForGood(r)
  BY DEF FleetInv, FleetTypeOK, Reads
<1>1. [local[r] EXCEPT !.seen = x] \in Local
  BY <1>0 DEF Local
<1>2. /\ step'[r] = next /\ local'[r] = [local[r] EXCEPT !.seen = x]
      /\ \A q \in Requests \ {r} : step'[q] = step[q] /\ local'[q] = local[q]
      /\ UNCHANGED <<users, fleets, vehicles, managers, loose, overtaken, wrote>>
  BY DEF Reads, rows, FleetInv, FleetTypeOK
<1>3. /\ local'[r].user = local[r].user /\ local'[r].role = local[r].role
      /\ local'[r].of = local[r].of /\ local'[r].seen = x
  BY <1>0, <1>2 DEF Local
<1>4. FleetTypeOK'
  BY <1>1 DEF FleetInv, FleetTypeOK, Reads, rows
<1>5. (NamesItsRow(r) /\ ReadsLast(r) /\ WroteForGood(r))'
  BY <1>0, <1>2, <1>3 DEF NamesItsRow, ReadsLast, WroteForGood, OnVehicle
<1> QED
  BY <1>2, <1>4, <1>5, OtherStepInv

(* A call of a fleet or of its managers ends, with a write or badly.       *)
LEMMA EndInv ==
    ASSUME FleetInv, NEW r \in Requests, FleetTypeOK',
           UNCHANGED <<users, vehicles, loose, overtaken>>,
           NEW next \in {"ok", "failed", "addCreator"},
           step[r] # "idle", step' = [step EXCEPT ![r] = next],
           \/ local' = local /\ next # "addCreator"
           \/ \E f \in Fleets : local' = [local EXCEPT ![r].of = f],
           wrote' \subseteq wrote \cup {r},
           r \in wrote' => next \in {"ok", "addCreator"}
    PROVE  FleetInv'
<1>1. local[r] \in Local /\ NamesItsRow(r)
  BY DEF FleetInv, FleetTypeOK
<1>2. /\ step'[r] = next
      /\ \A q \in Requests \ {r} : step'[q] = step[q] /\ local'[q] = local[q]
      /\ local'[r].user = local[r].user /\ local'[r].role = local[r].role
      /\ next = "addCreator" => local'[r].of \in Fleets
  BY <1>1 DEF FleetInv, FleetTypeOK, Local
<1>3. (NamesItsRow(r) /\ ReadsLast(r) /\ WroteForGood(r))'
  BY <1>1, <1>2 DEF NamesItsRow, ReadsLast, WroteForGood, OnVehicle
<1> QED
  BY <1>2, <1>3, OtherStepInv

LEMMA FleetWritesInv ==
    ASSUME FleetInv, NEW r \in Requests, FleetWrites(r)
    PROVE  FleetInv'
<1>0. local[r] \in Local /\ NamesItsRow(r)
  BY DEF FleetInv, FleetTypeOK
<1>1. ASSUME NEW f \in Fleets, CreateFleet(r, f)
      PROVE  FleetInv'
  <2>1. [local[r] EXCEPT !.of = f] \in Local
    BY <1>0 DEF Local
  <2>2. FleetTypeOK'
    BY <1>1, <2>1 DEF CreateFleet, Writes, FleetInv, FleetTypeOK, Calls
  <2> QED
    BY <1>1, <2>2, EndInv DEF CreateFleet, Writes
<1>2. ASSUME NEW call \in Calls, NEW f \in Fleets, NEW u \in Users,
             NEW role \in ManagerRoles, InsertManager(r, call, f, u, role)
      PROVE  FleetInv'
  <2>1. FleetTypeOK'
    BY <1>2 DEF InsertManager, Writes, FleetInv, FleetTypeOK
  <2>2. step[r] # "idle"
    BY <1>2 DEF InsertManager, Writes, Calls
  <2> QED
    BY <1>2, <2>1, <2>2, EndInv DEF InsertManager, Writes
<1>3. ASSUME NEW f \in Fleets, NEW u \in Users, RemoveManager(r, f, u)
      PROVE  FleetInv'
  <2>1. FleetTypeOK'
    BY <1>3 DEF RemoveManager, Writes, FleetInv, FleetTypeOK
  <2> QED
    BY <1>3, <2>1, EndInv DEF RemoveManager, Writes
<1>4. ASSUME NEW call \in Calls, NEW f \in Fleets,
             NEW state \in {"active", "deleted"}, PutFleet(r, call, f, state)
      PROVE  FleetInv'
  <2>1. FleetTypeOK'
    BY <1>4 DEF PutFleet, Writes, FleetInv, FleetTypeOK
  <2>2. step[r] # "idle"
    BY <1>4 DEF PutFleet, Writes, Calls
  <2> QED
    BY <1>4, <2>1, <2>2, EndInv DEF PutFleet, Writes
<1>5. ASSUME AddCreator(r)
      PROVE  FleetInv'
  <2>1. /\ local[r].of \in Fleets /\ local[r].user \in Users
        /\ ManagerRole(local[r].role) \in ManagerRoles
    BY <1>0, <1>5 DEF AddCreator, NamesItsRow, ManagerRole, ManagerRoles, UserRoles
  <2> QED
    BY <1>2, <1>5, <2>1 DEF AddCreator, Calls
<1> QED
  BY <1>1, <1>2, <1>3, <1>4, <1>5 DEF FleetWrites, AddManager, UpdateFleet,
     SoftDeleteFleet, Calls

LEMMA CallEndsBadlyInv ==
    ASSUME FleetInv, NEW r \in Requests, CallEndsBadly(r)
    PROVE  FleetInv'
<1> DEFINE next == IF step[r] = "addCreator" THEN "ok" ELSE "failed"
<1>1. step' = [step EXCEPT ![r] = next] /\ step[r] \in Calls
  BY DEF CallEndsBadly, FleetInv, FleetTypeOK
<1>2. FleetTypeOK'
  BY DEF CallEndsBadly, FleetInv, FleetTypeOK, rows
<1>3. r \in wrote => next = "ok"
  BY <1>1 DEF FleetInv, WroteForGood, Calls
<1> QED
  BY <1>1, <1>2, <1>3, EndInv DEF CallEndsBadly, rows, Calls

-----------------------------------------------------------------------------
(* Writes of a vehicle. *)

OneSide(row) == (row.owner = Nobody) # (row.fleet = Nobody)

(* The row v is written by r, and requests that had read another first     *)
(* fleet are overtaken.                                                    *)
LEMMA VehicleStepInv ==
    ASSUME FleetInv, NEW r \in Requests, NEW v \in Vehicles, NEW row \in Vehicle,
           step[r] # "idle", step' = [step EXCEPT ![r] = "ok"],
           wrote' = wrote \cup {r},
           UNCHANGED <<users, fleets, managers, local>>,
           vehicles' = [vehicles EXCEPT ![v] = row], row.exists,
           loose' \subseteq Vehicles, loose \subseteq loose' \cup {v},
           v \in loose' \/ OneSide(row),
           overtaken \subseteq overtaken', overtaken' \subseteq Requests,
           \A q \in Requests \ {r} :
             step[q] = "assign" /\ local[q].of = v /\ q \notin overtaken'
               /\ vehicles[v].exists => row.first = vehicles[v].first
    PROVE  FleetInv'
<1>1. FleetTypeOK'
  BY DEF FleetInv, FleetTypeOK
<1>2. /\ step'[r] = "ok" /\ \A q \in Requests \ {r} : step'[q] = step[q]
      /\ vehicles'[v] = row /\ \A w \in Vehicles \ {v} : vehicles'[w] = vehicles[w]
  BY DEF FleetInv, FleetTypeOK
<1>3. ASSUME NEW q \in Requests
      PROVE  (NamesItsRow(q) /\ ReadsLast(q) /\ WroteForGood(q))'
  <2>1. NamesItsRow(q) /\ ReadsLast(q) /\ WroteForGood(q)
    BY DEF FleetInv
  <2>2. CASE q = r
    BY <1>2, <2>1, <2>2 DEF NamesItsRow, ReadsLast, WroteForGood, OnVehicle
  <2>3. CASE q # r
    <3>1. NamesItsRow(q)' /\ WroteForGood(q)'
      BY <1>2, <2>1, <2>3 DEF NamesItsRow, WroteForGood
    <3>2. step[q] = "assign" => local[q].of \in Vehicles
      BY <2>1 DEF NamesItsRow, OnVehicle
    <3>3. ReadsLast(q)'
      BY <1>2, <2>1, <2>3, <3>2 DEF ReadsLast
    <3> QED
      BY <3>1, <3>3
  <2> QED
    BY <2>2, <2>3
<1>4. NewVehiclesAreBlank'
  BY <1>2 DEF FleetInv, NewVehiclesAreBlank
<1>5. VehicleHasOneSide'
  BY <1>2 DEF FleetInv, VehicleHasOneSide, OneSide
<1> QED
  BY <1>1, <1>3, <1>4, <1>5 DEF FleetInv

(* The same for a request that names the row. *)
LEMMA PutVehicleInv ==
    ASSUME FleetInv, NEW r \in Requests, NEW call \in OnVehicle,
           NEW row \in Vehicle, step[r] = call, row.exists,
           PutVehicle(r, call, local[r].of, row),
           loose' \subseteq Vehicles, loose \subseteq loose' \cup {local[r].of},
           local[r].of \in loose' \/ OneSide(row)
    PROVE  FleetInv'
<1>1. local[r].of \in Vehicles
  BY DEF FleetInv, NamesItsRow
<1>2. /\ step[r] # "idle" /\ step' = [step EXCEPT ![r] = "ok"]
      /\ wrote' = wrote \cup {r}
      /\ UNCHANGED <<users, fleets, managers, local>>
      /\ vehicles' = [vehicles EXCEPT ![local[r].of] = row]
      /\ Overtakes(r, local[r].of, vehicles[local[r].of].first, row.first)
  BY DEF PutVehicle, Writes, OnVehicle
<1>3. /\ overtaken \subseteq overtaken' /\ overtaken' \subseteq Requests
      /\ \A q \in Requests \ {r} :
             step[q] = "assign" /\ local[q].of = local[r].of /\ q \notin overtaken'
               => row.first = vehicles[local[r].of].first
  BY <1>2 DEF Overtakes, FleetInv, FleetTypeOK
<1> QED
  BY <1>1, <1>2, <1>3, VehicleStepInv

LEMMA CreateVehicleInv ==
    ASSUME FleetInv, NEW r \in Requests, NEW v \in Vehicles,
           NEW o \in Users \cup {Nobody}, NEW f \in Fleets \cup {Nobody},
           CreateVehicle(r, v, o, f)
    PROVE  FleetInv'
<1>1. Place(o, f) \in Vehicle /\ Place(o, f).exists /\ OneSide(Place(o, f))
  BY DEF CreateVehicle, Place, Vehicle, OneSide
<1> QED
  BY <1>1, VehicleStepInv DEF CreateVehicle, Writes, FleetInv, FleetTypeOK

LEMMA AssignInv ==
    ASSUME FleetInv, NEW r \in Requests, NEW f \in Fleets, Assign(r, f)
    PROVE  FleetInv'
<1> DEFINE v == local[r].of
           row == [vehicles[v] EXCEPT !.fleet = f, !.owner = Nobody,
                     !.first = IF local[r].seen = Nobody THEN f
                               ELSE local[r].seen]
<1>1. /\ v \in Vehicles /\ vehicles[v] \in Vehicle /\ vehicles[v].exists
      /\ local[r].seen \in Fleets \cup {Nobody} /\ step[r] = "assign"
  BY DEF Assign, FleetInv, FleetTypeOK, NamesItsRow, ReadsLast, OnVehicle
<1>2. row \in Vehicle /\ row.exists /\ OneSide(row)
  BY <1>1, NobodyAssumption DEF Vehicle, OneSide
<1>3. PutVehicle(r, "assign", v, row) /\ loose' = loose \ {v}
  BY DEF Assign
<1>4. loose \subseteq Vehicles
  BY DEF FleetInv, FleetTypeOK
<1> HIDE DEF row
<1> QED
  BY <1>1, <1>2, <1>3, <1>4, PutVehicleInv DEF OnVehicle

LEMMA RemoveInv ==
    ASSUME FleetInv, NEW r \in Requests, NEW o \in Users \cup {Nobody},
           Remove(r, o)
    PROVE  FleetInv'
<1> DEFINE v == local[r].of
           row == [vehicles[v] EXCEPT !.fleet = Nobody, !.owner = o]
<1>1. /\ v \in Vehicles /\ vehicles[v] \in Vehicle /\ step[r] = "remove"
      /\ vehicles[v].exists
  BY DEF Remove, PutVehicle, FleetInv, FleetTypeOK, NamesItsRow, OnVehicle
<1>2. row \in Vehicle /\ row.exists /\ (o # Nobody => OneSide(row))
  BY <1>1 DEF Vehicle, OneSide
<1>3. /\ PutVehicle(r, "remove", v, row)
      /\ loose' = IF o = Nobody THEN loose \cup {v} ELSE loose \ {v}
  BY DEF Remove
<1>4. loose \subseteq Vehicles
  BY DEF FleetInv, FleetTypeOK
<1> HIDE DEF row
<1> QED
  BY <1>1, <1>2, <1>3, <1>4, PutVehicleInv DEF OnVehicle

LEMMA UpdateVehicleInv ==
    ASSUME FleetInv, NEW r \in Requests, NEW row \in Vehicle, row.exists,
           UpdateVehicle(r, row)
    PROVE  FleetInv'
<1> DEFINE v == local[r].of
<1>1. /\ v \in Vehicles /\ vehicles[v].exists /\ step[r] = "updateVehicle"
      /\ loose \subseteq Vehicles
  BY DEF UpdateVehicle, PutVehicle, FleetInv, FleetTypeOK, NamesItsRow, OnVehicle
<1>2. v \notin loose => OneSide(vehicles[v])
  BY <1>1 DEF FleetInv, VehicleHasOneSide, OneSide
<1>3. /\ PutVehicle(r, "updateVehicle", v, row)
      /\ loose' = IF row.owner = vehicles[v].owner /\ row.fleet = vehicles[v].fleet
                  THEN loose ELSE loose \cup {v}
  BY DEF UpdateVehicle
<1>4. v \in loose' \/ OneSide(row)
  BY <1>2, <1>3 DEF OneSide
<1> QED
  BY <1>1, <1>3, <1>4, PutVehicleInv DEF OnVehicle

LEMMA SoftDeleteVehicleInv ==
    ASSUME FleetInv, NEW r \in Requests, SoftDeleteVehicle(r)
    PROVE  FleetInv'
<1> DEFINE v == local[r].of
           row == [vehicles[v] EXCEPT !.active = FALSE]
<1>1. /\ step[r] = "deleteVehicle" /\ loose' = loose
      /\ PutVehicle(r, "deleteVehicle", v, row) /\ vehicles[v].exists
  BY DEF SoftDeleteVehicle, PutVehicle, Writes
<1>2. v \in Vehicles /\ vehicles[v] \in Vehicle /\ loose \subseteq Vehicles
  BY <1>1 DEF FleetInv, FleetTypeOK, NamesItsRow, OnVehicle
<1>3. row \in Vehicle /\ row.exists /\ (v \notin loose => OneSide(row))
  BY <1>1, <1>2 DEF Vehicle, OneSide, FleetInv, VehicleHasOneSide
<1> HIDE DEF row
<1> QED
  BY <1>1, <1>2, <1>3, PutVehicleInv DEF OnVehicle

LEMMA FindsInv ==
    ASSUME FleetInv, NEW r \in Requests,
           FindAssigned(r) \/ FindEdited(r) \/ FindUser(r)
    PROVE  FleetInv'
<1>0. NamesItsRow(r)
  BY DEF FleetInv
<1>1. CASE FindAssigned(r)
  <2>1. vehicles[local[r].of].first \in Fleets \cup {Nobody}
    BY <1>0, <1>1 DEF FindAssigned, NamesItsRow, OnVehicle, FleetInv,
       FleetTypeOK, Vehicle
  <2> QED
    BY <1>1, <2>1, ReadsInv DEF FindAssigned, Calls
<1>2. CASE FindEdited(r)
  BY <1>2, ReadsInv DEF FindEdited, Calls
<1>3. CASE FindUser(r)
  <2>1. users[local[r].of].tag \in Tags \cup {Nobody}
    BY <1>0, <1>3 DEF FindUser, NamesItsRow, FleetInv, FleetTypeOK, User
  <2> QED
    BY <1>3, <2>1, ReadsInv DEF FindUser, Calls
<1> QED
  BY <1>1, <1>2, <1>3

(* The account of the request is written; edits that had read another tag  *)
(* are overtaken.                                                          *)
LEMMA UpdateUserInv ==
    ASSUME FleetInv, NEW r \in Requests, NEW role \in UserRoles,
           NEW active \in BOOLEAN, UpdateUser(r, role, active)
    PROVE  FleetInv'
<1> DEFINE u == local[r].of
           row == [role |-> role, active |-> active,
                   tag |-> TagAfter(r, users[u].tag)]
<1>1. step[r] = "updateUser" /\ u \in Users /\ users[u] \in User
  BY DEF UpdateUser, Writes, FleetInv, FleetTypeOK, NamesItsRow
<1>2. row \in User
  BY <1>1 DEF User, TagAfter, Tags
<1>3. /\ users' = [users EXCEPT ![u] = row]
      /\ step' = [step EXCEPT ![r] = "ok"] /\ wrote' = wrote \cup {r}
      /\ Overtakes(r, u, users[u].tag, users'[u].tag)
      /\ UNCHANGED <<fleets, vehicles, managers, local, loose>>
  BY DEF UpdateUser, Writes
<1> HIDE DEF row
<1>4. FleetTypeOK'
  BY <1>2, <1>3 DEF FleetInv, FleetTypeOK, Overtakes
<1>5. ASSUME NEW q \in Requests
      PROVE  (NamesItsRow(q) /\ ReadsLast(q) /\ WroteForGood(q))'
  <2>1. NamesItsRow(q) /\ ReadsLast(q) /\ WroteForGood(q)
    BY DEF FleetInv
  <2>2. /\ step'[r] = "ok" /\ \A p \in Requests \ {r} : step'[p] = step[p]
        /\ \A w \in Users \ {u} : users'[w] = users[w]
    BY <1>3 DEF FleetInv, FleetTypeOK
  <2>3. CASE q = r
    BY <1>1, <1>3, <2>1, <2>2, <2>3 DEF NamesItsRow, ReadsLast,
       WroteForGood, OnVehicle
  <2>4. CASE q # r
    <3>1. NamesItsRow(q)' /\ WroteForGood(q)'
      BY <1>3, <2>1, <2>2, <2>4 DEF NamesItsRow, WroteForGood
    <3>2. step[q] = "updateUser" => local[q].of \in Users
      BY <2>1 DEF NamesItsRow
    <3>3. ReadsLast(q)'
      BY <1>3, <2>1, <2>2, <2>4, <3>2 DEF ReadsLast, Overtakes
    <3> QED
      BY <3>1, <3>3
  <2> QED
    BY <2>3, <2>4
<1>6. (NewVehiclesAreBlank /\ VehicleHasOneSide)'
  BY <1>3 DEF FleetInv, NewVehiclesAreBlank, VehicleHasOneSide
<1> QED
  BY <1>4, <1>5, <1>6 DEF FleetInv

-----------------------------------------------------------------------------
LEMMA RequestedInv ==
    ASSUME FleetInv, NEW r \in Requests, NEW u \in Users, Requested(r, u)
    PROVE  FleetInv'
<1>1. CASE \E roles \in SUBSET UserRoles,
            call \in {"createFleet", "updateFleet", "deleteFleet", "addManager",
                     "removeManager", "createVehicle"} :
             Begin(r, u, roles, call, Nobody)
  BY <1>1, BeginInv DEF Calls, OnVehicle
<1>2. CASE \E v \in Vehicles, roles \in SUBSET UserRoles,
            call \in {"findAssigned", "remove", "findEdited", "deleteVehicle"} :
             Begin(r, u, roles, call, v)
  BY <1>2, BeginInv DEF Calls, OnVehicle
<1>3. CASE \E of \in Users : Begin(r, u, Staff, "findUser", of)
  BY <1>3, BeginInv DEF Calls, OnVehicle
<1>4. Staff \in SUBSET UserRoles /\ Admins \in SUBSET UserRoles
  BY DEF Staff, Admins, UserRoles
<1> QED
  BY <1>1, <1>2, <1>3, <1>4 DEF Requested, CreateFleetRequested,
     UpdateFleetRequested, DeleteFleetRequested, AddManagerRequested,
     RemoveManagerRequested, CreateVehicleRequested, AssignRequested,
     RemoveRequested, EditVehicleRequested, DeleteVehicleRequested,
     EditUserRequested

LEMMA FleetInvStep == FleetInv /\ [FleetNext]_fleetVars => FleetInv'
<1> SUFFICES ASSUME FleetInv, [FleetNext]_fleetVars
             PROVE  FleetInv'
  OBVIOUS
<1>1. ASSUME NEW r \in Requests, VehicleWrites(r)
      PROVE  FleetInv'
  BY <1>1, CreateVehicleInv, AssignInv, RemoveInv, UpdateVehicleInv,
     SoftDeleteVehicleInv, FindsInv DEF VehicleWrites
<1>2. ASSUME NEW r \in Requests, AccountWrites(r)
      PROVE  FleetInv'
  BY <1>2, UpdateUserInv, FindsInv DEF AccountWrites
<1>3. CASE UNCHANGED fleetVars
  BY <1>3 DEF fleetVars, rows, FleetInv, FleetTypeOK, NamesItsRow, ReadsLast,
     WroteForGood, NewVehiclesAreBlank, VehicleHasOneSide
<1> QED
  BY <1>1, <1>2, <1>3, RequestedInv, FleetWritesInv, CallEndsBadlyInv
     DEF FleetNext

THEOREM FleetInvariant == FleetSpec => []FleetInv
BY FleetInvInit, FleetInvStep, PTL DEF FleetSpec

-----------------------------------------------------------------------------
(* Every variable keeps its type: the rows refer to accounts and fleets,   *)
(* and a manager never has a role that only accounts have.                 *)
THEOREM FleetTypes == FleetSpec => []FleetTypeOK
<1>1. FleetInv => FleetTypeOK
  BY DEF FleetInv
<1> QED
  BY <1>1, FleetInvariant, PTL

(* A vehicle has an owner or a fleet and not both, however assignments,    *)
(* removals and creations overlap, unless an edit of the row or a removal  *)
(* that names no owner placed it.                                          *)
THEOREM VehiclesHaveOneSide == FleetSpec => []VehicleHasOneSide
<1>1. FleetInv => VehicleHasOneSide
  BY DEF FleetInv
<1> QED
  BY <1>1, FleetInvariant, PTL

(* A request that is answered with an error has changed nothing.           *)
THEOREM FailedRequestsWroteNothing == FleetSpec => []FailedRequestWroteNothing
<1>1. FleetInv => FailedRequestWroteNothing
  BY DEF FleetInv, FleetTypeOK, WroteForGood, FailedRequestWroteNothing
<1> QED
  BY <1>1, FleetInvariant, PTL

(* What the writes of the vehicles and of the accounts are. *)
LEMMA FleetWritesWriteNeither ==
    ASSUME NEW r \in Requests,
           \/ \E u \in Users : Requested(r, u)
           \/ FleetWrites(r)
           \/ CallEndsBadly(r)
    PROVE  UNCHANGED <<users, vehicles>>
<1>1. ASSUME NEW u \in Users, Requested(r, u)
      PROVE  UNCHANGED <<users, vehicles>>
  BY <1>1 DEF Requested, CreateFleetRequested, UpdateFleetRequested,
     DeleteFleetRequested, AddManagerRequested, RemoveManagerRequested,
     CreateVehicleRequested, AssignRequested, RemoveRequested,
     EditVehicleRequested, DeleteVehicleRequested, EditUserRequested, Begin, rows
<1>2. ASSUME FleetWrites(r)
      PROVE  UNCHANGED <<users, vehicles>>
  BY <1>2 DEF FleetWrites, AddCreator, InsertManager, CreateFleet,
     SoftDeleteFleet, UpdateFleet, PutFleet, AddManager, RemoveManager
<1> QED
  BY <1>1, <1>2 DEF CallEndsBadly, rows

KeepsFirstFleet ==
    \A v \in Vehicles :
      vehicles[v].first # Nobody /\ vehicles'[v].first # vehicles[v].first
        => \E r \in Requests : \/ step[r] = "updateVehicle"
                               \/ step[r] = "assign" /\ r \in overtaken

LEMMA VehicleWriteKeepsFirst ==
    ASSUME FleetInv, NEW r \in Requests, VehicleWrites(r), NEW v \in Vehicles,
           vehicles[v].first # Nobody, vehicles'[v].first # vehicles[v].first
    PROVE  \/ step[r] = "updateVehicle"
           \/ step[r] = "assign" /\ r \in overtaken
<1>1. vehicles[v].exists /\ vehicles[v] \in Vehicle
  BY DEF FleetInv, FleetTypeOK, NewVehiclesAreBlank
<1>2. ASSUME NEW f \in Fleets, Assign(r, f)
      PROVE  step[r] = "assign" /\ r \in overtaken
  <2>1. step[r] = "assign" /\ local[r].of \in Vehicles /\ ReadsLast(r)
    BY <1>2 DEF Assign, FleetInv, NamesItsRow, OnVehicle
  <2>2. /\ vehicles[local[r].of] \in Vehicle
        /\ vehicles' = [vehicles EXCEPT ![local[r].of] =
             [vehicles[local[r].of] EXCEPT !.fleet = f, !.owner = Nobody,
                !.first = IF local[r].seen = Nobody THEN f ELSE local[r].seen]]
    BY <1>2, <2>1 DEF Assign, PutVehicle, FleetInv, FleetTypeOK
  <2>3. v = local[r].of
    BY <2>2
  <2>4. vehicles'[v].first = IF local[r].seen = Nobody THEN f ELSE local[r].seen
    BY <2>2, <2>3 DEF FleetInv, FleetTypeOK, Vehicle
  <2> QED
    BY <2>1, <2>3, <2>4 DEF ReadsLast
<1>3. ASSUME NEW w \in Vehicles, NEW o \in Users \cup {Nobody},
             NEW f \in Fleets \cup {Nobody}, CreateVehicle(r, w, o, f)
      PROVE  FALSE
  <2>1. w # v
    BY <1>1, <1>3 DEF CreateVehicle
  <2> QED
    BY <1>3, <2>1 DEF CreateVehicle
<1>4. ASSUME NEW o \in Users \cup {Nobody}, Remove(r, o)
      PROVE  FALSE
  <2>1. vehicles' = [vehicles EXCEPT ![local[r].of] =
                      [vehicles[local[r].of] EXCEPT !.fleet = Nobody, !.owner = o]]
    BY <1>4 DEF Remove, PutVehicle
  <2>2. v = local[r].of
    BY <2>1
  <2> QED
    BY <1>1, <2>1, <2>2 DEF FleetInv, FleetTypeOK, Vehicle
<1>5. ASSUME SoftDeleteVehicle(r)
      PROVE  FALSE
  <2>1. vehicles' = [vehicles EXCEPT ![local[r].of] =
                      [vehicles[local[r].of] EXCEPT !.active = FALSE]]
    BY <1>5 DEF SoftDeleteVehicle, PutVehicle
  <2>2. v = local[r].of
    BY <2>1
  <2> QED
    BY <1>1, <2>1, <2>2 DEF FleetInv, FleetTypeOK, Vehicle
<1>6. ~(FindAssigned(r) \/ FindEdited(r))
  BY DEF FindAssigned, FindEdited, Reads, rows
<1> QED
  BY <1>2, <1>3, <1>4, <1>5, <1>6 DEF VehicleWrites, UpdateVehicle

LEMMA FirstFleetStep ==
    ASSUME FleetInv, FleetNext
    PROVE  KeepsFirstFleet
<1>1. ASSUME NEW r \in Requests, AccountWrites(r)
      PROVE  UNCHANGED vehicles
  BY <1>1 DEF AccountWrites, FindUser, Reads, UpdateUser, rows
<1>2. \/ UNCHANGED vehicles
      \/ \E r \in Requests : VehicleWrites(r)
  BY <1>1, FleetWritesWriteNeither DEF FleetNext
<1> QED
  BY <1>2, VehicleWriteKeepsFirst DEF KeepsFirstFleet

(* The first fleet of a vehicle is rewritten only by an edit, or by an     *)
(* assignment that had read the vehicle before another request wrote it.   *)
THEOREM FirstFleetIsKept == FleetSpec => FirstFleetStays
<1>1. FleetInv /\ [FleetNext]_fleetVars => [KeepsFirstFleet]_fleetVars
  BY FirstFleetStep
<1>2. [][FleetNext]_fleetVars /\ []FleetInv => [][KeepsFirstFleet]_fleetVars
  BY <1>1, PTL
<1>3. FleetSpec => [][KeepsFirstFleet]_fleetVars
  BY <1>2, FleetInvariant, PTL DEF FleetSpec
<1> QED
  BY <1>3 DEF FirstFleetStays, KeepsFirstFleet

KeepsTag ==
    \A u \in Users :
      users[u].tag # Nobody /\ users'[u].tag # users[u].tag
        => \E r \in overtaken : step[r] = "updateUser" /\ local[r].of = u

LEMMA TagStep ==
    ASSUME FleetInv, FleetNext
    PROVE  KeepsTag
<1> SUFFICES ASSUME NEW u \in Users, users[u].tag # Nobody,
                    users'[u].tag # users[u].tag
             PROVE  \E r \in overtaken : step[r] = "updateUser" /\ local[r].of = u
  BY DEF KeepsTag
<1>1. ASSUME NEW r \in Requests, VehicleWrites(r)
      PROVE  UNCHANGED users
  BY <1>1 DEF VehicleWrites, CreateVehicle, FindAssigned, Assign, Remove,
     FindEdited, UpdateVehicle, SoftDeleteVehicle, PutVehicle, Reads, rows
<1>2. ASSUME NEW r \in Requests, FindUser(r)
      PROVE  UNCHANGED users
  BY <1>2 DEF FindUser, Reads, rows
<1>3. PICK r \in Requests, role \in UserRoles, active \in BOOLEAN :
        UpdateUser(r, role, active)
  BY <1>1, <1>2, FleetWritesWriteNeither DEF FleetNext, AccountWrites
<1>4. /\ step[r] = "updateUser" /\ ReadsLast(r)
      /\ users' = [users EXCEPT ![local[r].of] = [role |-> role,
           active |-> active, tag |-> TagAfter(r, users[local[r].of].tag)]]
  BY <1>3 DEF UpdateUser, Writes, FleetInv
<1>5. local[r].of = u
  BY <1>4
<1>6. users'[u].tag = TagAfter(r, users[u].tag)
  BY <1>4, <1>5 DEF FleetInv, FleetTypeOK
<1>7. r \in overtaken
  BY <1>4, <1>5, <1>6 DEF ReadsLast, TagAfter
<1> QED
  BY <1>4, <1>5, <1>7

(* A tag is replaced only by an edit that had read the user before the     *)
(* tag was written.                                                        *)
THEOREM TagsAreKept == FleetSpec => TagIsKept
<1>1. FleetInv /\ [FleetNext]_fleetVars => [KeepsTag]_fleetVars
  BY TagStep
<1>2. [][FleetNext]_fleetVars /\ []FleetInv => [][KeepsTag]_fleetVars
  BY <1>1, PTL
<1>3. FleetSpec => [][KeepsTag]_fleetVars
  BY <1>2, FleetInvariant, PTL DEF FleetSpec
<1> QED
  BY <1>3 DEF TagIsKept, KeepsTag

=============================================================================
