------------------------ MODULE FleetAdministration ------------------------
(***************************************************************************)
(* Fleets, their vehicles and managers, and the accounts that administer   *)
(* them (api_gateway.ts, database.ts).  A request is read, written in one  *)
(* or two database calls, and answered; requests interleave between the    *)
(* calls.  A request begins when its account has been read: the role it    *)
(* had then is the one the whole request goes by.  Requests the checks of  *)
(* the body refuse, and those that only read, change nothing.  A call may  *)
(* fail; it stands for the unique and foreign keys of other columns too.   *)
(***************************************************************************)
EXTENDS Integers

CONSTANTS
    Requests,  \* bound: requests made
    Users,     \* accounts, all of which have a row
    Fleets,
    Vehicles,
    Nobody     \* null

ASSUME NobodyAssumption == Nobody \notin Users \cup Fleets \cup Requests

UserRoles == {"ADMIN", "OPERATOR", "VIEWER"}
ManagerRoles == {"ADMIN", "MANAGER", "VIEWER", "BILLING"}

VARIABLES
    users,     \* user -> role, isActive, idTag
    fleets,    \* fleet -> "absent", "active" or "deleted"
    vehicles,  \* vehicle -> its row
    managers,  \* fleet -> user -> the role of the row, or Nobody
    step,      \* request -> the database call it awaits, or its answer
    local,     \* request -> its local variables
    loose,     \* history: vehicles last placed without the rule
    overtaken, \* history: requests whose row was written since they read it
    wrote      \* history: requests that have written

rows == <<users, fleets, vehicles, managers>>
fleetVars == <<rows, step, local, loose, overtaken, wrote>>

Tags == Requests \cup {"issued"}   \* a tag is named for the edit that made it

User == [role : UserRoles, active : BOOLEAN, tag : Tags \cup {Nobody}]
Vehicle == [exists : BOOLEAN, active : BOOLEAN, owner : Users \cup {Nobody},
            fleet : Fleets \cup {Nobody}, first : Fleets \cup {Nobody}]
Local == [user : Users \cup {Nobody}, role : UserRoles \cup {Nobody},
          of : Fleets \cup Vehicles \cup Users \cup {Nobody},
          seen : Fleets \cup Tags \cup {Nobody}]

Calls == {"createFleet", "addCreator", "updateFleet", "deleteFleet",
          "findAssigned", "assign", "remove", "addManager", "removeManager",
          "createVehicle", "findEdited", "updateVehicle", "deleteVehicle",
          "findUser", "updateUser"}

Place(o, f) == [exists |-> TRUE, active |-> TRUE, owner |-> o, fleet |-> f,
                first |-> f]
NoVehicle == [Place(Nobody, Nobody) EXCEPT !.exists = FALSE]

FleetInit ==
    /\ users \in [Users -> [role : {"ADMIN", "OPERATOR"}, active : {TRUE},
                            tag : {"issued", Nobody}]]
    /\ fleets \in [Fleets -> {"absent", "active"}]
    /\ vehicles \in [Vehicles -> {NoVehicle}
                      \cup {Place(o, Nobody) : o \in Users}
                      \cup {Place(Nobody, f) : f \in Fleets}]
    /\ \A v \in Vehicles : vehicles[v].fleet # Nobody
                              => fleets[vehicles[v].fleet] = "active"
    /\ managers = [f \in Fleets |-> [u \in Users |-> Nobody]]
    /\ step = [r \in Requests |-> "idle"]
    /\ local = [r \in Requests |-> [user |-> Nobody, role |-> Nobody,
                                    of |-> Nobody, seen |-> Nobody]]
    /\ loose = {}
    /\ overtaken = {}
    /\ wrote = {}

-----------------------------------------------------------------------------
(* Helpers *)

(* authenticateUser and requireRole let the request of u pass, and the     *)
(* handler runs to its first call.  of: the row it names.                  *)
Begin(r, u, roles, call, of) ==
    /\ step[r] = "idle"
    /\ users[u].active
    /\ users[u].role \in roles
    /\ step' = [step EXCEPT ![r] = call]
    /\ local' = [local EXCEPT ![r] = [user |-> u, role |-> users[u].role,
                                      of |-> of, seen |-> Nobody]]
    /\ UNCHANGED <<rows, loose, overtaken, wrote>>

Staff == {"ADMIN", "OPERATOR"}
Admins == {"ADMIN"}

(* The call of r ends with a write, and next is what r does then. *)
Writes(r, call, next) ==
    /\ step[r] = call
    /\ step' = [step EXCEPT ![r] = next]
    /\ wrote' = wrote \cup {r}

(* The call of r ends with a read of column value x. *)
Reads(r, call, next, x) ==
    /\ step[r] = call
    /\ step' = [step EXCEPT ![r] = next]
    /\ local' = [local EXCEPT ![r].seen = x]
    /\ UNCHANGED <<rows, loose, overtaken, wrote>>

(* r replaces column value old of the row of by new: others have read it.  *)
Overtakes(r, of, old, new) ==
    overtaken' = overtaken \cup
        {q \in Requests \ {r} : /\ step[q] \in {"assign", "updateUser"}
                                /\ local[q].of = of /\ old # new}

PutVehicle(r, call, v, row) ==
    /\ Writes(r, call, "ok")
    /\ vehicles[v].exists
    /\ row.fleet # Nobody => fleets[row.fleet] # "absent"   \* foreign key
    /\ vehicles' = [vehicles EXCEPT ![v] = row]
    /\ Overtakes(r, v, vehicles[v].first, row.first)
    /\ UNCHANGED <<users, fleets, managers, local>>

-----------------------------------------------------------------------------
(* Fleets *)

(* The fleet and then, for the account that asked, a manager. *)
CreateFleet(r, f) ==
    /\ fleets[f] = "absent"
    /\ Writes(r, "createFleet", "addCreator")
    /\ fleets' = [fleets EXCEPT ![f] = "active"]
    /\ local' = [local EXCEPT ![r].of = f]
    /\ UNCHANGED <<users, vehicles, managers, loose, overtaken>>

(* Mutation of ManagerRole: the role of the account is taken over. *)
ManagerRoleUnmapped(role) == role

ManagerRole(role) ==
    IF role = "OPERATOR" THEN "MANAGER" ELSE role

(* db.addFleetManager: one row for a user and a fleet. *)
InsertManager(r, call, f, u, role) ==
    /\ fleets[f] # "absent"
    /\ managers[f][u] = Nobody
    /\ Writes(r, call, "ok")
    /\ managers' = [managers EXCEPT ![f][u] = role]
    /\ UNCHANGED <<users, fleets, vehicles, local, loose, overtaken>>

AddCreator(r) ==
    step[r] = "addCreator" /\ InsertManager(r, "addCreator", local[r].of,
        local[r].user, ManagerRole(local[r].role))

AddManager(r, f, u, role) == InsertManager(r, "addManager", f, u, role)

RemoveManager(r, f, u) ==
    /\ managers[f][u] # Nobody
    /\ Writes(r, "removeManager", "ok")
    /\ managers' = [managers EXCEPT ![f][u] = Nobody]
    /\ UNCHANGED <<users, fleets, vehicles, local, loose, overtaken>>

PutFleet(r, call, f, state) ==
    /\ fleets[f] # "absent"
    /\ Writes(r, call, "ok")
    /\ fleets' = [fleets EXCEPT ![f] = state]
    /\ UNCHANGED <<users, vehicles, managers, local, loose, overtaken>>

(* Any of the columns, isActive among them. *)
UpdateFleet(r, f, state) == PutFleet(r, "updateFleet", f, state)

(* A deleted fleet keeps its vehicles and managers, and can be updated. *)
SoftDeleteFleet(r, f) == PutFleet(r, "deleteFleet", f, "deleted")

-----------------------------------------------------------------------------
(* Vehicles *)

CreateVehicle(r, v, o, f) ==
    /\ Writes(r, "createVehicle", "ok")
    /\ ~vehicles[v].exists
    /\ (o = Nobody) # (f = Nobody)
    /\ f # Nobody => fleets[f] # "absent"
    /\ vehicles' = [vehicles EXCEPT ![v] = Place(o, f)]
    /\ UNCHANGED <<users, fleets, managers, local, loose, overtaken>>

(* assignVehicleToFleet reads the vehicle first, for its first fleet. *)
FindAssigned(r) ==
    /\ step[r] = "findAssigned"
    /\ vehicles[local[r].of].exists
    /\ Reads(r, "findAssigned", "assign", vehicles[local[r].of].first)

(* Mutations of Assign: the owner stays; the first fleet is overwritten. *)
AssignKeepsOwner(r, f) ==
    /\ step[r] = "assign"
    /\ LET v == local[r].of IN
         /\ PutVehicle(r, "assign", v, [vehicles[v] EXCEPT !.fleet = f,
              !.first = IF local[r].seen = Nobody THEN f ELSE local[r].seen])
         /\ loose' = loose \ {v}

AssignRestarts(r, f) ==
    /\ step[r] = "assign"
    /\ LET v == local[r].of IN
         /\ PutVehicle(r, "assign", v, [vehicles[v] EXCEPT !.fleet = f,
              !.owner = Nobody, !.first = f])
         /\ loose' = loose \ {v}

Assign(r, f) ==
    /\ step[r] = "assign"
    /\ LET v == local[r].of IN
         /\ PutVehicle(r, "assign", v, [vehicles[v] EXCEPT !.fleet = f,
              !.owner = Nobody,
              !.first = IF local[r].seen = Nobody THEN f ELSE local[r].seen])
         /\ loose' = loose \ {v}

(* removeVehicleFromFleet does not look at the fleet the vehicle is in. *)
Remove(r, o) ==
    /\ step[r] = "remove"
    /\ LET v == local[r].of IN
         /\ PutVehicle(r, "remove", v, [vehicles[v] EXCEPT !.fleet = Nobody,
                                                         !.owner = o])
         /\ loose' = IF o = Nobody THEN loose \cup {v} ELSE loose \ {v}

FindEdited(r) ==
    /\ step[r] = "findEdited"
    /\ vehicles[local[r].of].exists
    /\ Reads(r, "findEdited", "updateVehicle", Nobody)

(* updateVehicle writes what the body holds, whatever columns that is. *)
UpdateVehicle(r, row) ==
    /\ step[r] = "updateVehicle"
    /\ LET v == local[r].of IN
         /\ PutVehicle(r, "updateVehicle", v, row)
         /\ loose' = IF row.owner = vehicles[v].owner
                        /\ row.fleet = vehicles[v].fleet
                     THEN loose ELSE loose \cup {v}

SoftDeleteVehicle(r) ==
    /\ step[r] = "deleteVehicle"
    /\ PutVehicle(r, "deleteVehicle", local[r].of,
                  [vehicles[local[r].of] EXCEPT !.active = FALSE])
    /\ UNCHANGED loose

-----------------------------------------------------------------------------
(* Accounts: editUser reads the user, and gives one without a tag a tag of *)
(* its own together with the other columns.                                *)

FindUser(r) ==
    step[r] = "findUser"
      /\ Reads(r, "findUser", "updateUser", users[local[r].of].tag)

(* A tag is made if the user had none when it was read. *)
TagAfter(r, tag) == IF local[r].seen = Nobody THEN r ELSE tag

(* Mutation of UpdateUser: every edit makes a tag. *)
UpdateUserRetags(r, role, active) ==
    /\ Writes(r, "updateUser", "ok")
    /\ users' = [users EXCEPT ![local[r].of] =
                   [role |-> role, active |-> active, tag |-> r]]
    /\ LET of == local[r].of IN
         Overtakes(r, of, users[of].tag, users'[of].tag)
    /\ UNCHANGED <<fleets, vehicles, managers, local, loose>>

UpdateUser(r, role, active) ==
    /\ Writes(r, "updateUser", "ok")
    /\ users' = [users EXCEPT ![local[r].of] =
                   [role |-> role, active |-> active, tag |-> TagAfter(r, @.tag)]]
    /\ LET of == local[r].of IN
         Overtakes(r, of, users[of].tag, users'[of].tag)
    /\ UNCHANGED <<fleets, vehicles, managers, local, loose>>

-----------------------------------------------------------------------------
(* Mutation of CallEndsBadly: a manager that cannot be written is an error. *)
CallEndsBadlyAlways(r) ==
    /\ step[r] \in Calls
    /\ step' = [step EXCEPT ![r] = "failed"]
    /\ UNCHANGED <<rows, local, loose, overtaken, wrote>>

(* A call fails, or a row that is read is not there: the request is        *)
(* answered with an error, but for the manager of a new fleet.             *)
CallEndsBadly(r) ==
    /\ step[r] \in Calls
    /\ step' = [step EXCEPT ![r] = IF @ = "addCreator" THEN "ok" ELSE "failed"]
    /\ UNCHANGED <<rows, local, loose, overtaken, wrote>>

(* The handlers, each up to its first call: a body that does not pass the  *)
(* checks is refused before that.                                          *)
CreateFleetRequested(r, u) == Begin(r, u, Staff, "createFleet", Nobody)
UpdateFleetRequested(r, u) == Begin(r, u, Staff, "updateFleet", Nobody)
DeleteFleetRequested(r, u) == Begin(r, u, Admins, "deleteFleet", Nobody)
AddManagerRequested(r, u) == Begin(r, u, Admins, "addManager", Nobody)
RemoveManagerRequested(r, u) == Begin(r, u, Admins, "removeManager", Nobody)
CreateVehicleRequested(r, u) == Begin(r, u, Staff, "createVehicle", Nobody)
AssignRequested(r, u, v) == Begin(r, u, Staff, "findAssigned", v)
RemoveRequested(r, u, v) == Begin(r, u, Staff, "remove", v)
EditVehicleRequested(r, u, v) == Begin(r, u, Staff, "findEdited", v)
DeleteVehicleRequested(r, u, v) == Begin(r, u, Admins, "deleteVehicle", v)
EditUserRequested(r, u, of) == Begin(r, u, Staff, "findUser", of)

Requested(r, u) ==
    \/ CreateFleetRequested(r, u)
    \/ UpdateFleetRequested(r, u)
    \/ DeleteFleetRequested(r, u)
    \/ AddManagerRequested(r, u)
    \/ RemoveManagerRequested(r, u)
    \/ CreateVehicleRequested(r, u)
    \/ \E v \in Vehicles : \/ AssignRequested(r, u, v)
                           \/ RemoveRequested(r, u, v)
                           \/ EditVehicleRequested(r, u, v)
                           \/ DeleteVehicleRequested(r, u, v)
    \/ \E of \in Users : EditUserRequested(r, u, of)

FleetWrites(r) ==
    \/ AddCreator(r)
    \/ \E f \in Fleets :
         \/ CreateFleet(r, f)
         \/ SoftDeleteFleet(r, f)
         \/ \E state \in {"active", "deleted"} : UpdateFleet(r, f, state)
         \/ \E u \in Users :
              \/ \E role \in ManagerRoles : AddManager(r, f, u, role)
              \/ RemoveManager(r, f, u)

VehicleWrites(r) ==
    \/ \E v \in Vehicles, o \in Users \cup {Nobody}, f \in Fleets \cup {Nobody} :
         CreateVehicle(r, v, o, f)
    \/ FindAssigned(r)
    \/ \E f \in Fleets : Assign(r, f)
    \/ \E o \in Users \cup {Nobody} : Remove(r, o)
    \/ FindEdited(r)
    \/ \E row \in Vehicle : row.exists /\ UpdateVehicle(r, row)
    \/ SoftDeleteVehicle(r)

AccountWrites(r) ==
    \/ FindUser(r)
    \/ \E role \in UserRoles, active \in BOOLEAN : UpdateUser(r, role, active)

FleetNext ==
    \E r \in Requests :
        \/ \E u \in Users : Requested(r, u)
        \/ FleetWrites(r)
        \/ VehicleWrites(r)
        \/ AccountWrites(r)
        \/ CallEndsBadly(r)

FleetSpec == FleetInit /\ [][FleetNext]_fleetVars

-----------------------------------------------------------------------------
FleetTypeOK ==
    /\ users \in [Users -> User]
    /\ fleets \in [Fleets -> {"absent", "active", "deleted"}]
    /\ vehicles \in [Vehicles -> Vehicle]
    /\ managers \in [Fleets -> [Users -> ManagerRoles \cup {Nobody}]]
    /\ step \in [Requests -> {"idle", "ok", "failed"} \cup Calls]
    /\ local \in [Requests -> Local]
    /\ loose \subseteq Vehicles
    /\ overtaken \subseteq Requests
    /\ wrote \subseteq Requests

(* A vehicle has an owner or a fleet and not both, unless what placed it   *)
(* last is an edit of the row or a removal that names no owner, whatever   *)
(* assignments, removals and creations overlap (schema.prisma 635,         *)
(* createVehicle 796-802, assignVehicleToFleet, removeVehicleFromFleet).   *)
VehicleHasOneSide ==
    \A v \in Vehicles \ loose :
        vehicles[v].exists
            => (vehicles[v].owner = Nobody) # (vehicles[v].fleet = Nobody)

(* The first fleet of a vehicle is not rewritten by later assignments,     *)
(* but by an edit, or by one that had read the vehicle before another one  *)
(* wrote it (1602-1617).                                                   *)
FirstFleetStays ==
    [][\A v \in Vehicles :
         vehicles[v].first # Nobody /\ vehicles'[v].first # vehicles[v].first
           => \E r \in Requests : \/ step[r] = "updateVehicle"
                                  \/ step[r] = "assign" /\ r \in overtaken
      ]_fleetVars

(* An edit gives a user a new tag in the place of another one only if it   *)
(* had read the user before the other tag was written (445-480): sessions  *)
(* of the old tag would have no user.                                      *)
TagIsKept ==
    [][\A u \in Users :
         users[u].tag # Nobody /\ users'[u].tag # users[u].tag
           => \E r \in overtaken : step[r] = "updateUser" /\ local[r].of = u
      ]_fleetVars

(* A request that is answered with an error has changed nothing, although  *)
(* a creation of a fleet is two writes (549-690).                          *)
FailedRequestWroteNothing == \A r \in wrote : step[r] # "failed"

=============================================================================
