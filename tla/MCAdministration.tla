-------------------------- MODULE MCAdministration --------------------------
(***************************************************************************)
(* Instances of FleetAdministration, SystemSettings and TransactionLists   *)
(* for TLC.  They share no state: a behaviour is one of the three, and the *)
(* others are at rest.                                                     *)
(***************************************************************************)
EXTENDS FleetAdministration, SystemSettings, TransactionLists, TLC

CONSTANTS r1, r2, u1, u2, f1, f2, v1, c1, c2, c3, t1, t2, t3

VARIABLE area

FleetsAtRest ==
    /\ FleetInit
    /\ fleets = [f \in Fleets |-> "absent"]
    /\ users = [u \in Users |-> [role |-> "ADMIN", active |-> TRUE,
                                 tag |-> Nobody]]
    /\ vehicles = [v \in Vehicles |-> NoVehicle]

(* Bound: to begin with, all users have a tag or none has.                 *)
TagsAlike == \A u, w \in Users : users[u].tag = users[w].tag

SettingsAtRest == SettingsInit /\ value = Absent /\ dataType = "NUMBER"

ListsAtRest ==
    /\ ListsInit
    /\ list = "all"
    /\ startTime = [t \in Transactions |-> Never]
    /\ stopTime = startTime

(* Bound: to begin with, there is no setting or a number.                  *)
FewSettings ==
    /\ SettingsInit
    /\ value \in {Absent, 0}
    /\ dataType = "NUMBER"

(* Bound: what requests give as the value of a setting, of each type. *)
FewInputs == {[value |-> 0, type |-> "number"],
              [value |-> 30, type |-> "string"],
              [value |-> True, type |-> "boolean"],
              [value |-> OtherText, type |-> "object"]}

Init == \/ /\ area = "fleets" /\ FleetInit /\ TagsAlike
           /\ SettingsAtRest /\ ListsAtRest
        \/ area = "settings" /\ FewSettings /\ FleetsAtRest /\ ListsAtRest
        \/ area = "lists" /\ ListsInit /\ FleetsAtRest /\ SettingsAtRest

Next ==
    \/ /\ area = "fleets" /\ FleetNext
       /\ UNCHANGED <<area, settingsVars, listVars>>
    \/ /\ area = "settings" /\ SettingsNext
       /\ UNCHANGED <<area, fleetVars, listVars>>
    \/ /\ area = "lists" /\ ListsNext
       /\ UNCHANGED <<area, fleetVars, settingsVars>>

Spec == Init /\ [][Next]_<<area, fleetVars, settingsVars, listVars>>

(* The type invariants of the three. *)
AdministrationTypeOK == FleetTypeOK /\ SettingsTypeOK /\ ListsTypeOK

(* Requests, changes and transactions are never in one behaviour: they are *)
(* permuted together, so that there are fewer permutations to try.  TLC    *)
(* closes the set under composition.                                       *)
Turn == (c1 :> c2) @@ (c2 :> c3) @@ (c3 :> c1)
          @@ (t1 :> t2) @@ (t2 :> t3) @@ (t3 :> t1)
Swap == (c1 :> c2) @@ (c2 :> c1) @@ (t1 :> t2) @@ (t2 :> t1)
          @@ (r1 :> r2) @@ (r2 :> r1)

Symmetry == Permutations(Users) \cup Permutations(Fleets) \cup {Turn, Swap}
=============================================================================
