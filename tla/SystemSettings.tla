--------------------------- MODULE SystemSettings ---------------------------
(***************************************************************************)
(* One system setting, default_price_per_kwh, and its history              *)
(* (database.ts, api_gateway.ts).  A change reads the setting, notes it in *)
(* the history, and then writes the setting, in one database call each;    *)
(* changes interleave and calls fail.  The row holds a text: a price in    *)
(* hundredths stands for its text, which begins with a number, and the     *)
(* other texts are told apart by how they can be read.  The other settings *)
(* are changed in the same way and do not depend on each other.            *)
(***************************************************************************)
EXTENDS Integers, Sequences

CONSTANTS
    Changes,     \* bound: requests that change the setting
    Prices,      \* the numbers they give it
    Fallback,    \* the price advertised when there is none
    MaxPrice,    \* what the price endpoint accepts
    True,        \* "true"
    Nothing,     \* "false" or "null"
    Empty,       \* ""
    OtherText,   \* a text that JSON does not read as one of these
    Absent,      \* there is no row
    Inputs       \* bound: what requests give as the value

ASSUME PricesAssumption ==
    /\ Prices \subseteq Int
    /\ Fallback \in Int
    /\ MaxPrice \in Int
ASSUME MarksAssumption ==
    {True, Nothing, Empty, OtherText, Absent} \cap Int = {}
ASSUME AbsentAssumption == Absent \notin {True, Nothing, Empty, OtherText}

VARIABLES
    value,     \* the row's text
    dataType,  \* how the value is read
    history,   \* settingsHistory: the old and the new value of each change
    stage,     \* change -> the database call it awaits, or its answer
    change,    \* change -> its parameters and local variables
    stale,     \* history: changes that are not alone since their read
    setBy      \* history: the kind of change that wrote the value

settingsVars == <<value, dataType, history, stage, change, stale, setBy>>

Values == Prices \cup {True, Nothing, Empty, OtherText}
Stored == Values \cup {Absent}
Kinds == {"update", "price", "create", "delete"}

(* EMAIL, URL and PASSWORD are read like STRING. *)
DataTypes == {"NUMBER", "STRING", "BOOLEAN", "JSON"}

(* The value of a request body: its text, and typeof what was given. *)
Input == [value : Values, type : {"number", "string", "boolean", "object"}]

ASSUME InputsAssumption == Inputs \subseteq Input

Number(v) == [value |-> v, type |-> "number"]
NoInput == [value |-> Absent, type |-> "undefined"]

Awaits == {"find", "note", "upsert", "create", "findDeleted", "noteDeleted",
           "delete"}

Change == [kind : Kinds \cup {"none"}, input : Input \cup {NoInput},
           again : BOOLEAN, seen : Stored]

NewChange(kind, input) == [kind |-> kind, input |-> input,
                           again |-> kind = "price", seen |-> Absent]

SettingsInit ==
    /\ value \in Stored
    /\ dataType \in DataTypes
    /\ history = << >>
    /\ stage = [c \in Changes |-> "idle"]
    /\ change = [c \in Changes |-> NewChange("none", NoInput)]
    /\ stale = {}
    /\ setBy = "create"

-----------------------------------------------------------------------------
(* Helpers *)

InferDataType(type) ==
    CASE type = "number" -> "NUMBER"
      [] type = "boolean" -> "BOOLEAN"
      [] type = "object" -> "JSON"
      [] OTHER -> "STRING"

Given(c) == change[c].input.value

Advance(c, next) == stage' = [stage EXCEPT ![c] = next]

(* c writes a row: what others have read or noted is not the latest.       *)
Disturb(c) ==
    stale' = stale \cup {d \in Changes \ {c} :
                           stage[d] \in {"note", "upsert", "noteDeleted",
                                         "delete"}}

Note(c, new) ==
    /\ history' = Append(history, [old |-> change[c].seen, new |-> new])
    /\ Disturb(c)
    /\ UNCHANGED <<value, dataType, change, setBy>>

-----------------------------------------------------------------------------
(* Requests that the checks of the body let pass. *)

Ask(c, kind, input, call) ==
    /\ stage[c] = "idle"
    /\ Advance(c, call)
    /\ change' = [change EXCEPT ![c] = NewChange(kind, input)]
    /\ UNCHANGED <<value, dataType, history, stale, setBy>>

UpdateRequested(c, input) == Ask(c, "update", input, "find")
CreateRequested(c, input) == Ask(c, "create", input, "create")
DeleteRequested(c) == Ask(c, "delete", NoInput, "findDeleted")

(* Mutation of PriceRequested: a price of zero passes. *)
PriceRequestedAny(c, v) ==
    v \in 0..MaxPrice /\ Ask(c, "price", Number(v), "find")

(* updatePricePerKWh: setSetting is called twice, once without the reason  *)
(* and once with it.                                                       *)
PriceRequested(c, v) ==
    v \in 1..MaxPrice /\ Ask(c, "price", Number(v), "find")

-----------------------------------------------------------------------------
(* setSetting *)

(* Mutation of FindSetting: nothing is noted. *)
FindSettingOnly(c) ==
    /\ stage[c] = "find"
    /\ change' = [change EXCEPT ![c].seen = value]
    /\ stale' = stale \ {c}
    /\ Advance(c, "upsert")
    /\ UNCHANGED <<value, dataType, history, setBy>>

FindSetting(c) ==
    /\ stage[c] = "find"
    /\ change' = [change EXCEPT ![c].seen = value]
    /\ stale' = stale \ {c}
    /\ Advance(c, IF value = Absent THEN "upsert" ELSE "note")
    /\ UNCHANGED <<value, dataType, history, setBy>>

NoteChange(c) ==
    /\ stage[c] = "note"
    /\ Note(c, Given(c))
    /\ Advance(c, "upsert")

(* Mutation of UpsertSetting: the second round of a price keeps what the   *)
(* first one has read.                                                     *)
UpsertSettingUnread(c) ==
    /\ stage[c] = "upsert"
    /\ value' = Given(c)
    /\ dataType' = IF value = Absent THEN InferDataType(change[c].input.type)
                   ELSE dataType
    /\ setBy' = change[c].kind
    /\ change' = [change EXCEPT ![c].again = FALSE]
    /\ Advance(c, IF ~change[c].again THEN "ok"
                  ELSE IF change[c].seen = Absent THEN "upsert" ELSE "note")
    /\ Disturb(c)
    /\ UNCHANGED history

UpsertSetting(c) ==
    /\ stage[c] = "upsert"
    /\ value' = Given(c)
    /\ dataType' = IF value = Absent THEN InferDataType(change[c].input.type)
                   ELSE dataType
    /\ setBy' = change[c].kind
    /\ change' = [change EXCEPT ![c].again = FALSE]
    /\ Advance(c, IF change[c].again THEN "find" ELSE "ok")
    /\ Disturb(c)
    /\ UNCHANGED history

-----------------------------------------------------------------------------
(* createSetting and deleteSetting *)

(* The key is unique. *)
InsertSetting(c, type) ==
    /\ stage[c] = "create"
    /\ value = Absent
    /\ value' = Given(c)
    /\ dataType' = type
    /\ setBy' = "create"
    /\ Advance(c, "ok")
    /\ Disturb(c)
    /\ UNCHANGED <<history, change>>

(* A setting that is not there is deleted with success. *)
FindDeleted(c) ==
    /\ stage[c] = "findDeleted"
    /\ change' = [change EXCEPT ![c].seen = value]
    /\ stale' = stale \ {c}
    /\ Advance(c, IF value = Absent THEN "ok" ELSE "noteDeleted")
    /\ UNCHANGED <<value, dataType, history, setBy>>

NoteDeleted(c) ==
    /\ stage[c] = "noteDeleted"
    /\ Note(c, Absent)
    /\ Advance(c, "delete")

DeleteSetting(c) ==
    /\ stage[c] = "delete"
    /\ value # Absent
    /\ value' = Absent
    /\ Advance(c, "ok")
    /\ Disturb(c)
    /\ UNCHANGED <<dataType, history, change, setBy>>

(* A call fails, the key exists already, or the row is gone: what was      *)
(* noted stays noted.                                                      *)
ChangeFails(c) ==
    /\ stage[c] \in Awaits
    /\ Advance(c, "failed")
    /\ UNCHANGED <<value, dataType, history, change, stale, setBy>>

SettingsNext ==
    \E c \in Changes :
        \/ \E input \in Inputs : \/ UpdateRequested(c, input)
                                 \/ CreateRequested(c, input)
        \/ \E v \in Prices : PriceRequested(c, v)
        \/ DeleteRequested(c)
        \/ FindSetting(c)
        \/ NoteChange(c)
        \/ UpsertSetting(c)
        \/ \E type \in DataTypes : InsertSetting(c, type)
        \/ FindDeleted(c)
        \/ NoteDeleted(c)
        \/ DeleteSetting(c)
        \/ ChangeFails(c)

SettingsSpec == SettingsInit /\ [][SettingsNext]_settingsVars

-----------------------------------------------------------------------------
SettingsTypeOK ==
    /\ value \in Stored
    /\ dataType \in DataTypes
    /\ history \in Seq([old : Values, new : Stored])
    /\ stage \in [Changes -> {"idle", "ok", "failed"} \cup Awaits]
    /\ change \in [Changes -> Change]
    /\ stale \subseteq Changes
    /\ setBy \in Kinds

Noted(new) == \E i \in DOMAIN history : history[i].new = new

(* A value is replaced or deleted only after the history names the new     *)
(* one, whichever calls fail and however changes interleave, unless the    *)
(* writer had found no setting at all (1145-1165, 1247-1263).              *)
ChangeWasNoted ==
    [][value # Absent /\ value' # value
         => \/ Noted(value')
            \/ \E c \in stale : stage[c] = "upsert" /\ change[c].seen = Absent
      ]_settingsVars

(* When a change replaces or deletes a value it had found, and no other    *)
(* change came in between, the last entry of the history tells the value   *)
(* that goes and the one that comes: also for each of the two rounds of a  *)
(* price change (1145-1165, 1247-1263, 2433-2440).                         *)
EntryTellsTheChange ==
    [][\A c \in Changes \ stale :
         stage[c] \in {"upsert", "delete"} /\ stage'[c] \in {"ok", "find"}
           /\ change[c].seen # Absent
             => history[Len(history)] = [old |-> value, new |-> value']
      ]_settingsVars

(* getSetting reads the text by the row's type, and what it returns counts *)
(* as false: nothing, 0, NaN, the empty text, or false.                    *)
ReadsAsFalse ==
    \/ value \in {Absent, Empty}
    \/ dataType = "NUMBER" /\ value \notin Prices \ {0}
    \/ dataType = "BOOLEAN" /\ value # True
    \/ dataType = "JSON" /\ value \in {0, Nothing}

(* getDefaultPricePerKWh. *)
Advertised == IF ReadsAsFalse THEN Fallback ELSE value

(* A price that was set at the price endpoint is the one that is           *)
(* advertised, whatever texts other changes store and however they         *)
(* interleave, unless the row was created as BOOLEAN: no price change      *)
(* repairs its type, and the fallback is advertised (1133, 1180, 1309).    *)
SetPriceIsAdvertised ==
    value # Absent /\ setBy = "price"
        => Advertised = IF dataType = "BOOLEAN" THEN Fallback ELSE value

(* "Price per kWh updated successfully" (api_gateway.ts:2443): when a      *)
(* price change has been answered so, and the row holds the price it set,  *)
(* that price is advertised.                                               *)
AnsweredPriceIsShown ==
    \A c \in Changes :
        stage[c] = "ok" /\ change[c].kind = "price" /\ value = Given(c)
            => Advertised = value

=============================================================================
