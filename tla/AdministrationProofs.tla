------------------------ MODULE AdministrationProofs ------------------------
(***************************************************************************)
(* Theorems about SystemSettings, for any changes and prices, with calls   *)
(* that interleave and fail; about TransactionLists, for any transactions, *)
(* times and sizes of a page; and, with those of FleetAdministration,      *)
(* about a system that does one of the three, as MCAdministration has it.  *)
(***************************************************************************)
EXTENDS MCAdministration, FleetAdministrationProofs, FiniteSetTheorems

-----------------------------------------------------------------------------
(* SystemSettings *)

(* What the parameters of a change in progress are. *)
Asked(c) ==
    /\ stage[c] # "idle" => change[c].kind \in Kinds
    /\ stage[c] \in {"find", "note", "upsert", "create"}
         => change[c].input \in Input
    /\ stage[c] \in {"findDeleted", "noteDeleted", "delete"}
         => change[c].input = NoInput
    /\ stage[c] \in {"find", "note", "upsert"} /\ change[c].kind = "price"
         => change[c].input.value \in 1..MaxPrice

(* What it has done that no other change undoes. *)
Done(c) ==
    /\ stage[c] \in {"note", "noteDeleted", "delete"} => change[c].seen \in Values
    /\ stage[c] = "upsert" /\ change[c].seen # Absent => Noted(change[c].input.value)
    /\ stage[c] = "delete" => Noted(Absent)

(* What it knows as long as no other change came in between. *)
KnowsAlone(c) ==
    c \notin stale =>
        /\ stage[c] \in {"note", "noteDeleted"} => change[c].seen = value
        /\ stage[c] = "upsert" /\ change[c].seen = Absent => value = Absent
        /\ stage[c] \in {"upsert", "delete"} /\ change[c].seen # Absent
             => /\ Len(history) > 0
                /\ history[Len(history)] = [old |-> value,
                                           new |-> change[c].input.value]

PriceIsOne == value # Absent /\ setBy = "price" => value \in 1..MaxPrice

(* The inductive invariant. *)
SettingsInv ==
    /\ SettingsTypeOK
    /\ \A c \in Changes : Asked(c) /\ Done(c) /\ KnowsAlone(c)
    /\ PriceIsOne

Entries == [old : Values, new : Stored]

-----------------------------------------------------------------------------
(* Lemmas about the history. *)

(* The history only grows, and ends with the entry that was added. *)
LEMMA NoteAppends ==
    ASSUME NEW h \in Seq(Entries), NEW e \in Entries
    PROVE  /\ Append(h, e) \in Seq(Entries)
           /\ Len(Append(h, e)) > 0
           /\ Append(h, e)[Len(Append(h, e))] = e
           /\ \A i \in DOMAIN h : i \in DOMAIN Append(h, e)
                                  /\ Append(h, e)[i] = h[i]
OBVIOUS

LEMMA NotedStays ==
    ASSUME history \in Seq(Entries), NEW e \in Entries, NEW n,
           history' = Append(history, e), Noted(n)
    PROVE  Noted(n)'
<1>1. PICK i \in DOMAIN history : history[i].new = n
  BY DEF Noted
<1>2. i \in DOMAIN history' /\ history'[i] = history[i]
  BY NoteAppends
<1> QED
  BY <1>1, <1>2 DEF Noted

LEMMA EntryIsNoted ==
    ASSUME history \in Seq(Entries), NEW e \in Entries,
           history' = Append(history, e)
    PROVE  Noted(e.new)'
<1>1. Len(history') \in DOMAIN history' /\ history'[Len(history')] = e
  BY NoteAppends
<1> QED
  BY <1>1 DEF Noted

LEMMA SettingsInvInit == SettingsInit => SettingsInv
<1> SUFFICES ASSUME SettingsInit PROVE SettingsInv
  OBVIOUS
<1>1. SettingsTypeOK
  <2>1. NewChange("none", NoInput) \in Change
    BY DEF NewChange, Change, Kinds, Stored
  <2> QED
    BY <2>1 DEF SettingsInit, SettingsTypeOK, Kinds
<1> QED
  BY <1>1 DEF SettingsInit, SettingsInv, Asked, Done, KnowsAlone, PriceIsOne

(* What a body may give is what the row may hold. *)
LEMMA InputIsStored ==
    ASSUME NEW input \in Input \cup {NoInput}
    PROVE  /\ input.value \in Stored
           /\ input \in Input => input.value \in Values
           /\ input = NoInput => input.value = Absent
BY DEF Input, NoInput, Stored

-----------------------------------------------------------------------------
(* A step of c: it is enough to look at c, at the types and at the price,  *)
(* if c leaves the value and the history alone or disturbs the others.     *)
LEMMA ChangeStepInv ==
    ASSUME SettingsInv, NEW c \in Changes,
           SettingsTypeOK', PriceIsOne', Asked(c)', Done(c)', KnowsAlone(c)',
           \A d \in Changes \ {c} : stage'[d] = stage[d]
                                    /\ change'[d] = change[d],
           \A n \in Stored : Noted(n) => Noted(n)',
           \/ Disturb(c)
           \/ /\ value' = value /\ history' = history
              /\ \A d \in Changes \ {c} : d \in stale => d \in stale'
    PROVE  SettingsInv'
<1> SUFFICES ASSUME NEW d \in Changes, d # c
             PROVE  (Asked(d) /\ Done(d) /\ KnowsAlone(d))'
  BY DEF SettingsInv
<1>0. /\ stage'[d] = stage[d] /\ change'[d] = change[d]
      /\ Asked(d) /\ Done(d) /\ KnowsAlone(d)
      /\ change[d].input.value \in Stored /\ Absent \in Stored
  BY InputIsStored DEF SettingsInv, SettingsTypeOK, Change, Stored
<1>1. Asked(d)'
  BY <1>0 DEF Asked
<1>2. Done(d)'
  BY <1>0 DEF Done
<1>3. KnowsAlone(d)'
  <2>1. CASE Disturb(c)
    BY <1>0, <2>1 DEF KnowsAlone, Disturb
  <2>2. CASE /\ value' = value /\ history' = history
             /\ \A e \in Changes \ {c} : e \in stale => e \in stale'
    BY <1>0, <2>2 DEF KnowsAlone
  <2> QED
    BY <2>1, <2>2
<1> QED
  BY <1>1, <1>2, <1>3

(* A request: nothing but the place and the parameters of c changes. *)
LEMMA AskInv ==
    ASSUME SettingsInv, NEW c \in Changes, NEW kind \in Kinds,
           NEW input \in Input \cup {NoInput},
           NEW call \in {"find", "create", "findDeleted"},
           Ask(c, kind, input, call),
           call = "findDeleted" => input = NoInput,
           call # "findDeleted" => input \in Input,
           kind = "price" => input.value \in 1..MaxPrice
    PROVE  SettingsInv'
<1>1. NewChange(kind, input) \in Change
  BY DEF NewChange, Change, Stored
<1>2. /\ stage'[c] = call /\ change'[c] = NewChange(kind, input)
      /\ UNCHANGED <<value, dataType, history, stale, setBy>>
      /\ \A d \in Changes \ {c} : stage'[d] = stage[d]
                                   /\ change'[d] = change[d]
  BY DEF Ask, Advance, SettingsInv, SettingsTypeOK
<1>3. SettingsTypeOK'
  BY <1>1 DEF SettingsInv, SettingsTypeOK, Ask, Advance, Awaits
<1>4. Asked(c)' /\ Done(c)' /\ KnowsAlone(c)'
  BY <1>2 DEF Asked, Done, KnowsAlone, NewChange
<1>5. PriceIsOne' /\ \A n \in Stored : Noted(n) => Noted(n)'
  BY <1>2 DEF SettingsInv, PriceIsOne, Noted
<1> QED
  BY <1>2, <1>3, <1>4, <1>5, ChangeStepInv

(* An entry is added by c, which is in the history and last in it. *)
LEMMA NoteInv ==
    ASSUME SettingsInv, NEW c \in Changes, NEW from, NEW to,
           \/ from = "note" /\ to = "upsert"
           \/ from = "noteDeleted" /\ to = "delete",
           stage[c] = from, Note(c, change[c].input.value), Advance(c, to)
    PROVE  SettingsInv'
<1> DEFINE e == [old |-> change[c].seen, new |-> change[c].input.value]
<1>0. /\ change[c] \in Change /\ history \in Seq(Entries)
      /\ Asked(c) /\ Done(c) /\ KnowsAlone(c)
  BY DEF SettingsInv, SettingsTypeOK, Entries
<1>1. /\ change[c].input.value \in Stored /\ change[c].seen \in Values
      /\ change[c].seen # Absent /\ e \in Entries
      /\ from = "note" => change[c].input.value \in Values
      /\ from = "noteDeleted" => change[c].input.value = Absent
  <2>1. change[c].input.value \in Stored /\ change[c].seen \in Values
    BY <1>0, InputIsStored DEF Change, Done
  <2>2. Absent \notin Values
    BY AbsentAssumption, MarksAssumption, PricesAssumption DEF Values
  <2> QED
    BY <1>0, <2>1, <2>2, InputIsStored DEF Asked, Entries
<1>2. /\ history' = Append(history, e) /\ Disturb(c)
      /\ UNCHANGED <<value, dataType, change, setBy>>
      /\ stage'[c] = to /\ \A d \in Changes \ {c} : stage'[d] = stage[d]
  BY DEF Note, Advance, SettingsInv, SettingsTypeOK
<1>9. e.new = change[c].input.value
  OBVIOUS
<1> HIDE DEF e
<1>3. SettingsTypeOK'
  <2>1. history' \in Seq(Entries)
    BY <1>0, <1>1, <1>2, NoteAppends
  <2> QED
    BY <1>2, <2>1 DEF SettingsInv, SettingsTypeOK, Advance, Awaits, Entries, Disturb
<1>4. Noted(change[c].input.value)' /\ history'[Len(history')] = e /\ Len(history') > 0
  BY <1>0, <1>1, <1>2, <1>9, EntryIsNoted, NoteAppends
<1>5. \A n \in Stored : Noted(n) => Noted(n)'
  BY <1>0, <1>1, <1>2, NotedStays
<1>6. Asked(c)' /\ Done(c)'
  BY <1>0, <1>1, <1>2, <1>4 DEF Asked, Done
<1>7. KnowsAlone(c)'
  BY <1>0, <1>1, <1>2, <1>4 DEF KnowsAlone, Disturb, e
<1>8. PriceIsOne'
  BY <1>2 DEF SettingsInv, PriceIsOne
<1> QED
  BY <1>2, <1>3, <1>5, <1>6, <1>7, <1>8, ChangeStepInv

(* A write of the value by c, after which c knows nothing any more. *)
LEMMA WriteInv ==
    ASSUME SettingsInv, NEW c \in Changes, NEW next \in {"find", "ok"},
           SettingsTypeOK', PriceIsOne', Disturb(c), Advance(c, next),
           history' = history, Asked(c)',
           \A d \in Changes \ {c} : change'[d] = change[d]
    PROVE  SettingsInv'
<1>1. stage'[c] = next /\ \A d \in Changes \ {c} : stage'[d] = stage[d]
  BY DEF Advance, SettingsInv, SettingsTypeOK
<1>2. Done(c)' /\ KnowsAlone(c)'
  BY <1>1 DEF Done, KnowsAlone
<1>3. \A n \in Stored : Noted(n) => Noted(n)'
  BY DEF Noted
<1> QED
  BY <1>1, <1>2, <1>3, ChangeStepInv

(* The read of c: what it has seen is the value. *)
LEMMA FindInv ==
    ASSUME SettingsInv, NEW c \in Changes, NEW from, NEW absent, NEW present,
           \/ from = "find" /\ absent = "upsert" /\ present = "note"
           \/ from = "findDeleted" /\ absent = "ok" /\ present = "noteDeleted",
           stage[c] = from,
           change' = [change EXCEPT ![c].seen = value],
           stale' = stale \ {c},
           Advance(c, IF value = Absent THEN absent ELSE present),
           UNCHANGED <<value, dataType, history, setBy>>
    PROVE  SettingsInv'
<1>1. /\ stage'[c] = IF value = Absent THEN absent ELSE present
      /\ change'[c] = [change[c] EXCEPT !.seen = value]
      /\ change[c] \in Change /\ value \in Stored
      /\ \A d \in Changes \ {c} : stage'[d] = stage[d]
                                   /\ change'[d] = change[d]
  BY DEF Advance, SettingsInv, SettingsTypeOK
<1>2. /\ change'[c] \in Change /\ change'[c].seen = value
      /\ change'[c].input = change[c].input /\ change'[c].kind = change[c].kind
  BY <1>1 DEF Change
<1>3. SettingsTypeOK'
  BY <1>1, <1>2 DEF SettingsInv, SettingsTypeOK, Advance, Awaits
<1>4. Asked(c)' /\ Done(c)' /\ KnowsAlone(c)'
  BY <1>1, <1>2 DEF SettingsInv, Asked, Done, KnowsAlone, Stored
<1>5. PriceIsOne' /\ \A n \in Stored : Noted(n) => Noted(n)'
  BY DEF SettingsInv, PriceIsOne, Noted
<1> QED
  BY <1>1, <1>3, <1>4, <1>5, ChangeStepInv

-----------------------------------------------------------------------------
(* The actions. *)

LEMMA NoteChangeInv ==
    ASSUME SettingsInv, NEW c \in Changes, NoteChange(c)
    PROVE  SettingsInv'
<1>1. /\ stage[c] = "note" /\ Note(c, change[c].input.value) /\ Advance(c, "upsert")
  BY DEF NoteChange, Given
<1> QED
  BY <1>1, NoteInv

LEMMA NoteDeletedInv ==
    ASSUME SettingsInv, NEW c \in Changes, NoteDeleted(c)
    PROVE  SettingsInv'
<1>1. stage[c] = "noteDeleted" /\ Note(c, Absent) /\ Advance(c, "delete")
  BY DEF NoteDeleted
<1>2. change[c].input.value = Absent
  BY <1>1 DEF SettingsInv, Asked, NoInput
<1> QED
  BY <1>1, <1>2, NoteInv

LEMMA UpsertSettingInv ==
    ASSUME SettingsInv, NEW c \in Changes, UpsertSetting(c)
    PROVE  SettingsInv'
<1> DEFINE next == IF change[c].again THEN "find" ELSE "ok"
<1>1. /\ change[c] \in Change /\ stage[c] = "upsert" /\ Asked(c)
      /\ change[c].input.value \in Values
  BY InputIsStored DEF SettingsInv, SettingsTypeOK, UpsertSetting, Asked
<1>2. /\ change'[c] \in Change
      /\ change'[c].input = change[c].input /\ change'[c].kind = change[c].kind
      /\ \A d \in Changes \ {c} : change'[d] = change[d]
  BY <1>1 DEF SettingsInv, SettingsTypeOK, UpsertSetting, Change
<1>3. stage'[c] = next
  BY DEF SettingsInv, SettingsTypeOK, UpsertSetting, Advance
<1>4. change[c].kind \in Kinds
  BY <1>1 DEF Asked
<1>5. SettingsTypeOK'
  BY <1>1, <1>2, <1>4 DEF SettingsInv, SettingsTypeOK, UpsertSetting, Advance,
     Awaits, Disturb, InferDataType, DataTypes, Stored, Given
<1>6. PriceIsOne'
  BY <1>1 DEF UpsertSetting, Asked, PriceIsOne, Given
<1>7. Asked(c)'
  BY <1>1, <1>2, <1>3 DEF Asked
<1> QED
  BY <1>2, <1>5, <1>6, <1>7, WriteInv DEF UpsertSetting

LEMMA InsertSettingInv ==
    ASSUME SettingsInv, NEW c \in Changes, NEW type \in DataTypes,
           InsertSetting(c, type)
    PROVE  SettingsInv'
<1>1. change[c].input.value \in Values
  BY InputIsStored DEF SettingsInv, InsertSetting, Asked
<1>2. SettingsTypeOK'
  BY <1>1 DEF SettingsInv, SettingsTypeOK, InsertSetting, Advance, Disturb,
     Stored, Kinds, Given
<1>3. PriceIsOne'
  BY DEF InsertSetting, PriceIsOne
<1>4. Asked(c)'
  BY DEF InsertSetting, Advance, Asked, SettingsInv, SettingsTypeOK
<1> QED
  BY <1>2, <1>3, <1>4, WriteInv DEF InsertSetting

LEMMA DeleteSettingInv ==
    ASSUME SettingsInv, NEW c \in Changes, DeleteSetting(c)
    PROVE  SettingsInv'
<1>1. SettingsTypeOK'
  BY DEF SettingsInv, SettingsTypeOK, DeleteSetting, Advance, Disturb, Stored
<1>2. PriceIsOne'
  BY DEF DeleteSetting, PriceIsOne
<1>3. Asked(c)'
  BY DEF DeleteSetting, Advance, Asked, SettingsInv, SettingsTypeOK
<1> QED
  BY <1>1, <1>2, <1>3, WriteInv DEF DeleteSetting

LEMMA ChangeFailsInv ==
    ASSUME SettingsInv, NEW c \in Changes, ChangeFails(c)
    PROVE  SettingsInv'
<1>1. /\ UNCHANGED <<value, dataType, history, change, stale, setBy>>
      /\ stage'[c] = "failed" /\ \A d \in Changes \ {c} : stage'[d] = stage[d]
      /\ Asked(c) /\ stage[c] # "idle"
  BY DEF ChangeFails, Awaits, Advance, SettingsInv, SettingsTypeOK
<1>2. SettingsTypeOK'
  BY DEF SettingsInv, SettingsTypeOK, ChangeFails, Advance
<1>3. Asked(c)' /\ Done(c)' /\ KnowsAlone(c)'
  BY <1>1 DEF Asked, Done, KnowsAlone
<1>4. PriceIsOne' /\ \A n \in Stored : Noted(n) => Noted(n)'
  BY <1>1 DEF SettingsInv, PriceIsOne, Noted
<1> QED
  BY <1>1, <1>2, <1>3, <1>4, ChangeStepInv

LEMMA SettingsInvStep == SettingsInv /\ [SettingsNext]_settingsVars => SettingsInv'
<1> SUFFICES ASSUME SettingsInv, [SettingsNext]_settingsVars
             PROVE  SettingsInv'
  OBVIOUS
<1>1. ASSUME NEW c \in Changes, NEW input \in Inputs, UpdateRequested(c, input)
      PROVE  SettingsInv'
  BY <1>1, InputsAssumption, AskInv DEF UpdateRequested, Kinds
<1>2. ASSUME NEW c \in Changes, NEW input \in Inputs, CreateRequested(c, input)
      PROVE  SettingsInv'
  BY <1>2, InputsAssumption, AskInv DEF CreateRequested, Kinds
<1>3. ASSUME NEW c \in Changes, NEW v \in Prices, PriceRequested(c, v)
      PROVE  SettingsInv'
  <2>1. Number(v) \in Input /\ Number(v).value \in 1..MaxPrice
    BY <1>3 DEF PriceRequested, Number, Input, Values
  <2> QED
    BY <1>3, <2>1, AskInv DEF PriceRequested, Kinds
<1>4. ASSUME NEW c \in Changes, DeleteRequested(c)
      PROVE  SettingsInv'
  BY <1>4, AskInv DEF DeleteRequested, Kinds
<1>5. ASSUME NEW c \in Changes, FindSetting(c)
      PROVE  SettingsInv'
  BY <1>5, FindInv DEF FindSetting
<1>6. ASSUME NEW c \in Changes, FindDeleted(c)
      PROVE  SettingsInv'
  BY <1>6, FindInv DEF FindDeleted
<1>7. CASE UNCHANGED settingsVars
  BY <1>7 DEF settingsVars, SettingsInv, SettingsTypeOK, Asked, Done, KnowsAlone,
     PriceIsOne, Noted
<1> QED
  BY <1>1, <1>2, <1>3, <1>4, <1>5, <1>6, <1>7, NoteChangeInv, NoteDeletedInv,
     UpsertSettingInv, InsertSettingInv, DeleteSettingInv, ChangeFailsInv
     DEF SettingsNext

-----------------------------------------------------------------------------
(* Theorems. *)

THEOREM SettingsInvariant == SettingsSpec => []SettingsInv
BY SettingsInvInit, SettingsInvStep, PTL DEF SettingsSpec

(* Every variable keeps its type; in particular the history never names a  *)
(* value that was missing as the old one.                                  *)
THEOREM SettingsTypes == SettingsSpec => []SettingsTypeOK
<1>1. SettingsInv => SettingsTypeOK
  BY DEF SettingsInv
<1> QED
  BY <1>1, SettingsInvariant, PTL

(* A price in the range of the endpoint is advertised as it is, unless it  *)
(* is read as a BOOLEAN.                                                   *)
LEMMA AcceptedPriceIsAdvertised ==
    SettingsTypeOK /\ PriceIsOne => SetPriceIsAdvertised
<1> SUFFICES ASSUME value \in 1..MaxPrice, value \in Values
             PROVE  Advertised = IF dataType = "BOOLEAN" THEN Fallback
                                 ELSE value
  BY DEF PriceIsOne, SetPriceIsAdvertised, SettingsTypeOK, Stored
<1>1. value \in Prices \ {0} /\ value \notin {True, Nothing, Empty, Absent}
  BY PricesAssumption, MarksAssumption DEF Values
<1> QED
  BY <1>1 DEF Advertised, ReadsAsFalse

(* A price set at the price endpoint is advertised, in any interleaving    *)
(* with other changes and whatever they store, unless the row was created  *)
(* as BOOLEAN: then it is the fallback.                                    *)
THEOREM PriceIsAdvertised == SettingsSpec => []SetPriceIsAdvertised
<1>1. SettingsInv => SetPriceIsAdvertised
  BY AcceptedPriceIsAdvertised DEF SettingsInv
<1> QED
  BY <1>1, SettingsInvariant, PTL

(* Which step writes the value, and what it makes of it. *)
ChangesValue(c) ==
    \/ stage[c] = "upsert" /\ value' = Given(c)
    \/ stage[c] = "create" /\ value = Absent
    \/ stage[c] = "delete" /\ value' = Absent

LEMMA OnlyWritersWrite ==
    ASSUME SettingsNext, value' # value
    PROVE  \E c \in Changes : ChangesValue(c) /\ history' = history
BY DEF SettingsNext, UpdateRequested, CreateRequested, PriceRequested, Ask,
   DeleteRequested, FindSetting, NoteChange, Note, UpsertSetting, InsertSetting,
   FindDeleted, NoteDeleted, DeleteSetting, ChangeFails, ChangesValue

WasNoted ==
    value # Absent /\ value' # value
      => \/ Noted(value')
         \/ \E c \in stale : stage[c] = "upsert" /\ change[c].seen = Absent

(* A writer has noted its value, or has seen none: then it is stale, for   *)
(* there is one now.                                                       *)
LEMMA WriterHasNoted ==
    ASSUME SettingsInv, [SettingsNext]_settingsVars
    PROVE  WasNoted
<1> SUFFICES ASSUME value # Absent, value' # value
             PROVE  \/ Noted(value')
                    \/ \E c \in stale : stage[c] = "upsert"
                                       /\ change[c].seen = Absent
  BY DEF WasNoted
<1>1. PICK c \in Changes : ChangesValue(c)
  BY OnlyWritersWrite DEF settingsVars
<1>2. Done(c) /\ KnowsAlone(c)
  BY DEF SettingsInv
<1>3. CASE stage[c] = "upsert" /\ value' = Given(c)
  BY <1>2, <1>3 DEF Done, KnowsAlone, Given
<1>4. CASE stage[c] = "delete" /\ value' = Absent
  BY <1>2, <1>4 DEF Done
<1> QED
  BY <1>1, <1>3, <1>4 DEF ChangesValue

(* A value is replaced or deleted only after the history names the new     *)
(* one, whichever calls fail, unless the writer had found no setting.      *)
THEOREM ChangesAreNoted == SettingsSpec => ChangeWasNoted
<1>1. SettingsInv /\ [SettingsNext]_settingsVars => [WasNoted]_settingsVars
  BY WriterHasNoted
<1>2. [][SettingsNext]_settingsVars /\ []SettingsInv => [][WasNoted]_settingsVars
  BY <1>1, PTL
<1>3. SettingsSpec => [][WasNoted]_settingsVars
  BY <1>2, SettingsInvariant, PTL DEF SettingsSpec
<1> QED
  BY <1>3 DEF ChangeWasNoted, WasNoted

EntryTells ==
    \A c \in Changes \ stale :
      stage[c] \in {"upsert", "delete"} /\ stage'[c] \in {"ok", "find"}
        /\ change[c].seen # Absent
          => history[Len(history)] = [old |-> value, new |-> value']

(* A change leaves these stages with success by its own write only. *)
LEMMA WriterIsTheOne ==
    ASSUME SettingsInv, SettingsNext, NEW c \in Changes,
           stage[c] \in {"upsert", "delete"}, stage'[c] \in {"ok", "find"}
    PROVE  value' = change[c].input.value
<1>1. PICK d \in Changes :
        \/ \E input \in Inputs : \/ UpdateRequested(d, input)
                                 \/ CreateRequested(d, input)
        \/ \E v \in Prices : PriceRequested(d, v)
        \/ DeleteRequested(d)
        \/ FindSetting(d)
        \/ NoteChange(d)
        \/ UpsertSetting(d)
        \/ \E type \in DataTypes : InsertSetting(d, type)
        \/ FindDeleted(d)
        \/ NoteDeleted(d)
        \/ DeleteSetting(d)
        \/ ChangeFails(d)
  BY DEF SettingsNext
<1>2. \E next : Advance(d, next)
  BY <1>1 DEF UpdateRequested, CreateRequested, PriceRequested, Ask,
     DeleteRequested, FindSetting, NoteChange, UpsertSetting, InsertSetting,
     FindDeleted, NoteDeleted, DeleteSetting, ChangeFails
<1>3. d = c
  BY <1>2 DEF Advance, SettingsInv, SettingsTypeOK
<1>4. ~ChangeFails(c)
  BY DEF ChangeFails, Advance, SettingsInv, SettingsTypeOK
<1>5. UpsertSetting(c) \/ DeleteSetting(c)
  BY <1>1, <1>3, <1>4 DEF UpdateRequested, CreateRequested, PriceRequested, Ask,
     DeleteRequested, FindSetting, NoteChange, InsertSetting, FindDeleted,
     NoteDeleted
<1>6. Asked(c)
  BY DEF SettingsInv
<1> QED
  BY <1>5, <1>6 DEF UpsertSetting, DeleteSetting, Asked, Given, NoInput

LEMMA LastEntryTells ==
    ASSUME SettingsInv, SettingsNext
    PROVE  EntryTells
<1> SUFFICES ASSUME NEW c \in Changes \ stale,
                    stage[c] \in {"upsert", "delete"},
                    stage'[c] \in {"ok", "find"}, change[c].seen # Absent
             PROVE  history[Len(history)] = [old |-> value, new |-> value']
  BY DEF EntryTells
<1>1. value' = change[c].input.value
  BY WriterIsTheOne
<1>2. KnowsAlone(c)
  BY DEF SettingsInv
<1> QED
  BY <1>1, <1>2 DEF KnowsAlone

(* When no other change came in between, the last entry of the history     *)
(* tells the value that goes and the one that comes.                       *)
THEOREM EntriesTellTheChange == SettingsSpec => EntryTellsTheChange
<1>1. SettingsInv /\ [SettingsNext]_settingsVars => [EntryTells]_settingsVars
  BY LastEntryTells
<1>2. [][SettingsNext]_settingsVars /\ []SettingsInv
        => [][EntryTells]_settingsVars
  BY <1>1, PTL
<1>3. SettingsSpec => [][EntryTells]_settingsVars
  BY <1>2, SettingsInvariant, PTL DEF SettingsSpec
<1> QED
  BY <1>3 DEF EntryTellsTheChange, EntryTells

-----------------------------------------------------------------------------
(* TransactionLists *)

(* The rows before t in the list. *)
Before(t) == {u \in InList : SortKey[u] > SortKey[t]}

(* Row t is not on the first n pages of the list as it is now. *)
Beyond(t, n) == Cardinality(Before(t)) >= n * PageSize

(* What the client has still to come upon is in the list, at a place that  *)
(* no tie makes doubtful.                                                  *)
DueIsPlaced ==
    /\ turn = "idle" => due = {}
    /\ \A t \in due : t \in InList /\ ~Tied(t)

(* Rows that were not shown are not before the page that is read, nor on   *)
(* it when it was.                                                         *)
NothingIsSkipped ==
    turn = "asked" =>
        /\ page >= 1
        /\ found = Never => \A t \in due \ shown : Beyond(t, page - 1)
        /\ found # Never => /\ \A t \in due \ (shown \cup found) : Beyond(t, page)
                            /\ found = {} => due \subseteq shown

(* The count says so, unless it is outdated. *)
CountTellsMore ==
    turn = "asked" /\ total # Never /\ ~outdated =>
        /\ found = Never => total = Cardinality(InList)
        /\ found # Never /\ due \ (shown \cup found) # {}
             => total > page * PageSize

IdleAsksNothing == turn = "idle" => total = Never /\ found = Never

(* The inductive invariant. *)
ListsInv ==
    /\ ListsTypeOK
    /\ IdleAsksNothing
    /\ DueIsPlaced
    /\ NothingIsSkipped
    /\ CountTellsMore
    /\ EveryRowIsShown

-----------------------------------------------------------------------------
(* Lemmas about the list. *)

LEMMA MinOfTwo ==
    ASSUME NEW a \in Nat, NEW b \in Nat
    PROVE  Min({a, b}) = IF a <= b THEN a ELSE b
<1>1. \E x \in {a, b} : \A y \in {a, b} : x =< y
  <2>1. CASE a <= b
    BY <2>1
  <2>2. CASE ~(a <= b)
    BY <2>2
  <2> QED
    BY <2>1, <2>2
<1>2. Min({a, b}) \in {a, b} /\ \A y \in {a, b} : Min({a, b}) =< y
  BY <1>1 DEF Min
<1> QED
  BY <1>2

(* The list is finite and its keys are times. *)
LEMMA ListIsFinite ==
    ASSUME ListsTypeOK
    PROVE  /\ IsFiniteSet(InList) /\ Cardinality(InList) \in Nat
           /\ Cardinality(InList) <= Cardinality(Transactions)
           /\ \A t \in InList : t \in Transactions /\ SortKey[t] \in Nat
<1>1. InList \in SUBSET Transactions
  BY DEF InList
<1>2. IsFiniteSet(InList) /\ Cardinality(InList) <= Cardinality(Transactions)
  BY <1>1, FS_Subset, TransactionsAssumption
<1>3. Cardinality(InList) \in Nat
  BY <1>2, FS_CardinalityType
<1>4. \A t \in InList : t \in Transactions /\ SortKey[t] \in Nat
  BY TimesAssumption DEF ListsTypeOK, InList, SortKey
<1> QED
  BY <1>2, <1>3, <1>4

LEMMA PlaceIsInTheList ==
    ASSUME ListsTypeOK, NEW t \in InList
    PROVE  /\ IsFiniteSet(Before(t)) /\ Cardinality(Before(t)) \in Nat
           /\ Cardinality(Before(t)) < Cardinality(InList)
<1>1. IsFiniteSet(InList) /\ Cardinality(InList) \in Nat /\ SortKey[t] \in Nat
  BY ListIsFinite
<1>2. Before(t) \in SUBSET InList /\ t \notin Before(t)
  BY <1>1 DEF Before
<1>3. /\ IsFiniteSet(Before(t)) /\ Cardinality(Before(t)) <= Cardinality(InList)
      /\ Cardinality(Before(t)) # Cardinality(InList)
  BY <1>1, <1>2, FS_Subset
<1>4. Cardinality(Before(t)) \in Nat
  BY <1>3, FS_CardinalityType
<1> QED
  BY <1>1, <1>3, <1>4

(* A head that leaves out a row of a finite set has all its n rows. *)
LEMMA HeadIsFull ==
    ASSUME NEW S, IsFiniteSet(S), NEW head \in SUBSET S, NEW n \in Nat,
           IsHead(head, S, n)
    PROVE  /\ IsFiniteSet(head) /\ Cardinality(head) \in Nat
           /\ Cardinality(head) <= n
           /\ head # S => Cardinality(head) = n
<1>1. /\ IsFiniteSet(head)
      /\ Cardinality(head) <= Cardinality(S)
      /\ Cardinality(S) = Cardinality(head) => S = head
  BY FS_Subset
<1>2. Cardinality(head) \in Nat /\ Cardinality(S) \in Nat
  BY <1>1, FS_CardinalityType
<1>3. Cardinality(head) = IF n <= Cardinality(S) THEN n ELSE Cardinality(S)
  BY <1>2, MinOfTwo DEF IsHead
<1> QED
  BY <1>1, <1>2, <1>3

(* A row that no tie makes doubtful and that is not before a page is on it *)
(* or behind it, and then the page is full: whatever the order of others.  *)
LEMMA PageIsFull ==
    ASSUME ListsTypeOK, page >= 1, NEW t \in InList, ~Tied(t), Beyond(t, page - 1),
           NEW p \in Pages, t \notin p
    PROVE  Beyond(t, page) /\ p # {}
<1> DEFINE n == (page - 1) * PageSize
<1>0. /\ page \in Nat /\ PageSize \in Nat \ {0} /\ n \in Nat
      /\ n + PageSize = page * PageSize
  <2>1. page \in Nat /\ page - 1 \in Nat /\ PageSize \in Nat \ {0}
    <3>1. Cardinality(Transactions) \in Nat
      BY TransactionsAssumption, FS_CardinalityType
    <3> QED
      BY <3>1, PageSizeAssumption DEF ListsTypeOK
  <2> QED
    BY <2>1
<1>1. PICK s \in SUBSET InList :
        IsHead(s, InList, n) /\ p \subseteq InList \ s /\ IsHead(p, InList \ s, PageSize)
  BY DEF Pages, PageSkip
<1>2. /\ IsFiniteSet(InList) /\ IsFiniteSet(InList \ s)
      /\ \A u \in InList : SortKey[u] \in Nat
  BY ListIsFinite, FS_Subset
<1>3. /\ IsFiniteSet(s) /\ Cardinality(s) \in Nat /\ Cardinality(s) <= n
      /\ s # InList => Cardinality(s) = n
  BY <1>0, <1>1, <1>2, HeadIsFull
<1>4. t \notin s
  <2> SUFFICES ASSUME t \in s PROVE FALSE
    OBVIOUS
  <2>1. Before(t) \in SUBSET (s \ {t})
    BY <1>1, <1>2 DEF Before, IsHead
  <2>2. IsFiniteSet(s \ {t}) /\ Cardinality(s \ {t}) = Cardinality(s) - 1
    BY <1>3, FS_RemoveElement
  <2>3. Cardinality(Before(t)) <= Cardinality(s) - 1
    BY <2>1, <2>2, FS_Subset
  <2>4. Cardinality(Before(t)) \in Nat /\ Cardinality(Before(t)) >= n
    BY PlaceIsInTheList DEF Beyond
  <2> QED
    BY <1>0, <1>3, <2>3, <2>4
<1>5. /\ IsFiniteSet(p) /\ Cardinality(p) = PageSize
  <2>1. p # InList \ s
    BY <1>4
  <2> QED
    BY <1>0, <1>1, <1>2, <2>1, HeadIsFull
<1>6. p # {}
  BY <1>0, <1>5, FS_EmptySet
<1>7. Cardinality(s) = n
  BY <1>3, <1>4
<1>8. s \cup p \in SUBSET Before(t)
  <2> SUFFICES ASSUME NEW u \in s \cup p PROVE u \in Before(t)
    OBVIOUS
  <2>1. u \in InList /\ u # t /\ SortKey[u] >= SortKey[t]
    BY <1>1, <1>4 DEF IsHead
  <2>2. SortKey[u] # SortKey[t]
    BY <2>1 DEF Tied
  <2> QED
    BY <1>2, <2>1, <2>2 DEF Before
<1>9. Cardinality(s \cup p) = n + PageSize
  <2>1. s \cap p = {}
    BY <1>1
  <2>2. /\ IsFiniteSet(s \cup p)
        /\ Cardinality(s \cup p) = Cardinality(s) + Cardinality(p) - Cardinality(s \cap p)
    BY <1>3, <1>5, FS_Union
  <2>3. Cardinality(s \cap p) = 0
    BY <2>1, FS_EmptySet
  <2> QED
    BY <1>0, <1>5, <1>7, <2>2, <2>3
<1>10. Cardinality(s \cup p) <= Cardinality(Before(t))
  BY <1>8, PlaceIsInTheList, FS_Subset
<1> QED
  BY <1>0, <1>6, <1>9, <1>10 DEF Beyond

-----------------------------------------------------------------------------
(* What the station does moves one row. *)

LEMMA OneKeyMoves ==
    ASSUME ListsTypeOK, NEW t \in Transactions, NEW time \in Times,
           TransactionStarts(t, time) \/ TransactionStops(t, time)
    PROVE  /\ ListsTypeOK'
           /\ UNCHANGED <<list, turn, page, total, found, shown>>
           /\ \A u \in Transactions \ {t} : SortKey'[u] = SortKey[u]
           /\ InList \subseteq InList'
<1>1. /\ startTime' \in [Transactions -> Times \cup {Never}]
      /\ stopTime' \in [Transactions -> Times \cup {Never}]
      /\ UNCHANGED <<list, turn, page, total, found, shown>>
  BY DEF TransactionStarts, TransactionStops, ListsTypeOK
<1>2. due' \subseteq due /\ outdated' \in BOOLEAN
  BY DEF TransactionStarts, TransactionStops, ListWritten, ListsTypeOK
<1>3. ListsTypeOK'
  BY <1>1, <1>2 DEF ListsTypeOK
<1>4. /\ \A u \in Transactions \ {t} : SortKey'[u] = SortKey[u]
      /\ SortKey'[t] \in Times \cup {SortKey[t]}
  BY DEF TransactionStarts, TransactionStops, SortKey, ListsTypeOK
<1>5. InList \subseteq InList'
  BY <1>4, TimesAssumption, NeverAssumption DEF InList
<1> QED
  BY <1>1, <1>3, <1>4, <1>5

(* A row that remains due keeps all the rows it had before it. *)
LEMMA DueMovesBack ==
    ASSUME ListsInv, NEW t \in Transactions, NEW time \in Times,
           TransactionStarts(t, time) \/ TransactionStops(t, time), NEW d \in due'
    PROVE  /\ d \in due /\ d \in InList' /\ ~Tied(d)'
           /\ Cardinality(Before(d)) \in Nat /\ Cardinality(Before(d)') \in Nat
           /\ Cardinality(Before(d)) <= Cardinality(Before(d)')
<1>1. ListsTypeOK /\ ListsTypeOK'
  BY OneKeyMoves DEF ListsInv
<1>2. /\ d \in due /\ (d = t => SortKey'[d] = SortKey[d]) /\ ~Tied(d)'
      /\ ~(t # d /\ t \in InList /\ SortKey[t] > SortKey[d] /\ SortKey'[t] < SortKey[d])
  BY DEF TransactionStarts, TransactionStops, ListWritten
<1>3. d \in InList /\ d \in InList' /\ InList \subseteq InList'
  BY <1>1, <1>2, OneKeyMoves DEF ListsInv, DueIsPlaced
<1>4. /\ \A u \in InList : u \in Transactions /\ SortKey[u] \in Nat
      /\ \A u \in InList' : u \in Transactions /\ SortKey'[u] \in Nat
  <2>1. ASSUME NEW u \in InList'
        PROVE  u \in Transactions /\ SortKey'[u] \in Nat
    BY <1>1, <2>1, TimesAssumption DEF ListsTypeOK, InList, SortKey
  <2> QED
    BY <1>1, <2>1, ListIsFinite
<1>5. SortKey'[d] = SortKey[d]
  BY <1>1, <1>2, <1>3, <1>4, OneKeyMoves
<1>6. Before(d) \subseteq Before(d)'
  <2> SUFFICES ASSUME NEW u \in InList, SortKey[u] > SortKey[d]
               PROVE  SortKey'[u] > SortKey'[d]
    BY <1>3 DEF Before
  <2>1. CASE u # t
    BY <1>1, <1>4, <1>5, <2>1, OneKeyMoves
  <2>2. CASE u = t
    <3>1. u # d
      BY <1>3, <1>4
    <3>2. SortKey'[u] # SortKey'[d]
      BY <1>2, <1>3, <3>1 DEF Tied
    <3>3. ~(SortKey'[u] < SortKey'[d])
      BY <1>2, <1>5, <2>2, <3>1
    <3> QED
      BY <1>3, <1>4, <3>2, <3>3
  <2> QED
    BY <2>1, <2>2
<1>7. IsFiniteSet(Before(d)')
  <2>1. Before(d)' \in SUBSET Transactions
    BY DEF Before, InList
  <2> QED
    BY <2>1, FS_Subset, TransactionsAssumption
<1>8. /\ Cardinality(Before(d)) \in Nat /\ Cardinality(Before(d)') \in Nat
      /\ Cardinality(Before(d)) <= Cardinality(Before(d)')
  BY <1>1, <1>3, <1>6, <1>7, PlaceIsInTheList, FS_Subset, FS_CardinalityType
<1> QED
  BY <1>2, <1>3, <1>8

LEMMA StationStepInv ==
    ASSUME ListsInv, NEW t \in Transactions, NEW time \in Times,
           TransactionStarts(t, time) \/ TransactionStops(t, time)
    PROVE  ListsInv'
<1>1. /\ ListsTypeOK /\ ListsTypeOK'
      /\ UNCHANGED <<list, turn, page, total, found, shown>>
      /\ due' \subseteq due
  BY OneKeyMoves, DueMovesBack DEF ListsInv
<1>2. outdated' = (outdated \/ (turn = "asked" /\ total # Never
                               /\ found = Never /\ InList' # InList))
  BY DEF TransactionStarts, TransactionStops, ListWritten
<1>3. DueIsPlaced' /\ IdleAsksNothing'
  BY <1>1, DueMovesBack DEF DueIsPlaced, IdleAsksNothing, ListsInv
<1>4. NothingIsSkipped'
  <2>1. page * PageSize \in Int /\ (page - 1) * PageSize \in Int
    <3>1. page \in Int /\ PageSize \in Int
      BY <1>1, TransactionsAssumption, FS_CardinalityType, PageSizeAssumption
         DEF ListsTypeOK
    <3> QED
      BY <3>1
  <2>2. \A d \in due' : /\ Beyond(d, page) => Beyond(d, page)'
                        /\ Beyond(d, page - 1) => Beyond(d, page - 1)'
    BY <1>1, <2>1, DueMovesBack DEF Beyond
  <2> QED
    BY <1>1, <2>2 DEF NothingIsSkipped, ListsInv
<1>5. CountTellsMore'
  BY <1>1, <1>2 DEF CountTellsMore, ListsInv
<1>6. EveryRowIsShown'
  BY <1>1, <1>2 DEF EveryRowIsShown, ListsInv
<1> QED
  BY <1>1, <1>3, <1>4, <1>5, <1>6 DEF ListsInv

-----------------------------------------------------------------------------
(* The client. *)

LEMMA ListsInvInit == ListsInit => ListsInv
<1> SUFFICES ASSUME ListsInit PROVE ListsInv
  OBVIOUS
<1>1. Cardinality(Transactions) \in Nat
  BY TransactionsAssumption, FS_CardinalityType
<1>2. ListsTypeOK
  <2>1. page = 0 /\ 0 \in 0..(Cardinality(Transactions) + 1)
    BY <1>1 DEF ListsInit
  <2> QED
    BY <2>1 DEF ListsInit, ListsTypeOK
<1> QED
  BY <1>2 DEF ListsInit, ListsInv, DueIsPlaced, NothingIsSkipped, CountTellsMore,
     EveryRowIsShown, IdleAsksNothing

(* The rows the client's steps do not write, and what is said of them.     *)
LEMMA SameRows ==
    ASSUME UNCHANGED <<startTime, stopTime, list>>
    PROVE  /\ InList' = InList
           /\ \A t : Before(t)' = Before(t) /\ Tied(t)' = Tied(t)
<1>1. SortKey' = SortKey
  BY DEF SortKey
<1>2. InList' = InList
  BY <1>1 DEF InList
<1> QED
  BY <1>1, <1>2 DEF Before, Tied

LEMMA AskFirstInv == ASSUME ListsInv, AskFirst PROVE ListsInv'
<1>1. /\ turn' = "asked" /\ page' = 1 /\ due' = {t \in InList : ~Tied(t)}
      /\ UNCHANGED <<startTime, stopTime, list, total, found, shown, outdated>>
      /\ ListsTypeOK /\ Cardinality(Transactions) \in Nat
  BY TransactionsAssumption, FS_CardinalityType DEF AskFirst, ListsInv
<1>2. ListsTypeOK'
  BY <1>1, ListIsFinite DEF ListsTypeOK
<1>3. DueIsPlaced'
  BY <1>1, SameRows DEF DueIsPlaced
<1>4. total = Never /\ found = Never
  BY DEF ListsInv, AskFirst, IdleAsksNothing
<1>5. \A t \in due' : Beyond(t, 0)'
  BY <1>1, SameRows, PlaceIsInTheList, PageSizeAssumption DEF Beyond
<1>6. NothingIsSkipped'
  BY <1>1, <1>4, <1>5 DEF NothingIsSkipped, Beyond
<1> QED
  BY <1>1, <1>2, <1>3, <1>4, <1>6
     DEF ListsInv, CountTellsMore, EveryRowIsShown, IdleAsksNothing

LEMMA CountQueryInv == ASSUME ListsInv, CountQuery PROVE ListsInv'
<1>1. /\ turn = "asked" /\ total' = Cardinality(InList)
      /\ UNCHANGED <<startTime, stopTime, list, turn, page, found, shown, due, outdated>>
      /\ ListsTypeOK /\ Cardinality(Transactions) \in Nat
  BY TransactionsAssumption, FS_CardinalityType DEF CountQuery, ListsInv
<1>2. ListsTypeOK'
  BY <1>1, ListIsFinite DEF ListsTypeOK
<1>3. DueIsPlaced' /\ NothingIsSkipped' /\ EveryRowIsShown' /\ IdleAsksNothing'
  BY <1>1, SameRows DEF ListsInv, DueIsPlaced, NothingIsSkipped, EveryRowIsShown,
     IdleAsksNothing, Beyond
<1>4. ASSUME found # Never, NEW t \in due \ (shown \cup found)
      PROVE  Cardinality(InList) > page * PageSize
  <2>1. t \in InList /\ Beyond(t, page)
    BY <1>1, <1>4 DEF ListsInv, DueIsPlaced, NothingIsSkipped
  <2>2. page * PageSize \in Int
    BY <1>1, PageSizeAssumption DEF ListsTypeOK
  <2> QED
    BY <1>1, <2>1, <2>2, ListIsFinite, PlaceIsInTheList DEF Beyond
<1>5. CountTellsMore'
  BY <1>1, <1>4, SameRows DEF CountTellsMore
<1> QED
  BY <1>2, <1>3, <1>5 DEF ListsInv

LEMMA ListQueryInv == ASSUME ListsInv, ListQuery PROVE ListsInv'
<1>1. /\ turn = "asked" /\ found = Never /\ found' \in Pages
      /\ UNCHANGED <<startTime, stopTime, list, turn, page, total, shown, due, outdated>>
      /\ ListsTypeOK /\ page >= 1
  BY DEF ListQuery, ListsInv, NothingIsSkipped
<1>2. found' \subseteq Transactions /\ found' # Never
  <2>1. found' \subseteq InList
    BY <1>1 DEF Pages
  <2> QED
    BY <2>1, NeverAssumption DEF InList
<1>3. ListsTypeOK'
  BY <1>1, <1>2 DEF ListsTypeOK
<1>4. ASSUME NEW t \in due \ shown, t \notin found'
      PROVE  t \in InList /\ Beyond(t, page) /\ found' # {}
  <2>1. t \in InList /\ ~Tied(t) /\ Beyond(t, page - 1)
    BY <1>1, <1>4 DEF ListsInv, DueIsPlaced, NothingIsSkipped
  <2> QED
    BY <1>1, <1>4, <2>1, PageIsFull
<1>5. NothingIsSkipped'
  <2>1. \A t \in due' \ (shown' \cup found') : Beyond(t, page)'
    BY <1>1, <1>4, SameRows DEF Beyond
  <2>2. found' = {} => due' \subseteq shown'
    BY <1>1, <1>4
  <2> QED
    BY <1>1, <1>2, <2>1, <2>2 DEF NothingIsSkipped
<1>6. CountTellsMore'
  <2> SUFFICES ASSUME total # Never, ~outdated,
                      NEW t \in due \ shown, t \notin found'
               PROVE  total > page * PageSize
    BY <1>1, <1>2 DEF CountTellsMore
  <2>1. total = Cardinality(InList) /\ t \in InList /\ Beyond(t, page)
    BY <1>1, <1>4 DEF ListsInv, CountTellsMore
  <2>2. page * PageSize \in Int
    BY <1>1, TransactionsAssumption, FS_CardinalityType, PageSizeAssumption
       DEF ListsTypeOK
  <2> QED
    BY <1>1, <2>1, <2>2, ListIsFinite, PlaceIsInTheList DEF Beyond
<1>7. DueIsPlaced' /\ EveryRowIsShown' /\ IdleAsksNothing'
  BY <1>1, SameRows DEF ListsInv, DueIsPlaced, EveryRowIsShown, IdleAsksNothing
<1> QED
  BY <1>3, <1>5, <1>6, <1>7 DEF ListsInv

LEMMA AnsweredInv == ASSUME ListsInv, Answered PROVE ListsInv'
<1>1. /\ turn = "asked" /\ total # Never /\ found # Never /\ shown' = shown \cup found
      /\ UNCHANGED <<startTime, stopTime, list, due>> /\ ListsTypeOK
      /\ page >= 1 /\ page \in Int /\ found \subseteq Transactions
      /\ total \in 0..Cardinality(Transactions) /\ PageSize \in Nat \ {0}
      /\ Cardinality(Transactions) \in Nat
  BY TransactionsAssumption, FS_CardinalityType, PageSizeAssumption
     DEF Answered, ListsInv, ListsTypeOK, NothingIsSkipped
<1>2. DueIsPlaced'
  BY <1>1, SameRows DEF Answered, DueIsPlaced, ListsInv
<1>3. CASE found # {} /\ page * PageSize < total
  <2>1. /\ page' = page + 1 /\ total' = Never /\ found' = Never /\ outdated' = FALSE
        /\ turn' = "asked"
    BY <1>1, <1>3 DEF Answered
  <2>2. page' \in 0..(Cardinality(Transactions) + 1)
    <3>1. page <= page * PageSize /\ page * PageSize \in Int
      BY <1>1
    <3> QED
      BY <1>1, <1>3, <2>1, <3>1
  <2>3. ListsTypeOK'
    BY <1>1, <2>1, <2>2 DEF ListsTypeOK
  <2>4. \A t \in due' \ shown' : Cardinality(Before(t)') >= page * PageSize
    <3>1. \A t \in due \ (shown \cup found) : Cardinality(Before(t)) >= page * PageSize
      BY <1>1 DEF ListsInv, NothingIsSkipped, Beyond
    <3> QED
      BY <1>1, <3>1, SameRows
  <2>5. NothingIsSkipped'
    <3>1. page' >= 1 /\ page' - 1 = page
      BY <1>1, <2>1
    <3>2. \A t \in due' \ shown' : Cardinality(Before(t)') >= (page' - 1) * PageSize
      BY <2>4, <3>1
    <3> QED
      BY <2>1, <3>1, <3>2 DEF NothingIsSkipped, Beyond
  <2> QED
    BY <1>2, <2>1, <2>3, <2>5
       DEF ListsInv, CountTellsMore, EveryRowIsShown, IdleAsksNothing
<1>4. CASE ~(found # {} /\ page * PageSize < total)
  <2>1. turn' = "ended" /\ UNCHANGED <<page, total, found, outdated>>
    BY <1>1, <1>4 DEF Answered
  <2>2. ListsTypeOK'
    BY <1>1, <2>1 DEF ListsTypeOK
  <2>3. ~outdated => due \subseteq shown \cup found
    <3>1. CASE found = {}
      BY <1>1, <3>1 DEF ListsInv, NothingIsSkipped
    <3>2. CASE found # {} /\ ~(page * PageSize < total)
      <4>1. page * PageSize \in Int
        BY <1>1
      <4>2. ~(total > page * PageSize)
        BY <1>1, <3>2, <4>1
      <4> QED
        BY <1>1, <4>2 DEF ListsInv, CountTellsMore
    <3> QED
      BY <1>4, <3>1, <3>2
  <2> QED
    BY <1>1, <1>2, <2>1, <2>2, <2>3
       DEF ListsInv, NothingIsSkipped, CountTellsMore, EveryRowIsShown, IdleAsksNothing
<1> QED
  BY <1>3, <1>4

LEMMA ListsInvStep ==
    ASSUME ListsInv, [ListsNext]_listVars
    PROVE  ListsInv'
<1>1. CASE QueryFails
  BY <1>1, SameRows
     DEF QueryFails, ListsInv, ListsTypeOK, DueIsPlaced, NothingIsSkipped,
         CountTellsMore, EveryRowIsShown, IdleAsksNothing
<1>2. CASE UNCHANGED listVars
  BY <1>2, SameRows
     DEF listVars, ListsInv, ListsTypeOK, DueIsPlaced, NothingIsSkipped,
         CountTellsMore, EveryRowIsShown, IdleAsksNothing, Beyond
<1> QED
  BY <1>1, <1>2, AskFirstInv, CountQueryInv, ListQueryInv, AnsweredInv,
     StationStepInv DEF ListsNext

-----------------------------------------------------------------------------
THEOREM ListsInvariant == ListsSpec => []ListsInv
BY ListsInvInit, ListsInvStep, PTL DEF ListsSpec

(* The client's page never runs away: it ends at most one page behind the  *)
(* last transaction there can be.                                          *)
THEOREM ListsTypes == ListsSpec => []ListsTypeOK
<1>1. ListsInv => ListsTypeOK
  BY DEF ListsInv
<1> QED
  BY <1>1, ListsInvariant, PTL

(* Turning the pages to the end shows every row of the beginning, however  *)
(* sessions start and stop in between, apart from ties, rows that move and *)
(* a last page that is older than its count.                               *)
THEOREM NoRowIsMissed == ListsSpec => []EveryRowIsShown
<1>1. ListsInv => EveryRowIsShown
  BY DEF ListsInv
<1> QED
  BY <1>1, ListsInvariant, PTL

-----------------------------------------------------------------------------
(* The composition *)

LEMMA FleetsStep == [Next]_<<area, fleetVars, settingsVars, listVars>>
                      => [FleetNext]_fleetVars
BY DEF Next

LEMMA SettingsStep == [Next]_<<area, fleetVars, settingsVars, listVars>>
                        => [SettingsNext]_settingsVars
BY DEF Next

LEMMA ListsStep == [Next]_<<area, fleetVars, settingsVars, listVars>>
                     => [ListsNext]_listVars
BY DEF Next

(* Side by side, the three areas keep what each of them keeps alone.       *)
THEOREM AreasAreIndependent == Spec => FleetSpec /\ SettingsSpec /\ ListsSpec
<1>1. Init => FleetInit /\ SettingsInit /\ ListsInit
  BY DEF Init, FleetsAtRest, SettingsAtRest, ListsAtRest, FewSettings
<1> QED
  BY <1>1, FleetsStep, SettingsStep, ListsStep, PTL
     DEF Spec, FleetSpec, SettingsSpec, ListsSpec

(* The rows of the three areas and the requests on them keep their types.  *)
THEOREM AdministrationTypes == Spec => []AdministrationTypeOK
<1>1. FleetTypeOK /\ SettingsTypeOK /\ ListsTypeOK <=> AdministrationTypeOK
  BY DEF AdministrationTypeOK
<1> QED
  BY <1>1, AreasAreIndependent, FleetTypes, SettingsTypes, ListsTypes, PTL

=============================================================================
