-------------------------- MODULE ChargingSession --------------------------
(***************************************************************************)
(* The messages of one connected charge point that start and end a         *)
(* charging session: StartTransaction, StopTransaction, StatusNotification *)
(* and Heartbeat, handled by OCPPMessageHandler                            *)
(* (src/src/handlers/ocpp_handlers.ts) and, after the response is sent, by *)
(* updateRealTimeData of OCPPServer (src/src/services/ocpp_server.ts).     *)
(*                                                                         *)
(* The listener of the socket does not wait for handleMessage, so several  *)
(* messages are in progress at once.  A handler is a sequence of database  *)
(* calls; each action below is: the call that was awaited takes effect,    *)
(* then the code up to the next await runs.  Three stores are kept: the    *)
(* connector records in memory, the connector rows and the transaction     *)
(* rows.                                                                   *)
(*                                                                         *)
(* The redis copies (`chargepoint:<id>:connectors`, `:info`) are written   *)
(* and never read; only the await is kept.  The response is sent in the    *)
(* step in which the handler returns.                                      *)
(***************************************************************************)
EXTENDS Integers, Sequences

CONSTANTS
    Handlers,       \* bound: messages in progress at the same time
    NumConnectors,  \* connectors the record is created with
    StationIds,     \* connector ids the station uses in its messages
    TxIds,          \* the numbers 100000 + randomInt(0, 900000) can give
    Statuses,       \* statuses the station reports
    Kinds,          \* the messages the station sends
    DbOutcomes,     \* outcomes of a database call: {TRUE} or BOOLEAN
    NoTx, NoRow

ASSUME NumConnectorsAssumption == NumConnectors \in Nat \ {0}
ASSUME StationIdsAssumption == StationIds \subseteq Nat
ASSUME StatusesAssumption ==
    Statuses \subseteq {"Available", "Preparing", "Charging", "SuspendedEV"}
ASSUME KindsAssumption ==
    Kinds \subseteq {"Start", "Stop", "Status", "Heartbeat"}
ASSUME DbOutcomesAssumption == DbOutcomes \in {{TRUE}, BOOLEAN}
ASSUME NoTxAssumption == NoTx \notin TxIds
ASSUME NoRowAssumption == NoRow \notin {"AVAILABLE", "PREPARING", "CHARGING",
                                        "UNAVAILABLE"}

Ids == StationIds \cup 1 .. NumConnectors
MemStatuses == Statuses \cup {"Available", "Charging"}
RowStatuses == {"AVAILABLE", "PREPARING", "CHARGING", "UNAVAILABLE"}

VARIABLES
    order,     \* the keys of connection.connectors, in insertion order
    mem,       \* key -> the record: its status and its connectorId
    row,       \* connectorId -> status of the connector row, or NoRow
    current,   \* connectorId -> currentTransactionId of the row, or NoTx
    txState,   \* transactionId -> "none", "open" or "stopped"
    txConn,    \* transactionId -> the connector of the row (0 if none)
    told,      \* <<t, k>>: the station was told that t started on k
    at,        \* handler -> the call it awaits, or "idle"
    job,       \* handler -> its message
    write,     \* handler -> the status write it awaits
    todo,      \* handler -> the rest of the records it writes back
    loose,     \* status writes in flight that nobody awaits
    alone      \* history: write-backs that nothing has disturbed so far

memVars == <<order, mem>>
rowVars == <<row, current>>
txVars == <<txState, txConn>>
vars == <<memVars, rowVars, txVars, told, at, job, write, todo, loose, alone>>

NoJob == [kind |-> "none", k |-> 1, tx |-> NoTx, st |-> "Available"]

Init ==
    /\ order = [i \in 1 .. NumConnectors |-> i]
    /\ mem = [k \in Ids |-> [status |-> "Available", id |-> k]]
    /\ row \in [Ids -> {NoRow, "UNAVAILABLE"}]
    /\ current = [k \in Ids |-> NoTx]
    /\ txState = [t \in TxIds |-> "none"]
    /\ txConn = [t \in TxIds |-> 0]
    /\ told = {}
    /\ at = [h \in Handlers |-> "idle"]
    /\ job = [h \in Handlers |-> NoJob]
    /\ write = [h \in Handlers |-> [k |-> 1, st |-> "Available"]]
    /\ todo = [h \in Handlers |-> << >>]
    /\ loose = {}
    /\ alone = {}

-----------------------------------------------------------------------------
(* Helpers *)

Present(k) == \E i \in 1 .. Len(order) : order[i] = k

SetStatus(m, k, st) == [m EXCEPT ![k].status = st]

(* DatabaseService.updateConnectorStatus: the status is upper-cased and    *)
(* looked up in the enum, which has SUSPENDED_EV but not SUSPENDEDEV.  An  *)
(* unknown status becomes UNAVAILABLE in an update, AVAILABLE in a create. *)
Known(st) == st \in {"Available", "Preparing", "Charging"}
Upper(st) == CASE st = "Available" -> "AVAILABLE"
               [] st = "Preparing" -> "PREPARING"
               [] OTHER -> "CHARGING"
RowAfter(k, st) == IF Known(st) THEN Upper(st)
                   ELSE IF row[k] = NoRow THEN "AVAILABLE" ELSE "UNAVAILABLE"

WriteStatus(k, st) == row' = [row EXCEPT ![k] = RowAfter(k, st)]

(* Handler h awaits a status write, or another call. *)
Await(h, pc) == at' = [at EXCEPT ![h] = pc]
AwaitWrite(h, pc, k, st) ==
    /\ Await(h, pc)
    /\ write' = [write EXCEPT ![h] = [k |-> k, st |-> st]]

(* updateRealTimeData 368-378: the records of this moment are collected,   *)
(* redis is written, then the rows one after the other.                    *)
CollectRecords(h) ==
    /\ Await(h, "cache")
    /\ todo' = [todo EXCEPT ![h] = order]
    /\ UNCHANGED write

-----------------------------------------------------------------------------
(* updateRealTimeData up to its first await, on the memory m that the      *)
(* handler leaves behind.  It also runs after a CALLERROR response.        *)

RealtimeStart(h, m) ==
    /\ job[h].kind = "Start"
    /\ UNCHANGED <<order, loose>>
    /\ IF Present(job[h].k)
       THEN /\ mem' = SetStatus(m, job[h].k, "Charging")
            /\ AwaitWrite(h, "write", job[h].k, "Charging")
            /\ UNCHANGED todo
       ELSE mem' = m /\ CollectRecords(h)

(* A StopTransaction carries no connectorId: `|| 1` makes it connector 1,  *)
(* which is always present.                                                *)
RealtimeStop(h, m) ==
    /\ job[h].kind = "Stop"
    /\ mem' = SetStatus(m, 1, "Available")
    /\ AwaitWrite(h, "write", 1, "Available")
    /\ UNCHANGED <<order, todo, loose>>

(* A connector the record does not know is added to it. *)
RealtimeStatus(h, m) ==
    /\ job[h].kind = "Status"
    /\ order' = IF Present(job[h].k) THEN order
                ELSE Append(order, job[h].k)
    /\ mem' = SetStatus(m, job[h].k, job[h].st)
    /\ AwaitWrite(h, "write", job[h].k, job[h].st)
    /\ UNCHANGED <<todo, loose>>

(* forEach with an async callback: one write per record, none awaited. *)
RealtimeHeartbeat(h, m) ==
    /\ job[h].kind = "Heartbeat"
    /\ mem' = m
    /\ loose' = loose \cup {[k |-> k, st |-> m[k].status] :
                              k \in {x \in Ids : Present(x)}}
    /\ CollectRecords(h)
    /\ UNCHANGED order

Realtime(h, m) ==
    \/ RealtimeStart(h, m)
    \/ RealtimeStop(h, m)
    \/ RealtimeStatus(h, m)
    \/ RealtimeHeartbeat(h, m)

(* A message arrives for an idle handler slot. *)
Arrive(h, j) ==
    /\ at[h] = "idle"
    /\ j.kind \in Kinds
    /\ job' = [job EXCEPT ![h] = j]

-----------------------------------------------------------------------------
(* handleStartTransaction *)

StartArrives(h) ==
    /\ \E k \in StationIds \ {0}, t \in TxIds :
         Arrive(h, [kind |-> "Start", k |-> k, tx |-> t, st |-> "Charging"])
    /\ Await(h, "create")
    /\ UNCHANGED <<memVars, rowVars, txVars, told, write, todo, loose>>

(* Mutation of CreateSucceeds: an upsert, which takes any number. *)
CreateReplaces(h) ==
    LET j == job[h] IN
    /\ at[h] = "create"
    /\ row[j.k] # NoRow
    /\ txState' = [txState EXCEPT ![j.tx] = "open"]
    /\ txConn' = [txConn EXCEPT ![j.tx] = j.k]
    /\ Await(h, "link")
    /\ UNCHANGED <<memVars, rowVars, told, job, write, todo, loose>>

(* createTransaction: the id must be free and the connector row exist. *)
CreateSucceeds(h) ==
    LET j == job[h] IN
    /\ at[h] = "create"
    /\ txState[j.tx] = "none"
    /\ row[j.k] # NoRow
    /\ txState' = [txState EXCEPT ![j.tx] = "open"]
    /\ txConn' = [txConn EXCEPT ![j.tx] = j.k]
    /\ Await(h, "link")
    /\ UNCHANGED <<memVars, rowVars, told, job, write, todo, loose>>

CreateFails(h) ==
    LET j == job[h] IN
    /\ at[h] = "create"
    /\ txState[j.tx] # "none" \/ row[j.k] = NoRow \/ FALSE \in DbOutcomes
    /\ Realtime(h, mem)
    /\ UNCHANGED <<rowVars, txVars, told, job>>

(* Mutation of LinkLands: the link goes to connector 1. *)
LinkToFirst(h) ==
    LET j == job[h] IN
    /\ at[h] = "link"
    /\ current' = [current EXCEPT ![1] = j.tx]
    /\ told' = IF Present(j.k) THEN told \cup {<<j.tx, j.k>>} ELSE told
    /\ Realtime(h, IF Present(j.k) THEN SetStatus(mem, j.k, "Charging")
                   ELSE mem)
    /\ UNCHANGED <<row, txVars, job>>

(* createOrUpdateConnector returns.  Without a record for the connector    *)
(* the handler throws here, after both rows were written.                  *)
LinkLands(h) ==
    LET j == job[h] IN
    /\ at[h] = "link"
    /\ current' = [current EXCEPT ![j.k] = j.tx]
    /\ told' = IF Present(j.k) THEN told \cup {<<j.tx, j.k>>} ELSE told
    /\ Realtime(h, IF Present(j.k) THEN SetStatus(mem, j.k, "Charging")
                   ELSE mem)
    /\ UNCHANGED <<row, txVars, job>>

LinkFails(h) ==
    /\ at[h] = "link"
    /\ FALSE \in DbOutcomes
    /\ Realtime(h, mem)
    /\ UNCHANGED <<rowVars, txVars, told, job>>

-----------------------------------------------------------------------------
(* handleStopTransaction *)

(* The station names a transaction it was told of, or any other number. *)
StopArrives(h) ==
    /\ \E t \in TxIds :
         Arrive(h, [kind |-> "Stop", k |-> 1, tx |-> t, st |-> "Available"])
    /\ Await(h, "fetch")
    /\ UNCHANGED <<memVars, rowVars, txVars, told, write, todo, loose>>

(* Mutation of FetchFinds: the row is used without a test for null. *)
FetchAssumesFound(h) ==
    LET j == job[h] IN
    /\ at[h] = "fetch"
    /\ job' = [job EXCEPT ![h].k = txConn[j.tx]]
    /\ Await(h, "stop")
    /\ UNCHANGED <<memVars, rowVars, txVars, told, write, todo, loose>>

(* getTransaction returns a row, stopped or not. *)
FetchFinds(h) ==
    LET j == job[h] IN
    /\ at[h] = "fetch"
    /\ txState[j.tx] # "none"
    /\ job' = [job EXCEPT ![h].k = txConn[j.tx]]
    /\ Await(h, "stop")
    /\ UNCHANGED <<memVars, rowVars, txVars, told, write, todo, loose>>

(* Unknown transactions are accepted; an error of the read is not. *)
FetchEnds(h) ==
    /\ at[h] = "fetch"
    /\ txState[job[h].tx] = "none" \/ FALSE \in DbOutcomes
    /\ Realtime(h, mem)
    /\ UNCHANGED <<rowVars, txVars, told, job>>

StopLands(h) ==
    /\ at[h] = "stop"
    /\ txState' = [txState EXCEPT ![job[h].tx] = "stopped"]
    /\ AwaitWrite(h, "free", job[h].k, "Available")
    /\ UNCHANGED <<memVars, rowVars, txConn, told, job, todo, loose>>

StopFails(h) ==
    /\ at[h] = "stop"
    /\ FALSE \in DbOutcomes
    /\ Realtime(h, mem)
    /\ UNCHANGED <<rowVars, txVars, told, job>>

(* The connector row is AVAILABLE; its currentTransactionId stays. *)
FreeLands(h) ==
    LET k == job[h].k IN
    /\ at[h] = "free"
    /\ WriteStatus(k, "Available")
    /\ Realtime(h, IF Present(k) THEN SetStatus(mem, k, "Available") ELSE mem)
    /\ UNCHANGED <<current, txVars, told, job>>

FreeFails(h) ==
    /\ at[h] = "free"
    /\ FALSE \in DbOutcomes
    /\ Realtime(h, mem)
    /\ UNCHANGED <<rowVars, txVars, told, job>>

-----------------------------------------------------------------------------
(* handleStatusNotification: `connectorId || 1` finds the record, but its  *)
(* connectorId and the row are those of the payload.                       *)
RecordKey(k) == IF k = 0 THEN 1 ELSE k

StatusArrives(h) ==
    /\ \E k \in StationIds, st \in Statuses :
         /\ Present(RecordKey(k))
         /\ Arrive(h, [kind |-> "Status", k |-> k, tx |-> NoTx, st |-> st])
         /\ mem' = [mem EXCEPT ![RecordKey(k)] = [status |-> st, id |-> k]]
         /\ AwaitWrite(h, "status", k, st)
    /\ UNCHANGED <<order, rowVars, txVars, told, todo, loose>>

(* Without a record the handler throws; updateRealTimeData adds one. *)
StatusOfUnknown(h) ==
    /\ \E k \in StationIds, st \in Statuses :
         LET j == [kind |-> "Status", k |-> k, tx |-> NoTx, st |-> st] IN
         /\ ~Present(RecordKey(k))
         /\ Arrive(h, j)
         /\ order' = Append(order, k)
         /\ mem' = SetStatus(mem, k, st)
         /\ AwaitWrite(h, "write", k, st)
    /\ UNCHANGED <<rowVars, txVars, told, todo, loose>>

StatusLands(h) ==
    /\ at[h] = "status"
    /\ \/ WriteStatus(write[h].k, write[h].st)
       \/ FALSE \in DbOutcomes /\ UNCHANGED row
    /\ Realtime(h, mem)
    /\ UNCHANGED <<current, txVars, told, job>>

-----------------------------------------------------------------------------
(* handleHeartbeat: its write is of the charge point row. *)
HeartbeatArrives(h) ==
    /\ Arrive(h, [NoJob EXCEPT !.kind = "Heartbeat"])
    /\ Await(h, "beat")
    /\ UNCHANGED <<memVars, rowVars, txVars, told, write, todo, loose>>

BeatLands(h) ==
    /\ at[h] = "beat"
    /\ Realtime(h, mem)
    /\ UNCHANGED <<rowVars, txVars, told, job>>

LooseLands(w) ==
    /\ w \in loose
    /\ \/ WriteStatus(w.k, w.st)
       \/ FALSE \in DbOutcomes /\ UNCHANGED row
    /\ loose' = loose \ {w}
    /\ UNCHANGED <<memVars, current, txVars, told, at, job, write, todo>>

-----------------------------------------------------------------------------
(* The rest of updateRealTimeData *)

(* The write of the message's own connector; an error is only logged. *)
WriteLands(h) ==
    /\ at[h] = "write"
    /\ \/ WriteStatus(write[h].k, write[h].st)
       \/ FALSE \in DbOutcomes /\ UNCHANGED row
    /\ CollectRecords(h)
    /\ UNCHANGED <<memVars, current, txVars, told, job, loose>>

(* Mutation of WriteBackNext: the last record is left out. *)
WriteBackAllButLast(h) ==
    IF Len(todo[h]) <= 1
    THEN /\ Await(h, "idle")
         /\ job' = [job EXCEPT ![h] = NoJob]
         /\ todo' = [todo EXCEPT ![h] = << >>]
         /\ UNCHANGED write
    ELSE LET rec == mem[Head(todo[h])] IN
         /\ AwaitWrite(h, "sync", rec.id, rec.status)
         /\ todo' = [todo EXCEPT ![h] = Tail(@)]
         /\ UNCHANGED job

(* The next record is written with the connectorId and the status it has   *)
(* by now, or the handler ends.                                            *)
WriteBackNext(h) ==
    IF todo[h] = << >>
    THEN /\ Await(h, "idle")
         /\ job' = [job EXCEPT ![h] = NoJob]
         /\ UNCHANGED <<write, todo>>
    ELSE LET rec == mem[Head(todo[h])] IN
         /\ AwaitWrite(h, "sync", rec.id, rec.status)
         /\ todo' = [todo EXCEPT ![h] = Tail(@)]
         /\ UNCHANGED job

CacheLands(h) ==
    /\ at[h] = "cache"
    /\ WriteBackNext(h)
    /\ UNCHANGED <<memVars, rowVars, txVars, told, loose>>

SyncLands(h) ==
    /\ at[h] = "sync"
    /\ WriteStatus(write[h].k, write[h].st)
    /\ WriteBackNext(h)
    /\ UNCHANGED <<memVars, current, txVars, told, loose>>

(* Mutation of SyncFails: a failure starts the whole update again. *)
SyncFailsRetries(h) ==
    /\ at[h] \in {"cache", "sync"}
    /\ FALSE \in DbOutcomes
    /\ Await(h, "cache")
    /\ todo' = [todo EXCEPT ![h] = order]
    /\ UNCHANGED <<memVars, rowVars, txVars, told, job, write, loose>>

(* The first failure (redis or database) ends the loop. *)
SyncFails(h) ==
    /\ at[h] \in {"cache", "sync"}
    /\ FALSE \in DbOutcomes
    /\ Await(h, "idle")
    /\ job' = [job EXCEPT ![h] = NoJob]
    /\ todo' = [todo EXCEPT ![h] = << >>]
    /\ UNCHANGED <<memVars, rowVars, txVars, told, write, loose>>

-----------------------------------------------------------------------------
Arrival(h) ==
    StartArrives(h) \/ StopArrives(h) \/ StatusArrives(h)
      \/ StatusOfUnknown(h) \/ HeartbeatArrives(h)

HandlerStep(h) ==
    \/ CreateSucceeds(h) \/ CreateFails(h) \/ LinkLands(h) \/ LinkFails(h)
    \/ FetchFinds(h) \/ FetchEnds(h) \/ StopLands(h) \/ StopFails(h)
    \/ FreeLands(h) \/ FreeFails(h)
    \/ StatusLands(h)
    \/ BeatLands(h)
    \/ WriteLands(h) \/ CacheLands(h) \/ SyncLands(h) \/ SyncFails(h)

(* History, for the properties only: since handler h collected the records *)
(* no other message was in progress, and no write that nobody awaits was   *)
(* left with an older status.                                              *)
Undisturbed(h) ==
    /\ at[h] \in {"cache", "sync"}
    /\ \A g \in Handlers \ {h} : at[g] = "idle"
    /\ \A w \in loose : w.st = mem[w.k].status
NoteAlone ==
    alone' = {h \in Handlers : Undisturbed(h)'
                 /\ (at[h] \in {"cache", "sync"} => h \in alone)}

Next ==
    /\ \/ \E h \in Handlers : Arrival(h) \/ HandlerStep(h)
       \/ \E w \in loose : LooseLands(w)
    /\ NoteAlone

Spec == Init /\ [][Next]_vars

(* Database and redis calls return, with a result or with an error. *)
Return(h) == HandlerStep(h) /\ NoteAlone
FairSpec == Spec /\ \A h \in Handlers : WF_vars(Return(h))

-----------------------------------------------------------------------------
StoresTypeOK ==
    /\ order \in Seq(Ids)
    /\ mem \in [Ids -> [status : MemStatuses, id : Ids]]
    /\ row \in [Ids -> RowStatuses \cup {NoRow}]
    /\ current \in [Ids -> TxIds \cup {NoTx}]
    /\ txState \in [TxIds -> {"none", "open", "stopped"}]
    /\ txConn \in [TxIds -> Ids \cup {0}]
    /\ told \subseteq TxIds \X Ids
    /\ at \in [Handlers -> {"idle", "create", "link", "fetch", "stop", "free",
                            "status", "beat", "write", "cache", "sync"}]
    /\ job \in [Handlers -> [kind : Kinds \cup {"none"}, k : Ids,
                             tx : TxIds \cup {NoTx}, st : MemStatuses]]
    /\ write \in [Handlers -> [k : Ids, st : MemStatuses]]
    /\ todo \in [Handlers -> Seq(Ids)]
    /\ loose \subseteq [k : Ids, st : MemStatuses]

TypeOK == StoresTypeOK /\ alone \subseteq Handlers

(* The active-transaction link of a connector row names a transaction that *)
(* exists and ran on that very connector, although the link is written in  *)
(* a later call than the transaction and other handlers come in between.   *)
CurrentIsOwnTransaction ==
    \A k \in Ids : current[k] # NoTx
        => txState[current[k]] # "none" /\ txConn[current[k]] = k

(* A station that was told "Accepted, transaction t" for connector k can   *)
(* rely on it: t is recorded on k, and no StartTransaction of another      *)
(* connector that drew the same random number was accepted as well.        *)
AcceptedStartIsRecorded ==
    \A t \in TxIds, k \in Ids : <<t, k>> \in told
        => /\ txState[t] # "none" /\ txConn[t] = k
           /\ \A l \in Ids : <<t, l>> \in told => l = k

(* A row r to which the status st was written. *)
Shown(r, st) == IF Known(st) THEN r = Upper(st)
                ELSE r \in {"AVAILABLE", "UNAVAILABLE"}

(* The row of every connector from 1 on whose record still has its own     *)
(* number (a StatusNotification of connector 0 gives record 1 the number   *)
(* 0) shows the status the server has in memory.                           *)
RowsShowMemory ==
    \A k \in Ids \ {0} :
        Present(k) /\ mem[k].id = k => Shown(row[k], mem[k].status)

(* Every message is handled to its end, whatever fails on the way: no path *)
(* of a handler or of updateRealTimeData loops or stops (233-390).         *)
HandlersEnd == \A h \in Handlers : at[h] # "idle" ~> at[h] = "idle"

(* Messages that overlap, fail half-way or leave writes behind can put the *)
(* rows in any order (ocpp_server.ts 102 awaits none of them), but no      *)
(* damage lasts: the next write-back that runs to its end with no other    *)
(* message and no older write beside it repairs the rows of all            *)
(* connectors, those of earlier messages too (366-382).                    *)
WriteBackRepairs ==
    [][\A h \in alone :
         (CacheLands(h) \/ SyncLands(h)) /\ at'[h] = "idle" => RowsShowMemory']_vars

-----------------------------------------------------------------------------
(* What the code and its documents say and the code does not keep *)

(* "Transaction stopped: ... connector ${stopConnectorId}"                 *)
(* (ocpp_server.ts 356): the connector that the end of a transaction makes *)
(* available is not one on which another, accepted transaction is open.    *)
StopLeavesOtherSessions ==
    \A h \in Handlers :
        at[h] = "write" /\ job[h].kind = "Stop"
          /\ txState[job[h].tx] = "stopped"
          => ~ \E t \in TxIds \ {job[h].tx} :
                 txState[t] = "open" /\ <<t, write[h].k>> \in told
=============================================================================
