------------------------ MODULE ChargingSessionProofs ------------------------
(***************************************************************************)
(* Theorems about ChargingSession, for every number of messages in         *)
(* progress, connectors, connector ids and transaction numbers, and with   *)
(* database calls that may fail.                                           *)
(***************************************************************************)
EXTENDS ChargingSession, TLAPS

Record == [status : MemStatuses, id : Ids]
Places == {"idle", "create", "link", "fetch", "stop", "free", "status", "beat",
           "write", "cache", "sync"}
StatusWrite == [k : Ids, st : MemStatuses]
Job == [kind : Kinds \cup {"none"}, k : Ids, tx : TxIds \cup {NoTx},
        st : MemStatuses]

(* What a handler knows of its transaction while it awaits a call: the     *)
(* message named a number; while the connector row is being linked, or the *)
(* stop recorded, the transaction is recorded on the connector at hand.    *)
HandlerKnows ==
    \A h \in Handlers :
        /\ at[h] \in {"create", "link", "fetch", "stop"}
             => job[h].tx \in TxIds
        /\ at[h] \in {"link", "stop"}
             => /\ txState[job[h].tx] # "none"
                /\ txConn[job[h].tx] = job[h].k

RecordedOnConnector ==
    \A t \in TxIds : txState[t] # "none" => txConn[t] \in Ids

SessionInv ==
    /\ StoresTypeOK
    /\ HandlerKnows
    /\ RecordedOnConnector
    /\ CurrentIsOwnTransaction
    /\ AcceptedStartIsRecorded

(* The variables that the code after the response writes. *)
RealtimeTypeOK ==
    /\ order \in Seq(Ids)
    /\ mem \in [Ids -> Record]
    /\ write \in [Handlers -> StatusWrite]
    /\ todo \in [Handlers -> Seq(Ids)]
    /\ loose \subseteq StatusWrite

LEMMA Constants ==
    /\ 1 \in Ids
    /\ MemStatuses \subseteq {"Available", "Preparing", "Charging", "SuspendedEV"}
    /\ {"Available", "Charging"} \subseteq MemStatuses
BY NumConnectorsAssumption, StatusesAssumption DEF Ids, MemStatuses

LEMMA NoJobType == NoJob \in Job
BY Constants DEF NoJob, Job

(* Memory with the status of one record changed is still memory. *)
LEMMA SetStatusType ==
    ASSUME NEW m \in [Ids -> Record], NEW k \in Ids, NEW st \in MemStatuses
    PROVE  SetStatus(m, k, st) \in [Ids -> Record]
BY DEF SetStatus, Record

(* updateRealTimeData up to its first await: the handler goes on to a      *)
(* status write or to the final write-back, and nothing else moves.        *)
LEMMA RealtimeType ==
    ASSUME StoresTypeOK, NEW h \in Handlers, NEW m \in [Ids -> Record],
           Realtime(h, m)
    PROVE  /\ RealtimeTypeOK'
           /\ \/ at' = [at EXCEPT ![h] = "write"]
              \/ at' = [at EXCEPT ![h] = "cache"]
<1> USE Constants
<1>1. job[h].k \in Ids /\ job[h].st \in MemStatuses
  BY DEF StoresTypeOK
<1>2. ASSUME NEW k \in Ids, NEW st \in MemStatuses, AwaitWrite(h, "write", k, st)
      PROVE  /\ write' \in [Handlers -> StatusWrite]
             /\ at' = [at EXCEPT ![h] = "write"]
  BY <1>2 DEF StoresTypeOK, AwaitWrite, Await, StatusWrite
<1>3. ASSUME CollectRecords(h)
      PROVE  /\ write' \in [Handlers -> StatusWrite]
             /\ todo' \in [Handlers -> Seq(Ids)]
             /\ at' = [at EXCEPT ![h] = "cache"]
  BY <1>3 DEF StoresTypeOK, CollectRecords, Await, StatusWrite
<1>4. /\ order \in Seq(Ids)
      /\ todo \in [Handlers -> Seq(Ids)]
      /\ loose \subseteq StatusWrite
  BY DEF StoresTypeOK, StatusWrite
<1>5. CASE RealtimeStart(h, m)
  <2>1. CASE Present(job[h].k)
    <3>1. mem' \in [Ids -> Record]
      BY <1>1, <1>5, <2>1, SetStatusType DEF RealtimeStart
    <3> QED
      BY <1>1, <1>2, <1>4, <1>5, <2>1, <3>1 DEF RealtimeStart, RealtimeTypeOK
  <2>2. CASE ~Present(job[h].k)
    BY <1>3, <1>4, <1>5, <2>2 DEF RealtimeStart, RealtimeTypeOK
  <2> QED
    BY <2>1, <2>2
<1>6. CASE RealtimeStop(h, m)
  <2>1. mem' \in [Ids -> Record]
    BY <1>6, SetStatusType DEF RealtimeStop
  <2> QED
    BY <1>2, <1>4, <1>6, <2>1 DEF RealtimeStop, RealtimeTypeOK
<1>7. CASE RealtimeStatus(h, m)
  <2>1. mem' \in [Ids -> Record]
    BY <1>1, <1>7, SetStatusType DEF RealtimeStatus
  <2>2. order' \in Seq(Ids)
    <3>1. Append(order, job[h].k) \in Seq(Ids)
      BY <1>1, <1>4
    <3> QED
      BY <1>4, <1>7, <3>1 DEF RealtimeStatus
  <2> QED
    BY <1>1, <1>2, <1>4, <1>7, <2>1, <2>2 DEF RealtimeStatus, RealtimeTypeOK
<1>8. CASE RealtimeHeartbeat(h, m)
  <2>1. ASSUME NEW k \in Ids PROVE [k |-> k, st |-> m[k].status] \in StatusWrite
    BY DEF Record, StatusWrite
  <2>2. loose' \subseteq StatusWrite
    BY <1>4, <1>8, <2>1 DEF RealtimeHeartbeat
  <2> QED
    BY <1>3, <1>4, <1>8, <2>2 DEF RealtimeHeartbeat, RealtimeTypeOK
<1> QED
  BY <1>5, <1>6, <1>7, <1>8 DEF Realtime

(* The row of a connector holds a status of the enum, whatever is written. *)
LEMMA RowType ==
    ASSUME StoresTypeOK, NEW k \in Ids, NEW st \in MemStatuses, WriteStatus(k, st)
    PROVE  row' \in [Ids -> RowStatuses \cup {NoRow}]
<1>1. RowAfter(k, st) \in RowStatuses
  BY DEF RowAfter, Known, Upper, RowStatuses
<1> QED
  BY <1>1 DEF StoresTypeOK, WriteStatus

-----------------------------------------------------------------------------
(* Facts shared by the steps *)

LEMMA SessionInvInit == Init => SessionInv
<1> SUFFICES ASSUME Init PROVE SessionInv
  OBVIOUS
<1>1. StoresTypeOK
  <2>1. order \in Seq(Ids)
    BY NumConnectorsAssumption DEF Init, Ids
  <2>2. todo \in [Handlers -> Seq(Ids)]
    BY DEF Init
  <2> QED
    BY <2>1, <2>2, Constants DEF Init, StoresTypeOK, NoJob, Ids, RowStatuses
<1> QED
  BY <1>1 DEF Init, SessionInv, HandlerKnows, RecordedOnConnector,
              CurrentIsOwnTransaction, AcceptedStartIsRecorded

(* A handler that leaves the part in which it uses a transaction, or never *)
(* enters it, has nothing more to know.                                    *)
LEMMA OutsideTransaction ==
    ASSUME StoresTypeOK, HandlerKnows, NEW h \in Handlers,
           NEW pc, pc \notin {"create", "link", "fetch", "stop"},
           at' = [at EXCEPT ![h] = pc],
           \A g \in Handlers \ {h} : job'[g] = job[g],
           UNCHANGED txVars
    PROVE  HandlerKnows'
BY DEF StoresTypeOK, HandlerKnows, txVars

(* A step that writes no transaction, no link and no answer. *)
LEMMA RecordsKept ==
    ASSUME RecordedOnConnector, CurrentIsOwnTransaction,
           AcceptedStartIsRecorded, UNCHANGED <<txVars, current, told>>
    PROVE  /\ RecordedOnConnector'
           /\ CurrentIsOwnTransaction'
           /\ AcceptedStartIsRecorded'
BY DEF RecordedOnConnector, CurrentIsOwnTransaction, AcceptedStartIsRecorded,
       txVars

(* A handler that ends in updateRealTimeData, after whatever write of rows.*)
LEMMA RealtimeInv ==
    ASSUME SessionInv, NEW h \in Handlers, NEW m \in [Ids -> Record],
           Realtime(h, m),
           row' \in [Ids -> RowStatuses \cup {NoRow}],
           UNCHANGED <<current, txVars, told, job>>
    PROVE  SessionInv'
<1>1. StoresTypeOK'
  BY RealtimeType DEF SessionInv, StoresTypeOK, RealtimeTypeOK, Record, StatusWrite,
                      txVars
<1>2. HandlerKnows'
  BY RealtimeType, OutsideTransaction DEF SessionInv
<1> QED
  BY <1>1, <1>2, RecordsKept DEF SessionInv

(* An arriving message that goes on to await pc. *)
LEMMA ArriveInv ==
    ASSUME SessionInv, NEW h \in Handlers, NEW pc,
           NEW j \in Job,
           Arrive(h, j),
           \/ pc \in {"create", "fetch"} /\ j.tx \in TxIds
           \/ pc \in {"status", "beat", "write"},
           Await(h, pc),
           order' \in Seq(Ids), mem' \in [Ids -> Record],
           write' \in [Handlers -> StatusWrite],
           UNCHANGED <<rowVars, txVars, told, todo, loose>>
    PROVE  SessionInv'
<1>1. job'[h] = j /\ at'[h] = pc
  BY DEF Arrive, Await, SessionInv, StoresTypeOK
<1>2. \A g \in Handlers \ {h} : job'[g] = job[g] /\ at'[g] = at[g]
  BY DEF Arrive, Await, SessionInv, StoresTypeOK
<1>3. StoresTypeOK'
  BY DEF SessionInv, StoresTypeOK, Arrive, Await, Job, Record, StatusWrite,
         rowVars, txVars
<1>4. HandlerKnows'
  BY <1>1, <1>2 DEF SessionInv, HandlerKnows, txVars
<1> QED
  BY <1>3, <1>4, RecordsKept DEF SessionInv, rowVars

(* The end of the final write-back, or its next record. *)
LEMMA WriteBackInv ==
    ASSUME SessionInv, NEW h \in Handlers, WriteBackNext(h),
           row' \in [Ids -> RowStatuses \cup {NoRow}],
           UNCHANGED <<memVars, current, txVars, told, loose>>
    PROVE  SessionInv'
<1> DEFINE rec == mem[Head(todo[h])]
<1>1. CASE todo[h] = << >>
  <2>1. StoresTypeOK'
    <3>1. /\ at' = [at EXCEPT ![h] = "idle"]
          /\ job' = [job EXCEPT ![h] = NoJob]
          /\ UNCHANGED <<write, todo>>
      BY <1>1 DEF WriteBackNext, Await
    <3>2. job' \in [Handlers -> Job]
      BY <3>1, NoJobType DEF SessionInv, StoresTypeOK, Job
    <3> QED
      BY <3>1, <3>2 DEF SessionInv, StoresTypeOK, Job, memVars, txVars
  <2>2. HandlerKnows'
    BY <1>1, OutsideTransaction
       DEF SessionInv, StoresTypeOK, WriteBackNext, Await
  <2> QED
    BY <2>1, <2>2, RecordsKept DEF SessionInv
<1>2. CASE todo[h] # << >>
  <2>1. todo[h] \in Seq(Ids)
    BY DEF SessionInv, StoresTypeOK
  <2>2. Head(todo[h]) \in Ids /\ Tail(todo[h]) \in Seq(Ids)
    BY <1>2, <2>1
  <2>3. rec.id \in Ids /\ rec.status \in MemStatuses
    BY <2>2 DEF SessionInv, StoresTypeOK
  <2>4. /\ at' = [at EXCEPT ![h] = "sync"]
        /\ write' = [write EXCEPT ![h] = [k |-> rec.id, st |-> rec.status]]
        /\ todo' = [todo EXCEPT ![h] = Tail(@)]
        /\ UNCHANGED job
    BY <1>2 DEF WriteBackNext, AwaitWrite, Await
  <2>5. StoresTypeOK'
    BY <2>2, <2>3, <2>4 DEF SessionInv, StoresTypeOK, memVars, txVars
  <2>6. HandlerKnows'
    BY <2>4, OutsideTransaction DEF SessionInv
  <2> QED
    BY <2>5, <2>6, RecordsKept DEF SessionInv
<1> QED
  BY <1>1, <1>2

-----------------------------------------------------------------------------
(* The steps of the handlers *)

LEMMA ArrivalInv ==
    ASSUME SessionInv, NEW h \in Handlers, Arrival(h)
    PROVE  SessionInv'
<1> USE Constants, StationIdsAssumption
<1>1. CASE StartArrives(h)
  <2>1. PICK k \in StationIds \ {0}, t \in TxIds :
          Arrive(h, [kind |-> "Start", k |-> k, tx |-> t, st |-> "Charging"])
    BY <1>1 DEF StartArrives
  <2> DEFINE j == [kind |-> "Start", k |-> k, tx |-> t, st |-> "Charging"]
  <2>2. j \in Job /\ j.tx \in TxIds
    BY <2>1 DEF Job, Arrive, Ids
  <2>3. Await(h, "create") /\ UNCHANGED <<memVars, rowVars, txVars, told, write, todo, loose>>
    BY <1>1 DEF StartArrives
  <2>4. /\ order' \in Seq(Ids) /\ mem' \in [Ids -> Record]
        /\ write' \in [Handlers -> StatusWrite]
    BY <2>3 DEF SessionInv, StoresTypeOK, memVars, Record, StatusWrite
  <2> HIDE DEF j
  <2>5. Arrive(h, j)
    BY <2>1 DEF j
  <2> QED
    BY <2>2, <2>3, <2>4, <2>5, ArriveInv
<1>2. CASE StopArrives(h)
  <2>1. PICK t \in TxIds :
          Arrive(h, [kind |-> "Stop", k |-> 1, tx |-> t, st |-> "Available"])
    BY <1>2 DEF StopArrives
  <2> DEFINE j == [kind |-> "Stop", k |-> 1, tx |-> t, st |-> "Available"]
  <2>2. j \in Job /\ j.tx \in TxIds
    BY <2>1 DEF Job, Arrive
  <2>3. Await(h, "fetch") /\ UNCHANGED <<memVars, rowVars, txVars, told, write, todo, loose>>
    BY <1>2 DEF StopArrives
  <2>4. /\ order' \in Seq(Ids) /\ mem' \in [Ids -> Record]
        /\ write' \in [Handlers -> StatusWrite]
    BY <2>3 DEF SessionInv, StoresTypeOK, memVars, Record, StatusWrite
  <2> HIDE DEF j
  <2>5. Arrive(h, j)
    BY <2>1 DEF j
  <2> QED
    BY <2>2, <2>3, <2>4, <2>5, ArriveInv
<1>3. CASE StatusArrives(h)
  <2>1. PICK k \in StationIds, st \in Statuses :
          /\ Arrive(h, [kind |-> "Status", k |-> k, tx |-> NoTx, st |-> st])
          /\ mem' = [mem EXCEPT ![RecordKey(k)] = [status |-> st, id |-> k]]
          /\ AwaitWrite(h, "status", k, st)
    BY <1>3 DEF StatusArrives
  <2> DEFINE j == [kind |-> "Status", k |-> k, tx |-> NoTx, st |-> st]
  <2>2. k \in Ids /\ st \in MemStatuses /\ j \in Job
    BY <2>1 DEF Job, Arrive, Ids, MemStatuses
  <2>3. /\ Await(h, "status")
        /\ UNCHANGED <<order, rowVars, txVars, told, todo, loose>>
    BY <1>3, <2>1 DEF StatusArrives, AwaitWrite
  <2>4. /\ order' \in Seq(Ids) /\ mem' \in [Ids -> Record]
        /\ write' \in [Handlers -> StatusWrite]
    BY <2>1, <2>2, <2>3
       DEF SessionInv, StoresTypeOK, AwaitWrite, Record, StatusWrite
  <2> HIDE DEF j
  <2>5. Arrive(h, j)
    BY <2>1 DEF j
  <2> QED
    BY <2>2, <2>3, <2>4, <2>5, ArriveInv
<1>4. CASE StatusOfUnknown(h)
  <2>1. PICK k \in StationIds, st \in Statuses :
          /\ Arrive(h, [kind |-> "Status", k |-> k, tx |-> NoTx, st |-> st])
          /\ order' = Append(order, k)
          /\ mem' = SetStatus(mem, k, st)
          /\ AwaitWrite(h, "write", k, st)
    BY <1>4 DEF StatusOfUnknown
  <2> DEFINE j == [kind |-> "Status", k |-> k, tx |-> NoTx, st |-> st]
  <2>2. k \in Ids /\ st \in MemStatuses /\ j \in Job
    BY <2>1 DEF Job, Arrive, Ids, MemStatuses
  <2>3. /\ Await(h, "write")
        /\ UNCHANGED <<rowVars, txVars, told, todo, loose>>
    BY <1>4, <2>1 DEF StatusOfUnknown, AwaitWrite
  <2>4. order' \in Seq(Ids)
    BY <2>1, <2>2 DEF SessionInv, StoresTypeOK
  <2>5. mem' \in [Ids -> Record]
    BY <2>1, <2>2, SetStatusType DEF SessionInv, StoresTypeOK, Record
  <2>6. write' \in [Handlers -> StatusWrite]
    BY <2>1, <2>2 DEF SessionInv, StoresTypeOK, AwaitWrite, StatusWrite
  <2> HIDE DEF j
  <2>7. Arrive(h, j)
    BY <2>1 DEF j
  <2> QED
    BY <2>2, <2>3, <2>4, <2>5, <2>6, <2>7, ArriveInv
<1>5. CASE HeartbeatArrives(h)
  <2> DEFINE j == [NoJob EXCEPT !.kind = "Heartbeat"]
  <2>1. Arrive(h, j) /\ Await(h, "beat")
    BY <1>5 DEF HeartbeatArrives
  <2>2. j \in Job
    BY <2>1 DEF Job, Arrive, NoJob
  <2>3. UNCHANGED <<memVars, rowVars, txVars, told, write, todo, loose>>
    BY <1>5 DEF HeartbeatArrives
  <2>4. /\ order' \in Seq(Ids) /\ mem' \in [Ids -> Record]
        /\ write' \in [Handlers -> StatusWrite]
    BY <2>3 DEF SessionInv, StoresTypeOK, memVars, Record, StatusWrite
  <2> HIDE DEF j
  <2> QED
    BY <2>1, <2>2, <2>3, <2>4, ArriveInv
<1> QED
  BY <1>1, <1>2, <1>3, <1>4, <1>5 DEF Arrival

(* createTransaction: the number was free, so no link and no answer can    *)
(* name it yet.                                                            *)
LEMMA CreateInv ==
    ASSUME SessionInv, NEW h \in Handlers, CreateSucceeds(h)
    PROVE  SessionInv'
<1> DEFINE j == job[h]
<1>1. j.tx \in TxIds /\ j.k \in Ids
  BY DEF CreateSucceeds, SessionInv, HandlerKnows, StoresTypeOK
<1>2. /\ txState[j.tx] = "none"
      /\ txState' = [txState EXCEPT ![j.tx] = "open"]
      /\ txConn' = [txConn EXCEPT ![j.tx] = j.k]
      /\ at' = [at EXCEPT ![h] = "link"]
      /\ UNCHANGED <<memVars, rowVars, told, job, write, todo, loose>>
  BY DEF CreateSucceeds, Await
<1>3. StoresTypeOK'
  BY <1>1, <1>2 DEF SessionInv, StoresTypeOK, memVars, rowVars
<1>4. HandlerKnows'
  BY <1>1, <1>2 DEF SessionInv, HandlerKnows, StoresTypeOK
<1>5. RecordedOnConnector'
  BY <1>1, <1>2 DEF SessionInv, RecordedOnConnector, StoresTypeOK
<1>6. CurrentIsOwnTransaction'
  BY <1>1, <1>2, NoTxAssumption
     DEF SessionInv, CurrentIsOwnTransaction, StoresTypeOK, rowVars
<1>7. AcceptedStartIsRecorded'
  BY <1>1, <1>2 DEF SessionInv, AcceptedStartIsRecorded, StoresTypeOK
<1> QED
  BY <1>3, <1>4, <1>5, <1>6, <1>7 DEF SessionInv

(* createOrUpdateConnector and the answer to the station: the handler      *)
(* still knows that its transaction is recorded on this connector.         *)
LEMMA LinkInv ==
    ASSUME SessionInv, NEW h \in Handlers, LinkLands(h)
    PROVE  SessionInv'
<1> DEFINE j == job[h]
           m == IF Present(j.k) THEN SetStatus(mem, j.k, "Charging") ELSE mem
<1>1. /\ j.tx \in TxIds /\ j.k \in Ids
      /\ txState[j.tx] # "none" /\ txConn[j.tx] = j.k
  BY DEF LinkLands, SessionInv, HandlerKnows, StoresTypeOK
<1>2. /\ current' = [current EXCEPT ![j.k] = j.tx]
      /\ told' \in {told, told \cup {<<j.tx, j.k>>}}
      /\ UNCHANGED <<row, txVars, job>>
  BY DEF LinkLands
<1>3. m \in [Ids -> Record]
  BY <1>1, SetStatusType, Constants DEF SessionInv, StoresTypeOK, Record
<1>4. Realtime(h, m)
  BY DEF LinkLands
<1> HIDE DEF m
<1>5. StoresTypeOK'
  <2>1. RealtimeTypeOK'
    BY <1>3, <1>4, RealtimeType DEF SessionInv
  <2>2. at' \in [Handlers -> Places]
    BY <1>3, <1>4, RealtimeType DEF SessionInv, StoresTypeOK, Places
  <2>3. current' \in [Ids -> TxIds \cup {NoTx}] /\ told' \subseteq TxIds \X Ids
    BY <1>1, <1>2 DEF SessionInv, StoresTypeOK
  <2> QED
    BY <1>2, <2>1, <2>2, <2>3
       DEF SessionInv, StoresTypeOK, RealtimeTypeOK, Record, StatusWrite, Places,
           txVars
<1>6. HandlerKnows'
  BY <1>2, <1>3, <1>4, RealtimeType, OutsideTransaction DEF SessionInv
<1>7. RecordedOnConnector'
  BY <1>2 DEF SessionInv, RecordedOnConnector, txVars
<1>8. CurrentIsOwnTransaction'
  BY <1>1, <1>2 DEF SessionInv, CurrentIsOwnTransaction, StoresTypeOK, txVars
<1>9. AcceptedStartIsRecorded'
  BY <1>1, <1>2 DEF SessionInv, AcceptedStartIsRecorded, txVars
<1> QED
  BY <1>5, <1>6, <1>7, <1>8, <1>9 DEF SessionInv

(* stopTransaction: only the state of the row changes, and not to "none".  *)
LEMMA StopInv ==
    ASSUME SessionInv, NEW h \in Handlers, StopLands(h)
    PROVE  SessionInv'
<1> DEFINE j == job[h]
<1>1. j.tx \in TxIds /\ j.k \in Ids
  BY DEF StopLands, SessionInv, HandlerKnows, StoresTypeOK
<1>2. /\ txState' = [txState EXCEPT ![j.tx] = "stopped"]
      /\ at' = [at EXCEPT ![h] = "free"]
      /\ write' = [write EXCEPT ![h] = [k |-> j.k, st |-> "Available"]]
      /\ UNCHANGED <<memVars, rowVars, txConn, told, job, todo, loose>>
  BY DEF StopLands, AwaitWrite, Await
<1>3. StoresTypeOK'
  BY <1>1, <1>2, Constants DEF SessionInv, StoresTypeOK, memVars, rowVars
<1>4. \A t \in TxIds : txState[t] # "none" => txState'[t] # "none"
  BY <1>2 DEF SessionInv, StoresTypeOK
<1>5. HandlerKnows'
  BY <1>1, <1>2, <1>4 DEF SessionInv, HandlerKnows, StoresTypeOK
<1>6. RecordedOnConnector'
  BY <1>1, <1>2 DEF SessionInv, RecordedOnConnector, HandlerKnows, StopLands,
                    StoresTypeOK
<1>7. CurrentIsOwnTransaction'
  BY <1>2, <1>4 DEF SessionInv, CurrentIsOwnTransaction, StoresTypeOK, rowVars
<1>8. AcceptedStartIsRecorded'
  BY <1>2, <1>4 DEF SessionInv, AcceptedStartIsRecorded, StoresTypeOK
<1> QED
  BY <1>3, <1>5, <1>6, <1>7, <1>8 DEF SessionInv

(* The remaining calls write rows at most. *)
LEMMA HandlerStepInv ==
    ASSUME SessionInv, NEW h \in Handlers, HandlerStep(h)
    PROVE  SessionInv'
<1> USE Constants
<1>1. /\ mem \in [Ids -> Record]
      /\ row \in [Ids -> RowStatuses \cup {NoRow}]
      /\ job[h].k \in Ids
      /\ write[h].k \in Ids /\ write[h].st \in MemStatuses
  BY DEF SessionInv, StoresTypeOK, Record
<1>2. CASE CreateFails(h) \/ LinkFails(h) \/ FetchEnds(h) \/ StopFails(h)
             \/ FreeFails(h) \/ BeatLands(h)
  <2>1. Realtime(h, mem) /\ UNCHANGED <<rowVars, txVars, told, job>>
    BY <1>2 DEF CreateFails, LinkFails, FetchEnds, StopFails, FreeFails,
                BeatLands
  <2> QED
    BY <1>1, <2>1, RealtimeInv DEF rowVars
<1>3. CASE CreateSucceeds(h)
  BY <1>3, CreateInv
<1>4. CASE LinkLands(h)
  BY <1>4, LinkInv
<1>5. CASE StopLands(h)
  BY <1>5, StopInv
<1>6. CASE FetchFinds(h)
  <2> DEFINE t == job[h].tx
  <2>1. t \in TxIds /\ txState[t] # "none" /\ txConn[t] \in Ids
    BY <1>6 DEF FetchFinds, SessionInv, HandlerKnows, RecordedOnConnector
  <2>2. /\ job' = [job EXCEPT ![h].k = txConn[t]]
        /\ at' = [at EXCEPT ![h] = "stop"]
        /\ UNCHANGED <<memVars, rowVars, txVars, told, write, todo, loose>>
    BY <1>6 DEF FetchFinds, Await
  <2>3. StoresTypeOK'
    <3>1. job \in [Handlers -> Job]
      BY DEF SessionInv, StoresTypeOK, Job
    <3>2. [job[h] EXCEPT !.k = txConn[t]] \in Job
      BY <2>1, <3>1 DEF Job
    <3>3. job' \in [Handlers -> Job]
      BY <2>2, <3>1, <3>2
    <3>4. at' \in [Handlers -> Places]
      BY <2>2 DEF SessionInv, StoresTypeOK, Places
    <3> QED
      BY <2>2, <3>3, <3>4
         DEF SessionInv, StoresTypeOK, Job, Places, memVars, rowVars, txVars
  <2>4. HandlerKnows'
    BY <2>1, <2>2 DEF SessionInv, StoresTypeOK, HandlerKnows, txVars
  <2> QED
    BY <2>2, <2>3, <2>4, RecordsKept DEF SessionInv, rowVars
<1>7. CASE FreeLands(h)
  <2> DEFINE m == IF Present(job[h].k)
                  THEN SetStatus(mem, job[h].k, "Available") ELSE mem
  <2>1. m \in [Ids -> Record]
    BY <1>1, SetStatusType
  <2>2. /\ Realtime(h, m) /\ WriteStatus(job[h].k, "Available")
        /\ UNCHANGED <<current, txVars, told, job>>
    BY <1>7 DEF FreeLands
  <2> HIDE DEF m
  <2>3. row' \in [Ids -> RowStatuses \cup {NoRow}]
    BY <1>1, <2>2, RowType DEF SessionInv
  <2> QED
    BY <2>1, <2>2, <2>3, RealtimeInv
<1>8. ASSUME WriteStatus(write[h].k, write[h].st) \/ UNCHANGED row
      PROVE  row' \in [Ids -> RowStatuses \cup {NoRow}]
  BY <1>1, <1>8, RowType DEF SessionInv
<1>9. CASE StatusLands(h)
  <2>1. /\ Realtime(h, mem) /\ UNCHANGED <<current, txVars, told, job>>
        /\ WriteStatus(write[h].k, write[h].st) \/ UNCHANGED row
    BY <1>9 DEF StatusLands
  <2> QED
    BY <1>1, <1>8, <2>1, RealtimeInv
<1>10. CASE WriteLands(h)
  <2>1. /\ at' = [at EXCEPT ![h] = "cache"]
        /\ todo' = [todo EXCEPT ![h] = order]
        /\ UNCHANGED <<memVars, current, txVars, told, job, loose, write>>
        /\ WriteStatus(write[h].k, write[h].st) \/ UNCHANGED row
    BY <1>10 DEF WriteLands, CollectRecords, Await
  <2>2. StoresTypeOK'
    BY <1>8, <2>1 DEF SessionInv, StoresTypeOK, memVars, txVars
  <2>3. HandlerKnows'
    BY <2>1, OutsideTransaction DEF SessionInv
  <2> QED
    BY <2>1, <2>2, <2>3, RecordsKept DEF SessionInv
<1>11. CASE CacheLands(h)
  BY <1>1, <1>11, WriteBackInv DEF CacheLands, rowVars
<1>12. CASE SyncLands(h)
  BY <1>8, <1>12, WriteBackInv DEF SyncLands
<1>13. CASE SyncFails(h)
  <2>1. /\ at' = [at EXCEPT ![h] = "idle"]
        /\ job' = [job EXCEPT ![h] = NoJob]
        /\ todo' = [todo EXCEPT ![h] = << >>]
    BY <1>13 DEF SyncFails, Await
  <2>2. UNCHANGED <<memVars, rowVars, txVars, told, write, loose>>
    BY <1>13 DEF SyncFails
  <2>3. job' \in [Handlers -> Job]
    BY <2>1, NoJobType DEF SessionInv, StoresTypeOK, Job
  <2>4. todo' \in [Handlers -> Seq(Ids)]
    BY <2>1 DEF SessionInv, StoresTypeOK
  <2>5. StoresTypeOK'
    <3>1. at' \in [Handlers -> Places]
      BY <2>1 DEF SessionInv, StoresTypeOK, Places
    <3> QED
      BY <2>2, <2>3, <2>4, <3>1
         DEF SessionInv, StoresTypeOK, Job, Places, memVars, rowVars, txVars
  <2>6. HandlerKnows'
    BY <2>1, <2>2, OutsideTransaction DEF SessionInv, StoresTypeOK
  <2> QED
    BY <2>2, <2>5, <2>6, RecordsKept DEF SessionInv, rowVars
<1> QED
  BY <1>2, <1>3, <1>4, <1>5, <1>6, <1>7, <1>9, <1>10, <1>11, <1>12, <1>13
     DEF HandlerStep

LEMMA SessionInvStep == ASSUME SessionInv, [Next]_vars PROVE SessionInv'
<1>1. ASSUME NEW h \in Handlers, Arrival(h) PROVE SessionInv'
  BY <1>1, ArrivalInv
<1>2. ASSUME NEW h \in Handlers, HandlerStep(h) PROVE SessionInv'
  BY <1>2, HandlerStepInv
<1>3. ASSUME NEW w \in loose, LooseLands(w) PROVE SessionInv'
  <2>1. w.k \in Ids /\ w.st \in MemStatuses
    BY DEF SessionInv, StoresTypeOK
  <2>2. row' \in [Ids -> RowStatuses \cup {NoRow}]
    BY <1>3, <2>1, RowType DEF LooseLands, SessionInv, StoresTypeOK
  <2>3. StoresTypeOK'
    BY <1>3, <2>2 DEF LooseLands, SessionInv, StoresTypeOK, memVars, txVars
  <2>4. HandlerKnows'
    BY <1>3 DEF LooseLands, SessionInv, HandlerKnows, txVars
  <2> QED
    BY <1>3, <2>3, <2>4, RecordsKept DEF LooseLands, SessionInv
<1>4. CASE UNCHANGED vars
  <2>1. StoresTypeOK'
    BY <1>4 DEF vars, SessionInv, StoresTypeOK, memVars, rowVars, txVars
  <2>2. HandlerKnows'
    BY <1>4 DEF vars, SessionInv, HandlerKnows, txVars
  <2> QED
    BY <1>4, <2>1, <2>2, RecordsKept DEF vars, SessionInv, rowVars
<1> QED
  BY <1>1, <1>2, <1>3, <1>4 DEF Next

-----------------------------------------------------------------------------
(* The state of every store and of every handler keeps its type; a stop    *)
(* handler only ever works on the connector of a recorded transaction.     *)
THEOREM SessionTypeCorrect == Spec => []TypeOK
<1>1. Init => SessionInv /\ TypeOK
  BY SessionInvInit DEF Init, SessionInv, TypeOK
<1>2. SessionInv /\ TypeOK /\ [Next]_vars => SessionInv' /\ TypeOK'
  <2> SUFFICES ASSUME SessionInv, TypeOK, [Next]_vars
               PROVE  SessionInv' /\ TypeOK'
    OBVIOUS
  <2>1. SessionInv'
    BY SessionInvStep
  <2>2. alone' \subseteq Handlers
    BY DEF Next, NoteAlone, vars, TypeOK
  <2> QED
    BY <2>1, <2>2 DEF SessionInv, TypeOK
<1> QED
  BY <1>1, <1>2, PTL DEF Spec

(* The link of a connector row names a recorded transaction of that very   *)
(* connector (handleStartTransaction 501-518).                             *)
THEOREM LinkIsOwnTransaction == Spec => []CurrentIsOwnTransaction
<1>1. Init => SessionInv
  BY SessionInvInit
<1>2. SessionInv /\ [Next]_vars => SessionInv'
  BY SessionInvStep
<1>3. SessionInv => CurrentIsOwnTransaction
  BY DEF SessionInv
<1> QED
  BY <1>1, <1>2, <1>3, PTL DEF Spec

(* A StartTransaction that was answered "Accepted" is recorded, and its    *)
(* number was given to no other connector (498-533).                       *)
THEOREM AcceptedMeansRecorded == Spec => []AcceptedStartIsRecorded
<1>1. Init => SessionInv
  BY SessionInvInit
<1>2. SessionInv /\ [Next]_vars => SessionInv'
  BY SessionInvStep
<1>3. SessionInv => AcceptedStartIsRecorded
  BY DEF SessionInv
<1> QED
  BY <1>1, <1>2, <1>3, PTL DEF Spec
-----------------------------------------------------------------------------
(* The write-back that nothing disturbs *)

(* Connector k is among the records that h writes back later. *)
Waiting(h, k) == \E i \in 1 .. Len(todo[h]) : todo[h][i] = k

(* Connector k is present, and its record has its own number. *)
Own(k) == Present(k) /\ mem[k].id = k

(* Of every such connector the record is still to be written back, or its  *)
(* status is on the way to the database, or the row shows it.  No older    *)
(* status is on the way to any row but that of connector 0.                *)
WritesBackAll(h) ==
    \/ at[h] = "cache" /\ \A k \in Ids : Present(k) => Waiting(h, k)
    \/ /\ at[h] = "sync"
       /\ write[h].k # 0 => write[h].st = mem[write[h].k].status
       /\ \A k \in Ids \ {0} :
            Own(k) => \/ Waiting(h, k)
                      \/ write[h].k = k
                      \/ Shown(row[k], mem[k].status)

(* A record has its own number, or 0 after a StatusNotification of 0. *)
RecordIds == \A k \in Ids : mem[k].id \in {k, 0}

AloneInv ==
    /\ RecordIds
    /\ \A h \in alone : h \in Handlers /\ Undisturbed(h) /\ WritesBackAll(h)

(* What a status write leaves in the rows. *)
LEMMA WriteShows ==
    ASSUME StoresTypeOK, NEW k \in Ids, NEW st \in MemStatuses, WriteStatus(k, st)
    PROVE  /\ \A l \in Ids \ {k} : row'[l] = row[l]
           /\ Shown(row'[k], st)
BY DEF WriteStatus, StoresTypeOK, RowAfter, Shown

(* The code before the write-back keeps the numbers of the records, but    *)
(* for StatusNotification; and the write-back starts with all of them.     *)
LEMMA RealtimeBegins ==
    ASSUME StoresTypeOK, NEW h \in Handlers, NEW m \in [Ids -> Record],
           Realtime(h, m)
    PROVE  /\ \A k \in Ids : mem'[k].id = m[k].id
           /\ \/ at'[h] = "write"
              \/ at'[h] = "cache" /\ todo'[h] = order'
<1> USE Constants
<1>0. /\ job[h].k \in Ids /\ at \in [Handlers -> Places]
      /\ todo \in [Handlers -> Seq(Ids)]
  BY DEF StoresTypeOK, Places
<1>1. ASSUME NEW k \in Ids, NEW st, mem' = SetStatus(m, k, st)
      PROVE  \A l \in Ids : mem'[l].id = m[l].id
  BY <1>1 DEF SetStatus, Record
<1>2. ASSUME NEW k, NEW st, AwaitWrite(h, "write", k, st)
      PROVE  at'[h] = "write"
  BY <1>0, <1>2 DEF AwaitWrite, Await
<1>3. ASSUME CollectRecords(h), UNCHANGED order
      PROVE  at'[h] = "cache" /\ todo'[h] = order'
  BY <1>0, <1>3 DEF CollectRecords, Await
<1>4. CASE RealtimeStart(h, m)
  BY <1>0, <1>1, <1>2, <1>3, <1>4 DEF RealtimeStart
<1>5. CASE RealtimeStop(h, m)
  BY <1>0, <1>1, <1>2, <1>5 DEF RealtimeStop
<1>6. CASE RealtimeStatus(h, m)
  BY <1>0, <1>1, <1>2, <1>6 DEF RealtimeStatus
<1>7. CASE RealtimeHeartbeat(h, m)
  BY <1>3, <1>7 DEF RealtimeHeartbeat
<1> QED
  BY <1>4, <1>5, <1>6, <1>7 DEF Realtime

LEMMA ArrivalBegins ==
    ASSUME StoresTypeOK, RecordIds, NEW h \in Handlers, Arrival(h)
    PROVE  /\ RecordIds'
           /\ at[h] = "idle" /\ at'[h] \notin {"idle", "cache", "sync"}
           /\ \A g \in Handlers \ {h} : at'[g] = at[g]
<1> USE Constants
<1>0. /\ at \in [Handlers -> Places] /\ mem \in [Ids -> Record]
      /\ StationIds \subseteq Ids
  BY DEF StoresTypeOK, Places, Record, Ids
<1>1. CASE StartArrives(h) \/ StopArrives(h) \/ HeartbeatArrives(h)
  BY <1>0, <1>1 DEF StartArrives, StopArrives, HeartbeatArrives, Arrive, Await,
     memVars, RecordIds
<1>2. CASE StatusArrives(h)
  <2>1. PICK k \in StationIds, st \in Statuses :
          /\ mem' = [mem EXCEPT ![RecordKey(k)] = [status |-> st, id |-> k]]
          /\ AwaitWrite(h, "status", k, st)
    BY <1>2 DEF StatusArrives
  <2>2. RecordIds'
    BY <1>0, <2>1 DEF RecordIds, RecordKey, Record
  <2> QED
    BY <1>0, <1>2, <2>1, <2>2 DEF StatusArrives, Arrive, AwaitWrite, Await
<1>3. CASE StatusOfUnknown(h)
  <2>1. PICK k \in StationIds, st \in Statuses :
          mem' = SetStatus(mem, k, st) /\ AwaitWrite(h, "write", k, st)
    BY <1>3 DEF StatusOfUnknown
  <2>2. RecordIds'
    BY <1>0, <2>1 DEF RecordIds, SetStatus, Record
  <2> QED
    BY <1>0, <1>3, <2>1, <2>2 DEF StatusOfUnknown, Arrive, AwaitWrite, Await
<1> QED
  BY <1>1, <1>2, <1>3 DEF Arrival

LEMMA StepBegins ==
    ASSUME StoresTypeOK, RecordIds, NEW h \in Handlers, HandlerStep(h)
    PROVE  /\ RecordIds'
           /\ at[h] # "idle"
           /\ \A g \in Handlers \ {h} : at'[g] = at[g]
           /\ \/ at[h] \in {"cache", "sync"}
              \/ at'[h] = "cache" /\ todo'[h] = order'
              \/ at'[h] \notin {"cache", "sync"}
<1> USE Constants
<1>0. /\ at \in [Handlers -> Places] /\ mem \in [Ids -> Record]
      /\ todo \in [Handlers -> Seq(Ids)] /\ job[h].k \in Ids
  BY DEF StoresTypeOK, Places, Record
<1>1. ASSUME NEW m \in [Ids -> Record], \A k \in Ids : m[k].id = mem[k].id,
             Realtime(h, m), at[h] # "idle"
      PROVE  /\ RecordIds'
             /\ \A g \in Handlers \ {h} : at'[g] = at[g]
             /\ \/ at'[h] = "cache" /\ todo'[h] = order'
                \/ at'[h] \notin {"cache", "sync"}
  <2>1. \A g \in Handlers \ {h} : at'[g] = at[g]
    BY <1>0, <1>1, RealtimeType
  <2> QED
    BY <1>1, <2>1, RealtimeBegins DEF RecordIds
<1>2. CASE CreateSucceeds(h) \/ FetchFinds(h) \/ StopLands(h)
  BY <1>0, <1>2 DEF CreateSucceeds, FetchFinds, StopLands, Await, AwaitWrite,
     memVars, RecordIds
<1>3. CASE \/ CreateFails(h) \/ LinkFails(h) \/ FetchEnds(h) \/ StopFails(h)
           \/ FreeFails(h) \/ StatusLands(h) \/ BeatLands(h)
  <2>1. Realtime(h, mem) /\ at[h] # "idle"
    BY <1>3 DEF CreateFails, LinkFails, FetchEnds, StopFails, FreeFails,
       StatusLands, BeatLands
  <2> QED
    BY <1>0, <1>1, <2>1
<1>4. ASSUME NEW st \in {"Charging", "Available"}
      PROVE  /\ SetStatus(mem, job[h].k, st) \in [Ids -> Record]
             /\ \A k \in Ids : SetStatus(mem, job[h].k, st)[k].id = mem[k].id
  <2>1. SetStatus(mem, job[h].k, st) \in [Ids -> Record]
    BY <1>0, SetStatusType
  <2> QED
    BY <1>0, <2>1 DEF SetStatus, Record
<1>5. CASE LinkLands(h)
  <2>1. PICK m \in {mem, SetStatus(mem, job[h].k, "Charging")} : Realtime(h, m)
    BY <1>5 DEF LinkLands
  <2>2. at[h] # "idle"
    BY <1>5 DEF LinkLands
  <2> QED
    BY <1>0, <1>1, <1>4, <2>1, <2>2
<1>6. CASE FreeLands(h)
  <2>1. PICK m \in {mem, SetStatus(mem, job[h].k, "Available")} : Realtime(h, m)
    BY <1>6 DEF FreeLands
  <2>2. at[h] # "idle"
    BY <1>6 DEF FreeLands
  <2> QED
    BY <1>0, <1>1, <1>4, <2>1, <2>2
<1>7. CASE WriteLands(h)
  BY <1>0, <1>7 DEF WriteLands, CollectRecords, Await, memVars, RecordIds
<1>8. CASE CacheLands(h) \/ SyncLands(h) \/ SyncFails(h)
  BY <1>0, <1>8 DEF CacheLands, SyncLands, SyncFails, WriteBackNext, AwaitWrite,
     Await, memVars, RecordIds
<1> QED
  BY <1>2, <1>3, <1>5, <1>6, <1>7, <1>8 DEF HandlerStep

(* The next record of an undisturbed write-back, or its end. *)
LEMMA WriteBackGoesOn ==
    ASSUME StoresTypeOK, RecordIds, NEW h \in Handlers, WriteBackNext(h),
           UNCHANGED <<order, mem>>,
           \A k \in Ids \ {0} :
             Own(k) => Waiting(h, k) \/ Shown(row'[k], mem[k].status)
    PROVE  IF at'[h] = "idle" THEN RowsShowMemory' ELSE WritesBackAll(h)'
<1>0. /\ at \in [Handlers -> Places] /\ todo \in [Handlers -> Seq(Ids)]
      /\ write \in [Handlers -> StatusWrite] /\ mem \in [Ids -> Record]
  BY DEF StoresTypeOK, Places, StatusWrite, Record
<1>1. \A k : Present(k)' = Present(k) /\ Own(k)' = Own(k)
  BY DEF Present, Own
<1>2. CASE todo[h] = << >>
  <2>1. at'[h] = "idle" /\ \A k \in Ids : ~Waiting(h, k)
    BY <1>0, <1>2 DEF WriteBackNext, Await, Waiting
  <2> QED
    BY <1>1, <2>1 DEF RowsShowMemory, Own
<1>3. CASE todo[h] # << >>
  <2> DEFINE rec == mem[Head(todo[h])]
  <2>1. /\ Head(todo[h]) = todo[h][1] /\ Head(todo[h]) \in Ids
        /\ \A k \in Ids : Waiting(h, k) =>
             \/ k = Head(todo[h])
             \/ \E i \in 1 .. Len(Tail(todo[h])) : Tail(todo[h])[i] = k
    <3>1. ASSUME NEW i \in 1 .. Len(todo[h]), i # 1
          PROVE  i - 1 \in 1 .. Len(Tail(todo[h])) /\ Tail(todo[h])[i - 1] = todo[h][i]
      BY <1>0, <1>3, <3>1
    <3>2. /\ Head(todo[h]) = todo[h][1] /\ Head(todo[h]) \in Ids
          /\ Tail(todo[h]) \in Seq(Ids)
      BY <1>0, <1>3
    <3> QED
      BY <3>1, <3>2 DEF Waiting
  <2>2. /\ at'[h] = "sync" /\ write'[h] = [k |-> rec.id, st |-> rec.status]
        /\ todo'[h] = Tail(todo[h])
    BY <1>0, <1>3 DEF WriteBackNext, AwaitWrite, Await
  <2>3. rec.id # 0 => rec.id = Head(todo[h])
    BY <2>1 DEF RecordIds
  <2>4. ASSUME NEW k \in Ids \ {0}, Own(k), Waiting(h, k)
        PROVE  Waiting(h, k)' \/ write'[h].k = k
    BY <2>1, <2>2, <2>4 DEF Waiting, Own
  <2> QED
    BY <1>1, <2>2, <2>3, <2>4 DEF WritesBackAll
<1> QED
  BY <1>2, <1>3

(* Redis or the database answers an undisturbed write-back. *)
LEMMA WriteBackAnswered ==
    ASSUME StoresTypeOK, AloneInv, NEW h \in alone, CacheLands(h) \/ SyncLands(h)
    PROVE  IF at'[h] = "idle" THEN RowsShowMemory' ELSE WritesBackAll(h)'
<1>0. /\ h \in Handlers /\ RecordIds /\ WritesBackAll(h) /\ WriteBackNext(h)
      /\ UNCHANGED <<order, mem>>
      /\ write[h].k \in Ids /\ write[h].st \in MemStatuses
  BY DEF AloneInv, CacheLands, SyncLands, memVars, StoresTypeOK
<1>1. CASE CacheLands(h)
  <2>1. \A k \in Ids \ {0} : Own(k) => Waiting(h, k)
    BY <1>0, <1>1 DEF CacheLands, WritesBackAll, Own
  <2> QED
    BY <1>0, <2>1, WriteBackGoesOn
<1>2. CASE SyncLands(h)
  <2>1. WriteStatus(write[h].k, write[h].st) /\ at[h] = "sync"
    BY <1>2 DEF SyncLands
  <2>2. /\ \A l \in Ids \ {write[h].k} : row'[l] = row[l]
        /\ Shown(row'[write[h].k], write[h].st)
    BY <1>0, <2>1, WriteShows
  <2>3. \A k \in Ids \ {0} :
          Own(k) => Waiting(h, k) \/ Shown(row'[k], mem[k].status)
    BY <1>0, <2>1, <2>2 DEF WritesBackAll
  <2> QED
    BY <1>0, <2>3, WriteBackGoesOn
<1> QED
  BY <1>1, <1>2

LEMMA AloneInvStep ==
    ASSUME SessionInv, AloneInv, [Next]_vars
    PROVE  AloneInv'
<1>0. StoresTypeOK /\ RecordIds /\ at \in [Handlers -> Places]
  BY DEF SessionInv, AloneInv, StoresTypeOK, Places
<1>1. CASE UNCHANGED vars
  <2>1. UNCHANGED <<order, mem, row, at, write, todo, loose, alone>>
    BY <1>1 DEF vars, memVars, rowVars
  <2> QED
    BY <2>1 DEF AloneInv, RecordIds, Undisturbed, WritesBackAll, Present, Own, Waiting
<1>2. CASE Next
  <2>1. NoteAlone
    BY <1>2 DEF Next
  <2>2. ASSUME NEW h \in alone'
        PROVE  /\ h \in Handlers /\ Undisturbed(h)'
               /\ at[h] \in {"cache", "sync"} =>
                    h \in alone /\ Undisturbed(h) /\ WritesBackAll(h)
    BY <2>1 DEF NoteAlone, AloneInv
  <2>3. ASSUME NEW g \in Handlers, Arrival(g)
        PROVE  AloneInv'
    <3>1. ASSUME NEW h \in alone' PROVE FALSE
      BY <1>0, <2>2, <2>3, ArrivalBegins DEF Undisturbed
    <3> QED
      BY <1>0, <2>3, <3>1, ArrivalBegins DEF AloneInv
  <2>4. ASSUME NEW g \in Handlers, HandlerStep(g)
        PROVE  AloneInv'
    <3>1. ASSUME NEW h \in alone' PROVE WritesBackAll(h)'
      <4>1. h = g
        BY <1>0, <2>2, <2>4, StepBegins DEF Undisturbed
      <4>2. CASE at[h] \in {"cache", "sync"}
        <5>1. CacheLands(h) \/ SyncLands(h) \/ SyncFails(h)
          BY <2>4, <4>1, <4>2 DEF HandlerStep, CreateSucceeds, CreateFails,
             LinkLands, LinkFails, FetchFinds, FetchEnds, StopLands, StopFails,
             FreeLands, FreeFails, StatusLands, BeatLands, WriteLands
        <5>2. at'[h] # "idle"
          BY <2>2 DEF Undisturbed
        <5>3. ~SyncFails(h)
          BY <1>0, <2>2, <5>2 DEF SyncFails, Await
        <5> QED
          BY <1>0, <2>2, <4>2, <5>1, <5>2, <5>3, WriteBackAnswered
      <4>3. CASE at[h] \notin {"cache", "sync"}
        <5>1. at'[h] = "cache" /\ todo'[h] = order'
          BY <1>0, <2>2, <2>4, <4>1, <4>3, StepBegins DEF Undisturbed
        <5> QED
          BY <5>1 DEF WritesBackAll, Present, Waiting
      <4> QED
        BY <4>2, <4>3
    <3> QED
      BY <1>0, <2>2, <2>4, <3>1, StepBegins DEF AloneInv
  <2>5. ASSUME NEW w \in loose, LooseLands(w)
        PROVE  AloneInv'
    <3>1. /\ UNCHANGED <<order, mem, at, write, todo>>
          /\ WriteStatus(w.k, w.st) \/ UNCHANGED row
          /\ w.k \in Ids /\ w.st \in MemStatuses
      BY <1>0, <2>5 DEF LooseLands, memVars, StoresTypeOK
    <3>2. RecordIds'
      BY <1>0, <3>1 DEF RecordIds
    <3>3. ASSUME NEW h \in alone' PROVE WritesBackAll(h)'
      <4>1. WritesBackAll(h) /\ w.st = mem[w.k].status
        BY <2>2, <3>1 DEF Undisturbed
      <4>2. \A k \in Ids : row'[k] = row[k] \/ Shown(row'[k], mem[k].status)
        BY <1>0, <3>1, <4>1, WriteShows
      <4> QED
        BY <3>1, <4>1, <4>2 DEF WritesBackAll, Present, Own, Waiting
    <3> QED
      BY <2>2, <3>2, <3>3 DEF AloneInv
  <2> QED
    BY <1>2, <2>3, <2>4, <2>5 DEF Next
<1> QED
  BY <1>1, <1>2

(* Whatever messages overlapped, failed or were left behind before, a      *)
(* write-back that runs to its end with no other message and no older      *)
(* write beside it leaves every row as the memory has it (366-382 of       *)
(* updateRealTimeData, whose callers do not wait for each other).          *)
THEOREM WriteBackRepairsRows == Spec => WriteBackRepairs
<1>1. Init => SessionInv /\ AloneInv
  BY SessionInvInit DEF Init, AloneInv, RecordIds
<1>2. SessionInv /\ AloneInv /\ [Next]_vars => SessionInv' /\ AloneInv'
  BY SessionInvStep, AloneInvStep
<1>3. SessionInv /\ AloneInv
        => [\A h \in alone :
              (CacheLands(h) \/ SyncLands(h)) /\ at'[h] = "idle"
                => RowsShowMemory']_vars
  BY WriteBackAnswered DEF SessionInv
<1> QED
  BY <1>1, <1>2, <1>3, PTL DEF Spec, WriteBackRepairs

=============================================================================
