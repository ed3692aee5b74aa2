--------------------------- MODULE StateOfCharge ---------------------------
(***************************************************************************)
(* The state of charge of a charging session: handleMeterValues and the    *)
(* part of handleStopTransaction that closes the session                   *)
(* (src/src/handlers/ocpp_handlers.ts).  Messages of a station are handled *)
(* without waiting for each other; each action is: the redis or database   *)
(* call that was awaited ends, then the code up to the next await runs.    *)
(*                                                                         *)
(* A reading is kept in four places: transactionSocCache (memory), two     *)
(* redis keys per transaction, and startSoC and stopSoC of its row.  A     *)
(* message is the sequence of its numeric SoC samples; other samples, and  *)
(* those that are not numbers, change none of this; timestamps are valid.  *)
(* Readings are in tenths of a percent: the columns are Int, and a         *)
(* fraction is refused.                                                    *)
(***************************************************************************)
EXTENDS Integers, Sequences

CONSTANTS
    Handlers,      \* bound: messages in progress at the same time
    Transactions,  \* transactionIds the station uses
    Readings,      \* readings the station reports, in tenths of a percent
    Messages,      \* bound: the SoC samples of one MeterValues
    Outcomes,      \* outcomes of an awaited call: {TRUE} or BOOLEAN
    NoSoc

ASSUME ReadingsAssumption == Readings \subseteq Nat /\ NoSoc \notin Readings
ASSUME MessagesAssumption == Messages \subseteq Seq(Readings) \ {<< >>}
ASSUME OutcomesAssumption == Outcomes \in {{TRUE}, BOOLEAN}

VARIABLES
    recorded,    \* transactions that have a row
    cache,       \* transactionSocCache
    startKey,    \* redis: chargepoint:..:transaction:<t>:startSOC
    latestKey,   \* redis: soc:..:<t>:latest
    startSoC,    \* the columns of the row
    stopSoC,
    stopped,     \* whether the row has a stopTimestamp
    at,          \* handler -> the call it awaits, or "idle"
    job,         \* handler -> its message and its local variables
    overlapped,  \* history: handlers that have not run alone all the time
    last,        \* history: the last reading that was taken in
    lost         \* history: transactions whose last reading a restart took

memoryVars == <<cache, last, lost>>
redisVars == <<startKey, latestKey>>
stopVars == <<stopSoC, stopped>>
vars == <<recorded, memoryVars, redisVars, startSoC, stopVars, at, job,
          overlapped>>

Soc == Readings \cup {NoSoc}
Unset(r) == r \in {NoSoc, 0}     \* !transaction.startSoC
Storable == {NoSoc} \cup {r \in Readings : r % 10 = 0}   \* an Int, or null

(* readings: samples still to be handled, the head being in progress;      *)
(* written: startSocWritten; unset: the row that was read has no startSoC; *)
(* soc: the stopSoc of a stop.                                             *)
Job == [tx : Transactions, readings : Seq(Readings), written : BOOLEAN,
        unset : BOOLEAN, soc : Soc]

NewJob(t, rs) == [tx |-> t, readings |-> rs, written |-> FALSE,
                  unset |-> FALSE, soc |-> NoSoc]

Init ==
    /\ recorded \in SUBSET Transactions
    /\ cache = [t \in Transactions |-> NoSoc]
    /\ startKey = [t \in Transactions |-> NoSoc]
    /\ latestKey = [t \in Transactions |-> NoSoc]
    /\ startSoC = [t \in Transactions |-> NoSoc]
    /\ stopSoC = [t \in Transactions |-> NoSoc]
    /\ stopped = [t \in Transactions |-> FALSE]
    /\ at = [h \in Handlers |-> "idle"]
    /\ job \in {[h \in Handlers |-> NewJob(t, << >>)] : t \in Transactions}
    /\ overlapped = {}
    /\ last = cache
    /\ lost = {}

-----------------------------------------------------------------------------
(* Helpers *)

Await(h, pc) == at' = [at EXCEPT ![h] = pc]

Busy == {h \in Handlers : at[h] # "idle"}

Arrive(h, pc, j) ==
    /\ at[h] = "idle"
    /\ Await(h, pc)
    /\ job' = [job EXCEPT ![h] = j]
    /\ overlapped' = IF Busy = {} THEN overlapped \ {h}
                     ELSE overlapped \cup Busy \cup {h}

(* The handler returns or throws. *)
Finish(h) ==
    /\ Await(h, "idle")
    /\ job' = [job EXCEPT ![h] = NewJob(@.tx, << >>)]
    /\ overlapped' = overlapped \ {h}

(* A reading goes to the cache. *)
Take(t, reading) ==
    /\ cache' = [cache EXCEPT ![t] = reading]
    /\ last' = [last EXCEPT ![t] = reading]
    /\ lost' = lost \ {t}

(* The next sample goes to the cache at once, and redis is asked; without  *)
(* one the handler returns.                                                *)
NextReading(h, written) ==
    LET rest == Tail(job[h].readings) IN
    IF rest = << >>
    THEN Finish(h) /\ UNCHANGED memoryVars
    ELSE /\ Take(job[h].tx, Head(rest))
         /\ Await(h, "getStart")
         /\ job' = [job EXCEPT ![h].readings = rest, ![h].written = written]
         /\ UNCHANGED overlapped

-----------------------------------------------------------------------------
(* handleMeterValues *)

(* Mutation of MeterArrives: a message without samples is not left out. *)
MeterArrivesEmpty(h) ==
    \E t \in Transactions :
        /\ Arrive(h, "getStart", NewJob(t, << >>))
        /\ UNCHANGED <<memoryVars, redisVars, startSoC, stopVars>>

MeterArrives(h) ==
    \E t \in Transactions, rs \in Messages :
        /\ Arrive(h, "getStart", NewJob(t, rs))
        /\ Take(t, Head(rs))
        /\ UNCHANGED <<redisVars, startSoC, stopVars>>

(* A stored "0" is a non-empty string: only a missing key is written. *)
GetStart(h) ==
    /\ at[h] = "getStart"
    /\ Await(h, IF startKey[job[h].tx] = NoSoc THEN "setStart" ELSE "getTx")
    /\ UNCHANGED <<memoryVars, redisVars, startSoC, stopVars, job, overlapped>>

SetStart(h) ==
    LET j == job[h] IN
    /\ at[h] = "setStart"
    /\ startKey' = [startKey EXCEPT ![j.tx] = Head(j.readings)]
    /\ Await(h, "getTx")
    /\ UNCHANGED <<memoryVars, latestKey, startSoC, stopVars, job, overlapped>>

(* Mutation of GetTx: the row is not looked at again. *)
GetTxUnread(h) ==
    /\ at[h] = "getTx"
    /\ job' = [job EXCEPT ![h].unset = job[h].tx \in recorded]
    /\ Await(h, "setLatest")
    /\ UNCHANGED <<memoryVars, redisVars, startSoC, stopVars, overlapped>>

GetTx(h) ==
    LET t == job[h].tx IN
    /\ at[h] = "getTx"
    /\ job' = [job EXCEPT ![h].unset = t \in recorded /\ Unset(startSoC[t])]
    /\ Await(h, "setLatest")
    /\ UNCHANGED <<memoryVars, redisVars, startSoC, stopVars, overlapped>>

SetLatest(h) ==
    LET j == job[h] IN
    /\ at[h] = "setLatest"
    /\ latestKey' = [latestKey EXCEPT ![j.tx] = Head(j.readings)]
    /\ IF j.unset /\ ~j.written
       THEN Await(h, "writeStart") /\ UNCHANGED <<memoryVars, job, overlapped>>
       ELSE NextReading(h, j.written)
    /\ UNCHANGED <<startKey, startSoC, stopVars>>

(* writeStartSOCToTXN; rows are never deleted, so its first look at the    *)
(* row finds it and the update is the point where it takes effect.         *)
WriteStartLands(h) ==
    LET j == job[h] IN
    /\ at[h] = "writeStart"
    /\ Head(j.readings) \in Storable
    /\ startSoC' = [startSoC EXCEPT ![j.tx] = Head(j.readings)]
    /\ NextReading(h, TRUE)
    /\ UNCHANGED <<redisVars, stopVars>>

(* Mutation of WriteStartFails: its error ends the handler. *)
WriteStartFailsEnds(h) ==
    /\ at[h] = "writeStart"
    /\ Head(job[h].readings) \notin Storable \/ FALSE \in Outcomes
    /\ Finish(h)
    /\ UNCHANGED <<memoryVars, redisVars, startSoC, stopVars>>

(* Its errors are logged only. *)
WriteStartFails(h) ==
    /\ at[h] = "writeStart"
    /\ Head(job[h].readings) \notin Storable \/ FALSE \in Outcomes
    /\ NextReading(h, job[h].written)
    /\ UNCHANGED <<redisVars, startSoC, stopVars>>

(* Any other error ends the handler; what it did before stays. *)
CallFails(h) ==
    /\ FALSE \in Outcomes
    /\ at[h] \in {"getStart", "setStart", "getTx", "setLatest"}
    /\ Finish(h)
    /\ UNCHANGED <<memoryVars, redisVars, startSoC, stopVars>>

-----------------------------------------------------------------------------
(* handleStopTransaction *)

StopArrives(h) ==
    \E t \in Transactions :
        /\ Arrive(h, "getStop", NewJob(t, << >>))
        /\ UNCHANGED <<memoryVars, redisVars, startSoC, stopVars>>

(* Mutation of StopFinds: the cached reading is not fetched. *)
StopFindsStart(h) ==
    LET t == job[h].tx IN
    /\ at[h] = "getStop" /\ t \in recorded
    /\ job' = [job EXCEPT ![h].soc = startSoC[t]]
    /\ Await(h, "stop")
    /\ UNCHANGED <<memoryVars, redisVars, startSoC, stopVars, overlapped>>

StopFinds(h) ==
    LET t == job[h].tx IN
    /\ at[h] = "getStop"
    /\ t \in recorded
    /\ job' = [job EXCEPT ![h].soc = cache[t]]
    /\ Await(h, "stop")
    /\ UNCHANGED <<memoryVars, redisVars, startSoC, stopVars, overlapped>>

(* An unknown transaction is accepted; an error of the read is not. *)
StopEnds(h) ==
    /\ at[h] = "getStop"
    /\ job[h].tx \notin recorded \/ FALSE \in Outcomes
    /\ Finish(h)
    /\ UNCHANGED <<memoryVars, redisVars, startSoC, stopVars>>

(* stopTransaction writes stopSoC even if it is null, then the connector   *)
(* row is freed.                                                           *)
StopLands(h) ==
    LET j == job[h] IN
    /\ at[h] = "stop"
    /\ j.soc \in Storable
    /\ stopSoC' = [stopSoC EXCEPT ![j.tx] = j.soc]
    /\ stopped' = [stopped EXCEPT ![j.tx] = TRUE]
    /\ Await(h, "free")
    /\ UNCHANGED <<memoryVars, redisVars, startSoC, job, overlapped>>

(* Mutation of StopFails: the cached reading is dropped all the same. *)
StopFailsForgets(h) ==
    /\ at[h] = "stop"
    /\ job[h].soc \notin Storable \/ FALSE \in Outcomes
    /\ cache' = [cache EXCEPT ![job[h].tx] = NoSoc]
    /\ Finish(h)
    /\ UNCHANGED <<last, lost, redisVars, startSoC, stopVars>>

(* A fraction is refused by the Int column. *)
StopFails(h) ==
    /\ at[h] = "stop"
    /\ job[h].soc \notin Storable \/ FALSE \in Outcomes
    /\ Finish(h)
    /\ UNCHANGED <<memoryVars, redisVars, startSoC, stopVars>>

FreeLands(h) ==
    /\ at[h] = "free"
    /\ cache' = [cache EXCEPT ![job[h].tx] = NoSoc]
    /\ Finish(h)
    /\ UNCHANGED <<last, lost, redisVars, startSoC, stopVars>>

FreeFails(h) ==
    /\ at[h] = "free"
    /\ FALSE \in Outcomes
    /\ Finish(h)
    /\ UNCHANGED <<memoryVars, redisVars, startSoC, stopVars>>

(* The process ends and starts again: redis and the rows stay. *)
Restart ==
    /\ cache' = [t \in Transactions |-> NoSoc]
    /\ lost' = {t \in Transactions : last[t] # NoSoc}
    /\ at' = [h \in Handlers |-> "idle"]
    /\ job' = [h \in Handlers |-> NewJob(job[h].tx, << >>)]
    /\ overlapped' = {}
    /\ UNCHANGED <<last, redisVars, startSoC, stopVars>>

-----------------------------------------------------------------------------
MeterStep(h) ==
    \/ MeterArrives(h) \/ GetStart(h) \/ SetStart(h) \/ GetTx(h)
    \/ SetLatest(h) \/ WriteStartLands(h) \/ WriteStartFails(h)
    \/ CallFails(h)

StopStep(h) ==
    \/ StopArrives(h) \/ StopFinds(h) \/ StopEnds(h) \/ StopLands(h)
    \/ StopFails(h) \/ FreeLands(h) \/ FreeFails(h)

Next ==
    /\ (\E h \in Handlers : MeterStep(h) \/ StopStep(h)) \/ Restart
    /\ UNCHANGED recorded

Spec == Init /\ [][Next]_vars

-----------------------------------------------------------------------------
TypeOK ==
    /\ recorded \subseteq Transactions
    /\ cache \in [Transactions -> Soc]
    /\ startKey \in [Transactions -> Soc]
    /\ latestKey \in [Transactions -> Soc]
    /\ startSoC \in [Transactions -> Soc]
    /\ stopSoC \in [Transactions -> Soc]
    /\ stopped \in [Transactions -> BOOLEAN]
    /\ at \in [Handlers -> {"idle", "getStart", "setStart", "getTx",
                            "setLatest", "writeStart", "getStop", "stop",
                            "free"}]
    /\ job \in [Handlers -> Job]
    /\ overlapped \subseteq Handlers
    /\ last \in [Transactions -> Soc]
    /\ lost \subseteq Transactions
    /\ \A h \in Handlers :
          at[h] \in {"getStart", "setStart", "getTx", "setLatest", "writeStart"}
            => job[h].readings # << >>

(* A stop that fails at any of its steps can be repeated: the last reading *)
(* leaves the memory only when the stop is recorded, or with the process   *)
(* (545-617).                                                              *)
ReadingKeptUntilStop ==
    [][\A t \in Transactions :
          cache[t] # NoSoc /\ cache'[t] = NoSoc => stopped[t] \/ Restart]_vars

(* The first reading of a session is kept, in the row (unless it was 0)    *)
(* and in redis: only a message that overlapped another one replaces it    *)
(* (358-386, "only write startSoC once per transaction").  In redis this   *)
(* rests on the key being written without an expiry.                       *)
FirstReadingStays ==
    [][\A t \in Transactions :
          (\/ ~Unset(startSoC[t]) /\ startSoC'[t] # startSoC[t]
           \/ startKey[t] # NoSoc /\ startKey'[t] # startKey[t])
            => \E h \in overlapped :
                  job[h].tx = t /\ at[h] \in {"writeStart", "setStart"}]_vars

(* A message that ran alone, and none of whose calls of redis and reads of *)
(* the row failed, has handled all of its samples: memory and redis hold   *)
(* its last reading, and redis has a first one.  So it is whether or not   *)
(* the row took what it was to hold (an Int column refuses a fraction),    *)
(* and whatever failed, overlapped or was restarted before (349-388).      *)
MessageLeavesItsLastReading ==
    [][\A h \in Handlers \ overlapped :
          LET t == job[h].tx
              final == job[h].readings[Len(job[h].readings)]
          IN /\ at[h] \in {"setLatest", "writeStart"}
             /\ at'[h] = "idle"
             /\ ~CallFails(h) /\ ~Restart
             => /\ cache'[t] = final /\ latestKey'[t] = final
                /\ startKey'[t] # NoSoc]_vars

(* The first recorded stop of a session carries the last reading that was  *)
(* taken in, with two exceptions: another message was in progress at the   *)
(* time, or the process was restarted since that reading.  Then the stop   *)
(* writes null, although redis has the reading (558, 589-598).             *)
StopTakesLastReading ==
    [][\A t \in Transactions :
          ~stopped[t] /\ stopped'[t]
            => \/ stopSoC'[t] = last[t]
               \/ t \in lost /\ stopSoC'[t] = NoSoc
               \/ \E h \in overlapped : at[h] = "stop" /\ job[h].tx = t]_vars
=============================================================================
