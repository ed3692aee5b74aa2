--------------------------- MODULE RemoteControl ---------------------------
(***************************************************************************)
(* The API requests that reach a charge point (api_gateway.ts): remote     *)
(* start and stop, messages, configuration, connector discovery and the    *)
(* edit of its row, next to what the station does meanwhile.               *)
(*                                                                         *)
(* A request runs to its next await in one step; then the awaited call     *)
(* ends, or the process does.  A call to the station is the future of      *)
(* CallFuture: its caller may be told of a timeout while the station still *)
(* carries it out.  One station and one operator; the request has passed   *)
(* authentication.  Connections are the objects the registry held.         *)
(***************************************************************************)
EXTENDS Integers, FiniteSets

CONSTANTS
    Requests,      \* bound: requests of the API
    Connectors,
    Vehicles,
    Values,        \* values of one configuration key
    Versions,      \* firmware versions the station may boot with
    MaxObjects,    \* bound: connection objects of the registry per process
    Mixes,         \* bound: kinds of request explored together; what the
                   \* other kinds depend on stands still
    None

Kinds == {"start", "stop", "message", "get", "change", "discover", "edit",
          "reset", "unlock"}
Objects == 1..MaxObjects

ASSUME NoneAssumption ==
    None \notin Vehicles \cup Values \cup Versions \cup Requests \cup Nat
ASSUME MaxObjectsAssumption == MaxObjects \in Nat
ASSUME ConnectorsAssumption == Connectors \subseteq Nat \ {0}
ASSUME MixesAssumption == Mixes \subseteq SUBSET Kinds

VARIABLES
    mix,         \* the kinds of request made in this behaviour
    connection,  \* connections.get(id): an object, or None
    used,        \* number of objects the registry has held
    records,     \* object -> the state of each connector record
    pending,     \* pendingChargeSessions: connector -> vehicle
    at,          \* request -> where it is, or how it was answered
    job,         \* request -> its parameters and local variables
    call,        \* request -> the progress of its call at the station
    verdict,     \* request -> what the station answered
    setting,     \* the station's value of the key
    row,         \* chargePointConfiguration: the stored value
    firmware,    \* firmwareVersion of the row of the station
    session,     \* connector -> the last session that was handed a vehicle
    latest,      \* history: connector -> last remote start since the restart
    overlapped,  \* history: changes and edits that did not run alone
    booted       \* history: the version of the last boot

stationVars == <<connection, used, records>>
startVars == <<pending, session, latest>>
configVars == <<setting, row>>
bootVars == <<firmware, booted>>
vars == <<stationVars, startVars, configVars, bootVars, mix, at, job,
          call, verdict, overlapped>>

Waits == {"tag", "station", "row", "read", "write",
          "count", "trigger", "each", "meters"}
Ends == {"ok", "failed"}

Job == [kind : Kinds \cup {None}, connector : Connectors \cup {None},
        vehicle : Vehicles \cup {None}, value : Values \cup {None},
        object : Objects \cup {None}, count : Nat,
        seen : Versions \cup {None}]

NewJob(kind) == [kind |-> kind, connector |-> None, vehicle |-> None,
                 value |-> None, object |-> None, count |-> 0, seen |-> None]

Init ==
    /\ mix \in Mixes
    /\ connection = None
    /\ used = 0
    /\ records = [o \in Objects |-> [c \in Connectors |-> "none"]]
    /\ pending = [c \in Connectors |-> None]
    /\ at = [r \in Requests |-> "idle"]
    /\ job = [r \in Requests |-> NewJob(None)]
    /\ call = [r \in Requests |-> "none"]
    /\ verdict = [r \in Requests |-> "none"]
    /\ setting \in Values
    /\ row = None
    /\ firmware = None
    /\ session = [c \in Connectors |-> [by |-> None, vehicle |-> None,
                                        overtaken |-> FALSE]]
    /\ latest = [c \in Connectors |-> None]
    /\ overlapped = {}
    /\ booted = None

-----------------------------------------------------------------------------
(* Helpers *)

Busy == {r \in Requests : at[r] \in Waits}
Goto(r, pc) == at' = [at EXCEPT ![r] = pc]

Accept(r, j) ==
    /\ at[r] = "idle"
    /\ j.kind \in mix
    /\ job' = [job EXCEPT ![r] = j]

(* sendMessage: refused if the registry has no entry. *)
SendMessage(r) ==
    IF connection = None
    THEN /\ Goto(r, "failed")
         /\ UNCHANGED call
    ELSE /\ Goto(r, "station")
         /\ call' = [call EXCEPT ![r] = "sent"]

(* A request that only sends a message. *)
Command(r, j) ==
    /\ Accept(r, j)
    /\ SendMessage(r)
    /\ UNCHANGED <<stationVars, startVars, configVars, bootVars, mix, verdict>>

(* Requests that write the same thing as r and may still do so. *)
Open(kinds) == {q \in Requests : /\ job[q].kind \in kinds
                                 /\ \/ at[q] \in Waits
                                    \/ call[q] = "sent"}
Overlap(r, kinds) ==
    overlapped' = overlapped \cup
        (IF Open(kinds) = {} THEN {} ELSE Open(kinds) \cup {r})

-----------------------------------------------------------------------------
(* Remote start: the vehicle is remembered first, for whatever session     *)
(* starts on the connector; then the operator's tag is looked up.          *)

(* Mutation of StartRequested: a vehicle that is remembered already stays. *)
StartKeepsOldVehicle(r, c, v) ==
    /\ Accept(r, [NewJob("start") EXCEPT !.connector = c, !.vehicle = v])
    /\ pending' = [pending EXCEPT ![c] = IF @ = None THEN v ELSE @]
    /\ latest' = [latest EXCEPT ![c] = r]
    /\ Goto(r, "tag")
    /\ UNCHANGED <<stationVars, session, configVars, bootVars, mix, call,
                   verdict, overlapped>>

StartRequested(r, c, v) ==
    /\ Accept(r, [NewJob("start") EXCEPT !.connector = c, !.vehicle = v])
    /\ pending' = [pending EXCEPT ![c] = v]
    /\ latest' = [latest EXCEPT ![c] = r]
    /\ \E hasTag \in BOOLEAN : Goto(r, IF hasTag THEN "tag" ELSE "failed")
    /\ UNCHANGED <<stationVars, session, configVars, bootVars, mix, call,
                   verdict, overlapped>>

(* The tag is looked up: it is accepted, or there is none that is.         *)
TagFound(r) ==
    /\ at[r] = "tag"
    /\ \/ SendMessage(r)
       \/ Goto(r, "failed") /\ UNCHANGED call
    /\ UNCHANGED <<stationVars, startVars, configVars, bootVars, mix, job,
                   verdict, overlapped>>

-----------------------------------------------------------------------------
(* Requests that are one message to the station.  reset and unlock read a  *)
(* route parameter their routes do not have: they name no charge point.    *)

StopRequested(r) == Command(r, NewJob("stop")) /\ UNCHANGED overlapped
GetRequested(r) == Command(r, NewJob("get")) /\ UNCHANGED overlapped

(* Any message; v is the value if it changes the configuration. *)
MessageRequested(r, v) ==
    /\ Command(r, [NewJob("message") EXCEPT !.value = v])
    /\ IF v = None THEN UNCHANGED overlapped
                   ELSE Overlap(r, {"change", "message"})

ChangeRequested(r, v) ==
    /\ Command(r, [NewJob("change") EXCEPT !.value = v])
    /\ Overlap(r, {"change", "message"})

Unroutable(r, kind) ==
    /\ Accept(r, NewJob(kind))
    /\ Goto(r, "failed")
    /\ UNCHANGED <<stationVars, startVars, configVars, bootVars, mix, call,
                   verdict, overlapped>>

ResetRequested(r) == Unroutable(r, "reset")
UnlockRequested(r) == Unroutable(r, "unlock")

-----------------------------------------------------------------------------
(* Answers.  A change is stored once the station has answered, whatever    *)
(* the answer says.                                                        *)

AnswerArrives(r) ==
    /\ call[r] = "carried"
    /\ connection # None
    /\ call' = [call EXCEPT ![r] = "over"]
    /\ IF at[r] = "station"
       THEN Goto(r, IF verdict[r] = "error" THEN "failed"
                    ELSE IF job[r].kind = "change" THEN "row" ELSE "ok")
       ELSE UNCHANGED at
    /\ UNCHANGED <<stationVars, startVars, configVars, bootVars, mix, job,
                   verdict, overlapped>>

(* Mutation of CallTimesOut: the error is swallowed. *)
CallTimesOutOk(r) ==
    /\ at[r] = "station"
    /\ Goto(r, IF job[r].kind = "change" THEN "row" ELSE "ok")
    /\ UNCHANGED <<stationVars, startVars, configVars, bootVars, mix, job,
                   call, verdict, overlapped>>

CallTimesOut(r) ==
    /\ at[r] = "station"
    /\ Goto(r, "failed")
    /\ UNCHANGED <<stationVars, startVars, configVars, bootVars, mix, job,
                   call, verdict, overlapped>>

(* Mutation of RowLands: the upsert creates and does not update. *)
RowCreatedOnly(r) ==
    /\ at[r] = "row"
    /\ Goto(r, "ok")
    /\ row' = IF row = None THEN job[r].value ELSE row
    /\ UNCHANGED <<stationVars, startVars, setting, bootVars, mix, job, call,
                   verdict, overlapped>>

RowLands(r) ==
    /\ at[r] = "row"
    /\ Goto(r, "ok")
    /\ row' = job[r].value
    /\ UNCHANGED <<stationVars, startVars, setting, bootVars, mix, job, call,
                   verdict, overlapped>>

(* A database call of these requests fails; that of an edit is caught by   *)
(* nobody and ends the process (see EditFails).                            *)
CallFails(r) ==
    /\ at[r] \in {"tag", "row"}
    /\ Goto(r, "failed")
    /\ UNCHANGED <<stationVars, startVars, configVars, bootVars, mix, job,
                   call, verdict, overlapped>>

-----------------------------------------------------------------------------
(* getChargeStationGunDetails: it keeps the connection object it found,    *)
(* through four rounds of calls and timers.                                *)

(* Mutation of DiscoverRequested: a missing connection is not noticed. *)
DiscoverUnchecked(r) ==
    /\ Accept(r, [NewJob("discover") EXCEPT !.object = connection])
    /\ Goto(r, "count")
    /\ UNCHANGED <<stationVars, startVars, configVars, bootVars, mix,
                   call, verdict, overlapped>>

DiscoverRequested(r) ==
    /\ Accept(r, [NewJob("discover") EXCEPT !.object = connection])
    /\ Goto(r, IF connection = None THEN "failed" ELSE "count")
    /\ UNCHANGED <<stationVars, startVars, configVars, bootVars, mix, call,
                   verdict, overlapped>>

Known(o) == {c \in Connectors : records[o][c] # "none"}

(* Mutation of CountAnswered: records that exist are set anew. *)
CountAnsweredResets(r, n) ==
    /\ at[r] = "count"
    /\ job' = [job EXCEPT ![r].count = n]
    /\ records' = [records EXCEPT ![job[r].object] =
         [c \in Connectors |-> IF c \in 1..n THEN "default" ELSE @[c]]]
    /\ Goto(r, "trigger")
    /\ UNCHANGED <<connection, used, startVars, configVars, bootVars, mix,
                   call, verdict, overlapped>>

(* n = 0: an error, a timeout, or no usable number. *)
CountAnswered(r, n) ==
    /\ at[r] = "count"
    /\ job' = [job EXCEPT ![r].count = n]
    /\ records' = [records EXCEPT ![job[r].object] =
         [c \in Connectors |-> IF c \in 1..n /\ @[c] = "none" THEN "default"
                               ELSE @[c]]]
    /\ Goto(r, "trigger")
    /\ UNCHANGED <<connection, used, startVars, configVars, bootVars, mix,
                   call, verdict, overlapped>>

(* Mutation of RoundEnds: without a count the discovery stays where it is. *)
RoundEndsStuck(r) ==
    /\ \/ at[r] = "trigger" /\ job[r].count > 0 /\ Goto(r, "each")
       \/ at[r] = "each" /\ Goto(r, "meters")
       \/ at[r] = "meters" /\ Goto(r, "ok")
    /\ UNCHANGED <<stationVars, startVars, configVars, bootVars, mix, job,
                   call, verdict, overlapped>>

AfterTrigger(o) == IF Known(o) = {} THEN "ok" ELSE "meters"
RoundEnds(r) ==
    /\ \/ at[r] = "trigger" /\ job[r].count > 0 /\ Goto(r, "each")
       \/ at[r] = "trigger" /\ job[r].count = 0
                            /\ Goto(r, AfterTrigger(job[r].object))
       \/ at[r] = "each" /\ Goto(r, AfterTrigger(job[r].object))
       \/ at[r] = "meters" /\ Goto(r, "ok")
    /\ UNCHANGED <<stationVars, startVars, configVars, bootVars, mix, job,
                   call, verdict, overlapped>>

-----------------------------------------------------------------------------
(* updateChargeStation: the row is read, then written with a new location  *)
(* and the other columns as they were read, null ones left alone.          *)

EditRequested(r) ==
    /\ Accept(r, NewJob("edit"))
    /\ Goto(r, "read")
    /\ UNCHANGED <<stationVars, startVars, configVars, bootVars, mix, call,
                   verdict, overlapped>>

EditReads(r) ==
    /\ at[r] = "read"
    /\ \/ firmware = None /\ Goto(r, "failed") /\ UNCHANGED job  \* no row
       \/ Goto(r, "write") /\ job' = [job EXCEPT ![r].seen = firmware]
    /\ UNCHANGED <<stationVars, startVars, configVars, bootVars, mix, call,
                   verdict, overlapped>>

EditLands(r) ==
    /\ at[r] = "write"
    /\ Goto(r, "ok")
    /\ firmware' = IF job[r].seen = None THEN firmware ELSE job[r].seen
    /\ UNCHANGED <<stationVars, startVars, configVars, booted, mix, job, call,
                   verdict, overlapped>>

(* Mutation of BootLands: only the first boot sets the version. *)
BootLandsOnce(v) ==
    /\ "edit" \in mix /\ connection # None
    /\ firmware' = IF firmware = None THEN v ELSE firmware
    /\ booted' = v
    /\ overlapped' = overlapped \cup {r \in Requests : at[r] = "write"}
    /\ UNCHANGED <<stationVars, startVars, configVars, mix, at, job, call,
                   verdict>>

(* handleBootNotification; a boot that gives no version leaves the column. *)
BootLands(v) ==
    /\ "edit" \in mix /\ connection # None
    /\ firmware' = v
    /\ booted' = v
    /\ overlapped' = overlapped \cup {r \in Requests : at[r] = "write"}
    /\ UNCHANGED <<stationVars, startVars, configVars, mix, at, job, call,
                   verdict>>

-----------------------------------------------------------------------------
(* The station.  It may carry out a call late, and answer late or never.   *)

StationCarriesOut(r, answer) ==
    /\ call[r] = "sent"
    /\ call' = [call EXCEPT ![r] = "carried"]
    /\ verdict' = [verdict EXCEPT ![r] = answer]
    /\ setting' = IF answer = "accepted" /\ job[r].value # None
                  THEN job[r].value ELSE setting
    /\ UNCHANGED <<stationVars, startVars, row, bootVars, mix, at, job, overlapped>>

CallLost(r) ==
    /\ call[r] \in {"sent", "carried"}
    /\ call' = [call EXCEPT ![r] = "over"]
    /\ UNCHANGED <<stationVars, startVars, configVars, bootVars, mix, at, job,
                   verdict, overlapped>>

(* Requests whose remote start the station has accepted. *)
Accepted(c) == {r \in Requests : /\ job[r].kind = "start"
                                 /\ job[r].connector = c
                                 /\ verdict[r] = "accepted"}

(* handleStartTransaction: a session that was started by a request, or at  *)
(* the station (by = None), takes the vehicle that is remembered; the      *)
(* entry stays.                                                            *)
SessionStarts(c, by) ==
    /\ "start" \in mix /\ connection # None
    /\ by \in Accepted(c) \cup {None}
    /\ session' = [session EXCEPT ![c] =
         [by |-> by, vehicle |-> pending[c], overtaken |-> latest[c] # by]]
    /\ UNCHANGED <<stationVars, pending, latest, configVars, bootVars, mix, at,
                   job, call, verdict, overlapped>>

(* A status or meter message fills the record of its connector. *)
StationReports(c) ==
    /\ "discover" \in mix /\ connection # None
    /\ records' = [records EXCEPT ![connection][c] = "live"]
    /\ UNCHANGED <<connection, used, startVars, configVars, bootVars, mix, at,
                   job, call, verdict, overlapped>>

(* The registry (ConnectionRegistry) gets or loses its entry. *)
Connect(n) ==
    /\ used < MaxObjects
    /\ used' = used + 1
    /\ connection' = used + 1
    /\ records' = [records EXCEPT ![used + 1] =
         [c \in Connectors |-> IF c <= n THEN "default" ELSE "none"]]
    /\ UNCHANGED <<startVars, configVars, bootVars, mix, at, job, call,
                   verdict, overlapped>>

Disconnect ==
    /\ connection # None
    /\ connection' = None
    /\ UNCHANGED <<used, records, startVars, configVars, bootVars, mix, at,
                   job, call, verdict, overlapped>>

(* The process ends and is started again: memory is lost, a request in     *)
(* progress gets no answer, the station goes on with what it was sent.     *)
Restart ==
    /\ connection' = None
    /\ used' = 0
    /\ records' = [o \in Objects |-> [c \in Connectors |-> "none"]]
    /\ pending' = [c \in Connectors |-> None]
    /\ latest' = [c \in Connectors |-> None]
    /\ at' = [r \in Requests |-> IF at[r] \in Waits THEN "failed" ELSE at[r]]
    /\ UNCHANGED <<session, configVars, bootVars, mix, job, call, verdict, overlapped>>

Crash == used > 0 /\ Restart

(* An edit has no error handler of its own and its promise nobody to catch *)
(* a rejection: a failing database call ends the process.                  *)
EditFails(r) == at[r] \in {"read", "write"} /\ Restart

-----------------------------------------------------------------------------
Requested(r) ==
    \/ \E c \in Connectors, v \in Vehicles \cup {None} : StartRequested(r, c, v)
    \/ StopRequested(r)
    \/ GetRequested(r)
    \/ \E v \in Values \cup {None} : MessageRequested(r, v)
    \/ \E v \in Values : ChangeRequested(r, v)
    \/ DiscoverRequested(r)
    \/ EditRequested(r)
    \/ ResetRequested(r)
    \/ UnlockRequested(r)

Count(r) == \E n \in Connectors \cup {0} : CountAnswered(r, n)

(* What the server's own scheduling and timers bring about. *)
Proceeds(r) ==
    \/ TagFound(r)
    \/ CallTimesOut(r)
    \/ RowLands(r)
    \/ CallFails(r)
    \/ Count(r)
    \/ RoundEnds(r)
    \/ EditReads(r)
    \/ EditLands(r)
    \/ EditFails(r)

StationActs ==
    \/ \E r \in Requests :
         \/ \E answer \in {"accepted", "rejected", "error"} :
              StationCarriesOut(r, answer)
         \/ CallLost(r)
         \/ AnswerArrives(r)
    \/ \E c \in Connectors :
         \/ \E by \in Requests \cup {None} : SessionStarts(c, by)
         \/ StationReports(c)
    \/ \E v \in Versions : BootLands(v)
    \/ \E n \in Connectors : Connect(n)
    \/ Disconnect

Next ==
    \/ \E r \in Requests : Requested(r) \/ Proceeds(r)
    \/ StationActs
    \/ Crash

Spec == Init /\ [][Next]_vars

(* The station owes nothing; every await of the server ends. *)
FairSpec == Spec /\ \A r \in Requests : WF_vars(Proceeds(r))

-----------------------------------------------------------------------------
RemoteTypeOK ==
    /\ mix \in Mixes
    /\ connection \in (1..used) \cup {None}
    /\ used \in 0..MaxObjects
    /\ records \in [Objects -> [Connectors -> {"none", "default", "live"}]]
    /\ pending \in [Connectors -> Vehicles \cup {None}]
    /\ at \in [Requests -> {"idle"} \cup Waits \cup Ends]
    /\ job \in [Requests -> Job]
    /\ \A r \in Requests : at[r] \in {"count", "trigger", "each", "meters"}
                           => job[r].object \in 1..used
    /\ call \in [Requests -> {"none", "sent", "carried", "over"}]
    /\ verdict \in [Requests -> {"none", "accepted", "rejected", "error"}]
    /\ setting \in Values
    /\ row \in Values \cup {None}
    /\ {firmware, booted} \subseteq Versions \cup {None}
    /\ session \in [Connectors -> [by : Requests \cup {None},
                                   vehicle : Vehicles \cup {None},
                                   overtaken : BOOLEAN]]
    /\ latest \in [Connectors -> Requests \cup {None}]
    /\ overlapped \subseteq Requests

(* A session that a remote start brought about is handed the vehicle of    *)
(* that very request, although the station may start it before its answer  *)
(* has arrived, after a timeout or after a reconnection: only a younger    *)
(* remote start of the connector, or a restart, comes in between           *)
(* (remoteStartTransaction 936-937, handleStartTransaction 494-495).       *)
OwnVehicle ==
    \A c \in Connectors :
        session[c].by # None /\ ~session[c].overtaken
            => session[c].vehicle = job[session[c].by].vehicle

(* The stored configuration shows only what the station has answered: no   *)
(* lost, refused or timed out call leaves its value there (1258-1264).     *)
RowWasAnswered ==
    row # None =>
        \E r \in Requests : /\ job[r].kind = "change" /\ job[r].value = row
                            /\ at[r] = "ok" /\ call[r] = "over"
                            /\ verdict[r] \in {"accepted", "rejected"}

(* When a change of the configuration is answered with success, the        *)
(* station had accepted it and no other change overlapped it, the row and  *)
(* the station agree (1258-1266, setChargePointConfiguration).             *)
AcceptedChangeIsStored ==
    [][\A r \in Requests \ overlapped :
         job[r].kind = "change" /\ verdict[r] = "accepted"
           /\ at[r] # "ok" /\ at'[r] = "ok"
             => row' = setting']_vars

(* The row shows the version of the last boot, unless an edit of the row   *)
(* had read it before that boot and wrote it back after (updateChargeStation*)
(* 2613-2633, createOrUpdateChargePoint).                                  *)
OldVersionNeedsOverlap ==
    firmware # booted =>
        \E r \in overlapped : job[r].kind = "edit" /\ at[r] = "ok"

(* What a station has reported of a connector is not lost to a discovery   *)
(* that adds records to the connection at the same time (602-606): only    *)
(* the end of the process loses it.                                        *)
ReportsAreKept ==
    [][\A o \in Objects, c \in Connectors :
         records[o][c] = "live" /\ used' # 0 => records'[o][c] = "live"]_vars

(* Every request of the API is answered, or ends with the process, though  *)
(* the station may never answer.                                           *)
RequestsEnd ==
    \A r \in Requests : at[r] \in Waits ~> at[r] \in Ends

=============================================================================
