------------------------- MODULE RemoteControlProofs -------------------------
(***************************************************************************)
(* Theorems about RemoteControl, for any requests, connectors, vehicles,   *)
(* values, versions and numbers of connections, with calls that time out,  *)
(* are lost or are carried out late, and restarts of the process.          *)
(***************************************************************************)
EXTENDS RemoteControl, TLAPS

Setters == {"change", "message"}

(* Where a request may be, by its kind and by the progress of its call. *)
Progress(r) ==
    /\ at[r] \in {"idle", "tag"} => call[r] = "none"
    /\ at[r] = "tag" => job[r].kind = "start"
    /\ at[r] \in {"count", "trigger", "each", "meters"}
         => job[r].kind = "discover"
    /\ at[r] \in {"read", "write"} => job[r].kind = "edit"
    /\ at[r] = "row" => /\ job[r].kind = "change" /\ call[r] = "over"
                        /\ verdict[r] \in {"accepted", "rejected"}
    /\ at[r] # "idle" /\ job[r].kind = "change" => job[r].value \in Values
    /\ at[r] # "idle" /\ job[r].value # None => job[r].kind \in Setters
    /\ call[r] \in {"none", "sent"} => verdict[r] = "none"
    /\ call[r] = "carried" => verdict[r] # "none"

RequestsInv == RemoteTypeOK /\ \A r \in Requests : Progress(r)

(* The remembered vehicle is that of the last remote start, and a session  *)
(* that is not overtaken was handed the vehicle of its own.                *)
Handed(c) ==
    /\ latest[c] # None => /\ at[latest[c]] # "idle"
                           /\ job[latest[c]].vehicle = pending[c]
    /\ session[c].by # None => at[session[c].by] # "idle"
    /\ session[c].by # None /\ ~session[c].overtaken
         => session[c].vehicle = job[session[c].by].vehicle

(* An object the registry has not held has no records. *)
NewObjectsAreBlank ==
    \A o \in Objects, c \in Connectors : o > used => records[o][c] = "none"

(* Two requests that may both set the value have noticed each other. *)
OverlapsAreKnown ==
    \A r, q \in Open(Setters) :
        r # q /\ job[r].value # None /\ job[q].value # None => r \in overlapped

(* A change that runs alone and was accepted is what the station has. *)
AcceptedIsSet ==
    \A r \in Requests \ overlapped :
        job[r].kind = "change" /\ verdict[r] = "accepted" /\ at[r] \in Waits
            => setting = job[r].value

(* Until an edit has written what it had read before a boot, edits that    *)
(* are not overlapped have read the version of the last boot.              *)
StaleEditDone == \E r \in overlapped : job[r].kind = "edit" /\ at[r] = "ok"
VersionIsKnown ==
    \/ StaleEditDone
    \/ /\ firmware = booted
       /\ \A r \in Requests \ overlapped :
            at[r] = "write" /\ job[r].seen # None => job[r].seen = booted

(* The inductive invariant. *)
RemoteInv ==
    /\ RequestsInv
    /\ \A c \in Connectors : Handed(c)
    /\ NewObjectsAreBlank
    /\ OverlapsAreKnown
    /\ AcceptedIsSet
    /\ RowWasAnswered
    /\ VersionIsKnown

-----------------------------------------------------------------------------
(* What a step may do to a request: once begun it keeps its parameters,    *)
(* its answer and the verdict of the station; it writes what it has read,  *)
(* and a change ends well only with its row.                               *)
Course(r) ==
    /\ at[r] # "idle" => /\ at'[r] # "idle"
                         /\ job'[r].kind = job[r].kind
                         /\ job'[r].vehicle = job[r].vehicle
                         /\ job'[r].value = job[r].value
    /\ at[r] \in Ends => at'[r] = at[r]
    /\ at'[r] \in Waits => at[r] \in Waits \cup {"idle"}
    /\ at'[r] = "write" =>
         \/ at[r] = "write" /\ job'[r].seen = job[r].seen
         \/ job'[r].seen = firmware
    /\ at'[r] = "ok" /\ at[r] # "ok" /\ job[r].kind = "change" =>
         at[r] = "row" /\ row' = job[r].value /\ setting' = setting
    /\ call'[r] = "sent" => call[r] = "sent" \/ at[r] \in {"idle", "tag"}
    /\ call[r] = "over" => call'[r] = "over"
    /\ verdict[r] # "none" => verdict'[r] = verdict[r]

Rests(r) == /\ at'[r] = at[r] /\ job'[r] = job[r]
            /\ call'[r] = call[r] /\ verdict'[r] = verdict[r]

LEMMA RestingCourse ==
    ASSUME RequestsInv, NEW r \in Requests, Rests(r)
    PROVE  Progress(r)' /\ Course(r)
<1>1. Progress(r) /\ at[r] \in {"idle"} \cup Waits \cup Ends
  BY DEF RequestsInv, RemoteTypeOK
<1> QED
  BY <1>1 DEF Progress, Course, Rests, Waits, Ends

(* Only r moves. *)
LEMMA OneMoves ==
    ASSUME RequestsInv, NEW r \in Requests, RemoteTypeOK',
           \A q \in Requests \ {r} : Rests(q),
           Progress(r)', Course(r)
    PROVE  RequestsInv' /\ \A q \in Requests : Course(q)
<1>1. \A q \in Requests : Progress(q)' /\ Course(q)
  BY RestingCourse
<1> QED
  BY <1>1 DEF RequestsInv

LEMMA NoneMoves ==
    ASSUME RequestsInv, RemoteTypeOK', UNCHANGED <<at, job, call, verdict>>
    PROVE  RequestsInv' /\ \A q \in Requests : Course(q)
<1>1. \A q \in Requests : Rests(q)
  BY DEF Rests
<1> QED
  BY <1>1, RestingCourse DEF RequestsInv

LEMMA NewJobs ==
    ASSUME NEW kind \in Kinds
    PROVE  /\ NewJob(kind) \in Job
           /\ \A v \in Values \cup {None} :
                [NewJob(kind) EXCEPT !.value = v] \in Job
           /\ \A o \in Objects \cup {None} :
                [NewJob(kind) EXCEPT !.object = o] \in Job
           /\ \A c \in Connectors, v \in Vehicles \cup {None} :
                [NewJob(kind) EXCEPT !.connector = c, !.vehicle = v] \in Job
BY DEF NewJob, Job

(* A request begins, with a call to the station or without. *)
LEMMA AcceptCourse ==
    ASSUME RequestsInv, NEW r \in Requests, NEW j \in Job, Accept(r, j),
           j.kind = "change" => j.value \in Values,
           j.value # None => j.kind \in Setters,
           NEW pc, at' = [at EXCEPT ![r] = pc],
           \/ UNCHANGED call
           \/ pc = "station" /\ call' = [call EXCEPT ![r] = "sent"],
           UNCHANGED verdict, RemoteTypeOK',
           \/ pc \in {"station", "failed"}
           \/ pc = "tag" /\ j.kind = "start" /\ UNCHANGED call
           \/ pc = "count" /\ j.kind = "discover"
           \/ pc = "read" /\ j.kind = "edit"
    PROVE  RequestsInv' /\ \A q \in Requests : Course(q)
<1>1. /\ at[r] = "idle" /\ at'[r] = pc /\ job'[r] = j /\ verdict'[r] = verdict[r]
      /\ \/ call'[r] = call[r]
         \/ pc = "station" /\ call'[r] = "sent"
      /\ \A q \in Requests \ {r} : Rests(q)
  BY DEF Accept, Rests, RequestsInv, RemoteTypeOK
<1>2. Progress(r)
  BY DEF RequestsInv
<1>3. Progress(r)' /\ Course(r)
  BY <1>1, <1>2 DEF Progress, Course, Waits, Ends
<1> QED
  BY <1>1, <1>3, OneMoves

LEMMA CommandCourse ==
    ASSUME RequestsInv, NEW r \in Requests, NEW j \in Job, Command(r, j),
           j.kind = "change" => j.value \in Values,
           j.value # None => j.kind \in Setters,
           overlapped' \subseteq Requests
    PROVE  RequestsInv' /\ \A q \in Requests : Course(q)
<1> DEFINE pc == IF connection = None THEN "failed" ELSE "station"
<1>1. /\ at' = [at EXCEPT ![r] = pc]
      /\ \/ UNCHANGED call
         \/ pc = "station" /\ call' = [call EXCEPT ![r] = "sent"]
      /\ Accept(r, j)
      /\ UNCHANGED <<stationVars, startVars, configVars, bootVars, mix, verdict>>
  BY DEF Command, SendMessage, Goto
<1>2. RemoteTypeOK'
  BY <1>1 DEF RequestsInv, RemoteTypeOK, Accept, stationVars, startVars,
     configVars, bootVars, Waits, Ends
<1> QED
  BY <1>1, <1>2, AcceptCourse

LEMMA OverlapTypes ==
    ASSUME RequestsInv, NEW r \in Requests, NEW kinds, Overlap(r, kinds)
    PROVE  overlapped' \subseteq Requests
BY DEF Overlap, Open, RequestsInv, RemoteTypeOK

LEMMA RequestedCourse ==
    ASSUME RequestsInv, NEW r \in Requests, Requested(r)
    PROVE  RequestsInv' /\ \A q \in Requests : Course(q)
<1>1. ASSUME NEW c \in Connectors, NEW v \in Vehicles \cup {None},
             StartRequested(r, c, v)
      PROVE  RequestsInv' /\ \A q \in Requests : Course(q)
  <2> DEFINE j == [NewJob("start") EXCEPT !.connector = c, !.vehicle = v]
  <2>1. j \in Job /\ j.kind = "start" /\ j.value = None
    BY NewJobs DEF Kinds, NewJob
  <2>2. PICK pc \in {"tag", "failed"} : at' = [at EXCEPT ![r] = pc]
    BY <1>1 DEF StartRequested, Goto
  <2>3. /\ Accept(r, j) /\ pending' = [pending EXCEPT ![c] = v]
        /\ latest' = [latest EXCEPT ![c] = r]
        /\ UNCHANGED <<stationVars, session, configVars, bootVars, mix, call,
                       verdict, overlapped>>
    BY <1>1 DEF StartRequested
  <2> HIDE DEF j
  <2>4. RemoteTypeOK'
    BY <2>1, <2>2, <2>3 DEF RequestsInv, RemoteTypeOK, Accept, stationVars,
       configVars, bootVars, Waits, Ends
  <2> QED
    BY <2>1, <2>2, <2>3, <2>4, AcceptCourse
<1>2. ASSUME StopRequested(r) \/ GetRequested(r)
      PROVE  RequestsInv' /\ \A q \in Requests : Course(q)
  <2>1. ASSUME NEW kind \in {"stop", "get"}, Command(r, NewJob(kind))
        PROVE  RequestsInv' /\ \A q \in Requests : Course(q)
    <3>1. NewJob(kind) \in Job /\ NewJob(kind).kind = kind
          /\ NewJob(kind).value = None
      BY NewJobs DEF Kinds, NewJob
    <3>2. overlapped' \subseteq Requests
      BY <1>2 DEF StopRequested, GetRequested, RequestsInv, RemoteTypeOK
    <3> QED
      BY <2>1, <3>1, <3>2, CommandCourse
  <2> QED
    BY <1>2, <2>1 DEF StopRequested, GetRequested
<1>3. ASSUME NEW v \in Values \cup {None}, MessageRequested(r, v)
      PROVE  RequestsInv' /\ \A q \in Requests : Course(q)
  <2> DEFINE j == [NewJob("message") EXCEPT !.value = v]
  <2>1. j \in Job /\ j.kind = "message"
    BY NewJobs DEF Kinds, NewJob
  <2>2. Command(r, j) /\ (UNCHANGED overlapped \/ Overlap(r, {"change", "message"}))
    BY <1>3 DEF MessageRequested
  <2>3. overlapped' \subseteq Requests
    BY <2>2, OverlapTypes DEF RequestsInv, RemoteTypeOK
  <2> HIDE DEF j
  <2> QED
    BY <2>1, <2>2, <2>3, CommandCourse DEF Setters
<1>4. ASSUME NEW v \in Values, ChangeRequested(r, v)
      PROVE  RequestsInv' /\ \A q \in Requests : Course(q)
  <2> DEFINE j == [NewJob("change") EXCEPT !.value = v]
  <2>1. j \in Job /\ j.value = v /\ j.kind = "change"
    BY NewJobs DEF Kinds, NewJob
  <2>2. Command(r, j) /\ overlapped' \subseteq Requests
    BY <1>4, OverlapTypes DEF ChangeRequested
  <2> HIDE DEF j
  <2> QED
    BY <2>1, <2>2, CommandCourse DEF Setters
<1>5. ASSUME DiscoverRequested(r)
      PROVE  RequestsInv' /\ \A q \in Requests : Course(q)
  <2> DEFINE j == [NewJob("discover") EXCEPT !.object = connection]
             pc == IF connection = None THEN "failed" ELSE "count"
  <2>1. connection \in Objects \cup {None}
    BY MaxObjectsAssumption DEF RequestsInv, RemoteTypeOK, Objects
  <2>2. j \in Job /\ j.kind = "discover" /\ j.object = connection /\ j.value = None
    BY <2>1, NewJobs DEF Kinds, NewJob
  <2>3. /\ Accept(r, j) /\ at' = [at EXCEPT ![r] = pc]
        /\ UNCHANGED <<stationVars, startVars, configVars, bootVars, mix, call,
                       verdict, overlapped>>
    BY <1>5 DEF DiscoverRequested, Goto
  <2> HIDE DEF j
  <2>4. RemoteTypeOK'
    BY <2>2, <2>3 DEF RequestsInv, RemoteTypeOK, Accept, stationVars,
       startVars, configVars, bootVars, Waits, Ends
  <2> QED
    BY <2>2, <2>3, <2>4, AcceptCourse
<1>6. ASSUME EditRequested(r) \/ ResetRequested(r) \/ UnlockRequested(r)
      PROVE  RequestsInv' /\ \A q \in Requests : Course(q)
  <2>1. PICK kind \in {"edit", "reset", "unlock"}, pc \in {"read", "failed"} :
          /\ Accept(r, NewJob(kind)) /\ at' = [at EXCEPT ![r] = pc]
          /\ pc = "read" => kind = "edit"
          /\ UNCHANGED <<stationVars, startVars, configVars, bootVars, mix, call,
                         verdict, overlapped>>
    BY <1>6 DEF EditRequested, ResetRequested, UnlockRequested, Unroutable, Goto
  <2>2. NewJob(kind) \in Job /\ NewJob(kind).kind = kind
        /\ NewJob(kind).value = None
    BY NewJobs DEF Kinds, NewJob
  <2>3. RemoteTypeOK'
    BY <2>1, <2>2 DEF RequestsInv, RemoteTypeOK, Accept, stationVars,
       startVars, configVars, bootVars, Waits, Ends
  <2> QED
    BY <2>1, <2>2, <2>3, AcceptCourse
<1> QED
  BY <1>1, <1>2, <1>3, <1>4, <1>5, <1>6 DEF Requested

-----------------------------------------------------------------------------
(* A request in progress goes on; nothing else it is made of changes, but  *)
(* for what a discovery or an edit has read.                               *)
LEMMA MoveCourse ==
    ASSUME RequestsInv, NEW r \in Requests, at[r] \in Waits, NEW pc,
           at' = [at EXCEPT ![r] = pc], RemoteTypeOK',
           UNCHANGED <<call, verdict>>,
           \/ UNCHANGED job
           \/ \E n \in Nat : job' = [job EXCEPT ![r].count = n]
           \/ job' = [job EXCEPT ![r].seen = firmware],
           pc = "write" => job' = [job EXCEPT ![r].seen = firmware],
           pc = "ok" => \/ job[r].kind # "change"
                        \/ /\ at[r] = "row" /\ row' = job[r].value
                           /\ setting' = setting,
           \/ pc \in Ends
           \/ at[r] \in {"count", "trigger", "each"}
              /\ pc \in {"trigger", "each", "meters"}
           \/ at[r] = "read" /\ pc = "write"
    PROVE  RequestsInv' /\ \A q \in Requests : Course(q)
<1>1. job[r] \in Job /\ Progress(r)
  BY DEF RequestsInv, RemoteTypeOK
<1>2. /\ at'[r] = pc /\ job'[r].kind = job[r].kind
      /\ job'[r].vehicle = job[r].vehicle /\ job'[r].value = job[r].value
      /\ pc = "write" => job'[r].seen = firmware
      /\ call'[r] = call[r] /\ verdict'[r] = verdict[r]
      /\ \A q \in Requests \ {r} : Rests(q)
  BY <1>1 DEF Rests, RequestsInv, RemoteTypeOK, Job
<1>3. Progress(r)' /\ Course(r)
  BY <1>1, <1>2 DEF Progress, Course, Waits, Ends
<1> QED
  BY <1>2, <1>3, OneMoves

LEMMA CallCourse ==
    ASSUME RequestsInv, NEW r \in Requests,
           TagFound(r) \/ CallTimesOut(r) \/ CallFails(r) \/ RowLands(r)
    PROVE  RequestsInv' /\ \A q \in Requests : Course(q)
<1>0. Progress(r) /\ job[r] \in Job
  BY DEF RequestsInv, RemoteTypeOK
<1>1. CASE /\ at[r] = "tag" /\ Goto(r, "station")
           /\ call' = [call EXCEPT ![r] = "sent"]
           /\ UNCHANGED <<stationVars, startVars, configVars, bootVars, mix, job,
                          verdict, overlapped>>
  <2>1. RemoteTypeOK'
    BY <1>1 DEF Goto, RequestsInv, RemoteTypeOK, stationVars, startVars,
       configVars, bootVars, Waits
  <2>2. /\ at'[r] = "station" /\ call'[r] = "sent" /\ job'[r] = job[r]
        /\ verdict'[r] = verdict[r] /\ \A q \in Requests \ {r} : Rests(q)
    BY <1>1 DEF Goto, Rests, RequestsInv, RemoteTypeOK
  <2>3. Progress(r)' /\ Course(r)
    BY <1>0, <1>1, <2>2 DEF Progress, Course, Waits, Ends
  <2> QED
    BY <2>1, <2>2, <2>3, OneMoves
<1>2. CASE /\ at[r] \in {"tag", "station", "row"} /\ Goto(r, "failed")
           /\ UNCHANGED <<stationVars, startVars, configVars, bootVars, mix, job,
                          call, verdict, overlapped>>
  <2>1. RemoteTypeOK'
    BY <1>2 DEF Goto, RequestsInv, RemoteTypeOK, stationVars, startVars,
       configVars, bootVars, Ends
  <2> QED
    BY <1>2, <2>1, MoveCourse DEF Goto, Waits, Ends
<1>3. CASE RowLands(r)
  <2>1. job[r].value \in Values
    BY <1>0, <1>3 DEF RowLands, Progress
  <2>2. RemoteTypeOK'
    BY <1>3, <2>1 DEF RowLands, Goto, RequestsInv, RemoteTypeOK, stationVars,
       startVars, bootVars, Ends
  <2> QED
    BY <1>3, <2>2, MoveCourse DEF RowLands, Goto, Waits, Ends, configVars
<1> QED
  BY <1>1, <1>2, <1>3 DEF TagFound, SendMessage, CallTimesOut, CallFails

LEMMA DiscoverCourse ==
    ASSUME RequestsInv, NEW r \in Requests, Count(r) \/ RoundEnds(r)
    PROVE  RequestsInv' /\ \A q \in Requests : Course(q)
<1>0. at[r] \in {"trigger", "each", "meters"} => job[r].kind = "discover"
  BY DEF RequestsInv, Progress
<1>1. ASSUME NEW n \in Connectors \cup {0}, CountAnswered(r, n)
      PROVE  RequestsInv' /\ \A q \in Requests : Course(q)
  <2>1. n \in Nat /\ job[r] \in Job
    BY ConnectorsAssumption DEF RequestsInv, RemoteTypeOK
  <2>2. /\ [job[r] EXCEPT !.count = n] \in Job
        /\ [job[r] EXCEPT !.count = n].object = job[r].object
    BY <2>1 DEF Job
  <2>3. records' \in [Objects -> [Connectors -> {"none", "default", "live"}]]
    BY <1>1 DEF CountAnswered, RequestsInv, RemoteTypeOK
  <2>4. RemoteTypeOK'
    BY <1>1, <2>2, <2>3 DEF CountAnswered, Goto, RequestsInv, RemoteTypeOK,
       startVars, configVars, bootVars, Waits
  <2> QED
    BY <1>1, <2>1, <2>4, MoveCourse DEF CountAnswered, Goto, Waits
<1>2. CASE RoundEnds(r)
  <2>1. PICK pc \in {"each", "meters", "ok"} :
          /\ Goto(r, pc) /\ at[r] \in {"trigger", "each", "meters"}
          /\ at[r] = "meters" => pc = "ok"
    BY <1>2 DEF RoundEnds, AfterTrigger
  <2>2. RemoteTypeOK'
    BY <1>2, <2>1 DEF RoundEnds, Goto, RequestsInv, RemoteTypeOK, stationVars,
       startVars, configVars, bootVars, Waits, Ends
  <2> QED
    BY <1>0, <1>2, <2>1, <2>2, MoveCourse DEF RoundEnds, Goto, Waits, Ends
<1> QED
  BY <1>1, <1>2 DEF Count

LEMMA EditCourse ==
    ASSUME RequestsInv, NEW r \in Requests, EditReads(r) \/ EditLands(r)
    PROVE  RequestsInv' /\ \A q \in Requests : Course(q)
<1>0. job[r] \in Job /\ firmware \in Versions \cup {None}
  BY DEF RequestsInv, RemoteTypeOK
<1>1. [job[r] EXCEPT !.seen = firmware] \in Job
  BY <1>0 DEF Job
<1>2. CASE EditReads(r)
  <2>1. PICK pc \in {"write", "failed"} :
          /\ at' = [at EXCEPT ![r] = pc] /\ at[r] = "read"
          /\ job' = job \/ job' = [job EXCEPT ![r].seen = firmware]
          /\ pc = "write" => job' = [job EXCEPT ![r].seen = firmware]
    BY <1>2 DEF EditReads, Goto
  <2>2. at' \in [Requests -> {"idle"} \cup Waits \cup Ends]
    BY <2>1 DEF RequestsInv, RemoteTypeOK, Waits, Ends
  <2>3. job' \in [Requests -> Job]
    BY <1>1, <2>1 DEF RequestsInv, RemoteTypeOK
  <2>4. \A q \in Requests : at'[q] \in {"count", "trigger", "each", "meters"}
                             => job'[q].object \in 1..used
    BY <2>1 DEF RequestsInv, RemoteTypeOK
  <2>5. RemoteTypeOK'
    BY <1>2, <2>2, <2>3, <2>4 DEF EditReads, RequestsInv, RemoteTypeOK,
       stationVars, startVars, configVars, bootVars
  <2> QED
    BY <1>0, <1>2, <2>1, <2>5, MoveCourse DEF EditReads, Waits, Ends
<1>3. CASE EditLands(r)
  <2>1. job[r].seen \in Versions \cup {None}
    BY <1>0 DEF Job
  <2>2. RemoteTypeOK'
    BY <1>3, <2>1 DEF EditLands, Goto, RequestsInv, RemoteTypeOK, stationVars,
       startVars, configVars, Ends
  <2>3. job[r].kind = "edit"
    BY <1>3 DEF EditLands, RequestsInv, Progress
  <2> QED
    BY <1>3, <2>2, <2>3, MoveCourse DEF EditLands, Goto, Waits, Ends
<1> QED
  BY <1>2, <1>3

(* The end of the process: every request in progress has failed. *)
LEMMA RestartCourse ==
    ASSUME RequestsInv, Restart
    PROVE  RequestsInv' /\ \A q \in Requests : Course(q)
<1>1. RemoteTypeOK'
  BY MaxObjectsAssumption DEF Restart, RequestsInv, RemoteTypeOK, configVars,
     bootVars, Waits, Ends
<1>2. ASSUME NEW q \in Requests
      PROVE  Progress(q)' /\ Course(q)
  <2>1. /\ at'[q] = IF at[q] \in Waits THEN "failed" ELSE at[q]
        /\ job'[q] = job[q] /\ call'[q] = call[q] /\ verdict'[q] = verdict[q]
        /\ Progress(q) /\ at[q] \in {"idle"} \cup Waits \cup Ends
    BY DEF Restart, RequestsInv, RemoteTypeOK
  <2> QED
    BY <2>1 DEF Progress, Course, Waits, Ends
<1> QED
  BY <1>1, <1>2 DEF RequestsInv

(* The progress of a call at the station, and its answer. *)
LEMMA StationCourse ==
    ASSUME RequestsInv, NEW r \in Requests,
           \/ \E answer \in {"accepted", "rejected", "error"} :
                StationCarriesOut(r, answer)
           \/ CallLost(r)
           \/ AnswerArrives(r)
    PROVE  RequestsInv' /\ \A q \in Requests : Course(q)
<1>0. Progress(r) /\ job[r] \in Job
  BY DEF RequestsInv, RemoteTypeOK
<1>1. ASSUME NEW answer \in {"accepted", "rejected", "error"},
             StationCarriesOut(r, answer)
      PROVE  RequestsInv' /\ \A q \in Requests : Course(q)
  <2>1. setting' \in Values
    BY <1>0, <1>1 DEF StationCarriesOut, RequestsInv, RemoteTypeOK, Job
  <2>2. RemoteTypeOK'
    BY <1>1, <2>1 DEF StationCarriesOut, RequestsInv, RemoteTypeOK, stationVars,
       startVars, bootVars
  <2>3. /\ call[r] = "sent" /\ call'[r] = "carried" /\ verdict'[r] = answer
        /\ at'[r] = at[r] /\ job'[r] = job[r]
        /\ \A q \in Requests \ {r} : Rests(q)
    BY <1>1 DEF StationCarriesOut, Rests, RequestsInv, RemoteTypeOK
  <2>4. Progress(r)' /\ Course(r)
    BY <1>0, <2>3 DEF Progress, Course, Waits, Ends
  <2> QED
    BY <2>2, <2>3, <2>4, OneMoves
<1>2. CASE CallLost(r)
  <2>1. RemoteTypeOK'
    BY <1>2 DEF CallLost, RequestsInv, RemoteTypeOK, stationVars, startVars,
       configVars, bootVars
  <2>2. /\ call[r] \in {"sent", "carried"} /\ call'[r] = "over"
        /\ at'[r] = at[r] /\ job'[r] = job[r] /\ verdict'[r] = verdict[r]
        /\ \A q \in Requests \ {r} : Rests(q)
    BY <1>2 DEF CallLost, Rests, RequestsInv, RemoteTypeOK
  <2>3. Progress(r)' /\ Course(r)
    BY <1>0, <2>2 DEF Progress, Course, Waits, Ends
  <2> QED
    BY <2>1, <2>2, <2>3, OneMoves
<1>3. CASE AnswerArrives(r)
  <2> DEFINE pc == IF at[r] = "station"
                   THEN IF verdict[r] = "error" THEN "failed"
                        ELSE IF job[r].kind = "change" THEN "row" ELSE "ok"
                   ELSE at[r]
  <2>1. at' = [at EXCEPT ![r] = pc] /\ call' = [call EXCEPT ![r] = "over"]
    BY <1>3 DEF AnswerArrives, Goto, RequestsInv, RemoteTypeOK
  <2>2. RemoteTypeOK'
    BY <1>3, <2>1 DEF AnswerArrives, RequestsInv, RemoteTypeOK, stationVars,
       startVars, configVars, bootVars, Waits, Ends
  <2>3. /\ call[r] = "carried" /\ call'[r] = "over" /\ at'[r] = pc
        /\ job'[r] = job[r] /\ verdict'[r] = verdict[r]
        /\ verdict[r] \in {"none", "accepted", "rejected", "error"}
        /\ \A q \in Requests \ {r} : Rests(q)
    BY <1>3, <2>1 DEF AnswerArrives, Rests, RequestsInv, RemoteTypeOK
  <2>4. Progress(r)' /\ Course(r)
    BY <1>0, <2>3 DEF Progress, Course, Waits, Ends
  <2> QED
    BY <2>2, <2>3, <2>4, OneMoves
<1> QED
  BY <1>1, <1>2, <1>3

(* Steps of the station and of the registry that no request takes part in. *)
LEMMA OtherCourse ==
    ASSUME RequestsInv,
           \/ \E c \in Connectors :
                \/ \E by \in Requests \cup {None} : SessionStarts(c, by)
                \/ StationReports(c)
           \/ \E v \in Versions : BootLands(v)
           \/ \E n \in Connectors : Connect(n)
           \/ Disconnect
    PROVE  RequestsInv' /\ \A q \in Requests : Course(q)
<1>1. ASSUME NEW c \in Connectors, NEW by \in Requests \cup {None},
             SessionStarts(c, by)
      PROVE  RequestsInv' /\ \A q \in Requests : Course(q)
  <2>1. RemoteTypeOK'
    BY <1>1 DEF SessionStarts, RequestsInv, RemoteTypeOK, stationVars,
       configVars, bootVars
  <2> QED
    BY <1>1, <2>1, NoneMoves DEF SessionStarts
<1>2. ASSUME NEW c \in Connectors, StationReports(c)
      PROVE  RequestsInv' /\ \A q \in Requests : Course(q)
  <2>1. RemoteTypeOK'
    BY <1>2 DEF StationReports, RequestsInv, RemoteTypeOK, startVars,
       configVars, bootVars
  <2> QED
    BY <1>2, <2>1, NoneMoves DEF StationReports
<1>3. ASSUME NEW v \in Versions, BootLands(v)
      PROVE  RequestsInv' /\ \A q \in Requests : Course(q)
  <2>1. RemoteTypeOK'
    BY <1>3 DEF BootLands, RequestsInv, RemoteTypeOK, stationVars, startVars,
       configVars
  <2> QED
    BY <1>3, <2>1, NoneMoves DEF BootLands
<1>4. ASSUME NEW n \in Connectors, Connect(n)
      PROVE  RequestsInv' /\ \A q \in Requests : Course(q)
  <2>1. /\ used \in Nat /\ used + 1 \in 1..MaxObjects
        /\ 1..used \subseteq 1..(used + 1)
    BY <1>4, MaxObjectsAssumption DEF Connect, RequestsInv, RemoteTypeOK
  <2>2. records' \in [Objects -> [Connectors -> {"none", "default", "live"}]]
    BY <1>4 DEF Connect, RequestsInv, RemoteTypeOK
  <2>3. RemoteTypeOK'
    BY <1>4, <2>1, <2>2, MaxObjectsAssumption DEF Connect, RequestsInv,
       RemoteTypeOK, startVars, configVars, bootVars
  <2> QED
    BY <1>4, <2>3, NoneMoves DEF Connect
<1>5. CASE Disconnect
  <2>1. RemoteTypeOK'
    BY <1>5 DEF Disconnect, RequestsInv, RemoteTypeOK, startVars, configVars,
       bootVars
  <2> QED
    BY <1>5, <2>1, NoneMoves DEF Disconnect
<1> QED
  BY <1>1, <1>2, <1>3, <1>4, <1>5

LEMMA StepCourse ==
    ASSUME RequestsInv, [Next]_vars
    PROVE  RequestsInv' /\ \A q \in Requests : Course(q)
<1>1. CASE UNCHANGED vars
  <2>1. RemoteTypeOK'
    BY <1>1 DEF vars, stationVars, startVars, configVars, bootVars, RequestsInv,
       RemoteTypeOK
  <2> QED
    BY <1>1, <2>1, NoneMoves DEF vars
<1>2. ASSUME NEW r \in Requests, Proceeds(r)
      PROVE  RequestsInv' /\ \A q \in Requests : Course(q)
  BY <1>2, CallCourse, DiscoverCourse, EditCourse, RestartCourse
     DEF Proceeds, EditFails
<1>3. CASE StationActs
  BY <1>3, StationCourse, OtherCourse DEF StationActs
<1>4. CASE Crash
  BY <1>4, RestartCourse DEF Crash
<1> QED
  BY <1>1, <1>2, <1>3, <1>4, RequestedCourse DEF Next

LEMMA RequestsInvInit == Init => RequestsInv
<1> SUFFICES ASSUME Init PROVE RequestsInv
  OBVIOUS
<1>1. NewJob(None) \in Job
  BY DEF NewJob, Job
<1>2. RemoteTypeOK
  BY <1>1, MaxObjectsAssumption DEF Init, RemoteTypeOK
<1>3. ASSUME NEW r \in Requests
      PROVE  Progress(r)
  BY DEF Init, Progress
<1> QED
  BY <1>2, <1>3 DEF RequestsInv

-----------------------------------------------------------------------------
(* Which steps change which part of the state. *)
OnlyWriters ==
    /\ \/ UNCHANGED startVars
       \/ \E r \in Requests, c \in Connectors, v \in Vehicles \cup {None} :
            StartRequested(r, c, v)
       \/ \E c \in Connectors, by \in Requests \cup {None} : SessionStarts(c, by)
       \/ Restart
    /\ \/ UNCHANGED <<used, records>>
       \/ \E r \in Requests, n \in Connectors \cup {0} : CountAnswered(r, n)
       \/ \E c \in Connectors : StationReports(c)
       \/ \E n \in Connectors : Connect(n)
       \/ Restart
    /\ \/ UNCHANGED <<setting, verdict>>
       \/ \E r \in Requests, answer \in {"accepted", "rejected", "error"} :
            StationCarriesOut(r, answer)
    /\ UNCHANGED row \/ \E r \in Requests : RowLands(r)
    /\ \/ UNCHANGED bootVars
       \/ \E r \in Requests : EditLands(r)
       \/ \E v \in Versions : BootLands(v)
    /\ overlapped \subseteq overlapped'

LEMMA RequestedWrites ==
    ASSUME NEW r \in Requests, Requested(r)
    PROVE  OnlyWriters
<1>1. ASSUME NEW c \in Connectors, NEW v \in Vehicles \cup {None},
             StartRequested(r, c, v)
      PROVE  OnlyWriters
  BY <1>1 DEF StartRequested, OnlyWriters, stationVars, configVars
<1>2. ASSUME StopRequested(r) \/ GetRequested(r)
             \/ (\E v \in Values \cup {None} : MessageRequested(r, v))
             \/ (\E v \in Values : ChangeRequested(r, v))
      PROVE  OnlyWriters
  BY <1>2 DEF StopRequested, GetRequested, MessageRequested, ChangeRequested,
     Command, Overlap, OnlyWriters, stationVars, configVars
<1>3. ASSUME DiscoverRequested(r) \/ EditRequested(r) \/ ResetRequested(r)
             \/ UnlockRequested(r)
      PROVE  OnlyWriters
  BY <1>3 DEF DiscoverRequested, EditRequested, ResetRequested, UnlockRequested,
     Unroutable, OnlyWriters, stationVars, configVars
<1> QED
  BY <1>1, <1>2, <1>3 DEF Requested

LEMMA RestartWrites == Restart => OnlyWriters
BY DEF Restart, OnlyWriters, configVars

LEMMA ProceedsWrites ==
    ASSUME NEW r \in Requests, Proceeds(r)
    PROVE  OnlyWriters
<1>1. ASSUME TagFound(r) \/ CallTimesOut(r) \/ CallFails(r) \/ RoundEnds(r)
             \/ EditReads(r)
      PROVE  OnlyWriters
  BY <1>1 DEF TagFound, CallTimesOut, CallFails, RoundEnds, EditReads,
     OnlyWriters, stationVars, configVars
<1>2. ASSUME RowLands(r)
      PROVE  OnlyWriters
  BY <1>2 DEF RowLands, OnlyWriters, stationVars
<1>3. ASSUME NEW n \in Connectors \cup {0}, CountAnswered(r, n)
      PROVE  OnlyWriters
  BY <1>3 DEF CountAnswered, OnlyWriters, configVars
<1>4. ASSUME EditLands(r)
      PROVE  OnlyWriters
  BY <1>4 DEF EditLands, OnlyWriters, stationVars, configVars
<1> QED
  BY <1>1, <1>2, <1>3, <1>4, RestartWrites DEF Proceeds, Count, EditFails

LEMMA StationWrites ==
    ASSUME StationActs
    PROVE  OnlyWriters
<1>1. ASSUME NEW r \in Requests, NEW answer \in {"accepted", "rejected", "error"},
             StationCarriesOut(r, answer)
      PROVE  OnlyWriters
  BY <1>1 DEF StationCarriesOut, OnlyWriters, stationVars
<1>2. ASSUME NEW r \in Requests, CallLost(r) \/ AnswerArrives(r)
      PROVE  OnlyWriters
  BY <1>2 DEF CallLost, AnswerArrives, OnlyWriters, stationVars, configVars
<1>3. ASSUME NEW c \in Connectors, NEW by \in Requests \cup {None},
             SessionStarts(c, by)
      PROVE  OnlyWriters
  BY <1>3 DEF SessionStarts, OnlyWriters, stationVars, configVars
<1>4. ASSUME NEW c \in Connectors, StationReports(c)
      PROVE  OnlyWriters
  BY <1>4 DEF StationReports, OnlyWriters, configVars
<1>5. ASSUME NEW v \in Versions, BootLands(v)
      PROVE  OnlyWriters
  BY <1>5 DEF BootLands, OnlyWriters, stationVars, configVars
<1>6. ASSUME NEW n \in Connectors, Connect(n)
      PROVE  OnlyWriters
  BY <1>6 DEF Connect, OnlyWriters, configVars
<1>7. ASSUME Disconnect
      PROVE  OnlyWriters
  BY <1>7 DEF Disconnect, OnlyWriters, configVars
<1> QED
  BY <1>1, <1>2, <1>3, <1>4, <1>5, <1>6, <1>7 DEF StationActs

LEMMA StepWrites == [Next]_vars => OnlyWriters
<1>1. UNCHANGED vars => OnlyWriters
  BY DEF vars, OnlyWriters, stationVars, configVars
<1> QED
  BY <1>1, RequestedWrites, ProceedsWrites, StationWrites, RestartWrites
     DEF Next, Crash

(* A request that begins does so in its own handler. *)
LEMMA BeginsByRequest ==
    ASSUME RequestsInv, [Next]_vars, NEW q \in Requests,
           at[q] = "idle", at'[q] # "idle"
    PROVE  Requested(q)
<1>1. ASSUME NEW r \in Requests, Requested(r)
      PROVE  r = q
  <2>1. \E pc : Goto(r, pc)
    BY <1>1 DEF Requested, StartRequested, StopRequested, GetRequested,
       MessageRequested, ChangeRequested, DiscoverRequested, EditRequested,
       ResetRequested, UnlockRequested, Command, SendMessage, Unroutable
  <2> QED
    BY <2>1 DEF Goto, RequestsInv, RemoteTypeOK
<1>2. ~Restart
  BY DEF Restart, RequestsInv, RemoteTypeOK, Waits
<1>3. ASSUME NEW r \in Requests, Proceeds(r)
      PROVE  FALSE
  <2>1. at[r] # "idle" /\ \E pc : Goto(r, pc)
    BY <1>2, <1>3 DEF Proceeds, TagFound, SendMessage, CallTimesOut, RowLands,
       CallFails, Count, CountAnswered, RoundEnds, EditReads, EditLands, EditFails
  <2> QED
    BY <2>1 DEF Goto, RequestsInv, RemoteTypeOK
<1>4. ASSUME NEW r \in Requests, AnswerArrives(r)
      PROVE  FALSE
  BY <1>4 DEF AnswerArrives, Goto, RequestsInv, RemoteTypeOK
<1>5. ~StationActs
  BY <1>4 DEF StationActs, StationCarriesOut, CallLost, SessionStarts,
     StationReports, BootLands, Connect, Disconnect
<1> QED
  BY <1>1, <1>2, <1>3, <1>5 DEF Next, Crash, vars

-----------------------------------------------------------------------------
(* The parts of the invariant, each from the steps that write it. *)

LEMMA HandedStep ==
    ASSUME RemoteInv, [Next]_vars, NEW c \in Connectors
    PROVE  Handed(c)'
<1>1. /\ RequestsInv /\ Handed(c) /\ \A q \in Requests : Course(q)
      /\ latest[c] \in Requests \cup {None} /\ session[c].by \in Requests \cup {None}
  BY StepCourse DEF RemoteInv, RequestsInv, RemoteTypeOK
<1>2. CASE UNCHANGED startVars
  BY <1>1, <1>2 DEF Handed, Course, startVars
<1>3. ASSUME NEW r \in Requests, NEW d \in Connectors,
             NEW v \in Vehicles \cup {None}, StartRequested(r, d, v)
      PROVE  Handed(c)'
  <2> DEFINE j == [NewJob("start") EXCEPT !.connector = d, !.vehicle = v]
  <2>1. j.vehicle = v
    BY DEF NewJob
  <2>2. /\ pending' = [pending EXCEPT ![d] = v] /\ latest' = [latest EXCEPT ![d] = r]
        /\ session' = session /\ job' = [job EXCEPT ![r] = j]
        /\ at'[r] # "idle"
    BY <1>3 DEF StartRequested, Accept, Goto, RemoteInv, RequestsInv, RemoteTypeOK
  <2> HIDE DEF j
  <2>3. job'[r].vehicle = v
    BY <2>1, <2>2 DEF RemoteInv, RequestsInv, RemoteTypeOK
  <2>4. CASE c = d
    <3>1. latest'[c] = r /\ pending'[c] = v
      BY <2>2, <2>4 DEF RemoteInv, RequestsInv, RemoteTypeOK
    <3> QED
      BY <1>1, <2>2, <2>3, <3>1 DEF Handed, Course
  <2>5. CASE c # d
    <3>1. latest'[c] = latest[c] /\ pending'[c] = pending[c]
      BY <2>2, <2>5 DEF RemoteInv, RequestsInv, RemoteTypeOK
    <3> QED
      BY <1>1, <2>2, <3>1 DEF Handed, Course
  <2> QED
    BY <2>4, <2>5
<1>4. ASSUME NEW d \in Connectors, NEW by \in Requests \cup {None},
             SessionStarts(d, by)
      PROVE  Handed(c)'
  <2>1. UNCHANGED <<pending, latest, at, job>>
    BY <1>4 DEF SessionStarts
  <2>2. CASE c # d
    <3>1. session'[c] = session[c]
      BY <1>4, <2>2 DEF SessionStarts, RemoteInv, RequestsInv, RemoteTypeOK
    <3> QED
      BY <1>1, <2>1, <3>1 DEF Handed
  <2>3. CASE c = d
    <3>1. /\ session'[c].by = by /\ session'[c].vehicle = pending[c]
          /\ session'[c].overtaken = (latest[c] # by)
      BY <1>4, <2>3 DEF SessionStarts, RemoteInv, RequestsInv, RemoteTypeOK
    <3>2. by # None => at[by] # "idle"
      BY <1>1, <1>4 DEF SessionStarts, Accepted, RequestsInv, Progress
    <3> QED
      BY <1>1, <2>1, <3>1, <3>2 DEF Handed
  <2> QED
    BY <2>2, <2>3
<1>5. CASE Restart
  BY <1>1, <1>5 DEF Restart, Handed, Course
<1> QED
  BY <1>2, <1>3, <1>4, <1>5, StepWrites DEF OnlyWriters

(* What a connection object has been told is not taken back. *)
LEMMA RecordsStep ==
    ASSUME RequestsInv, NewObjectsAreBlank, [Next]_vars
    PROVE  /\ NewObjectsAreBlank'
           /\ \A o \in Objects, c \in Connectors :
                records[o][c] = "live" /\ used' # 0 => records'[o][c] = "live"
<1> DEFINE P == /\ NewObjectsAreBlank'
                /\ \A o \in Objects, c \in Connectors :
                     records[o][c] = "live" /\ used' # 0 => records'[o][c] = "live"
<1>0. /\ used \in 0..MaxObjects /\ connection \in (1..used) \cup {None}
      /\ records \in [Objects -> [Connectors -> {"none", "default", "live"}]]
      /\ Objects \subseteq Nat
  BY DEF RequestsInv, RemoteTypeOK, Objects
<1>1. CASE UNCHANGED <<used, records>>
  BY <1>1 DEF NewObjectsAreBlank
<1>2. ASSUME NEW r \in Requests, NEW n \in Connectors \cup {0}, CountAnswered(r, n)
      PROVE  P
  <2>1. PICK mine \in 1..used : mine = job[r].object
    BY <1>2 DEF CountAnswered, RequestsInv, RemoteTypeOK
  <2>2. mine \in Objects /\ used' = used
    BY <1>0, <1>2, <2>1, MaxObjectsAssumption DEF Objects, CountAnswered
  <2>3. \A p \in Objects, c \in Connectors :
          \/ records'[p][c] = records[p][c]
          \/ p = mine /\ records[p][c] = "none"
    BY <1>0, <1>2, <2>1, <2>2 DEF CountAnswered
  <2>4. NewObjectsAreBlank'
    BY <1>0, <2>1, <2>2, <2>3 DEF NewObjectsAreBlank
  <2> QED
    BY <2>3, <2>4
<1>3. ASSUME NEW d \in Connectors, StationReports(d)
      PROVE  P
  <2>1. connection \in 1..used /\ used' = used
    BY <1>0, <1>3 DEF StationReports
  <2>2. connection \in Objects
    BY <1>0, <2>1, MaxObjectsAssumption DEF Objects
  <2>3. /\ \A p \in Objects \ {connection} : records'[p] = records[p]
        /\ \A c \in Connectors \ {d} :
             records'[connection][c] = records[connection][c]
        /\ records'[connection][d] = "live"
    BY <1>0, <1>3, <2>2 DEF StationReports
  <2> QED
    BY <1>0, <2>1, <2>2, <2>3 DEF NewObjectsAreBlank
<1>4. ASSUME NEW n \in Connectors, Connect(n)
      PROVE  P
  <2>1. used' = used + 1 /\ \A p \in Objects \ {used + 1} : records'[p] = records[p]
    BY <1>0, <1>4 DEF Connect
  <2> QED
    BY <1>0, <2>1 DEF NewObjectsAreBlank
<1>5. CASE Restart
  BY <1>5 DEF Restart, NewObjectsAreBlank
<1> QED
  BY <1>1, <1>2, <1>3, <1>4, <1>5, StepWrites DEF OnlyWriters

LEMMA OpenHaveBegun ==
    ASSUME RequestsInv, NEW r \in Open(Setters)
    PROVE  r \in Requests /\ at[r] # "idle"
BY DEF RequestsInv, Progress, Open, Waits

(* A request that opens next to others has its handler note it. *)
LEMMA OpensNoted ==
    ASSUME RequestsInv, [Next]_vars, NEW r \in Requests,
           r \in Open(Setters)', r \notin Open(Setters), job'[r].value # None
    PROVE  /\ at[r] = "idle" /\ Requested(r)
           /\ \A q \in Open(Setters) : q \in overlapped' /\ r \in overlapped'
<1>1. Course(r) /\ Progress(r)
  BY StepCourse DEF RequestsInv
<1>2. at[r] = "idle"
  BY <1>1 DEF Open, Course, Progress, Setters, Waits
<1>3. at'[r] # "idle"
  BY StepCourse DEF RequestsInv, Progress, Open, Waits
<1>4. Requested(r)
  BY <1>2, <1>3, BeginsByRequest
<1>5. job'[r].kind \in Setters /\ job \in [Requests -> Job]
  BY DEF Open, RequestsInv, RemoteTypeOK
<1>6. ASSUME NEW j, Accept(r, j)
      PROVE  job'[r] = j
  BY <1>5, <1>6 DEF Accept
<1>7. ASSUME NEW kind \in {"stop", "get", "edit", "reset", "unlock"},
             Accept(r, NewJob(kind))
      PROVE  FALSE
  BY <1>5, <1>6, <1>7 DEF NewJob, Setters
<1>8. ASSUME NEW c \in Connectors, NEW v \in Vehicles \cup {None},
             StartRequested(r, c, v)
      PROVE  FALSE
  <2>1. job'[r] = [NewJob("start") EXCEPT !.connector = c, !.vehicle = v]
    BY <1>6, <1>8 DEF StartRequested
  <2> QED
    BY <1>5, <2>1 DEF NewJob, Setters
<1>9. ASSUME DiscoverRequested(r)
      PROVE  FALSE
  <2>1. job'[r] = [NewJob("discover") EXCEPT !.object = connection]
    BY <1>6, <1>9 DEF DiscoverRequested
  <2> QED
    BY <1>5, <2>1 DEF NewJob, Setters
<1>10. Overlap(r, Setters)
  <2>1. ASSUME NEW v \in Values \cup {None}, MessageRequested(r, v)
        PROVE  Overlap(r, Setters)
    <3>1. job'[r] = [NewJob("message") EXCEPT !.value = v]
      BY <1>6, <2>1 DEF MessageRequested, Command
    <3>2. v # None
      BY <3>1 DEF NewJob
    <3> QED
      BY <2>1, <3>2 DEF MessageRequested, Setters
  <2> QED
    BY <1>4, <1>7, <1>8, <1>9, <2>1 DEF Requested, StopRequested, GetRequested,
       ChangeRequested, EditRequested, ResetRequested, UnlockRequested,
       Unroutable, Command, Setters
<1>11. \A q \in Open(Setters) : q \in overlapped' /\ r \in overlapped'
  BY <1>10 DEF Overlap
<1> QED
  BY <1>2, <1>4, <1>11

LEMMA OverlapsStep ==
    ASSUME RequestsInv, OverlapsAreKnown, [Next]_vars
    PROVE  OverlapsAreKnown'
<1> SUFFICES ASSUME NEW r \in Open(Setters)', NEW q \in Open(Setters)', r # q,
                    job'[r].value # None, job'[q].value # None
             PROVE  r \in overlapped'
  BY DEF OverlapsAreKnown
<1>1. r \in Requests /\ q \in Requests /\ overlapped \subseteq overlapped'
  BY StepWrites DEF Open, OnlyWriters
<1>2. CASE r \notin Open(Setters)
  <2>1. at[r] = "idle" /\ Requested(r)
    BY <1>1, <1>2, OpensNoted
  <2>2. q \in Open(Setters)
    <3>1. SUFFICES ASSUME q \notin Open(Setters) PROVE FALSE
      OBVIOUS
    <3>2. at[q] = "idle" /\ Requested(q)
      BY <1>1, <3>1, OpensNoted
    <3>3. \E pc : Goto(q, pc)
      BY <3>2 DEF Requested, StartRequested, StopRequested, GetRequested,
         MessageRequested, ChangeRequested, DiscoverRequested, EditRequested,
         ResetRequested, UnlockRequested, Command, SendMessage, Unroutable
    <3>4. at'[r] = "idle"
      BY <1>1, <2>1, <3>3 DEF Goto, RequestsInv, RemoteTypeOK
    <3>5. at'[r] # "idle"
      BY <1>1, StepCourse DEF RequestsInv, Progress, Open, Waits
    <3> QED
      BY <3>4, <3>5
  <2> QED
    BY <1>1, <1>2, <2>2, OpensNoted
<1>3. CASE q \notin Open(Setters) /\ r \in Open(Setters)
  BY <1>1, <1>3, OpensNoted
<1>4. CASE q \in Open(Setters) /\ r \in Open(Setters)
  <2>1. job'[r].value = job[r].value /\ job'[q].value = job[q].value
    BY <1>1, <1>4, OpenHaveBegun, StepCourse DEF Course
  <2> QED
    BY <1>1, <1>4, <2>1 DEF OverlapsAreKnown
<1> QED
  BY <1>2, <1>3, <1>4

LEMMA AcceptedStep ==
    ASSUME RequestsInv, OverlapsAreKnown, AcceptedIsSet, [Next]_vars
    PROVE  AcceptedIsSet'
<1> SUFFICES ASSUME NEW r \in Requests, r \notin overlapped',
                    job'[r].kind = "change", verdict'[r] = "accepted",
                    at'[r] \in Waits
             PROVE  setting' = job'[r].value
  BY DEF AcceptedIsSet
<1>1. /\ r \notin overlapped /\ Course(r) /\ Progress(r)
      /\ RequestsInv' /\ job[r] \in Job
  BY StepWrites, StepCourse DEF OnlyWriters, RequestsInv, RemoteTypeOK
<1>2. CASE UNCHANGED <<setting, verdict>>
  <2>1. at[r] \in Waits
    BY <1>1, <1>2 DEF Course, Progress
  <2>2. job[r].kind = "change" /\ job'[r].value = job[r].value
    BY <1>1, <2>1 DEF Course, Waits
  <2> QED
    BY <1>1, <1>2, <2>1, <2>2 DEF AcceptedIsSet
<1>3. ASSUME NEW q \in Requests, NEW answer \in {"accepted", "rejected", "error"},
             StationCarriesOut(q, answer)
      PROVE  setting' = job'[r].value
  <2>1. /\ at' = at /\ job' = job /\ call[q] = "sent" /\ Progress(q)
        /\ setting' = IF answer = "accepted" /\ job[q].value # None
                      THEN job[q].value ELSE setting
        /\ verdict' = [verdict EXCEPT ![q] = answer]
    BY <1>3 DEF StationCarriesOut, RequestsInv
  <2>2. at[q] # "idle" /\ at[r] # "idle"
    BY <2>1 DEF Progress, Waits
  <2>3. CASE q = r
    <3>1. answer = "accepted"
      BY <2>1, <2>3 DEF RequestsInv, RemoteTypeOK
    <3>2. job[r].value # None
      BY <1>1, <2>1, <2>2, NoneAssumption DEF Progress
    <3> QED
      BY <2>1, <2>3, <3>1, <3>2
  <2>4. CASE q # r
    <3>1. setting = job[r].value
      <4>1. verdict[r] = "accepted"
        BY <2>1, <2>4 DEF RequestsInv, RemoteTypeOK
      <4> QED
        BY <1>1, <2>1, <4>1 DEF AcceptedIsSet
    <3>2. CASE answer = "accepted" /\ job[q].value # None
      <4>1. job[r].value # None
        BY <1>1, <2>1, <2>2, NoneAssumption DEF Progress
      <4>2. q \in Open(Setters) /\ r \in Open(Setters)
        BY <2>1, <2>2, <3>2 DEF Open, Progress, Setters
      <4> QED
        BY <1>1, <2>4, <3>2, <4>1, <4>2 DEF OverlapsAreKnown
    <3> QED
      BY <2>1, <3>1, <3>2
  <2> QED
    BY <2>3, <2>4
<1> QED
  BY <1>2, <1>3, StepWrites DEF OnlyWriters

LEMMA RowStep ==
    ASSUME RequestsInv, RowWasAnswered, [Next]_vars
    PROVE  RowWasAnswered'
<1> SUFFICES ASSUME row' # None
             PROVE  \E r \in Requests : /\ job'[r].kind = "change"
                                       /\ job'[r].value = row'
                                       /\ at'[r] = "ok" /\ call'[r] = "over"
                                       /\ verdict'[r] \in {"accepted", "rejected"}
  BY DEF RowWasAnswered
<1>1. \A r \in Requests : Course(r) /\ Progress(r)
  BY StepCourse DEF RequestsInv
<1>2. CASE UNCHANGED row
  <2>1. PICK r \in Requests :
          /\ job[r].kind = "change" /\ job[r].value = row /\ at[r] = "ok"
          /\ call[r] = "over" /\ verdict[r] \in {"accepted", "rejected"}
    BY <1>2 DEF RowWasAnswered
  <2>2. /\ job'[r].kind = "change" /\ job'[r].value = row' /\ at'[r] = "ok"
        /\ call'[r] = "over" /\ verdict'[r] \in {"accepted", "rejected"}
    BY <1>1, <1>2, <2>1 DEF Course, Ends
  <2> QED
    BY <2>2
<1>3. ASSUME NEW r \in Requests, RowLands(r)
      PROVE  /\ job'[r].kind = "change" /\ job'[r].value = row' /\ at'[r] = "ok"
             /\ call'[r] = "over" /\ verdict'[r] \in {"accepted", "rejected"}
  BY <1>1, <1>3 DEF RowLands, Goto, Progress, RequestsInv, RemoteTypeOK
<1> QED
  BY <1>2, <1>3, StepWrites DEF OnlyWriters

LEMMA VersionStep ==
    ASSUME RequestsInv, VersionIsKnown, [Next]_vars
    PROVE  VersionIsKnown'
<1>1. /\ \A r \in Requests : Course(r) /\ Progress(r)
      /\ overlapped \subseteq overlapped' /\ overlapped \subseteq Requests
  BY StepCourse, StepWrites DEF RequestsInv, RemoteTypeOK, OnlyWriters
<1>2. CASE StaleEditDone
  <2>1. StaleEditDone'
    BY <1>1, <1>2 DEF StaleEditDone, Course, Ends
  <2> QED
    BY <2>1 DEF VersionIsKnown
<1>3. CASE ~StaleEditDone
  <2>1. /\ firmware = booted
        /\ \A r \in Requests \ overlapped :
             at[r] = "write" /\ job[r].seen # None => job[r].seen = booted
    BY <1>3 DEF VersionIsKnown
  <2>2. ASSUME booted' = booted
        PROVE  \A r \in Requests \ overlapped' :
                 at'[r] = "write" /\ job'[r].seen # None => job'[r].seen = booted'
    BY <1>1, <2>1, <2>2 DEF Course
  <2>3. CASE UNCHANGED bootVars
    BY <2>1, <2>2, <2>3 DEF bootVars, VersionIsKnown
  <2>4. ASSUME NEW v \in Versions, BootLands(v)
        PROVE  VersionIsKnown'
    <3>1. \A r \in Requests : at'[r] = "write" => r \in overlapped'
      BY <2>4 DEF BootLands
    <3> QED
      BY <2>4, <3>1 DEF BootLands, VersionIsKnown
  <2>5. ASSUME NEW r \in Requests, EditLands(r)
        PROVE  VersionIsKnown'
    <3>1. /\ at[r] = "write" /\ at'[r] = "ok" /\ job[r].kind = "edit"
          /\ job' = job /\ booted' = booted
          /\ firmware' = IF job[r].seen = None THEN firmware ELSE job[r].seen
      BY <1>1, <2>5 DEF EditLands, Goto, Progress, RequestsInv, RemoteTypeOK
    <3>2. CASE r \in overlapped
      BY <1>1, <3>1, <3>2 DEF VersionIsKnown, StaleEditDone
    <3>3. CASE r \notin overlapped
      BY <2>1, <2>2, <3>1, <3>3 DEF VersionIsKnown
    <3> QED
      BY <3>2, <3>3
  <2> QED
    BY <2>3, <2>4, <2>5, StepWrites DEF OnlyWriters
<1> QED
  BY <1>2, <1>3

-----------------------------------------------------------------------------
LEMMA RemoteInvInit == Init => RemoteInv
<1> SUFFICES ASSUME Init PROVE RemoteInv
  OBVIOUS
<1>1. RequestsInv
  BY RequestsInvInit
<1>2. \A c \in Connectors : Handed(c)
  BY DEF Init, Handed
<1>3. NewObjectsAreBlank
  BY DEF Init, NewObjectsAreBlank
<1>4. OverlapsAreKnown
  BY DEF Init, OverlapsAreKnown, Open, Waits
<1>5. AcceptedIsSet /\ RowWasAnswered /\ VersionIsKnown
  BY DEF Init, AcceptedIsSet, RowWasAnswered, VersionIsKnown
<1> QED
  BY <1>1, <1>2, <1>3, <1>4, <1>5 DEF RemoteInv

LEMMA RemoteInvStep == RemoteInv /\ [Next]_vars => RemoteInv'
<1> SUFFICES ASSUME RemoteInv, [Next]_vars PROVE RemoteInv'
  OBVIOUS
<1>1. RequestsInv'
  BY StepCourse DEF RemoteInv
<1>2. \A c \in Connectors : Handed(c)'
  BY HandedStep
<1>3. NewObjectsAreBlank'
  BY RecordsStep DEF RemoteInv
<1>4. OverlapsAreKnown' /\ AcceptedIsSet' /\ RowWasAnswered' /\ VersionIsKnown'
  BY OverlapsStep, AcceptedStep, RowStep, VersionStep DEF RemoteInv
<1> QED
  BY <1>1, <1>2, <1>3, <1>4 DEF RemoteInv

THEOREM RemoteInvariant == Spec => []RemoteInv
BY RemoteInvInit, RemoteInvStep, PTL DEF Spec

(* Every variable keeps its type; in particular a discovery works on an    *)
(* object the registry has held since the last restart.                    *)
THEOREM RemoteTypes == Spec => []RemoteTypeOK
<1>1. RemoteInv => RemoteTypeOK
  BY DEF RemoteInv, RequestsInv
<1> QED
  BY <1>1, RemoteInvariant, PTL

(* A session that a remote start brought about is handed the vehicle of    *)
(* that request, unless a younger remote start or a restart came between.  *)
THEOREM SessionsGetTheirVehicle == Spec => []OwnVehicle
<1>1. RemoteInv => OwnVehicle
  BY DEF RemoteInv, Handed, OwnVehicle
<1> QED
  BY <1>1, RemoteInvariant, PTL

(* The stored configuration shows only what the station has answered.      *)
THEOREM StoredRowsWereAnswered == Spec => []RowWasAnswered
<1>1. RemoteInv => RowWasAnswered
  BY DEF RemoteInv
<1> QED
  BY <1>1, RemoteInvariant, PTL

(* The row shows the version of the last boot, unless an edit had read it  *)
(* before that boot and wrote it back after.                               *)
THEOREM OldVersionsNeedOverlap == Spec => []OldVersionNeedsOverlap
<1>1. RemoteInv => OldVersionNeedsOverlap
  BY DEF RemoteInv, VersionIsKnown, StaleEditDone, OldVersionNeedsOverlap
<1> QED
  BY <1>1, RemoteInvariant, PTL

ReportsStay ==
    \A o \in Objects, c \in Connectors :
      records[o][c] = "live" /\ used' # 0 => records'[o][c] = "live"

(* What a station has reported is not lost to a discovery.                 *)
THEOREM ReportsAreNotLost == Spec => ReportsAreKept
<1>1. RemoteInv /\ [Next]_vars => [ReportsStay]_vars
  BY RecordsStep DEF RemoteInv, ReportsStay
<1>2. [][Next]_vars /\ []RemoteInv => [][ReportsStay]_vars
  BY <1>1, PTL
<1>3. Spec => [][ReportsStay]_vars
  BY <1>2, RemoteInvariant, PTL DEF Spec
<1> QED
  BY <1>3 DEF ReportsAreKept, ReportsStay

StoresAccepted ==
    \A r \in Requests \ overlapped :
      job[r].kind = "change" /\ verdict[r] = "accepted"
        /\ at[r] # "ok" /\ at'[r] = "ok"
          => row' = setting'

LEMMA StoresStep ==
    ASSUME RemoteInv, [Next]_vars
    PROVE  StoresAccepted
<1> SUFFICES ASSUME NEW r \in Requests \ overlapped, job[r].kind = "change",
                    verdict[r] = "accepted", at[r] # "ok", at'[r] = "ok"
             PROVE  row' = setting'
  BY DEF StoresAccepted
<1>1. at[r] = "row" /\ row' = job[r].value /\ setting' = setting
  BY StepCourse DEF RemoteInv, Course
<1> QED
  BY <1>1 DEF RemoteInv, AcceptedIsSet, Waits

(* When a change that runs alone is answered with success and the station  *)
(* had accepted it, the row and the station agree.                         *)
THEOREM AcceptedChangesAreStored == Spec => AcceptedChangeIsStored
<1>1. RemoteInv /\ [Next]_vars => [StoresAccepted]_vars
  BY StoresStep
<1>2. [][Next]_vars /\ []RemoteInv => [][StoresAccepted]_vars
  BY <1>1, PTL
<1>3. Spec => [][StoresAccepted]_vars
  BY <1>2, RemoteInvariant, PTL DEF Spec
<1> QED
  BY <1>3 DEF AcceptedChangeIsStored, StoresAccepted

=============================================================================
