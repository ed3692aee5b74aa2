# Verification of the EVMS gateway

TLA+ specifications of the OCPP 1.6J gateway in this repository (`src/src`), the
TLC configurations that check them on small instances, and theorems proved with
TLAPS for every instance. Source references are `file:line` of `src/src`
unless a longer path is given.

## 1. The system

The gateway is one Node.js process. Charging stations connect over WebSocket and
speak OCPP-J; dashboards and partners use a REST API with a stream of meter
values. State lives in memory (`OCPPServer`, `OCPPMessageHandler`, `APIGateway`),
in PostgreSQL through Prisma, and in redis.

Concurrency is that of the event loop: a handler runs uninterrupted up to its next
`await`. Listeners of a socket do not wait for the handler of the previous
event (`ocpp_server.ts:101-118`), so the handlers of one station overlap with each
other, and with timers, API requests and the awaits of other stations. Each action
of the models is the code between two awaits.

| Component | State | Operations | Talks to | Correct when | Module |
|---|---|---|---|---|---|
| Connection registry (`ocpp_server.ts`) | `connections` by charge-point id, `isAlive` | handshake, message, pong, close, 30 s heartbeat check | ws, handlers, presence | one live socket per station; dead ones leave; only the station's own overlap displaces a live one | `ConnectionRegistry`, `StationListing` |
| Presence (`charge-point-manager.ts`, `database.ts`) | `ChargePoint.isOnline`, redis `connection:<id>`, connector rows | register, unregister (un-awaited), mark connectors, sync | registry, database, redis | rows and key follow the connection | `StationPresence` |
| RPC to stations (`ocpp_server.ts`, `ocpp_handlers.ts`) | `pendingCalls`, a timer per call | send, trigger, answer, error, timeout | registry, API | every call settles once; nothing is left behind | `PendingCalls`, `CallFuture` |
| Session handlers (`ocpp_handlers.ts`, `updateRealTimeData`) | connector records in memory, connector rows, transaction rows | Start, Stop, StatusNotification, Heartbeat | database, redis | links, answers and statuses agree | `ChargingSession` |
| Meter values, state of charge | `transactionSocCache`, redis keys, `startSoC`, `stopSoC` | MeterValues, Stop | database, redis, stream | first and last reading are kept | `StateOfCharge` |
| Meter stream (`api_gateway.ts:502-546`) | list of clients | connect, send, close | meter values | a dead client stops nobody | none (5) |
| Remote control (`api_gateway.ts:853-1271, 2526-2636`) | `pendingChargeSessions`, configuration rows, connector records | remote start and stop, reset, unlock, messages, configuration, discovery, edit of a station | RPC, registry, sessions | a session has the vehicle of its own request; what is stored was answered; reports survive; requests end | `RemoteControl` |
| Accounts, fleets, vehicles (`api_gateway.ts:205-690, 1422-2081`) | user, fleet, vehicle, manager rows | create, edit, assign, remove, delete | database | owner or fleet, not both; overlapping requests do not undo each other | `FleetAdministration` |
| Settings (`api_gateway.ts:2383-2456`, `database.ts:1137-1310`) | setting and history rows | set, create, delete, price | database | history tells every change; the price set is the price shown | `SystemSettings` |
| Transaction lists (`api_gateway.ts:1053-1187`) | none | pages | database | turning pages misses nothing | `TransactionLists` |
| Other reports, alarms, validation, logger, types, seeds | none or append-only | | | | none (5) |

What is hard to test here, and drives the properties: the registry is keyed by id
while events belong to sockets; the un-awaited register and unregister; a
handshake that waits 30 s for a call sent to a socket it has just closed; messages
of one station handled concurrently; handlers that fail half way through a
sequence of writes; the memory, the rows and redis being three copies; API requests
that read a row in one call and write it in a later one; calls that the station
carries out after the caller was told of a failure. The list, at
the lines where each bites, is `hazards` in `PROJECT.json`.

## 2. Modules

| Module | Lines it stands for | Role |
|---|---|---|
| `StationListing` | - | abstract: a station has at most one listed socket, never listed twice |
| `ConnectionRegistry` | `ocpp_server.ts` 43-121, 207-216, 718-744, 884-917 | the registry; refines `StationListing` |
| `StationPresence` | the same handlers with `charge-point-manager.ts` 17-53 | extends the registry with rows, key and late writes |
| `CallFuture` | - | abstract: a call settles exactly once |
| `PendingCalls` | `ocpp_server.ts` 157-205, 758-782, `ocpp_handlers.ts` 93-136 | the RPC layer; refines `CallFuture` |
| `ChargingSession` | `ocpp_handlers.ts` 260-322, 474-625, `ocpp_server.ts` 235-390, `database.ts` 146-302 | messages of one station and their writes |
| `StateOfCharge` | `ocpp_handlers.ts` 324-412, 537-625, `database.ts` 285-341 | the readings of a session: cache, redis keys, row |
| `RemoteControl` | `api_gateway.ts` 894-1051, 1229-1272, 2526-2636, `ocpp_server.ts` 580-712, `database.ts` 43-135, 984-1006 | API requests that reach a station, next to what the station does |
| `FleetAdministration` | `api_gateway.ts` 205-252, 411-690, 1422-2081, `database.ts` 796-870, 1453-1660 | fleets, vehicles, managers, accounts |
| `SystemSettings` | `database.ts` 1137-1310, `api_gateway.ts` 2383-2456 | one setting and its history |
| `TransactionLists` | `api_gateway.ts` 1053-1187, `database.ts` 234-302, 385-415 | the pages of the transaction lists |
| `MC*` | - | instances for TLC |
| `*Proofs` | - | theorems |

### ConnectionRegistry

`connections` maps a charge point to the *socket* whose record is stored. A socket
goes through `wire` (new, open, closing, closed), its `handleConnection` through
`hs` (none, waiting for the connector count, installed), its `handleDisconnection`
through `disc` (none, marking, done) with `cursor` over the connectors.
`listening` is whether the close listener was attached in time. `isAlive` is the
flag of the record of that socket; `ping` an unanswered ping.

- A handshake for an id without an entry has no wait: `GetConfiguration` is refused
  at once and the default of two connectors is used (`ConnectFresh`). With an entry
  the old socket is closed, the call goes to that closing socket and ws drops it, so
  only the call's 30 s timer lets the handler go on (`ConnectOver`, `ConnectorNumTimeout`).
- `Forget` deletes the entry *of the id* after the last await of
  `handleDisconnection`; `Pong` and `MessageArrives` credit the entry *of the id*.
- `HeartbeatCheck` is one tick over all entries.
- `Crash` empties everything that is in memory.
- `PeerLost` is a station that vanishes without a close.

### StationPresence

Every action is a registry action together with its writes, or a write that lands
later. `reg` and `unreg` are the two un-awaited runs of the charge-point manager
(database, then redis; an error of the first skips the second). `KeyExpires` is
the hour the key lives. `msg` is a message whose handler may finish after the
disconnection handler; its final sync writes remembered statuses. Rows survive
`CrashAndRestart`.

### PendingCalls

One state per call: promise outcome, timer, map entry, frame delivered, answers in
flight. The station may answer late, twice, with a result and an error, or never.
`link` is what the registry offers: no entry, an open socket, or a stale one that
drops frames without an error.

### ChargingSession

Handler slots run the messages of one connected station. `at` is the call a handler
awaits; when it lands, the code up to the next await runs, including the part of
`updateRealTimeData` (`Realtime`), which also runs after an error answer.
`mem` and `order` are `connection.connectors` (a record remembers its own
`connectorId`, which need not be its key); `row` and `current` the connector rows;
`txState` and `txConn` the transaction rows; `told` what the station was answered.
`RowAfter` is the status conversion of `updateConnectorStatus`. The heartbeat's
un-awaited writes are `loose`. `alone` is a history variable: the handlers in their
final write-back which, since they collected the records, have had no other message
beside them and no un-awaited write with an older status.

### StateOfCharge

The same event loop, for what `handleMeterValues` and `handleStopTransaction` do with
the state of charge: `cache` is `transactionSocCache`, `startKey` and `latestKey` the
two redis keys of a transaction, `startSoC`, `stopSoC` and `stopped` its row. `job`
holds the local variables of a handler. A sample enters the cache at once and the
row several awaits later (`GetStart` ... `WriteStartLands`). The columns are `Int`: a
fractional reading is refused, which `handleMeterValues` logs and
`handleStopTransaction` does not catch. `overlapped` is a history variable, the
handlers that have not been alone all the time; it lets the properties say exactly what
only an overlap can cause. `last`, the last reading of a transaction that was taken in, and
`lost`, the transactions whose last reading went with the memory, are history variables too:
what a stop writes is compared with `last`, not with the cache that a restart empties.
`Restart` loses memory only.

### RemoteControl

A request of the API (`at`, `job`) runs to its next await in one step. `call` is its call
at the station: sent, carried out, over; the caller may be told of a timeout
(`CallTimesOut`) before or after the station carries it out (`StationCarriesOut`).
`verdict` is what the station answered. The future that `PendingCalls` implements is
used here as a promise that ends with an answer or a timeout.

- `StartRequested` writes `pending` before anything is known of the station;
  `SessionStarts` hands the entry to whatever session starts on the connector, and
  leaves it there.
- `RowLands` stores a change of the configuration after any answer.
- `DiscoverRequested` ... `RoundEnds` are `getChargeStationGunDetails`: the request
  keeps the connection object it found (`job.object`) and may fill a record of an object
  that is no longer registered. `records` says of each record of each object whether it is
  missing, a default, or filled by the station.
- `EditReads`, `EditLands` are the two database calls of `updateChargeStation`, against
  `BootLands`.
- `ResetRequested` and `UnlockRequested` always fail (see the divergences).
- `Restart` ends the process: by a crash, or by a failing call of an edit
  (`EditFails`), which nobody catches.

`latest`, `overlapped` and `booted` are history variables.

### FleetAdministration

`step` is the database call a request awaits, `local` what it has read. A handler is
an action `...Requested`, which passes the token and role checks and reaches the first
call, and one action per call. `first` is `Vehicle.initialFleetId`. The columns that the
rules between rows depend on are kept; names, plates and numbers are not, and a unique or
foreign key on them is a call that fails (`CallEndsBadly`). `loose`, `overtaken` and
`wrote` are history variables: vehicles that were placed last by a request that does not
keep the rule, requests whose row another one has written since they read it, and
requests that have written.

### SystemSettings

`stage` is the call of a change; `FindSetting`, `NoteChange`, `UpsertSetting` are the three
calls of `setSetting`, and the price endpoint goes through them twice (`again`).
`NoteDeleted` and `DeleteSetting` are `deleteSetting`. A request gives a value with its
JSON type; `InferDataType` makes a row's type of it, when `setSetting` creates the row, and
`InsertSetting` takes any type, for `createSetting` is told one or infers it. An update
keeps the type. The texts of a row are told apart by how `getSetting` reads them under each
type (`ReadsAsFalse`). `stale` is a history variable: changes that were not alone since
their read. `setBy` is one too: the kind of change that wrote the value. `Advertised` is
`getDefaultPricePerKWh`.

### TransactionLists

A client asks for page after page; `total` and `found` are the two queries of a
page, which end in either order. `Pages` are the answers the database may give, with ties
in any order. `TransactionStarts` and `TransactionStops` are the station's. `due` is a
history variable: the rows of the beginning that have since neither moved, nor been tied
with another, nor been leapt over towards the front by a row that a repeated stop moved
back. The client is not in the repository; it is one that trusts `totalPages`.

## 3. Runs

Passing runs:

| Run | Bounds | Checks |
|---|---|---|
| `RegistrySafety` | 3 sockets of one station and 1 of another, 1 connector, 1 crash | a closed entry is being removed or was never heard (`ClosedEntryIsOnItsWayOut`); the heartbeat check is fair (`DeadMeansPinged`); only the station's own overlapping socket displaces a live entry (`OnlyAnOverlapDisplaces`); refinement of `StationListing` (`ListingSpec`) |
| `PresenceSafety` | 2 sockets, both may send, 1 crash, failing writes | a registered station is turned offline only by an unregister of a closed socket (`OfflineOnlyByUnregister`) |
| `PresenceLiveness` | 2 sockets, no messages, no failures | a silent station is forgotten for good (`SilentStationIsForgotten`), a handshake ends (`HandshakeEnds`), a stale key expires (`StalePresenceKeyExpires`), a heard close ends in an unregister (`HeardCloseIsUnregistered`) |
| `Calls` | 3 calls | waiting callers can be reached (`WaitingCallIsReachable`); only failures leak (`LeakIsTimeoutOrThrow`); refinement of `CallFuture` with its fairness: decided once, and in the end (`FutureSpec`) |
| `SessionConcurrent` | 2 messages at once (start, stop, status), connectors 1 known and 2 unknown, 1 number, failing calls | links and accepted answers name recorded transactions, with colliding numbers (`CurrentIsOwnTransaction`, `AcceptedStartIsRecorded`); whatever overlapped or failed, the next write-back that runs alone to its end repairs every row (`WriteBackRepairs`) |
| `SessionEnds` | one message, all kinds, failing calls | every message ends |
| `SocReadings` | 1 transaction with or without a row, 2 messages at once of one or two samples, failing calls, restarts | only an overlapping message replaces the first reading (`FirstReadingStays`); the last reading is kept until the stop is recorded (`ReadingKeptUntilStop`), and the first recorded stop carries it (`StopTakesLastReading`), but for an overlap, or a restart since the reading; a message that ran alone leaves its last reading in memory and redis, whatever becomes of the row (`MessageLeavesItsLastReading`) |
| `RemoteControl` | 2 requests, 1 connector, 1 vehicle, 2 values, 2 versions, 2 connection objects per process, four mixes of kinds | a session that a remote start brought about has that request's vehicle (`OwnVehicle`); a stored value was answered (`RowWasAnswered`), and an accepted change that was alone agrees with the station (`AcceptedChangeIsStored`); an old firmware version needs an edit around a boot (`OldVersionNeedsOverlap`); discovery loses no report (`ReportsAreKept`); every request ends (`RequestsEnd`) |
| `Administration` | 2 requests, 2 users (both with a tag or both without to begin with), 2 fleets, 1 vehicle; or 3 changes of one setting, absent or 0 to begin with, prices 0 and 30, values given as number, text, boolean and object; or 3 transactions, 3 times, pages of 2 | owner or fleet, not both (`VehicleHasOneSide`); the first fleet (`FirstFleetStays`) and a tag (`TagIsKept`) are overwritten only by a request that was overtaken; an error has changed nothing (`FailedRequestWroteNothing`); a change is in the history first (`ChangeWasNoted`) and the history tells it truly (`EntryTellsTheChange`); the price set is shown, unless the row was created as BOOLEAN: then 0.15 is (`SetPriceIsAdvertised`); no row is lost between pages (`EveryRowIsShown`) |

The safety runs also check a type invariant per module; that of the registry is a
conjunct of `StationPresence`'s.

Runs in which what the code or a document says is *not* kept (TLC finds the
counterexample; details under `findings` in `PROJECT.json`):

| Run | Said | Shown |
|---|---|---|
| `RegistryReplace` | `ocpp_server.ts:60` "replacing connection" | the old socket's disconnection handler deletes the new entry |
| `SessionStopOther` | `ocpp_server.ts:356` log of the stopped connector | stopping on connector 2 frees connector 1 |
| `SettingsBoolean` | `api_gateway.ts:2443` "Price per kWh updated successfully" | a row created with `true` stays BOOLEAN (`database.ts:1181-1186`): any price in it reads as false (1133-1134) and 0.15 is advertised (1309) |

More divergences can be read off the models and have no run of their
own:

- `Pong` and `MessageArrives` credit `isAlive` to the entry of the id, so an entry
  with a closed, unheard socket stays for as long as another socket of the station
  answers (`ocpp_server.ts:721`; the log at 730 says "Terminating dead connection").
- After the disconnection handler has ended, a connector row need not be UNAVAILABLE:
  a failed write is only logged (894-896), and the final sync of a message in progress
  writes the remembered status back (378-380); the log at 898 says "All connectors
  marked offline".
- With two StatusNotifications in progress the older status may stay in the row
  (`ocpp_server.ts:102`), until the next write-back that runs alone to its end repairs it
  (`WriteBackRepairs`).
- A StatusNotification of connector 0 is looked up under `payload.connectorId || 1` and
  gives its status and its id to the record of connector 1 (`ocpp_handlers.ts:278-290`);
  from then on the write-back writes that record to row 0, and not to row 1.
- After a restart a stop writes `stopSoC` null, although redis has the last reading: the
  latest key is written and never read (`ocpp_handlers.ts:374-375`, 558).
- The redis key of the first reading is written without a time to live and stays for good
  (`redis.ts:51-55`), although its line says "24 hour expiry" (`ocpp_handlers.ts:369`).
  That it is never replaced (`FirstReadingStays`) rests on this.
- "only write startSoC once per transaction" (`ocpp_handlers.ts:358`) does not hold when the
  first reading is 0, which counts as unset (377), or when messages overlap.
- A fractional last reading makes `stopTransaction` throw, and a repeated stop throws
  again until another reading comes; a repeated stop that follows a recorded one
  writes `stopSoC` null.
- `currentTransactionId` ("ACTIVE TRANSACTION LINK", `prisma/schema.prisma:74`) keeps naming
  a stopped transaction: nothing clears it.
- A StartTransaction that is answered with an error still sets the connector to CHARGING
  (`ocpp_server.ts:336`, whose log says "Transaction started").
- The routes of reset and unlock have the parameter `:id`, their handlers read
  `chargePointId`: they reach no station and always answer 500 (`api_gateway.ts:118-119`,
  1016-1051).
- `/transactions/active` comes after `/transactions/:id`, which answers it (112-113).
- An entry of `pendingChargeSessions` is never removed: a later session that is started at
  the station takes the old vehicle. `createTransaction` drops the vehicle
  (`database.ts:254-275`), so the reports of a vehicle or a fleet are always empty.
- The row of a configuration key is written whatever the station answers, Rejected
  included (1258-1264); a call that timed out may still be carried out.
- `updateChargeStation` has no error handler, and express 4 does not handle its
  rejection: a failing database call ends the process (2613-2633).
- "owner or fleet" (`prisma/schema.prisma:635`, `createVehicle`) is not kept by
  `updateVehicle`, nor by `removeVehicleFromFleet` without an owner, which also does not
  look at the fleet it is given. Deleted fleets and vehicles can be updated and assigned.
- The role of a request is the one read when it came in; `createFleet` gives it on.
- `register` and `createUser` pass `createUser` a column the schema does not have: no user is
  created, and a tag of nobody remains.
- A price of 0, or one that is no number, can be stored through the general endpoints and
  reads as the fallback of 0.15, and so does every price in a row that was created as BOOLEAN,
  until the setting is deleted. A price that was given as a text is stored as a STRING row and
  answered as a text. `isEditable`, `minValue` and `maxValue` are not
  enforced; `initializeDefaultSettings`, which stores them, has no caller. The price
  endpoint changes the setting twice and leaves two entries.
- A change that finds no setting is not noted in the history; one that fails after its
  entry leaves an entry of a change that never happened.
- A client that turns the pages of a list misses rows that are tied with others, rows
  that a repeated stop moves, and rows on a page whose count was taken before another row came.

How `RegistryReplace` happens in practice: the station's TCP connection is dead but
not closed, and it reconnects. The new handshake closes the old socket and starts
its call: the close timer of ws and the timer of the call are both 30 s. The
handshake installs the new entry, then the old socket's close event runs
`handleDisconnection`, finds the *new* entry, marks its connectors and deletes it.
The station stays connected, and every message is dropped as from an unknown one.

**Bounds.** Two sockets are enough for one handshake over another connection, three
for a handshake over a handshake; the socket of a second station shows that a step
for one id does not touch the other's entry. One connector gives the disconnection handler an
await between its start and its deletion; two (in `RegistryReplace`) only repeat the step.
Two requests suffice for one
write between another's read and write, three changes for an entry of a third one between
the two rounds of a price. In `RemoteControl` the kinds of request that write the same things are
explored together (`FourMixes`): kinds of different mixes share no variable but the connection; `MaxObjects` bounds
reconnections per process, and crashes are not bounded. In `Administration` one of the three
modules moves and the others are at rest: they share no variable. A setting begins absent or
as a NUMBER; rows of the other types are created in the run. Three transactions on
pages of two make a last page that rows are pushed to and from.
`MaxCrashes` bounds crashes of the registry, `Talkers` and
"one message of a socket in progress" bound message handlers, `Handlers` bounds
overlapping messages (two suffice for one write between another's read and write).
Transaction numbers are few so that collisions happen. Sockets of one station, handlers and
numbers are interchangeable and declared symmetric in safety runs only. Heartbeats and
connector 0 are in `SessionEnds`; for `WriteBackRepairs` they are left to the theorem.
Deadlock is not checked: stations may fall silent, sockets are used once.

**Fairness.** Timers fire and awaited calls return, with a result or an error:
weak fairness of the heartbeat tick, the call timer, ws's close timer, database
and redis steps. Nothing is assumed of stations, except that a promise of the
form "a station that has gone silent for good" takes their silence as a premise.
Handlers of `ChargingSession` are fair, arrivals are not. In `RemoteControl` each request
is fair in what the server's timers and databases do for it (`Proceeds`), never in an
answer of the station. `FleetAdministration`, `SystemSettings` and `TransactionLists` state
safety only.

## 4. Proofs

All theorems hold for every value of the constants under the named assumptions of
the modules (`StationOf` is a function, `None` is no socket, at least one connector,
`NoOutcome` is no outcome, `NoTx` is no number, `NoSoc` is no reading, there are finitely
many transactions, and so on for each module). The inductive invariants were checked with TLC
on the instances of the runs before they were proved.

`ConnectionRegistryProofs`. The inductive invariant `RegistryInv` is the type
invariant, the four safety invariants and two strengthenings: `SocketOrder` (a new
socket has no handshake; listening and disconnecting sockets are installed, and a
disconnecting one is closed) and `ListedIsInstalled` (an entry is an installed
socket of its own station). They are needed because `FinishedSocketIsUnlisted`
depends on a waiting handshake never having been disconnected, which no variable
says directly. From it follow `RegistryTypeCorrect`, `FinishedSocketStaysUnlisted`,
`ClosedEntryLeavesOrWasDeaf`, `HeartbeatIsFair`, the action property
`DisplacementNeedsOverlap` and the refinement `RegistryImplementsListing`.

`PendingCallsProofs`. `CallsInv` adds that a call not begun has left no trace and
that an armed call is in the map. It gives `CallsTypeCorrect`,
`WaitingCallStaysReachable`, `TimerEndsWithOutcome`, `MapLeaksOnlyFailures` and the
safety part of the refinement, `CallIsFuture`.

`ChargingSessionProofs`. `SessionInv` adds what a handler knows across its awaits
(`HandlerKnows`: between `createTransaction` and the link the transaction is
recorded on that connector) and that a recorded transaction has a connector. Type
correctness alone is not inductive: the connector a stop handler works on comes from
the row it read. It gives `SessionTypeCorrect`, `LinkIsOwnTransaction` and
`AcceptedMeansRecorded`, with any number of overlapping messages. `WriteBackRepairsRows`
has an invariant of its own, `AloneInv`: while a write-back is undisturbed, each record is still
to be written, or its status is on the way, or its row shows it, and no older status is on the
way (`WritesBackAll`). It holds for any number of handlers, with failing calls, heartbeats
and connector 0, and needs `RecordIds`: a record has its own number or 0, so that no other
record writes to its row.

`StateOfChargeProofs`. `SocInv` adds `Alone` (a handler that has not overlapped is the only
one in progress), `Knows` (what a handler has achieved and nothing undoes: a key it
wrote, a stop it recorded) and `KnowsAlone` (what it read is still so while it is alone).
`LastIsCached` says that the cache has the last reading unless the stop was recorded or a restart
took it. `BusyStepInv` reduces a step to the handler that makes it. It gives `SocTypeCorrect`
and the action properties `StopCanBeRepeated`, `FirstReadingIsKept`, `LastReadingIsLeft` and
`StopCarriesLastReading`, for any number of messages in progress.

`StationPresenceProofs`. `PresenceImplementsRegistry`: every step of presence is a registry
step or leaves the registry alone, so all of the above holds with its writes too.
`PresenceInv` adds to `RegistryInv` and the types that a disconnection handler runs only for
a socket with listeners and an unregister only after such a handler (`HandlersAreHeard`):
`OfflineOnlyByUnregister` names a closed socket with listeners, while the write that it
blames knows neither. `QuietStep`, `OfflineStep` and `HeardStep` reduce a step to the
variables it touches. It gives `PresenceTypes` and `StationsGoOfflineByUnregister`.

`RemoteControlProofs`. `RemoteInv` adds, for each request, what its progress says of its
call (`Progress`), whom a pending entry and a session belong to (`Handed`), that
connection objects not yet used are blank, that an edit whose row a boot has overtaken is
known as overlapped (`VersionIsKnown`) and that an accepted change is set at the station
unless another overlapped (`AcceptedIsSet`). `StepCourse` and `OnlyWriters` say once which steps
move a request and which write what. It gives `RemoteTypes`, `SessionsGetTheirVehicle`,
`StoredRowsWereAnswered`, `OldVersionsNeedOverlap` and the action properties
`ReportsAreNotLost` and `AcceptedChangesAreStored`.

`FleetAdministrationProofs`. `FleetInv` adds that a request in progress names a row of the
table its call writes, that what it has read is the row's last value unless it was overtaken
(`ReadsLast`), that it has written only where it can no longer fail (`WroteForGood`), and that
a vehicle that does not exist yet has had no fleet (`NewVehiclesAreBlank`). It gives `FleetTypes`,
`VehiclesHaveOneSide`, `FailedRequestsWroteNothing` and the action properties `FirstFleetIsKept`
and `TagsAreKept`.

`AdministrationProofs`. For `SystemSettings`, `SettingsInv` adds what a change asked for, what
it has done that no other undoes (`Done`: its entry is in the history) and what it knows
while it is alone (`KnowsAlone`: the last entry is its own, and tells the value it will
replace). It gives `SettingsTypes`, `PriceIsAdvertised`, `ChangesAreNoted` and
`EntriesTellTheChange`. For `TransactionLists`, `ListsInv` counts the rows before a row that
is due (`Beyond`): they never become fewer (`DueMovesBack`), and a page that leaves the row out is
full, whatever the order of ties (`PageIsFull`). So a row that was not shown is behind the
pages that were read, and a count that is not outdated says that there are more
(`CountTellsMore`). It gives `ListsTypes` and `NoRowIsMissed`. `AreasAreIndependent` carries these
results and those on fleets over to `MCAdministration`, where the runs check them, with
`AdministrationTypes`.

Only model-checked: all liveness (`SilentStationIsForgotten`, `HandshakeEnds`,
`StalePresenceKeyExpires`, `HeardCloseIsUnregistered`, `HandlersEnd`, `RequestsEnd` and the
fairness of `FutureSpec`), which needs `ENABLED` and is beyond this prover. Every safety
property of a passing run is a theorem.
`RegistryTypeOK`, `FinishedSocketIsUnlisted`, `NoTimerAfterOutcome` and `FutureSafety` are
proved, and no run repeats them. What a recursive definition would compute for all
inputs is not at issue: the models have none.

## 5. Not modelled

The stream of meter values (`streamMeterValues`, `sendMeterValueToClients`) is a list of
response objects of the HTTP library, added on connection and removed by the close
event, with no await in between; writing to a response that is gone neither throws nor
stops the loop. `processMeterValues` copies readings into the records the API shows;
here it is only the mark that a record was reported. Alarms are append-only. The other
reports are one query each and arithmetic over its rows. `login` changes one timestamp; hashing and token
formats are library code. `getAllChargeStationsStructured` and
`ChargePointManager.updateConnectorStatus` have no caller. Searches and other orders of
a list only choose other rows and columns.

Text of messages, timestamps, meter readings, alarms, ids of configuration keys, HTTP
and authentication details, redis copies that nothing reads (only their awaits).
`handleConnection` never receives an answer to `GetConfiguration`, so the reading of
`NumberOfConnectors` (132-150) has no effect and the count is the default. The orderly
shutdown (`server.ts:91-106`) is seen as a crash. The ws library and the databases
are external: ws closes within its close timer, delivers frames in order, and drops
frames sent on a closing socket; a database call takes effect at one point of time
between call and return, or fails without effect.

## 6. Plan

Done: the registry with presence, the RPC layer, the session handlers, the state of
charge and their proofs; remote control, fleets and accounts, settings and the
transaction lists.

Proofs: those of section 4, which cover every safety property that a passing run checks. Left:
a composition of `ChargingSession` with `StationPresence`, whose handlers write the same
connector rows.
