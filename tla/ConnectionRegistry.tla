------------------------- MODULE ConnectionRegistry -------------------------
(***************************************************************************)
(* The registry of charge-point connections kept by OCPPServer             *)
(* (src/src/services/ocpp_server.ts): the `connections` map and the        *)
(* handlers that fill and empty it.                                        *)
(*                                                                         *)
(* The server is one Node.js event loop.  A handler runs without being     *)
(* interrupted up to its next `await`, so each action below is the code    *)
(* between two awaits of one handler, and the handlers of several sockets  *)
(* interleave.  The registry is keyed by the charge point's id, while the  *)
(* events (message, pong, close) belong to a socket: every hazard of this  *)
(* module comes from that difference.                                      *)
(*                                                                         *)
(* What the same handlers write to the database and to redis is added by   *)
(* StationPresence.                                                        *)
(***************************************************************************)
EXTENDS Integers

CONSTANTS
    ChargePoints,   \* ids taken from the connection URL
    Sockets,        \* WebSockets accepted by the server, each used once
    StationOf,      \* the charge point a socket connects for
    NumConnectors,  \* connectors of a fresh record: the default of line 72
    MaxCrashes,     \* bound on process crashes
    None

ASSUME StationOfAssumption == StationOf \in [Sockets -> ChargePoints]
ASSUME NoneAssumption == None \notin Sockets
ASSUME NumConnectorsAssumption == NumConnectors \in Nat \ {0}
ASSUME MaxCrashesAssumption == MaxCrashes \in Nat

VARIABLES
    connections,  \* charge point -> socket of its registry entry, or None
    wire,         \* socket -> "new", "open", "closing" or "closed"
    peer,         \* socket -> the station is still there to answer
    hs,           \* socket -> progress of its handleConnection
    listening,    \* socket -> listeners attached before its close event
    isAlive,      \* socket -> the flag of its connection record
    ping,         \* socket -> a ping of the server is unanswered
    disc,         \* socket -> progress of its handleDisconnection
    cursor,       \* socket -> next connector that handleDisconnection marks
    crashes

sockVars == <<wire, peer, hs, listening>>
beatVars == <<isAlive, ping>>
discVars == <<disc, cursor>>
registryVars == <<connections, sockVars, beatVars, discVars, crashes>>

Connectors == 1 .. NumConnectors
SocketsOf(c) == {s \in Sockets : StationOf[s] = c}

(* The registry entry of the station that socket s belongs to.  Handlers   *)
(* reach the registry by charge-point id, so this, and not s, is the       *)
(* connection they act on.                                                 *)
Entry(s) == connections[StationOf[s]]

RegistryInit ==
    /\ connections = [c \in ChargePoints |-> None]
    /\ wire = [s \in Sockets |-> "new"]
    /\ peer = [s \in Sockets |-> FALSE]
    /\ hs = [s \in Sockets |-> "none"]
    /\ listening = [s \in Sockets |-> FALSE]
    /\ isAlive = [s \in Sockets |-> FALSE]
    /\ ping = [s \in Sockets |-> FALSE]
    /\ disc = [s \in Sockets |-> "none"]
    /\ cursor = [s \in Sockets |-> 1]
    /\ crashes = 0

-----------------------------------------------------------------------------
(* handleConnection *)

(* Mutation of Install: the listeners are attached without regard to a     *)
(* socket that closed during the wait.                                     *)
InstallAssumesOpen(s) ==
    /\ connections' = [connections EXCEPT ![StationOf[s]] = s]
    /\ isAlive' = [isAlive EXCEPT ![s] = TRUE]
    /\ hs' = [hs EXCEPT ![s] = "installed"]
    /\ listening' = [listening EXCEPT ![s] = TRUE]
    /\ UNCHANGED <<ping, discVars, crashes>>

(* What follows the await of getConnectorNum: the record is built, stored  *)
(* over whatever the map holds by now, and only then are the listeners     *)
(* attached.  A close event that came before is lost.                      *)
Install(s) ==
    /\ connections' = [connections EXCEPT ![StationOf[s]] = s]
    /\ isAlive' = [isAlive EXCEPT ![s] = TRUE]
    /\ hs' = [hs EXCEPT ![s] = "installed"]
    /\ listening' = [listening EXCEPT ![s] = (wire[s] # "closed")]
    /\ UNCHANGED <<ping, discVars, crashes>>

(* No entry for the id: the GetConfiguration call of getConnectorNum is    *)
(* rejected at once ("not connected"), the default of two connectors is    *)
(* used, and no other event runs before the record is stored.              *)
ConnectFresh(s) ==
    /\ wire[s] = "new"
    /\ Entry(s) = None
    /\ wire' = [wire EXCEPT ![s] = "open"]
    /\ peer' = [peer EXCEPT ![s] = TRUE]
    /\ Install(s)

(* The id has an entry: its socket is closed, and the GetConfiguration     *)
(* call goes to that closing socket, which drops the frame.  The handler   *)
(* waits for the 30 s timeout of the call.                                 *)
ConnectOver(s) ==
    /\ wire[s] = "new"
    /\ Entry(s) # None
    /\ wire' = [wire EXCEPT
                  ![s] = "open",
                  ![Entry(s)] = IF @ = "open" THEN "closing" ELSE @]
    /\ peer' = [peer EXCEPT ![s] = TRUE]
    /\ hs' = [hs EXCEPT ![s] = "waiting"]
    /\ UNCHANGED <<connections, listening, beatVars, discVars, crashes>>

(* Mutations of ConnectorNumTimeout: the timer is not one-shot; the        *)
(* handshake goes on only while the old entry is there.                    *)
ConnectorNumTimeoutRepeats(s) ==
    /\ hs[s] \in {"waiting", "installed"}
    /\ Install(s)
    /\ UNCHANGED <<wire, peer>>

ConnectorNumTimeoutNeedsEntry(s) ==
    /\ hs[s] = "waiting"
    /\ Entry(s) # None
    /\ Install(s)
    /\ UNCHANGED <<wire, peer>>

ConnectorNumTimeout(s) ==
    /\ hs[s] = "waiting"
    /\ Install(s)
    /\ UNCHANGED <<wire, peer>>

-----------------------------------------------------------------------------
(* handleDisconnection, run by the close event of a socket *)

(* The first part, up to the first await.  Without an entry for the id the *)
(* run has no await and is over at once.                                   *)
CloseEvent(s) ==
    /\ wire' = [wire EXCEPT ![s] = "closed"]
    /\ peer' = [peer EXCEPT ![s] = FALSE]
    /\ disc' = [disc EXCEPT ![s] = IF ~listening[s] THEN @
                                   ELSE IF Entry(s) = None THEN "done"
                                   ELSE "marking"]
    /\ UNCHANGED <<connections, hs, listening, beatVars, cursor, crashes>>

(* The station closes the socket, or its TCP connection breaks. *)
StationCloses(s) == wire[s] = "open" /\ CloseEvent(s)

(* A close or terminate of the server takes effect (at the latest when the *)
(* 30 s close timer of the ws library fires).                              *)
CloseCompletes(s) == wire[s] = "closing" /\ CloseEvent(s)

(* The await of one connector's status write returns, with or without an   *)
(* error.                                                                  *)
MarkNext(s) ==
    /\ disc[s] = "marking"
    /\ cursor[s] \in Connectors
    /\ cursor' = [cursor EXCEPT ![s] = @ + 1]
    /\ UNCHANGED <<connections, sockVars, beatVars, disc, crashes>>

(* After the last await (the redis write): the entry of the id is deleted, *)
(* whichever socket it holds by now.                                       *)
Forget(s) ==
    /\ disc[s] = "marking"
    /\ cursor[s] \notin Connectors
    /\ connections' = [connections EXCEPT ![StationOf[s]] = None]
    /\ disc' = [disc EXCEPT ![s] = "done"]
    /\ UNCHANGED <<sockVars, beatVars, cursor, crashes>>

-----------------------------------------------------------------------------
(* handleMessage, setupHeartbeatCheck and handlePong: signs of life *)

Deliverable(s) ==
    /\ listening[s] /\ peer[s]
    /\ wire[s] \in {"open", "closing"}

(* A message arrives on s.  It counts as a sign of life of the registry    *)
(* entry of the id.  Without an entry it is dropped.                       *)
MessageArrives(s) ==
    /\ Deliverable(s)
    /\ Entry(s) # None
    /\ isAlive' = [isAlive EXCEPT ![Entry(s)] = TRUE]
    /\ UNCHANGED <<connections, sockVars, ping, discVars, crashes>>

(* Mutation of Pong: the answer does not mark the record alive. *)
PongIgnored(s) ==
    /\ Deliverable(s)
    /\ ping[s]
    /\ ping' = [ping EXCEPT ![s] = FALSE]
    /\ UNCHANGED <<connections, sockVars, isAlive, discVars, crashes>>

(* The pong of socket s is credited to the entry of its id. *)
Pong(s) ==
    /\ Deliverable(s)
    /\ ping[s]
    /\ ping' = [ping EXCEPT ![s] = FALSE]
    /\ isAlive' = IF Entry(s) # None
                  THEN [isAlive EXCEPT ![Entry(s)] = TRUE]
                  ELSE isAlive
    /\ UNCHANGED <<connections, sockVars, discVars, crashes>>

Listed == {c \in ChargePoints : connections[c] # None}

(* Mutations of Dead: every entry; only those whose socket is not closed. *)
DeadAll == Listed
DeadNotClosed ==
    {c \in Listed : ~isAlive[connections[c]] /\ wire[connections[c]] # "closed"}

Dead == {c \in Listed : ~isAlive[connections[c]]}

(* One tick of the 30 s interval, over every entry: a record that is not   *)
(* alive is terminated and deleted, any other is marked and pinged.        *)
HeartbeatCheck ==
    LET terminated == {connections[c] : c \in Dead}
        pinged     == {connections[c] : c \in Listed \ Dead}
    IN  /\ Listed # {}
        /\ connections' = [c \in ChargePoints |->
                             IF c \in Dead THEN None ELSE connections[c]]
        /\ wire' = [s \in Sockets |->
                      IF s \in terminated /\ wire[s] = "open"
                      THEN "closing" ELSE wire[s]]
        /\ isAlive' = [s \in Sockets |-> s \notin pinged /\ isAlive[s]]
        /\ ping' = [s \in Sockets |->
                      \/ s \in pinged /\ wire[s] = "open"
                      \/ ping[s]]
        /\ UNCHANGED <<peer, hs, listening, discVars, crashes>>

-----------------------------------------------------------------------------
(* The environment *)

(* The station behind s loses power or its network without a close. *)
PeerLost(s) ==
    /\ peer[s]
    /\ peer' = [peer EXCEPT ![s] = FALSE]
    /\ UNCHANGED <<connections, wire, hs, listening, beatVars, discVars,
                   crashes>>

(* The process dies and starts again: the map, the sockets and the         *)
(* handlers in progress are gone.                                          *)
Crash ==
    /\ crashes < MaxCrashes
    /\ crashes' = crashes + 1
    /\ connections' = [c \in ChargePoints |-> None]
    /\ wire' = [s \in Sockets |->
                  IF wire[s] = "new" THEN "new" ELSE "closed"]
    /\ peer' = [s \in Sockets |-> FALSE]
    /\ hs' = [s \in Sockets |-> IF hs[s] = "waiting" THEN "none" ELSE hs[s]]
    /\ listening' = [s \in Sockets |-> FALSE]
    /\ isAlive' = [s \in Sockets |-> FALSE]
    /\ ping' = [s \in Sockets |-> FALSE]
    /\ disc' = [s \in Sockets |-> "none"]
    /\ cursor' = [s \in Sockets |-> 1]

-----------------------------------------------------------------------------
RegistryNext ==
    \/ \E s \in Sockets :
         \/ ConnectFresh(s)
         \/ ConnectOver(s)
         \/ ConnectorNumTimeout(s)
         \/ StationCloses(s)
         \/ CloseCompletes(s)
         \/ MarkNext(s)
         \/ Forget(s)
         \/ MessageArrives(s)
         \/ Pong(s)
         \/ PeerLost(s)
    \/ HeartbeatCheck
    \/ Crash

RegistrySpec == RegistryInit /\ [][RegistryNext]_registryVars

-----------------------------------------------------------------------------
RegistryTypeOK ==
    /\ connections \in [ChargePoints -> Sockets \cup {None}]
    /\ wire \in [Sockets -> {"new", "open", "closing", "closed"}]
    /\ peer \in [Sockets -> BOOLEAN]
    /\ hs \in [Sockets -> {"none", "waiting", "installed"}]
    /\ listening \in [Sockets -> BOOLEAN]
    /\ isAlive \in [Sockets -> BOOLEAN]
    /\ ping \in [Sockets -> BOOLEAN]
    /\ disc \in [Sockets -> {"none", "marking", "done"}]
    /\ cursor \in [Sockets -> 1 .. NumConnectors + 1]
    /\ crashes \in 0 .. MaxCrashes

(* Once the disconnection handler of a socket has finished, that socket is *)
(* out of the registry for good: no handshake that was waiting and no      *)
(* other handler puts it back (handleConnection 96, handleDisconnection    *)
(* 914).                                                                   *)
FinishedSocketIsUnlisted ==
    \A s \in Sockets : disc[s] = "done" => Entry(s) # s

(* A registry entry whose socket is closed is either being removed by the  *)
(* disconnection handler of that very socket, or the socket closed before  *)
(* handleConnection attached its listeners (101-118), so that only the     *)
(* heartbeat check can find it.                                            *)
ClosedEntryIsOnItsWayOut ==
    \A s \in Sockets :
        Entry(s) = s /\ wire[s] = "closed" /\ disc[s] # "marking"
            => ~listening[s]

(* The heartbeat check (730) is fair to a station: an open socket whose    *)
(* record is marked not alive was sent a ping that is still unanswered, so *)
(* a station that has answered every ping is never terminated.             *)
DeadMeansPinged ==
    \A s \in Sockets :
        Entry(s) = s /\ ~isAlive[s] /\ wire[s] = "open" => ping[s]

(* A station loses the entry of an open, responsive connection only when   *)
(* another of its sockets is involved: the disconnection handler of that   *)
(* other socket ends, or that other socket's handshake stops waiting.  A   *)
(* station that never has two sockets in progress keeps its entry.         *)
OnlyAnOverlapDisplaces ==
    [][\A s \in Sockets :
         Entry(s) = s /\ wire[s] = "open" /\ ~ping[s]
           /\ Entry(s)' # s /\ crashes' = crashes
         => \E t \in SocketsOf(StationOf[s]) \ {s} :
              \/ disc[t] = "marking" /\ disc'[t] = "done"
              \/ hs[t] = "waiting" /\ Entry(s)' = t]_registryVars

Silent(c) == \A s \in SocketsOf(c) : ~peer[s]

(* When a station has gone silent for good, whatever state its sockets     *)
(* and handlers were in, its entry is emptied for good: the heartbeat      *)
(* check (726-744) needs no close event.                                   *)
SilentStationIsForgotten ==
    \A c \in ChargePoints : <>[]Silent(c) => <>[](connections[c] = None)

(* A handshake that found an older entry never waits for ever, although    *)
(* the call it waits for is sent to a socket that is being closed.         *)
HandshakeEnds ==
    \A s \in Sockets : hs[s] = "waiting" ~> hs[s] # "waiting"

-----------------------------------------------------------------------------
(* The registry implements StationListing: a socket is listed once, for    *)
(* its own station, and is never listed again after it lost its place.     *)
Listing == INSTANCE StationListing WITH
               listed <- connections,
               used <- {s \in Sockets : hs[s] = "installed"}

ListingSpec == Listing!Spec

-----------------------------------------------------------------------------
(* What the code says of itself and does not keep *)

(* "already connected, replacing connection" (ocpp_server.ts 60): after    *)
(* the replacement, the new connection is the registered one, so a step    *)
(* of the server does not drop an open, responsive connection while the    *)
(* process lives.                                                          *)
ReplacementSurvives ==
    [][\A s \in Sockets :
         Entry(s) = s /\ wire[s] = "open" /\ ~ping[s] /\ crashes' = crashes
           => Entry(s)' # None]_registryVars

=============================================================================
