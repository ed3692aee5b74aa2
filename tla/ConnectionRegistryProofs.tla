---------------------- MODULE ConnectionRegistryProofs ----------------------
(***************************************************************************)
(* Theorems about ConnectionRegistry, for every set of charge points and   *)
(* sockets, every number of connectors and every number of crashes.        *)
(***************************************************************************)
EXTENDS ConnectionRegistry, TLAPS

(* The type invariant, from the initial state and from every step. *)

LEMMA RegistryTypeInit == RegistryInit => RegistryTypeOK
BY NumConnectorsAssumption, MaxCrashesAssumption
   DEF RegistryInit, RegistryTypeOK

(* What handleConnection does after its await keeps the types. *)
LEMMA InstallType ==
    ASSUME RegistryTypeOK, NEW s \in Sockets,
           wire' \in [Sockets -> {"new", "open", "closing", "closed"}],
           peer' \in [Sockets -> BOOLEAN],
           Install(s)
    PROVE  RegistryTypeOK'
BY StationOfAssumption DEF RegistryTypeOK, Install, discVars

LEMMA CloseEventType ==
    ASSUME RegistryTypeOK, NEW s \in Sockets, CloseEvent(s)
    PROVE  RegistryTypeOK'
BY DEF RegistryTypeOK, CloseEvent, beatVars

LEMMA RegistryTypeStep ==
    ASSUME RegistryTypeOK, [RegistryNext]_registryVars
    PROVE  RegistryTypeOK'
<1> USE StationOfAssumption, NumConnectorsAssumption, MaxCrashesAssumption
<1>1. ASSUME NEW s \in Sockets, ConnectFresh(s) PROVE RegistryTypeOK'
  BY <1>1, InstallType DEF ConnectFresh, RegistryTypeOK
<1>2. ASSUME NEW s \in Sockets, ConnectOver(s) PROVE RegistryTypeOK'
  BY <1>2 DEF ConnectOver, RegistryTypeOK, beatVars, discVars, Entry
<1>3. ASSUME NEW s \in Sockets, ConnectorNumTimeout(s) PROVE RegistryTypeOK'
  BY <1>3, InstallType DEF ConnectorNumTimeout, RegistryTypeOK
<1>4. ASSUME NEW s \in Sockets, StationCloses(s) \/ CloseCompletes(s)
      PROVE RegistryTypeOK'
  BY <1>4, CloseEventType DEF StationCloses, CloseCompletes
<1>5. ASSUME NEW s \in Sockets, MarkNext(s) PROVE RegistryTypeOK'
  BY <1>5 DEF MarkNext, RegistryTypeOK, sockVars, beatVars, Connectors
<1>6. ASSUME NEW s \in Sockets, Forget(s) PROVE RegistryTypeOK'
  BY <1>6 DEF Forget, RegistryTypeOK, sockVars, beatVars
<1>7. ASSUME NEW s \in Sockets, MessageArrives(s) PROVE RegistryTypeOK'
  BY <1>7 DEF MessageArrives, RegistryTypeOK, sockVars, discVars
<1>8. ASSUME NEW s \in Sockets, Pong(s) PROVE RegistryTypeOK'
  BY <1>8 DEF Pong, RegistryTypeOK, sockVars, discVars
<1>9. ASSUME NEW s \in Sockets, PeerLost(s) PROVE RegistryTypeOK'
  BY <1>9 DEF PeerLost, RegistryTypeOK, beatVars, discVars
<1>10. CASE HeartbeatCheck
  BY <1>10 DEF HeartbeatCheck, RegistryTypeOK, discVars
<1>11. CASE Crash
  BY <1>11 DEF Crash, RegistryTypeOK
<1>12. CASE UNCHANGED registryVars
  BY <1>12 DEF registryVars, RegistryTypeOK, sockVars, beatVars, discVars
<1> QED
  BY <1>1, <1>2, <1>3, <1>4, <1>5, <1>6, <1>7, <1>8, <1>9, <1>10, <1>11, <1>12
     DEF RegistryNext

(* The variables of the registry keep their types: in particular the loop  *)
(* of handleDisconnection (884-898) never goes past the last connector.    *)
THEOREM RegistryTypeCorrect == RegistrySpec => []RegistryTypeOK
<1>1. RegistryInit => RegistryTypeOK
  BY RegistryTypeInit
<1>2. RegistryTypeOK /\ [RegistryNext]_registryVars => RegistryTypeOK'
  BY RegistryTypeStep
<1> QED
  BY <1>1, <1>2, PTL DEF RegistrySpec

-----------------------------------------------------------------------------
(* The order in which a socket goes through its life, which the code keeps *)
(* nowhere in one place: the handshake installs a socket once, listeners   *)
(* belong to an installed socket, and only a closed socket that had them   *)
(* is ever disconnected.                                                   *)
SocketOrder ==
    /\ \A s \in Sockets : wire[s] = "new" => hs[s] = "none"
    /\ \A s \in Sockets : listening[s] => hs[s] = "installed"
    /\ \A s \in Sockets :
         disc[s] # "none" => hs[s] = "installed" /\ wire[s] = "closed"

(* The strengthening: what is listed for a station is one of its installed *)
(* sockets.                                                                *)
ListedIsInstalled ==
    \A c \in ChargePoints : connections[c] # None
        => StationOf[connections[c]] = c /\ hs[connections[c]] = "installed"

RegistryInv ==
    /\ RegistryTypeOK
    /\ SocketOrder
    /\ ListedIsInstalled
    /\ FinishedSocketIsUnlisted
    /\ ClosedEntryIsOnItsWayOut
    /\ DeadMeansPinged

LEMMA RegistryInvInit == RegistryInit => RegistryInv
<1> SUFFICES ASSUME RegistryInit PROVE RegistryInv
  OBVIOUS
<1>1. RegistryTypeOK
  BY RegistryTypeInit
<1> QED
  BY <1>1, StationOfAssumption, NoneAssumption
     DEF RegistryInit, RegistryInv, SocketOrder, ListedIsInstalled, Entry,
         FinishedSocketIsUnlisted, ClosedEntryIsOnItsWayOut, DeadMeansPinged

(* A step of handleConnection that lists s: s was not listed before, so no *)
(* disconnection handler of s has run.                                     *)
LEMMA InstallInv ==
    ASSUME RegistryInv, RegistryTypeOK', NEW s \in Sockets,
           hs[s] # "installed", wire'[s] # "new",
           wire'[s] = "closed" => wire[s] = "closed",
           \A t \in Sockets \ {s} : wire'[t] = wire[t],
           disc[s] = "none",
           Install(s)
    PROVE  RegistryInv'
<1> USE StationOfAssumption, NoneAssumption
<1>1. SocketOrder'
  BY DEF RegistryInv, RegistryTypeOK, SocketOrder, Install, discVars
<1>2. ListedIsInstalled'
  BY DEF RegistryInv, RegistryTypeOK, ListedIsInstalled, Install
<1>3. FinishedSocketIsUnlisted'
  BY DEF RegistryInv, RegistryTypeOK, FinishedSocketIsUnlisted, Install,
         Entry, discVars
<1>4. ClosedEntryIsOnItsWayOut'
  BY <1>1 DEF RegistryInv, RegistryTypeOK, ClosedEntryIsOnItsWayOut, Install,
         Entry, discVars, SocketOrder
<1>5. DeadMeansPinged'
  BY DEF RegistryInv, RegistryTypeOK, DeadMeansPinged, Install, Entry
<1> QED
  BY <1>1, <1>2, <1>3, <1>4, <1>5 DEF RegistryInv

LEMMA CloseEventInv ==
    ASSUME RegistryInv, RegistryTypeOK', NEW s \in Sockets,
           wire[s] \in {"open", "closing"}, CloseEvent(s)
    PROVE  RegistryInv'
<1> USE StationOfAssumption, NoneAssumption
<1>1. SocketOrder'
  BY DEF RegistryInv, RegistryTypeOK, SocketOrder, CloseEvent
<1>2. ListedIsInstalled'
  BY DEF RegistryInv, RegistryTypeOK, ListedIsInstalled, CloseEvent
<1>3. FinishedSocketIsUnlisted'
  BY DEF RegistryInv, RegistryTypeOK, FinishedSocketIsUnlisted, CloseEvent,
         Entry
<1>4. ClosedEntryIsOnItsWayOut'
  BY DEF RegistryInv, RegistryTypeOK, ClosedEntryIsOnItsWayOut, CloseEvent,
         Entry
<1>5. DeadMeansPinged'
  BY DEF RegistryInv, RegistryTypeOK, DeadMeansPinged, CloseEvent, Entry,
         beatVars
<1> QED
  BY <1>1, <1>2, <1>3, <1>4, <1>5 DEF RegistryInv

(* The heartbeat check pings exactly the sockets it marks. *)
LEMMA HeartbeatInv ==
    ASSUME RegistryInv, RegistryTypeOK', HeartbeatCheck
    PROVE  RegistryInv'
<1> USE StationOfAssumption, NoneAssumption
<1>1. SocketOrder'
  BY DEF RegistryInv, RegistryTypeOK, SocketOrder, HeartbeatCheck, discVars
<1>2. ListedIsInstalled'
  BY DEF RegistryInv, RegistryTypeOK, ListedIsInstalled, HeartbeatCheck
<1>3. FinishedSocketIsUnlisted'
  BY DEF RegistryInv, RegistryTypeOK, FinishedSocketIsUnlisted,
         HeartbeatCheck, Entry, discVars
<1>4. ClosedEntryIsOnItsWayOut'
  BY DEF RegistryInv, RegistryTypeOK, ClosedEntryIsOnItsWayOut,
         HeartbeatCheck, Entry, discVars
<1>5. DeadMeansPinged'
  <2> SUFFICES ASSUME NEW s \in Sockets,
                      Entry(s)' = s, ~isAlive'[s], wire'[s] = "open"
               PROVE  ping'[s]
    BY DEF DeadMeansPinged
  <2>1. /\ StationOf[s] \in Listed \ Dead
        /\ connections[StationOf[s]] = s
    BY DEF HeartbeatCheck, Entry, Listed, RegistryInv, RegistryTypeOK
  <2>2. wire[s] = "open"
    BY DEF HeartbeatCheck, RegistryInv, RegistryTypeOK
  <2> QED
    BY <2>1, <2>2 DEF HeartbeatCheck
<1> QED
  BY <1>1, <1>2, <1>3, <1>4, <1>5 DEF RegistryInv

LEMMA RegistryInvStep ==
    ASSUME RegistryInv, [RegistryNext]_registryVars
    PROVE  RegistryInv'
<1> USE StationOfAssumption, NoneAssumption
<1>0. RegistryTypeOK'
  BY RegistryTypeStep DEF RegistryInv
<1>1. ASSUME NEW s \in Sockets, ConnectFresh(s) PROVE RegistryInv'
  <2>1. /\ hs[s] # "installed" /\ disc[s] = "none"
        /\ wire'[s] # "new" /\ wire'[s] # "closed"
        /\ \A t \in Sockets \ {s} : wire'[t] = wire[t]
    BY <1>1 DEF ConnectFresh, RegistryInv, RegistryTypeOK, SocketOrder
  <2> QED
    BY <1>0, <1>1, <2>1, InstallInv DEF ConnectFresh
<1>2. ASSUME NEW s \in Sockets, ConnectOver(s) PROVE RegistryInv'
  <2>1. SocketOrder'
    BY <1>2 DEF ConnectOver, RegistryInv, RegistryTypeOK, SocketOrder,
                discVars, Entry
  <2>2. ListedIsInstalled'
    BY <1>2 DEF ConnectOver, RegistryInv, RegistryTypeOK, SocketOrder,
                ListedIsInstalled
  <2>3. FinishedSocketIsUnlisted'
    BY <1>2 DEF ConnectOver, RegistryInv, RegistryTypeOK, Entry, discVars,
                FinishedSocketIsUnlisted
  <2>4. ClosedEntryIsOnItsWayOut'
    BY <1>2 DEF ConnectOver, RegistryInv, RegistryTypeOK, Entry, discVars,
                ClosedEntryIsOnItsWayOut
  <2>5. DeadMeansPinged'
    <3>1. ~ (Entry(s)' = s)
      BY <1>2 DEF ConnectOver, RegistryInv, RegistryTypeOK, SocketOrder,
                  ListedIsInstalled, Entry
    <3>2. \A t \in Sockets : wire'[t] = "open" /\ t # s => wire[t] = "open"
      BY <1>2 DEF ConnectOver, RegistryInv, RegistryTypeOK, Entry
    <3> QED
      BY <1>2, <3>1, <3>2
         DEF ConnectOver, RegistryInv, DeadMeansPinged, Entry, beatVars
  <2> QED
    BY <1>0, <2>1, <2>2, <2>3, <2>4, <2>5 DEF RegistryInv
<1>3. ASSUME NEW s \in Sockets, ConnectorNumTimeout(s) PROVE RegistryInv'
  <2>1. /\ hs[s] # "installed" /\ disc[s] = "none"
        /\ wire'[s] # "new" /\ wire'[s] = wire[s]
        /\ \A t \in Sockets \ {s} : wire'[t] = wire[t]
    BY <1>3 DEF ConnectorNumTimeout, RegistryInv, RegistryTypeOK, SocketOrder
  <2> QED
    BY <1>0, <1>3, <2>1, InstallInv DEF ConnectorNumTimeout
<1>4. ASSUME NEW s \in Sockets, StationCloses(s) \/ CloseCompletes(s)
      PROVE RegistryInv'
  BY <1>0, <1>4, CloseEventInv DEF StationCloses, CloseCompletes
<1>5. ASSUME NEW s \in Sockets, MarkNext(s) PROVE RegistryInv'
  BY <1>0, <1>5
     DEF MarkNext, RegistryInv, SocketOrder, ListedIsInstalled, Entry,
         FinishedSocketIsUnlisted, ClosedEntryIsOnItsWayOut, DeadMeansPinged,
         sockVars, beatVars
<1>6. ASSUME NEW s \in Sockets, Forget(s) PROVE RegistryInv'
  <2>1. SocketOrder'
    BY <1>6 DEF Forget, RegistryInv, RegistryTypeOK, SocketOrder, sockVars
  <2>2. ListedIsInstalled'
    BY <1>6 DEF Forget, RegistryInv, RegistryTypeOK, ListedIsInstalled, sockVars
  <2>3. FinishedSocketIsUnlisted'
    BY <1>6 DEF Forget, RegistryInv, RegistryTypeOK, Entry,
                FinishedSocketIsUnlisted
  <2>4. ClosedEntryIsOnItsWayOut'
    BY <1>6 DEF Forget, RegistryInv, RegistryTypeOK, Entry, sockVars,
                ClosedEntryIsOnItsWayOut
  <2>5. DeadMeansPinged'
    BY <1>6 DEF Forget, RegistryInv, RegistryTypeOK, Entry, sockVars,
                beatVars, DeadMeansPinged
  <2> QED
    BY <1>0, <2>1, <2>2, <2>3, <2>4, <2>5 DEF RegistryInv
<1>7. ASSUME NEW s \in Sockets, MessageArrives(s) PROVE RegistryInv'
  <2>1. DeadMeansPinged'
    BY <1>7 DEF MessageArrives, RegistryInv, RegistryTypeOK, DeadMeansPinged,
                Entry, sockVars
  <2> QED
    BY <1>0, <1>7, <2>1
       DEF MessageArrives, RegistryInv, SocketOrder, ListedIsInstalled, Entry,
           FinishedSocketIsUnlisted, ClosedEntryIsOnItsWayOut, sockVars,
           discVars
<1>8. ASSUME NEW s \in Sockets, Pong(s) PROVE RegistryInv'
  <2>1. DeadMeansPinged'
    BY <1>8 DEF Pong, RegistryInv, RegistryTypeOK, DeadMeansPinged, Entry,
                sockVars
  <2> QED
    BY <1>0, <1>8, <2>1
       DEF Pong, RegistryInv, SocketOrder, ListedIsInstalled, Entry,
           FinishedSocketIsUnlisted, ClosedEntryIsOnItsWayOut, sockVars,
           discVars
<1>9. ASSUME NEW s \in Sockets, PeerLost(s) PROVE RegistryInv'
  BY <1>0, <1>9
     DEF PeerLost, RegistryInv, SocketOrder, ListedIsInstalled, Entry,
         FinishedSocketIsUnlisted, ClosedEntryIsOnItsWayOut, DeadMeansPinged,
         beatVars, discVars
<1>10. CASE HeartbeatCheck
  BY <1>0, <1>10, HeartbeatInv
<1>11. CASE Crash
  BY <1>0, <1>11
     DEF Crash, RegistryInv, RegistryTypeOK, SocketOrder, ListedIsInstalled,
         Entry, FinishedSocketIsUnlisted, ClosedEntryIsOnItsWayOut,
         DeadMeansPinged
<1>12. CASE UNCHANGED registryVars
  BY <1>0, <1>12
     DEF registryVars, RegistryInv, SocketOrder, ListedIsInstalled, Entry,
         FinishedSocketIsUnlisted, ClosedEntryIsOnItsWayOut, DeadMeansPinged,
         sockVars, beatVars, discVars
<1> QED
  BY <1>1, <1>2, <1>3, <1>4, <1>5, <1>6, <1>7, <1>8, <1>9, <1>10, <1>11, <1>12
     DEF RegistryNext

(* A socket whose disconnection handler has finished is never in the       *)
(* registry again (handleConnection 96, handleDisconnection 914).          *)
THEOREM FinishedSocketStaysUnlisted == RegistrySpec => []FinishedSocketIsUnlisted
<1>1. RegistryInit => RegistryInv
  BY RegistryInvInit
<1>2. RegistryInv /\ [RegistryNext]_registryVars => RegistryInv'
  BY RegistryInvStep
<1>3. RegistryInv => FinishedSocketIsUnlisted
  BY DEF RegistryInv
<1> QED
  BY <1>1, <1>2, <1>3, PTL DEF RegistrySpec

(* An entry with a closed socket is being removed by that socket's own     *)
(* handler, or its close event came before the listeners were attached.    *)
THEOREM ClosedEntryLeavesOrWasDeaf == RegistrySpec => []ClosedEntryIsOnItsWayOut
<1>1. RegistryInit => RegistryInv
  BY RegistryInvInit
<1>2. RegistryInv /\ [RegistryNext]_registryVars => RegistryInv'
  BY RegistryInvStep
<1>3. RegistryInv => ClosedEntryIsOnItsWayOut
  BY DEF RegistryInv
<1> QED
  BY <1>1, <1>2, <1>3, PTL DEF RegistrySpec

(* The heartbeat check terminates an open socket only if a ping to it is   *)
(* unanswered (setupHeartbeatCheck 726-744, handlePong 718-724).           *)
THEOREM HeartbeatIsFair == RegistrySpec => []DeadMeansPinged
<1>1. RegistryInit => RegistryInv
  BY RegistryInvInit
<1>2. RegistryInv /\ [RegistryNext]_registryVars => RegistryInv'
  BY RegistryInvStep
<1>3. RegistryInv => DeadMeansPinged
  BY DEF RegistryInv
<1> QED
  BY <1>1, <1>2, <1>3, PTL DEF RegistrySpec

-----------------------------------------------------------------------------
(* The action property OnlyAnOverlapDisplaces. *)

Displaced(s) ==
    Entry(s) = s /\ wire[s] = "open" /\ ~ping[s]
      /\ Entry(s)' # s /\ crashes' = crashes

Overlap(s) ==
    \E t \in SocketsOf(StationOf[s]) \ {s} :
        \/ disc[t] = "marking" /\ disc'[t] = "done"
        \/ hs[t] = "waiting" /\ Entry(s)' = t

LEMMA DisplacedByOverlap ==
    ASSUME RegistryInv, [RegistryNext]_registryVars,
           NEW s \in Sockets, Displaced(s)
    PROVE  Overlap(s)
<1> USE StationOfAssumption, NoneAssumption
<1> USE DEF Displaced
<1>1. ASSUME NEW t \in Sockets, ConnectFresh(t) PROVE Overlap(s)
  BY <1>1 DEF ConnectFresh, Install, Entry, RegistryInv, RegistryTypeOK
<1>2. ASSUME NEW t \in Sockets, ConnectorNumTimeout(t) PROVE Overlap(s)
  <2>1. StationOf[t] = StationOf[s] /\ Entry(s)' = t /\ t # s
    BY <1>2 DEF ConnectorNumTimeout, Install, Entry, RegistryInv,
                RegistryTypeOK
  <2> QED
    BY <1>2, <2>1 DEF ConnectorNumTimeout, Overlap, SocketsOf
<1>3. ASSUME NEW t \in Sockets, Forget(t) PROVE Overlap(s)
  <2>1. StationOf[t] = StationOf[s]
    BY <1>3 DEF Forget, Entry, RegistryInv, RegistryTypeOK
  <2>2. t # s
    BY <1>3 DEF Forget, RegistryInv, RegistryTypeOK, SocketOrder
  <2>3. disc[t] = "marking" /\ disc'[t] = "done"
    BY <1>3 DEF Forget, RegistryInv, RegistryTypeOK
  <2> QED
    BY <2>1, <2>2, <2>3 DEF Overlap, SocketsOf
<1>4. CASE HeartbeatCheck
  <2>1. StationOf[s] \in Dead
    BY <1>4 DEF HeartbeatCheck, Entry
  <2>2. ping[s]
    BY <2>1 DEF Dead, Listed, Entry, RegistryInv, DeadMeansPinged
  <2> QED
    BY <2>2
<1>5. CASE Crash
  BY <1>5, MaxCrashesAssumption DEF Crash, RegistryInv, RegistryTypeOK
<1>6. ASSUME connections' = connections PROVE Overlap(s)
  BY <1>6 DEF Entry
<1>7. ASSUME NEW t \in Sockets,
             \/ ConnectOver(t) \/ StationCloses(t) \/ CloseCompletes(t)
             \/ MarkNext(t) \/ MessageArrives(t) \/ Pong(t) \/ PeerLost(t)
      PROVE  connections' = connections
  BY <1>7 DEF ConnectOver, StationCloses, CloseCompletes, CloseEvent, MarkNext,
              MessageArrives, Pong, PeerLost
<1>8. CASE UNCHANGED registryVars
  BY <1>6, <1>8 DEF registryVars
<1> QED
  BY <1>1, <1>2, <1>3, <1>4, <1>5, <1>6, <1>7, <1>8 DEF RegistryNext

(* A station loses the entry of an open, responsive connection only when   *)
(* the disconnection handler of another of its sockets ends, or another    *)
(* handshake of it stops waiting.                                          *)
THEOREM DisplacementNeedsOverlap == RegistrySpec => OnlyAnOverlapDisplaces
<1>1. RegistryInit => RegistryInv
  BY RegistryInvInit
<1>2. RegistryInv /\ [RegistryNext]_registryVars => RegistryInv'
  BY RegistryInvStep
<1>3. RegistryInv /\ [RegistryNext]_registryVars
        => \A s \in Sockets : Displaced(s) => Overlap(s)
  BY DisplacedByOverlap
<1>4. RegistryInv /\ [RegistryNext]_registryVars
        => [\A s \in Sockets : Displaced(s) => Overlap(s)]_registryVars
  BY <1>3
<1>5. RegistrySpec => []RegistryInv
  BY <1>1, <1>2, PTL DEF RegistrySpec
<1>6. [][RegistryNext]_registryVars /\ []RegistryInv
        => [][\A s \in Sockets : Displaced(s) => Overlap(s)]_registryVars
  BY <1>4, PTL
<1>7. RegistrySpec
        => [][\A s \in Sockets : Displaced(s) => Overlap(s)]_registryVars
  BY <1>5, <1>6, PTL DEF RegistrySpec
<1> QED
  BY <1>7 DEF OnlyAnOverlapDisplaces, Displaced, Overlap

-----------------------------------------------------------------------------
(* The refinement: every step of the registry lists one socket that was    *)
(* not listed before, unlists some stations, or is a stutter.              *)

Installed == {s \in Sockets : hs[s] = "installed"}

LEMMA ListingInit == RegistryInit => Listing!Init
BY DEF RegistryInit, Listing!Init

LEMMA InstallEnters ==
    ASSUME RegistryInv, NEW s \in Sockets, hs[s] # "installed", Install(s)
    PROVE  Listing!Enter(s)
BY DEF Install, Listing!Enter, RegistryInv, RegistryTypeOK

LEMMA ListingStep ==
    ASSUME RegistryInv, [RegistryNext]_registryVars
    PROVE  [Listing!Next]_(Listing!listingVars)
<1> USE StationOfAssumption
<1>1. ASSUME NEW s \in Sockets, ConnectFresh(s) PROVE Listing!Next
  BY <1>1, InstallEnters
     DEF ConnectFresh, Listing!Next, RegistryInv, SocketOrder
<1>2. ASSUME NEW s \in Sockets, ConnectorNumTimeout(s) PROVE Listing!Next
  BY <1>2, InstallEnters DEF ConnectorNumTimeout, Listing!Next
<1>3. ASSUME NEW s \in Sockets, Forget(s) PROVE Listing!Next
  <2>1. Listing!Leave({StationOf[s]})
    BY <1>3 DEF Forget, Listing!Leave, RegistryInv, RegistryTypeOK, sockVars
  <2> QED
    BY <2>1 DEF Listing!Next
<1>4. CASE HeartbeatCheck
  <2>1. Listing!Leave(Dead)
    BY <1>4 DEF HeartbeatCheck, Listing!Leave
  <2> QED
    BY <2>1 DEF Listing!Next, Dead, Listed
<1>5. CASE Crash
  <2>1. Listing!Leave(ChargePoints)
    BY <1>5 DEF Crash, Listing!Leave, RegistryInv, RegistryTypeOK
  <2> QED
    BY <2>1 DEF Listing!Next
<1>6. ASSUME NEW s \in Sockets, ConnectOver(s)
      PROVE  UNCHANGED <<connections, Installed>>
  BY <1>6 DEF ConnectOver, Installed, RegistryInv, RegistryTypeOK, SocketOrder
<1>7. ASSUME NEW s \in Sockets,
             \/ StationCloses(s) \/ CloseCompletes(s) \/ MarkNext(s)
             \/ MessageArrives(s) \/ Pong(s) \/ PeerLost(s)
      PROVE  UNCHANGED <<connections, hs>>
  BY <1>7 DEF StationCloses, CloseCompletes, CloseEvent, MarkNext,
              MessageArrives, Pong, PeerLost, sockVars
<1>8. CASE UNCHANGED registryVars
  BY <1>8 DEF registryVars, sockVars, Listing!listingVars
<1>9. UNCHANGED <<connections, hs>> => UNCHANGED <<connections, Installed>>
  BY DEF Installed
<1>10. UNCHANGED <<connections, Installed>> => UNCHANGED Listing!listingVars
  BY DEF Installed, Listing!listingVars
<1> QED
  BY <1>1, <1>2, <1>3, <1>4, <1>5, <1>6, <1>7, <1>8, <1>9, <1>10
     DEF RegistryNext

(* The registry implements StationListing: no interleaving of handshakes,  *)
(* disconnections, heartbeat checks and crashes lists a socket twice.      *)
THEOREM RegistryImplementsListing == RegistrySpec => ListingSpec
<1>1. RegistryInit => RegistryInv
  BY RegistryInvInit
<1>2. RegistryInv /\ [RegistryNext]_registryVars => RegistryInv'
  BY RegistryInvStep
<1>3. RegistryInit => Listing!Init
  BY ListingInit
<1>4. RegistryInv /\ [RegistryNext]_registryVars
        => [Listing!Next]_(Listing!listingVars)
  BY ListingStep
<1> QED
  BY <1>1, <1>2, <1>3, <1>4, PTL DEF RegistrySpec, ListingSpec, Listing!Spec
=============================================================================
