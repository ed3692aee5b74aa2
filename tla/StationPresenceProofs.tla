------------------------ MODULE StationPresenceProofs ------------------------
(***************************************************************************)
(* Theorems about StationPresence, for any stations and sockets, writes    *)
(* that fail or land in any order, and any number of crashes.              *)
(***************************************************************************)
EXTENDS StationPresence, ConnectionRegistryProofs

PresenceTypeOK ==
    /\ reg \in [Sockets -> {"none", "db", "redis", "done", "failed"}]
    /\ unreg \in [Sockets -> {"none", "db", "redis", "done", "failed"}]
    /\ isOnline \in [ChargePoints -> BOOLEAN]
    /\ connKey \in [ChargePoints -> BOOLEAN]
    /\ status \in [ChargePoints -> [Connectors -> {"unavailable", "reported"}]]
    /\ msg \in [Sockets -> {"none", "handling", "syncing"}]
    /\ msgCursor \in [Sockets -> Connectors]

(* A disconnection handler runs only for a socket that had listeners, and  *)
(* an unregister only after the whole handler.                             *)
HandlersAreHeard ==
    \A s \in Sockets : /\ disc[s] # "none" => listening[s]
                       /\ unreg[s] # "none" => disc[s] = "done"

(* The inductive invariant. *)
PresenceInv ==
    /\ RegistryInv
    /\ PresenceTypeOK
    /\ HandlersAreHeard
    /\ OfflineOnlyByUnregister

-----------------------------------------------------------------------------
(* Presence implements the registry: every step is one of the registry or  *)
(* leaves it alone.                                                        *)
LEMMA PresenceRefines == [Next]_vars => [RegistryNext]_registryVars
<1> SUFFICES ASSUME [Next]_vars PROVE [RegistryNext]_registryVars
  OBVIOUS
<1>1. ASSUME NEW s \in Sockets, AcceptFresh(s) \/ AcceptLate(s)
      PROVE  RegistryNext
  BY <1>1 DEF AcceptFresh, AcceptLate, RegistryNext
<1>2. ASSUME NEW s \in Sockets, ClosedByStation(s) \/ ClosedByServer(s)
      PROVE  RegistryNext
  BY <1>2 DEF ClosedByStation, ClosedByServer, RegistryNext
<1>3. ASSUME NEW s \in Sockets, MarkUnavailable(s) \/ ForgetAndUnregister(s)
      PROVE  RegistryNext
  BY <1>3 DEF MarkUnavailable, ForgetAndUnregister, RegistryNext
<1>4. ASSUME NEW s \in Sockets, MessageReceived(s)
      PROVE  RegistryNext
  BY <1>4 DEF MessageReceived, RegistryNext
<1>5. ASSUME NEW s \in Sockets, RegisterChargePoint(s) \/ UnregisterChargePoint(s)
                                \/ MessageHandled(s) \/ SyncConnector(s)
      PROVE  UNCHANGED registryVars
  BY <1>5 DEF RegisterChargePoint, UnregisterChargePoint, MessageHandled,
     SyncConnector
<1>6. ASSUME NEW c \in ChargePoints, KeyExpires(c)
      PROVE  UNCHANGED registryVars
  BY <1>6 DEF KeyExpires
<1>7. CASE RegistryOnly
  BY <1>7 DEF RegistryOnly, RegistryNext
<1>8. CASE CrashAndRestart
  BY <1>8 DEF CrashAndRestart, RegistryNext
<1>9. CASE UNCHANGED vars
  BY <1>9 DEF vars
<1> QED
  BY <1>1, <1>2, <1>3, <1>4, <1>5, <1>6, <1>7, <1>8, <1>9 DEF Next

(* StationPresence only adds to ConnectionRegistry: what the registry      *)
(* promises holds with its database and redis writes too.                  *)
THEOREM PresenceImplementsRegistry == Spec => RegistrySpec
<1>1. Init => RegistryInit
  BY DEF Init
<1> QED
  BY <1>1, PresenceRefines, PTL DEF Spec, RegistrySpec

-----------------------------------------------------------------------------
LEMMA PresenceInvInit == Init => PresenceInv
BY RegistryInvInit, NumConnectorsAssumption
   DEF Init, RegistryInit, PresenceInv, PresenceTypeOK, HandlersAreHeard,
       OfflineOnlyByUnregister, Connectors

(* Without a crash, a socket that closed with listeners stays so, and a    *)
(* disconnection that is over stays over.                                  *)
LEMMA ClosedStaysClosed ==
    ASSUME RegistryInv, [RegistryNext]_registryVars, ~Crash, NEW s \in Sockets,
           listening[s], wire[s] = "closed"
    PROVE  /\ listening'[s] /\ wire'[s] = "closed"
           /\ disc[s] = "done" => disc'[s] = "done"
<1>0. hs[s] = "installed" /\ RegistryTypeOK
  BY DEF RegistryInv, SocketOrder
<1>1. ASSUME NEW t \in Sockets, ConnectFresh(t) \/ ConnectorNumTimeout(t)
      PROVE  UNCHANGED <<listening[s], wire[s], disc[s]>>
  <2>1. t # s
    BY <1>0, <1>1 DEF ConnectFresh, ConnectorNumTimeout
  <2> QED
    BY <1>0, <1>1, <2>1 DEF ConnectFresh, ConnectorNumTimeout, Install,
       RegistryTypeOK, discVars
<1>2. ASSUME NEW t \in Sockets, ConnectOver(t)
      PROVE  UNCHANGED <<listening[s], wire[s], disc[s]>>
  BY <1>0, <1>2 DEF ConnectOver, RegistryTypeOK, discVars
<1>3. ASSUME NEW t \in Sockets, StationCloses(t) \/ CloseCompletes(t)
      PROVE  UNCHANGED <<listening[s], wire[s], disc[s]>>
  <2>1. t # s
    BY <1>3 DEF StationCloses, CloseCompletes
  <2> QED
    BY <1>0, <1>3, <2>1 DEF StationCloses, CloseCompletes, CloseEvent,
       RegistryTypeOK
<1>4. ASSUME NEW t \in Sockets, Forget(t)
      PROVE  /\ UNCHANGED <<listening[s], wire[s]>>
             /\ disc[s] = "done" => disc'[s] = "done"
  BY <1>0, <1>4 DEF Forget, RegistryTypeOK, sockVars
<1>5. ASSUME NEW t \in Sockets, MarkNext(t) \/ MessageArrives(t) \/ Pong(t)
                                \/ PeerLost(t)
      PROVE  UNCHANGED <<listening[s], wire[s], disc[s]>>
  BY <1>5 DEF MarkNext, MessageArrives, Pong, PeerLost, sockVars, discVars
<1>6. CASE HeartbeatCheck
  BY <1>0, <1>6 DEF HeartbeatCheck, discVars
<1>7. CASE UNCHANGED registryVars
  BY <1>7 DEF registryVars, sockVars, discVars
<1> QED
  BY <1>1, <1>2, <1>3, <1>4, <1>5, <1>6, <1>7 DEF RegistryNext

(* A disconnection begins for a socket with listeners. *)
LEMMA DisconnectionsAreHeard ==
    ASSUME RegistryInv, HandlersAreHeard, [RegistryNext]_registryVars,
           NEW s \in Sockets, disc'[s] # "none"
    PROVE  listening'[s]
<1>0. RegistryTypeOK /\ (disc[s] # "none" => wire[s] = "closed" /\ listening[s])
  BY DEF RegistryInv, SocketOrder, HandlersAreHeard
<1>1. ~Crash
  BY DEF Crash
<1>2. CASE disc[s] # "none"
  BY <1>0, <1>1, <1>2, ClosedStaysClosed
<1>3. CASE disc[s] = "none"
  <2>1. ASSUME NEW t \in Sockets, StationCloses(t) \/ CloseCompletes(t)
        PROVE  listening'[s]
    BY <1>0, <1>3, <2>1 DEF StationCloses, CloseCompletes, CloseEvent,
       RegistryTypeOK
  <2>2. ASSUME NEW t \in Sockets,
               \/ ConnectFresh(t) \/ ConnectOver(t) \/ ConnectorNumTimeout(t)
               \/ MarkNext(t) \/ MessageArrives(t) \/ Pong(t) \/ PeerLost(t)
        PROVE  FALSE
    BY <1>3, <2>2 DEF ConnectFresh, ConnectOver, ConnectorNumTimeout, Install,
       MarkNext, MessageArrives, Pong, PeerLost, discVars
  <2>3. ASSUME NEW t \in Sockets, Forget(t)
        PROVE  FALSE
    BY <1>0, <1>3, <2>3 DEF Forget, RegistryTypeOK
  <2>4. ~HeartbeatCheck /\ ~UNCHANGED registryVars
    BY <1>3 DEF HeartbeatCheck, registryVars, discVars
  <2> QED
    BY <1>1, <2>1, <2>2, <2>3, <2>4 DEF RegistryNext
<1> QED
  BY <1>2, <1>3

-----------------------------------------------------------------------------
(* An unregister that took effect. *)
Landed(t) == unreg[t] \in {"redis", "done"}

(* A step of presence that is no crash: unregisters that took effect stay, *)
(* and it excuses the stations it makes offline.                           *)
LEMMA OfflineStep ==
    ASSUME PresenceInv, [RegistryNext]_registryVars, ~Crash,
           \A t \in Sockets : Landed(t) => Landed(t)',
           \A s \in Sockets :
             reg'[s] \in {"redis", "done"} /\ ~isOnline'[StationOf[s]]
               => \/ reg[s] \in {"redis", "done"} /\ ~isOnline[StationOf[s]]
                  \/ \E t \in SocketsOf(StationOf[s]) : Landed(t)' /\ unreg[t] # "none"
    PROVE  OfflineOnlyByUnregister'
<1> SUFFICES ASSUME NEW s \in Sockets, reg'[s] \in {"redis", "done"},
                    ~isOnline'[StationOf[s]]
             PROVE  \E t \in SocketsOf(StationOf[s]) :
                      Landed(t)' /\ wire'[t] = "closed" /\ listening'[t]
  BY DEF OfflineOnlyByUnregister, Landed
<1>1. \E t \in SocketsOf(StationOf[s]) :
        Landed(t)' /\ wire[t] = "closed" /\ listening[t]
  <2>1. CASE reg[s] \in {"redis", "done"} /\ ~isOnline[StationOf[s]]
    BY <2>1 DEF PresenceInv, OfflineOnlyByUnregister, SocketsOf, Landed
  <2>2. CASE \E t \in SocketsOf(StationOf[s]) : Landed(t)' /\ unreg[t] # "none"
    BY <2>2 DEF PresenceInv, HandlersAreHeard, RegistryInv, SocketOrder, SocketsOf
  <2> QED
    BY <2>1, <2>2
<1>2. PICK t \in SocketsOf(StationOf[s]) :
        Landed(t)' /\ wire[t] = "closed" /\ listening[t]
  BY <1>1
<1>3. wire'[t] = "closed" /\ listening'[t]
  BY <1>2, ClosedStaysClosed DEF PresenceInv, SocketsOf
<1> QED
  BY <1>2, <1>3

(* The same for the order of the handlers. *)
LEMMA HeardStep ==
    ASSUME PresenceInv, [RegistryNext]_registryVars,
           \A t \in Sockets : unreg'[t] # "none" =>
             \/ disc'[t] = "done"
             \/ unreg[t] # "none" /\ ~Crash
    PROVE  HandlersAreHeard'
<1> SUFFICES ASSUME NEW t \in Sockets
             PROVE  /\ disc'[t] # "none" => listening'[t]
                    /\ unreg'[t] # "none" => disc'[t] = "done"
  BY DEF HandlersAreHeard
<1>1. disc'[t] # "none" => listening'[t]
  BY DisconnectionsAreHeard DEF PresenceInv
<1>2. CASE unreg[t] # "none" /\ ~Crash
  <2>1. disc[t] = "done" /\ wire[t] = "closed" /\ listening[t]
    BY <1>2 DEF PresenceInv, HandlersAreHeard, RegistryInv, SocketOrder
  <2> QED
    BY <1>1, <1>2, <2>1, ClosedStaysClosed DEF PresenceInv
<1> QED
  BY <1>1, <1>2

(* Steps that leave the two flags and the unregisters alone. *)
LEMMA QuietStep ==
    ASSUME PresenceInv, [RegistryNext]_registryVars, ~Crash, RegistryInv',
           PresenceTypeOK', UNCHANGED <<unreg, isOnline>>,
           \A s \in Sockets :
             reg'[s] \in {"redis", "done"} => reg[s] \in {"redis", "done"}
    PROVE  PresenceInv'
<1>1. HandlersAreHeard'
  BY HeardStep
<1>2. OfflineOnlyByUnregister'
  BY OfflineStep DEF Landed
<1> QED
  BY <1>1, <1>2 DEF PresenceInv

(* A disconnection handler that ends starts its unregister. *)
LEMMA UnregisterBegins ==
    ASSUME PresenceInv, [RegistryNext]_registryVars, ~Crash, RegistryInv',
           NEW s \in Sockets, disc[s] # "done", disc'[s] = "done",
           StartUnregister(s)
    PROVE  PresenceInv'
<1>1. PresenceTypeOK'
  BY DEF StartUnregister, messageVars, PresenceInv, PresenceTypeOK
<1>2. unreg[s] = "none"
  BY DEF PresenceInv, HandlersAreHeard
<1>3. /\ unreg'[s] = "db" /\ \A t \in Sockets \ {s} : unreg'[t] = unreg[t]
      /\ UNCHANGED <<reg, isOnline>>
  BY DEF StartUnregister, PresenceInv, PresenceTypeOK
<1>4. HandlersAreHeard'
  BY <1>3, HeardStep
<1>5. \A t \in Sockets : Landed(t) => Landed(t)'
  BY <1>2, <1>3 DEF Landed
<1>6. OfflineOnlyByUnregister'
  BY <1>3, <1>5, OfflineStep
<1> QED
  BY <1>1, <1>4, <1>6 DEF PresenceInv

(* What a crash changes, no other step does. *)
LEMMA NotACrash ==
    ASSUME PresenceInv, UNCHANGED crashes
    PROVE  ~Crash
BY MaxCrashesAssumption DEF PresenceInv, RegistryInv, RegistryTypeOK, Crash

(* A write of registerChargePoint or of unregisterChargePoint lands. *)
LEMMA RegisterInv ==
    ASSUME PresenceInv, NEW s \in Sockets, RegisterChargePoint(s)
    PROVE  PresenceInv'
<1>0. /\ UNCHANGED registryVars /\ UNCHANGED <<unreg, status, messageVars>>
      /\ StationOf[s] \in ChargePoints /\ PresenceTypeOK /\ BOOLEAN = {TRUE, FALSE}
      /\ DbOutcomes \subseteq BOOLEAN
  BY StationOfAssumption, DbOutcomesAssumption
     DEF RegisterChargePoint, PresenceInv
<1>1. PresenceTypeOK'
  <2>1. isOnline' \in [ChargePoints -> BOOLEAN] /\ connKey' \in [ChargePoints -> BOOLEAN]
    BY <1>0 DEF RegisterChargePoint, PresenceTypeOK
  <2>2. reg' \in [Sockets -> {"none", "db", "redis", "done", "failed"}]
    BY <1>0 DEF RegisterChargePoint, PresenceTypeOK
  <2> QED
    BY <1>0, <2>1, <2>2 DEF messageVars, PresenceTypeOK
<1>2. ~Crash
  BY <1>0, NotACrash DEF registryVars
<1>3. HandlersAreHeard'
  BY <1>0, <1>2, HeardStep
<1>4. ASSUME NEW t \in Sockets, reg'[t] \in {"redis", "done"},
             ~isOnline'[StationOf[t]]
      PROVE  reg[t] \in {"redis", "done"} /\ ~isOnline[StationOf[t]]
  <2>0. StationOf[t] \in ChargePoints
    BY StationOfAssumption
  <2>1. CASE reg[s] = "db"
    <3>1. PICK ok \in DbOutcomes :
            /\ isOnline' = [isOnline EXCEPT ![StationOf[s]] = ok \/ @]
            /\ reg' = [reg EXCEPT ![s] = IF ok THEN "redis" ELSE "failed"]
      BY <2>1 DEF RegisterChargePoint
    <3>2. CASE ok
      <4>1. t # s
        BY <1>0, <1>4, <3>1, <3>2 DEF PresenceTypeOK
      <4> QED
        BY <1>0, <1>4, <2>0, <3>1, <3>2, <4>1 DEF PresenceTypeOK
    <3>3. CASE ~ok
      <4>1. t # s
        BY <1>0, <1>4, <3>1, <3>3 DEF PresenceTypeOK
      <4> QED
        BY <1>0, <1>4, <2>0, <3>1, <3>3, <4>1 DEF PresenceTypeOK
    <3> QED
      BY <3>2, <3>3
  <2>2. CASE reg[s] = "redis"
    BY <1>0, <1>4, <2>2 DEF RegisterChargePoint, PresenceTypeOK
  <2> QED
    BY <2>1, <2>2 DEF RegisterChargePoint
<1>5. OfflineOnlyByUnregister'
  BY <1>0, <1>2, <1>4, OfflineStep DEF Landed
<1>6. RegistryInv'
  BY <1>0, RegistryInvStep DEF PresenceInv
<1> QED
  BY <1>1, <1>3, <1>5, <1>6 DEF PresenceInv

LEMMA UnregisterInv ==
    ASSUME PresenceInv, NEW s \in Sockets, UnregisterChargePoint(s)
    PROVE  PresenceInv'
<1>0. /\ UNCHANGED registryVars /\ UNCHANGED <<reg, status, messageVars>>
      /\ StationOf[s] \in ChargePoints /\ PresenceTypeOK /\ BOOLEAN = {TRUE, FALSE}
      /\ DbOutcomes \subseteq BOOLEAN
  BY StationOfAssumption, DbOutcomesAssumption
     DEF UnregisterChargePoint, PresenceInv
<1>1. PresenceTypeOK'
  <2>1. isOnline' \in [ChargePoints -> BOOLEAN] /\ connKey' \in [ChargePoints -> BOOLEAN]
    BY <1>0 DEF UnregisterChargePoint, PresenceTypeOK
  <2>2. unreg' \in [Sockets -> {"none", "db", "redis", "done", "failed"}]
    BY <1>0 DEF UnregisterChargePoint, PresenceTypeOK
  <2> QED
    BY <1>0, <2>1, <2>2 DEF messageVars, PresenceTypeOK
<1>2. ~Crash
  BY <1>0, NotACrash DEF registryVars
<1>3. /\ unreg[s] # "none"
      /\ \A t \in Sockets \ {s} : unreg'[t] = unreg[t]
      /\ Landed(s) => Landed(s)'
  BY <1>0 DEF UnregisterChargePoint, PresenceTypeOK, Landed
<1>4. HandlersAreHeard'
  BY <1>0, <1>2, <1>3, HeardStep
<1>5. ASSUME NEW t \in Sockets, reg'[t] \in {"redis", "done"},
             ~isOnline'[StationOf[t]], isOnline[StationOf[t]]
      PROVE  StationOf[s] = StationOf[t] /\ Landed(s)'
  <2>0. StationOf[t] \in ChargePoints
    BY StationOfAssumption
  <2>1. CASE unreg[s] = "db"
    <3>1. PICK ok \in DbOutcomes :
            /\ isOnline' = [isOnline EXCEPT ![StationOf[s]] = ~ok /\ @]
            /\ unreg' = [unreg EXCEPT ![s] = IF ok THEN "redis" ELSE "failed"]
      BY <2>1 DEF UnregisterChargePoint
    <3>2. StationOf[t] = StationOf[s]
      BY <1>0, <1>5, <2>0, <3>1 DEF PresenceTypeOK
    <3>3. CASE ok
      BY <1>0, <3>1, <3>2, <3>3 DEF PresenceTypeOK, Landed
    <3>4. CASE ~ok
      <4>1. isOnline'[StationOf[t]] = isOnline[StationOf[t]]
        BY <1>0, <2>0, <3>1, <3>2, <3>4 DEF PresenceTypeOK
      <4> QED
        BY <1>5, <4>1
    <3> QED
      BY <3>3, <3>4
  <2>2. CASE unreg[s] = "redis"
    BY <1>5, <2>2 DEF UnregisterChargePoint
  <2> QED
    BY <2>1, <2>2 DEF UnregisterChargePoint
<1>6. ASSUME NEW t \in Sockets, reg'[t] \in {"redis", "done"},
             ~isOnline'[StationOf[t]]
      PROVE  \/ reg[t] \in {"redis", "done"} /\ ~isOnline[StationOf[t]]
             \/ \E u \in SocketsOf(StationOf[t]) : Landed(u)' /\ unreg[u] # "none"
  <2>1. CASE isOnline[StationOf[t]]
    <3>1. s \in SocketsOf(StationOf[t]) /\ Landed(s)' /\ unreg[s] # "none"
      BY <1>3, <1>5, <1>6, <2>1 DEF SocketsOf
    <3> QED
      BY <3>1
  <2>2. CASE ~isOnline[StationOf[t]]
    BY <1>0, <1>6, <2>2
  <2> QED
    BY <2>1, <2>2
<1>7. \A t \in Sockets : Landed(t) => Landed(t)'
  BY <1>3 DEF Landed
<1>8. OfflineOnlyByUnregister'
  BY <1>0, <1>2, <1>6, <1>7, OfflineStep
<1>9. RegistryInv'
  BY <1>0, RegistryInvStep DEF PresenceInv
<1> QED
  BY <1>1, <1>4, <1>8, <1>9 DEF PresenceInv

(* The write of a message's handler returns: it can only set online. *)
LEMMA MessageHandledInv ==
    ASSUME PresenceInv, NEW s \in Sockets, MessageHandled(s)
    PROVE  PresenceInv'
<1>0. /\ UNCHANGED registryVars /\ UNCHANGED <<reg, unreg, connKey, status>>
      /\ PresenceTypeOK /\ StationOf[s] \in ChargePoints /\ 1 \in Connectors
  BY StationOfAssumption, NumConnectorsAssumption
     DEF MessageHandled, PresenceInv, Connectors
<1>1. PICK online \in BOOLEAN :
        isOnline' = [isOnline EXCEPT ![StationOf[s]] = online \/ @]
  BY DEF MessageHandled
<1>2. PresenceTypeOK'
  <2>1. isOnline' \in [ChargePoints -> BOOLEAN]
    BY <1>0, <1>1 DEF PresenceTypeOK
  <2>2. /\ msg' \in [Sockets -> {"none", "handling", "syncing"}]
        /\ msgCursor' \in [Sockets -> Connectors]
    BY <1>0 DEF MessageHandled, PresenceTypeOK
  <2> QED
    BY <1>0, <2>1, <2>2 DEF PresenceTypeOK
<1>3. ~Crash
  BY <1>0, NotACrash DEF registryVars
<1>4. HandlersAreHeard'
  BY <1>0, <1>3, HeardStep
<1>5. ASSUME NEW t \in Sockets, ~isOnline'[StationOf[t]]
      PROVE  ~isOnline[StationOf[t]]
  <2>1. StationOf[t] \in ChargePoints
    BY StationOfAssumption
  <2> QED
    BY <1>0, <1>1, <1>5, <2>1 DEF PresenceTypeOK
<1>6. OfflineOnlyByUnregister'
  BY <1>0, <1>3, <1>5, OfflineStep DEF Landed
<1>7. RegistryInv'
  BY <1>0, RegistryInvStep DEF PresenceInv
<1> QED
  BY <1>2, <1>4, <1>6, <1>7 DEF PresenceInv

-----------------------------------------------------------------------------
(* One step of presence preserves the invariant. *)
LEMMA PresenceInvStep ==
    ASSUME PresenceInv, [Next]_vars
    PROVE  PresenceInv'
<1>0. [RegistryNext]_registryVars /\ RegistryInv' /\ PresenceTypeOK
  BY PresenceRefines, RegistryInvStep DEF PresenceInv
<1>1. ASSUME NEW s \in Sockets, AcceptFresh(s) \/ AcceptLate(s)
      PROVE  PresenceInv'
  <2>1. UNCHANGED crashes /\ StartRegister(s)
    BY <1>1 DEF AcceptFresh, AcceptLate, ConnectFresh, ConnectorNumTimeout, Install
  <2>2. PresenceTypeOK'
    BY <1>0, <2>1 DEF StartRegister, messageVars, PresenceTypeOK
  <2>3. \A t \in Sockets :
          reg'[t] \in {"redis", "done"} => reg[t] \in {"redis", "done"}
    BY <1>0, <2>1 DEF StartRegister, PresenceTypeOK
  <2> QED
    BY <1>0, <2>1, <2>2, <2>3, NotACrash, QuietStep DEF StartRegister
<1>2. ASSUME NEW s \in Sockets, ClosedByStation(s) \/ ClosedByServer(s)
      PROVE  PresenceInv'
  <2>1. CloseHandled(s) /\ UNCHANGED crashes
    BY <1>2 DEF ClosedByStation, ClosedByServer, StationCloses, CloseCompletes,
       CloseEvent
  <2>2. CASE disc'[s] = "done" /\ disc[s] # "done"
    BY <1>0, <2>1, <2>2, NotACrash, UnregisterBegins DEF CloseHandled
  <2>3. CASE ~(disc'[s] = "done" /\ disc[s] # "done")
    <3>1. UNCHANGED <<presenceVars, status, messageVars>>
      BY <2>1, <2>3 DEF CloseHandled
    <3>2. UNCHANGED <<reg, unreg, isOnline>> /\ PresenceTypeOK'
      BY <1>0, <3>1 DEF presenceVars, messageVars, PresenceTypeOK
    <3> QED
      BY <1>0, <2>1, <3>2, NotACrash, QuietStep
  <2> QED
    BY <2>2, <2>3
<1>3. ASSUME NEW s \in Sockets, ForgetAndUnregister(s)
      PROVE  PresenceInv'
  <2>1. /\ disc[s] = "marking" /\ disc' = [disc EXCEPT ![s] = "done"]
        /\ StartUnregister(s) /\ UNCHANGED crashes
    BY <1>3 DEF ForgetAndUnregister, Forget
  <2>2. disc[s] # "done" /\ disc'[s] = "done"
    BY <2>1 DEF PresenceInv, RegistryInv, RegistryTypeOK
  <2> QED
    BY <1>0, <2>1, <2>2, NotACrash, UnregisterBegins
<1>4. ASSUME NEW s \in Sockets, MarkUnavailable(s)
      PROVE  PresenceInv'
  <2>1. /\ UNCHANGED <<presenceVars, messageVars>> /\ UNCHANGED crashes
        /\ cursor[s] \in Connectors
        /\ \E ok \in DbOutcomes :
             status' = IF ok
                       THEN [status EXCEPT ![StationOf[s]][cursor[s]] = "unavailable"]
                       ELSE status
    BY <1>4 DEF MarkUnavailable, MarkNext
  <2>2. status' \in [ChargePoints -> [Connectors -> {"unavailable", "reported"}]]
    BY <1>0, <2>1, StationOfAssumption DEF PresenceTypeOK
  <2>3. UNCHANGED <<reg, unreg, isOnline>> /\ PresenceTypeOK'
    BY <1>0, <2>1, <2>2 DEF presenceVars, messageVars, PresenceTypeOK
  <2> QED
    BY <1>0, <2>1, <2>3, NotACrash, QuietStep
<1>5. ASSUME NEW s \in Sockets, MessageReceived(s)
      PROVE  PresenceInv'
  <2>1. UNCHANGED <<reg, unreg, isOnline>> /\ UNCHANGED crashes
    BY <1>5 DEF MessageReceived, MessageArrives, presenceVars
  <2>2. PresenceTypeOK'
    BY <1>0, <1>5 DEF MessageReceived, presenceVars, PresenceTypeOK
  <2> QED
    BY <1>0, <2>1, <2>2, NotACrash, QuietStep
<1>6. ASSUME NEW s \in Sockets, SyncConnector(s)
      PROVE  PresenceInv'
  <2>1. /\ UNCHANGED <<reg, unreg, isOnline, connKey>> /\ UNCHANGED crashes
        /\ msgCursor[s] \in Connectors /\ StationOf[s] \in ChargePoints
    BY <1>0, <1>6, StationOfAssumption
       DEF SyncConnector, presenceVars, registryVars, PresenceTypeOK
  <2>2. status' \in [ChargePoints -> [Connectors -> {"unavailable", "reported"}]]
    BY <1>0, <1>6, <2>1 DEF SyncConnector, PresenceTypeOK
  <2>3. /\ msg' \in [Sockets -> {"none", "handling", "syncing"}]
        /\ msgCursor' \in [Sockets -> Connectors]
    <3>1. PICK ok \in DbOutcomes :
            IF ok /\ msgCursor[s] < NumConnectors
            THEN msgCursor' = [msgCursor EXCEPT ![s] = @ + 1] /\ UNCHANGED msg
            ELSE msg' = [msg EXCEPT ![s] = "none"] /\ UNCHANGED msgCursor
      BY <1>6 DEF SyncConnector
    <3>2. CASE ok /\ msgCursor[s] < NumConnectors
      <4>1. msgCursor[s] + 1 \in Connectors
        BY <2>1, <3>2, NumConnectorsAssumption DEF Connectors
      <4> QED
        BY <1>0, <3>1, <3>2, <4>1 DEF PresenceTypeOK
    <3>3. CASE ~(ok /\ msgCursor[s] < NumConnectors)
      BY <1>0, <3>1, <3>3 DEF PresenceTypeOK
    <3> QED
      BY <3>2, <3>3
  <2>4. PresenceTypeOK'
    BY <1>0, <2>1, <2>2, <2>3 DEF PresenceTypeOK
  <2> QED
    BY <1>0, <2>1, <2>4, NotACrash, QuietStep
<1>7. ASSUME NEW c \in ChargePoints, KeyExpires(c)
      PROVE  PresenceInv'
  <2>1. UNCHANGED <<reg, unreg, isOnline>> /\ UNCHANGED crashes
    BY <1>7 DEF KeyExpires, registryVars
  <2>2. PresenceTypeOK'
    BY <1>0, <1>7 DEF KeyExpires, messageVars, PresenceTypeOK
  <2> QED
    BY <1>0, <2>1, <2>2, NotACrash, QuietStep
<1>8. CASE RegistryOnly
  <2>1. UNCHANGED crashes
    BY <1>8 DEF RegistryOnly, ConnectOver, Pong, PeerLost, HeartbeatCheck
  <2>2. UNCHANGED <<reg, unreg, isOnline>> /\ PresenceTypeOK'
    BY <1>0, <1>8 DEF RegistryOnly, presenceVars, messageVars, PresenceTypeOK
  <2> QED
    BY <1>0, <2>1, <2>2, NotACrash, QuietStep
<1>9. CASE CrashAndRestart
  <2>1. PresenceTypeOK'
    BY <1>0, <1>9, NumConnectorsAssumption
       DEF CrashAndRestart, PresenceTypeOK, Connectors
  <2>2. \A s \in Sockets : reg'[s] = "none" /\ unreg'[s] = "none"
    BY <1>9 DEF CrashAndRestart
  <2>3. HandlersAreHeard'
    BY <1>0, <2>2, HeardStep
  <2>4. OfflineOnlyByUnregister'
    BY <2>2 DEF OfflineOnlyByUnregister
  <2> QED
    BY <1>0, <2>1, <2>3, <2>4 DEF PresenceInv
<1>10. CASE UNCHANGED vars
  <2>1. UNCHANGED <<reg, unreg, isOnline>> /\ UNCHANGED crashes
    BY <1>10 DEF vars, presenceVars, registryVars
  <2>2. PresenceTypeOK'
    BY <1>0, <1>10 DEF vars, presenceVars, messageVars, PresenceTypeOK
  <2> QED
    BY <1>0, <2>1, <2>2, NotACrash, QuietStep
<1> QED
  BY <1>1, <1>2, <1>3, <1>4, <1>5, <1>6, <1>7, <1>8, <1>9, <1>10, RegisterInv,
     UnregisterInv, MessageHandledInv DEF Next

-----------------------------------------------------------------------------
(* The invariant holds in every state, whichever writes fail and whenever  *)
(* the process dies.                                                       *)
THEOREM PresenceInvariant == Spec => []PresenceInv
BY PresenceInvInit, PresenceInvStep, PTL DEF Spec

(* Handlers only ever write rows of connectors the station has, and their  *)
(* progress stays within its stages: the loop of updateRealTimeData never  *)
(* passes the last connector.                                              *)
THEOREM PresenceTypes == Spec => []TypeOK
<1>1. PresenceInv => TypeOK
  BY DEF PresenceInv, PresenceTypeOK, RegistryInv, TypeOK
<1> QED
  BY <1>1, PresenceInvariant, PTL

(* A registered station is shown offline only because the disconnection of *)
(* one of its own, closed sockets wrote that: unregisterChargePoint, which *)
(* does not ask which socket is registered now, is the only culprit.       *)
THEOREM StationsGoOfflineByUnregister == Spec => []OfflineOnlyByUnregister
<1>1. PresenceInv => OfflineOnlyByUnregister
  BY DEF PresenceInv
<1> QED
  BY <1>1, PresenceInvariant, PTL

=============================================================================
