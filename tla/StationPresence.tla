-------------------------- MODULE StationPresence --------------------------
(***************************************************************************)
(* What the connection handlers leave in the database and in redis: the    *)
(* isOnline flag of the charge point, the status rows of its connectors    *)
(* and the presence key.  The handlers are those of ConnectionRegistry;    *)
(* every action below is one of its actions together with the writes of    *)
(* the code it stands for, or the completion of a write that the handler   *)
(* left behind without awaiting it.                                        *)
(***************************************************************************)
EXTENDS ConnectionRegistry

CONSTANTS
    DbOutcomes,  \* outcomes of a database write: {TRUE} or BOOLEAN
    Talkers      \* bound: the sockets on which the station sends messages

ASSUME TalkersAssumption == Talkers \subseteq Sockets
ASSUME DbOutcomesAssumption == DbOutcomes \in {{TRUE}, BOOLEAN}

VARIABLES
    reg,        \* socket -> progress of its registerChargePoint
    unreg,      \* socket -> progress of its unregisterChargePoint
    isOnline,   \* charge point -> ChargePoint.isOnline
    connKey,    \* charge point -> redis holds `connection:<id>`
    status,     \* charge point -> connector -> its status row
    msg,        \* socket -> progress of the message it delivered last
    msgCursor   \* socket -> next connector that updateRealTimeData syncs

presenceVars == <<reg, unreg, isOnline, connKey>>
messageVars == <<msg, msgCursor>>
vars == <<registryVars, presenceVars, status, messageVars>>

Init ==
    /\ RegistryInit
    /\ reg = [s \in Sockets |-> "none"]
    /\ unreg = [s \in Sockets |-> "none"]
    /\ isOnline = [c \in ChargePoints |-> FALSE]
    /\ connKey = [c \in ChargePoints |-> FALSE]
    /\ status = [c \in ChargePoints |-> [k \in Connectors |-> "unavailable"]]
    /\ msg = [s \in Sockets |-> "none"]
    /\ msgCursor = [s \in Sockets |-> 1]

-----------------------------------------------------------------------------
(* handleConnection ends by starting registerChargePoint, not awaited. *)

StartRegister(s) ==
    /\ reg' = [reg EXCEPT ![s] = "db"]
    /\ UNCHANGED <<unreg, isOnline, connKey, status, messageVars>>

AcceptFresh(s) == ConnectFresh(s) /\ StartRegister(s)
AcceptLate(s) == ConnectorNumTimeout(s) /\ StartRegister(s)

(* handleDisconnection ends by starting unregisterChargePoint, not awaited.*)
StartUnregister(s) ==
    /\ unreg' = [unreg EXCEPT ![s] = "db"]
    /\ UNCHANGED <<reg, isOnline, connKey, status, messageVars>>

CloseHandled(s) ==
    IF disc'[s] = "done" /\ disc[s] # "done"
    THEN StartUnregister(s)
    ELSE UNCHANGED <<presenceVars, status, messageVars>>

ClosedByStation(s) == StationCloses(s) /\ CloseHandled(s)
ClosedByServer(s) == CloseCompletes(s) /\ CloseHandled(s)

(* Mutation of ForgetAndUnregister: unregisterChargePoint is not called. *)
ForgetOnly(s) == Forget(s) /\ UNCHANGED <<presenceVars, status, messageVars>>

ForgetAndUnregister(s) == Forget(s) /\ StartUnregister(s)

(* One connector row is set to UNAVAILABLE; an error is only logged. *)
MarkUnavailable(s) ==
    /\ MarkNext(s)
    /\ \E ok \in DbOutcomes :
         status' = IF ok
                   THEN [status EXCEPT
                           ![StationOf[s]][cursor[s]] = "unavailable"]
                   ELSE status
    /\ UNCHANGED <<presenceVars, messageVars>>

-----------------------------------------------------------------------------
(* The two writes of registerChargePoint and of unregisterChargePoint.  An *)
(* error of the first skips the second.  Writes of different calls land in *)
(* any order.                                                              *)

(* Mutation of RegisterChargePoint: an error of the first write is ignored.*)
RegisterIgnoresError(s) ==
    /\ \/ /\ reg[s] = "db"
          /\ \E ok \in DbOutcomes :
               isOnline' = [isOnline EXCEPT ![StationOf[s]] = ok \/ @]
          /\ reg' = [reg EXCEPT ![s] = "redis"]
          /\ UNCHANGED connKey
       \/ /\ reg[s] = "redis"
          /\ connKey' = [connKey EXCEPT ![StationOf[s]] = TRUE]
          /\ reg' = [reg EXCEPT ![s] = "done"]
          /\ UNCHANGED isOnline
    /\ UNCHANGED <<registryVars, unreg, status, messageVars>>

RegisterChargePoint(s) ==
    /\ \/ /\ reg[s] = "db"
          /\ \E ok \in DbOutcomes :
               /\ isOnline' = [isOnline EXCEPT ![StationOf[s]] = ok \/ @]
               /\ reg' = [reg EXCEPT ![s] = IF ok THEN "redis" ELSE "failed"]
          /\ UNCHANGED connKey
       \/ /\ reg[s] = "redis"
          /\ connKey' = [connKey EXCEPT ![StationOf[s]] = TRUE]
          /\ reg' = [reg EXCEPT ![s] = "done"]
          /\ UNCHANGED isOnline
    /\ UNCHANGED <<registryVars, unreg, status, messageVars>>

UnregisterChargePoint(s) ==
    /\ \/ /\ unreg[s] = "db"
          /\ \E ok \in DbOutcomes :
               /\ isOnline' = [isOnline EXCEPT ![StationOf[s]] = ~ok /\ @]
               /\ unreg' = [unreg EXCEPT
                              ![s] = IF ok THEN "redis" ELSE "failed"]
          /\ UNCHANGED connKey
       \/ /\ unreg[s] = "redis"
          /\ connKey' = [connKey EXCEPT ![StationOf[s]] = FALSE]
          /\ unreg' = [unreg EXCEPT ![s] = "done"]
          /\ UNCHANGED isOnline
    /\ UNCHANGED <<registryVars, reg, status, messageVars>>

(* Mutation of KeyExpires: the key is written without a time to live. *)
KeyNeverExpires(c) == connKey[c] /\ FALSE

(* The key is written with a time to live of an hour and never refreshed. *)
KeyExpires(c) ==
    /\ connKey[c]
    /\ connKey' = [connKey EXCEPT ![c] = FALSE]
    /\ UNCHANGED <<registryVars, reg, unreg, isOnline, status, messageVars>>

-----------------------------------------------------------------------------
(* handleMessage, as far as these rows are concerned *)

MessageReceived(s) ==
    /\ MessageArrives(s)
    /\ s \in Talkers
    /\ msg[s] = "none"      \* bound: one message of a socket in progress
    /\ msg' = [msg EXCEPT ![s] = "handling"]
    /\ UNCHANGED <<presenceVars, status, msgCursor>>

(* The handler's own write returns.  BootNotification and Heartbeat set    *)
(* the charge point online; the other messages, and a write that fails,    *)
(* do not.                                                                 *)
MessageHandled(s) ==
    /\ msg[s] = "handling"
    /\ \E online \in BOOLEAN :
         isOnline' = [isOnline EXCEPT ![StationOf[s]] = online \/ @]
    /\ msg' = [msg EXCEPT ![s] = "syncing"]
    /\ msgCursor' = [msgCursor EXCEPT ![s] = 1]
    /\ UNCHANGED <<registryVars, reg, unreg, connKey, status>>

(* Mutation of SyncConnector: off by one at the last connector. *)
SyncOnePastEnd(s) ==
    /\ msg[s] = "syncing"
    /\ msgCursor[s] <= NumConnectors
    /\ status' = [status EXCEPT ![StationOf[s]][msgCursor[s]] = "reported"]
    /\ msgCursor' = [msgCursor EXCEPT ![s] = @ + 1]
    /\ UNCHANGED msg
    /\ UNCHANGED <<registryVars, presenceVars>>

(* The last loop of updateRealTimeData writes the remembered status of     *)
(* every connector back to the database; the first failure ends the loop.  *)
SyncConnector(s) ==
    /\ msg[s] = "syncing"
    /\ \E ok \in DbOutcomes :
         /\ status' = IF ok
                      THEN [status EXCEPT
                              ![StationOf[s]][msgCursor[s]] = "reported"]
                      ELSE status
         /\ IF ok /\ msgCursor[s] < NumConnectors
            THEN /\ msgCursor' = [msgCursor EXCEPT ![s] = @ + 1]
                 /\ UNCHANGED msg
            ELSE /\ msg' = [msg EXCEPT ![s] = "none"]
                 /\ UNCHANGED msgCursor
    /\ UNCHANGED <<registryVars, presenceVars>>

-----------------------------------------------------------------------------
(* Registry steps that write nothing outside it. *)
RegistryOnly ==
    /\ \/ \E s \in Sockets : ConnectOver(s) \/ Pong(s) \/ PeerLost(s)
       \/ HeartbeatCheck
    /\ UNCHANGED <<presenceVars, status, messageVars>>

(* A crash drops the writes in flight.  The rows and the key stay as they  *)
(* are: Application.initialize repairs none of them.                       *)
CrashAndRestart ==
    /\ Crash
    /\ reg' = [s \in Sockets |-> "none"]
    /\ unreg' = [s \in Sockets |-> "none"]
    /\ msg' = [s \in Sockets |-> "none"]
    /\ msgCursor' = [s \in Sockets |-> 1]
    /\ UNCHANGED <<isOnline, connKey, status>>

Next ==
    \/ \E s \in Sockets :
         \/ AcceptFresh(s)
         \/ AcceptLate(s)
         \/ ClosedByStation(s)
         \/ ClosedByServer(s)
         \/ MarkUnavailable(s)
         \/ ForgetAndUnregister(s)
         \/ RegisterChargePoint(s)
         \/ UnregisterChargePoint(s)
         \/ MessageReceived(s)
         \/ MessageHandled(s)
         \/ SyncConnector(s)
    \/ \E c \in ChargePoints : KeyExpires(c)
    \/ RegistryOnly
    \/ CrashAndRestart

Spec == Init /\ [][Next]_vars

(* Timers fire and awaited calls return; a station owes nothing. *)
Fairness ==
    /\ WF_vars(HeartbeatCheck /\ UNCHANGED <<presenceVars, status, messageVars>>)
    /\ \A c \in ChargePoints : WF_vars(KeyExpires(c))
    /\ \A s \in Sockets :
         /\ WF_vars(AcceptLate(s))
         /\ WF_vars(ClosedByServer(s))
         /\ WF_vars(MarkUnavailable(s))
         /\ WF_vars(ForgetAndUnregister(s))
         /\ WF_vars(RegisterChargePoint(s))
         /\ WF_vars(UnregisterChargePoint(s))
         /\ WF_vars(MessageHandled(s))
         /\ WF_vars(SyncConnector(s))

FairSpec == Spec /\ Fairness

-----------------------------------------------------------------------------
TypeOK ==
    /\ RegistryTypeOK
    /\ reg \in [Sockets -> {"none", "db", "redis", "done", "failed"}]
    /\ unreg \in [Sockets -> {"none", "db", "redis", "done", "failed"}]
    /\ isOnline \in [ChargePoints -> BOOLEAN]
    /\ connKey \in [ChargePoints -> BOOLEAN]
    /\ status \in [ChargePoints ->
                     [Connectors -> {"unavailable", "reported"}]]
    /\ msg \in [Sockets -> {"none", "handling", "syncing"}]
    /\ msgCursor \in [Sockets -> Connectors]

(* A station whose registered connection wrote isOnline = true is shown    *)
(* offline only because the disconnection of some other socket, or of a    *)
(* socket that is closed by now, overwrote it: neither the heartbeat check *)
(* nor a failed write nor a restart makes a connected station offline.     *)
OfflineOnlyByUnregister ==
    \A s \in Sockets :
        reg[s] \in {"redis", "done"} /\ ~isOnline[StationOf[s]]
            => \E t \in SocketsOf(StationOf[s]) :
                 /\ unreg[t] \in {"redis", "done"}
                 /\ wire[t] = "closed"
                 /\ listening[t]

(* The presence key of a silent station disappears in the end even though  *)
(* registerChargePoint and unregisterChargePoint race and the heartbeat    *)
(* check unregisters nothing: the time to live (charge-point-manager 32)   *)
(* is what guarantees it.                                                  *)
StalePresenceKeyExpires ==
    \A c \in ChargePoints : <>[]Silent(c) => <>[](~connKey[c])

(* A close event that reached a listener always ends in an unregister      *)
(* whose write returns, whatever the other sockets of the station do.      *)
HeardCloseIsUnregistered ==
    \A s \in Sockets :
        wire[s] = "closed" /\ listening[s] ~> unreg[s] \in {"done", "failed"}

=============================================================================
