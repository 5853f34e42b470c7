-------------------------- MODULE StreamingServer_proofs --------------------------
(***************************************************************************)
(* Proofs about StreamingServer.tla, for every set of descriptors.  What   *)
(* is left of a destroyed server is proved for every setting of the        *)
(* transports; what the handlers agree on, for one transport at a time.    *)
(***************************************************************************)
EXTENDS StreamingServer, TLAPS

ServerThreads == {"control", "encode", "tcpControl", "tcpVideo", "tcpTracking"}

ConnectLabels == {"c_dispatch", "c_state", "c_joinable", "c_join", "c_encoder", "c_failed",
                  "c_forget", "c_state_back", "c_resume", "c_spawn"}
DisconnectLabels == {"d_enter", "d_state", "d_client", "d_dispatch", "d_sockets", "d_encoder",
                     "d_joinable", "d_join", "d_resume", "d_spawn", "d_idle"}
StartLabels == {"new", "st_tracking", "st_listen", "st_threads"}

\* The places of Stop, each set with all that come after it.
FromEncoder == {"s_encoder", "gone"}
FromReceiver == FromEncoder \cup {"s_receiver"}
FromThreads == FromReceiver \cup {"s_join_threads"}
FromJoin == FromThreads \cup {"s_join"}
FromClient == FromJoin \cup {"s_client"}
FromDispatch == FromClient \cup {"s_dispatch"}
FromSockets == FromDispatch \cup {"s_sockets"}
StopLabels == FromSockets \cup {"s_state"}

PcType ==
    /\ pc = [t \in ServerThreads \cup {"owner"} |-> pc[t]]
    /\ pc["owner"] \in StartLabels \cup {"up"} \cup StopLabels
    /\ pc["control"] \in {"done", "receive"} \cup ConnectLabels \cup DisconnectLabels
    /\ pc["tcpControl"] \in {"done", "accept", "accepted", "announce", "read", "close"}
                               \cup ConnectLabels \cup DisconnectLabels
    /\ pc["tcpVideo"] \in {"done", "accept", "accepted", "route"}
    /\ pc["tcpTracking"] \in {"done", "accept", "accepted", "read"}
    /\ pc["encode"] \in {"done", "check", "blocking", "asleep"}

AllDone == \A t \in ServerThreads : pc[t] = "done"

\* Threads live from Start to the joins of the first Stop.
ThreadsInTime ==
    /\ pc["owner"] \in {"new", "st_tracking", "st_listen"} \cup FromReceiver => AllDone
    /\ stops > 0 => AllDone
    /\ pc["owner"] \in StartLabels => pc["control"] = "done" /\ stops = 0
    /\ running => pc["owner"] \in {"st_listen", "st_threads", "up"} /\ stops = 0
    /\ stops \in 0..2 /\ (stops = 2 <=> pc["owner"] = "gone")

ReceiverInTime ==
    /\ pc["owner"] \in {"st_listen", "st_threads"} => trackingReceiver
    /\ pc["owner"] \in FromEncoder => ~trackingReceiver

\* The second Stop, which meets no other thread, leaves nothing behind it.
CleanUp ==
    stops > 0 =>
       /\ pc["owner"] \in FromSockets => status = "idle"
       /\ pc["owner"] \in FromDispatch =>
             /\ ~tcpControlClientSocket /\ tcpVideoClientSocket = NoSocket
             /\ ~tcpTrackingClientSocket /\ ~listening
       /\ pc["owner"] \in FromClient =>
             ~packetDispatchState.accepting /\ packetDispatchState.socket = NoSocket
       /\ pc["owner"] \in FromThreads => broadcastThread = "none"
       /\ pc["owner"] = "gone" => ~encoder

LifeInv == PcType /\ ThreadsInTime /\ ReceiverInTime /\ CleanUp

\* A thread of the server goes on to another place.
Moves(t) ==
    /\ pc[t] # "done" /\ pc' = [pc EXCEPT ![t] = pc'[t]]
    /\ UNCHANGED <<stops, running, trackingReceiver>>

\* Every step of a handler is one of a thread that lives.
LEMMA HandlersMove ==
  ASSUME PcType, NEW h \in Handlers, HandleClientConnect(h) \/ ConnectSteps(h) \/ DisconnectSteps(h)
  PROVE  PcType' /\ \E u \in ServerThreads : Moves(u)
  <1> USE DEF Moves, PcType, AllDone, ServerThreads, ConnectLabels, DisconnectLabels, StartLabels,
             StopLabels, FromSockets, FromDispatch, FromClient, FromJoin, FromThreads, FromReceiver,
             FromEncoder, Handlers, UsbThreads, Goes, configVars, stopVars, clientVars, socketVars,
             connectionVars, disconnectVars
  <1>1. ASSUME NEW t \in Handlers, HandleClientConnect(t)
        PROVE  PcType' /\ \E u \in ServerThreads : Moves(u)
    <2>1. UNCHANGED <<running, stops, trackingReceiver>> BY <1>1 DEF HandleClientConnect
    <2>2. Goes("control", "receive", "c_dispatch") \/ Goes("tcpControl", "read", "c_dispatch")
      BY <1>1 DEF HandleClientConnect, IsUsb
    <2> QED BY <2>1, <2>2
  <1>2. ASSUME NEW t \in Handlers, ConnectDispatch(t)
        PROVE  PcType' /\ \E u \in ServerThreads : Moves(u)
    BY <1>2 DEF ConnectDispatch, IsUsb
  <1>3. ASSUME NEW t \in Handlers, ConnectState(t)
        PROVE  PcType' /\ \E u \in ServerThreads : Moves(u)
    BY <1>3 DEF ConnectState
  <1>4. ASSUME NEW t \in Handlers, ConnectTestsThread(t)
        PROVE  PcType' /\ \E u \in ServerThreads : Moves(u)
    BY <1>4 DEF ConnectTestsThread, Joinable
  <1>5. ASSUME NEW t \in Handlers, ConnectJoins(t)
        PROVE  PcType' /\ \E u \in ServerThreads : Moves(u)
    BY <1>5 DEF ConnectJoins, Join
  <1>6. ASSUME NEW t \in Handlers, ConnectStartsEncoder(t)
        PROVE  PcType' /\ \E u \in ServerThreads : Moves(u)
    <2>1. Goes(t, "c_encoder", Return(t)) \/ Goes(t, "c_encoder", "c_failed")
      BY <1>6 DEF ConnectStartsEncoder
    <2>2. UNCHANGED <<running, stops, trackingReceiver>> BY <1>6 DEF ConnectStartsEncoder
    <2> QED BY <2>1, <2>2 DEF Return, IsUsb
  <1>7. ASSUME NEW t \in Handlers, ConnectFails(t)
        PROVE  PcType' /\ \E u \in ServerThreads : Moves(u)
    BY <1>7 DEF ConnectFails, StatusWithoutEncoder
  <1>8. ASSUME NEW t \in Handlers, ConnectForgets(t)
        PROVE  PcType' /\ \E u \in ServerThreads : Moves(u)
    BY <1>8 DEF ConnectForgets, IsUsb
  <1>9. ASSUME NEW t \in Handlers, ConnectStateBack(t)
        PROVE  PcType' /\ \E u \in ServerThreads : Moves(u)
    BY <1>9 DEF ConnectStateBack
  <1>10. ASSUME NEW t \in Handlers, ConnectTestsRunning(t)
         PROVE  PcType' /\ \E u \in ServerThreads : Moves(u)
    BY <1>10 DEF ConnectTestsRunning, Return, IsUsb
  <1>11. ASSUME NEW t \in Handlers, ConnectSpawns(t)
         PROVE  PcType' /\ \E u \in ServerThreads : Moves(u)
    BY <1>11 DEF ConnectSpawns, Spawn, Return, IsUsb
  <1>12. ASSUME NEW t \in Handlers, HandleClientDisconnect(t)
         PROVE  PcType' /\ \E u \in ServerThreads : Moves(u)
    BY <1>12 DEF HandleClientDisconnect, IsUsb, AfterDisconnect, Return
  <1>13. ASSUME NEW t \in Handlers, DisconnectState(t)
         PROVE  PcType' /\ \E u \in ServerThreads : Moves(u)
    BY <1>13 DEF DisconnectState
  <1>14. ASSUME NEW t \in Handlers, DisconnectClient(t)
         PROVE  PcType' /\ \E u \in ServerThreads : Moves(u)
    BY <1>14 DEF DisconnectClient, IsUsb, AfterDisconnect, Return
  <1>15. ASSUME NEW t \in Handlers, DisconnectDispatch(t)
         PROVE  PcType' /\ \E u \in ServerThreads : Moves(u)
    BY <1>15 DEF DisconnectDispatch, IdleRoute
  <1>16. ASSUME NEW t \in Handlers, DisconnectSockets(t)
         PROVE  PcType' /\ \E u \in ServerThreads : Moves(u)
    BY <1>16 DEF DisconnectSockets
  <1>17. ASSUME NEW t \in Handlers, DisconnectEncoder(t)
         PROVE  PcType' /\ \E u \in ServerThreads : Moves(u)
    BY <1>17 DEF DisconnectEncoder
  <1>18. ASSUME NEW t \in Handlers, DisconnectTestsThread(t)
         PROVE  PcType' /\ \E u \in ServerThreads : Moves(u)
    BY <1>18 DEF DisconnectTestsThread, Joinable
  <1>19. ASSUME NEW t \in Handlers, DisconnectJoins(t)
         PROVE  PcType' /\ \E u \in ServerThreads : Moves(u)
    BY <1>19 DEF DisconnectJoins, Join
  <1>20. ASSUME NEW t \in Handlers, DisconnectTestsRunning(t)
         PROVE  PcType' /\ \E u \in ServerThreads : Moves(u)
    BY <1>20 DEF DisconnectTestsRunning, MayResume
  <1>21. ASSUME NEW t \in Handlers, DisconnectSpawns(t)
         PROVE  PcType' /\ \E u \in ServerThreads : Moves(u)
    BY <1>21 DEF DisconnectSpawns, Spawn
  <1>22. ASSUME NEW t \in Handlers, DisconnectIdle(t)
         PROVE  PcType' /\ \E u \in ServerThreads : Moves(u)
    <2>1. Goes(t, "d_idle", AfterDisconnect(t)) BY <1>22 DEF DisconnectIdle
    <2>2. UNCHANGED <<running, stops, trackingReceiver>> BY <1>22 DEF DisconnectIdle
    <2>3. \/ Goes("control", "d_idle", "receive") \/ Goes("control", "d_idle", "done")
          \/ Goes("tcpControl", "d_idle", "close")
      BY <2>1 DEF AfterDisconnect, Return, IsUsb
    <2>4. CASE Goes("control", "d_idle", "receive") BY <2>2, <2>4
    <2>5. CASE Goes("control", "d_idle", "done") BY <2>2, <2>5
    <2>6. CASE Goes("tcpControl", "d_idle", "close") BY <2>2, <2>6
    <2> QED BY <2>3, <2>4, <2>5, <2>6
  <1> QED
      BY <1>1, <1>2, <1>3, <1>4, <1>5, <1>6, <1>7, <1>8, <1>9, <1>10, <1>11, <1>12, <1>13,
         <1>14, <1>15, <1>16, <1>17, <1>18, <1>19, <1>20, <1>21, <1>22
      DEF ConnectSteps, DisconnectSteps

Loops ==
    \/ WifiDisconnects \/ ControlThreadEnds
    \/ TcpControlAccepts \/ UsbDisconnects \/ UsbConnectionEnds \/ TcpControlSteps
    \/ TcpVideoAccepts \/ TcpVideoSteps
    \/ TcpTrackingAccepts \/ TcpTrackingCloses \/ TcpTrackingSteps
    \/ EncodeSteps \/ EncodeWakes

\* So is every step of a thread's loop.
LEMMA LoopsMove ==
  ASSUME PcType, Loops
  PROVE  PcType' /\ \E u \in ServerThreads : Moves(u)
  <1> USE DEF Moves, PcType, AllDone, ServerThreads, ConnectLabels, DisconnectLabels, StartLabels,
             StopLabels, FromSockets, FromDispatch, FromClient, FromJoin, FromThreads, FromReceiver,
             FromEncoder, Handlers, UsbThreads, Goes, configVars, stopVars, clientVars, socketVars,
             connectionVars, disconnectVars
  <1>1. CASE WifiDisconnects BY <1>1 DEF WifiDisconnects
  <1>2. CASE ControlThreadEnds BY <1>2 DEF ControlThreadEnds
  <1>3. CASE TcpControlAccepts BY <1>3 DEF TcpControlAccepts
  <1>4. CASE UsbDisconnects BY <1>4 DEF UsbDisconnects
  <1>5. CASE UsbConnectionEnds BY <1>5 DEF UsbConnectionEnds
  <1>6. CASE TcpControlStores BY <1>6 DEF TcpControlStores
  <1>7. CASE TcpControlAnnounces
    <2>1. \/ Goes("tcpControl", "announce", "read") \/ Goes("tcpControl", "announce", "close")
          \/ Goes("tcpControl", "announce", "accept")
      BY <1>7 DEF TcpControlAnnounces, Return, IsUsb
    <2>2. UNCHANGED <<running, stops, trackingReceiver>> BY <1>7 DEF TcpControlAnnounces
    <2> QED BY <2>1, <2>2
  <1>8. CASE TcpControlCloses BY <1>8 DEF TcpControlCloses
  <1>9. CASE TcpControlThreadEnds BY <1>9 DEF TcpControlThreadEnds
  <1>10. CASE TcpVideoAccepts BY <1>10 DEF TcpVideoAccepts
  <1>11. CASE TcpVideoStores BY <1>11 DEF TcpVideoStores
  <1>12. CASE TcpVideoRoutes BY <1>12 DEF TcpVideoRoutes, RoutesVideo
  <1>13. CASE TcpVideoThreadEnds BY <1>13 DEF TcpVideoThreadEnds
  <1>14. CASE TcpTrackingAccepts BY <1>14 DEF TcpTrackingAccepts
  <1>15. CASE TcpTrackingCloses BY <1>15 DEF TcpTrackingCloses
  <1>16. CASE TcpTrackingStores BY <1>16 DEF TcpTrackingStores
  <1>17. CASE TcpTrackingThreadEnds BY <1>17 DEF TcpTrackingThreadEnds
  <1>18. CASE EncodeChecks BY <1>18 DEF EncodeChecks
  <1>19. CASE EncodeBlocks BY <1>19 DEF EncodeBlocks
  <1>20. CASE EncodeWakes BY <1>20 DEF EncodeWakes
  <1> QED
      BY <1>1, <1>2, <1>3, <1>4, <1>5, <1>6, <1>7, <1>8, <1>9, <1>10, <1>11, <1>12, <1>13,
         <1>14, <1>15, <1>16, <1>17, <1>18, <1>19, <1>20
      DEF Loops, TcpControlSteps, TcpVideoSteps, TcpTrackingSteps, EncodeSteps

\* While a thread lives there is a receiver, and Stop has not returned.
LEMMA MovesKeepLife ==
  ASSUME LifeInv, PcType', NEW t \in ServerThreads, Moves(t)
  PROVE  LifeInv'
  <1> USE DEF LifeInv, PcType
  <1>1. pc'["owner"] = pc["owner"] /\ ~AllDone /\ stops = 0 /\ stops' = 0
    BY DEF Moves, AllDone, ThreadsInTime, ServerThreads
  <1>2. ThreadsInTime'
    <2>1. t = "control" => pc["owner"] \notin StartLabels BY DEF Moves, ThreadsInTime
    <2>2. pc["owner"] \notin {"new", "st_tracking", "st_listen"} \cup FromReceiver
      BY <1>1 DEF ThreadsInTime
    <2>3. pc["owner"] \in StartLabels => pc'["control"] = "done"
      BY <2>1 DEF Moves, ThreadsInTime, ServerThreads
    <2> QED BY <1>1, <2>2, <2>3 DEF Moves, ThreadsInTime
  <1>3. ReceiverInTime' BY <1>1 DEF ReceiverInTime, Moves
  <1>4. CleanUp' BY <1>1 DEF CleanUp
  <1> QED BY <1>2, <1>3, <1>4

\* Start and Stop keep the order in which threads begin and end.
LEMMA OwnerKeepsThreads ==
  ASSUME PcType, ThreadsInTime, Start \/ Stop \/ BroadcastEnds
  PROVE  PcType' /\ ThreadsInTime'
  <1> USE DEF ThreadsInTime, PcType, AllDone, ServerThreads, ConnectLabels, DisconnectLabels,
              StartLabels,
             StopLabels, FromSockets, FromDispatch, FromClient, FromJoin, FromThreads, FromReceiver,
             FromEncoder, Handlers, UsbThreads, Goes, configVars, stopVars, clientVars, socketVars,
             connectionVars, disconnectVars
  <1>1. CASE StartSockets BY <1>1 DEF StartSockets, StartFails, StopCalls
  <1>2. CASE StartTracking BY <1>2 DEF StartTracking, StartFails, StopCalls
  <1>3. CASE StartUsbTcpListeners
    <2>1. pc["owner"] = "st_listen" /\ UNCHANGED <<running, stops>>
      BY <1>3 DEF StartUsbTcpListeners
    <2>2. pc' = [pc EXCEPT !["owner"] = "st_threads", !["tcpControl"] = "accept",
                           !["tcpVideo"] = "accept", !["tcpTracking"] = "accept"]
      BY <1>3 DEF StartUsbTcpListeners
    <2>3. PcType'
      <3>1. /\ pc'["owner"] = "st_threads" /\ pc'["tcpControl"] = "accept"
            /\ pc'["tcpVideo"] = "accept" /\ pc'["tcpTracking"] = "accept"
            /\ pc'["control"] = pc["control"] /\ pc'["encode"] = pc["encode"]
        BY <2>2
      <3>2. pc' = [t \in ServerThreads \cup {"owner"} |-> pc'[t]] BY <2>2
      <3> QED BY <3>1, <3>2
    <2> QED BY <2>1, <2>2, <2>3
  <1>4. CASE StartWithoutListeners BY <1>4 DEF StartWithoutListeners, StartFails, StopCalls
  <1>5. CASE StartThreads
    <2>1. pc["owner"] = "st_threads" /\ UNCHANGED <<running, stops>> BY <1>5 DEF StartThreads
    <2>2. pc' = [pc EXCEPT !["owner"] = "up", !["control"] = "receive",
                           !["encode"] = "check"]
      BY <1>5 DEF StartThreads
    <2>3. PcType' BY <2>2
    <2> QED BY <2>1, <2>2, <2>3
  <1>6. CASE StopBegins BY <1>6 DEF StopBegins
  <1>7. CASE StopState BY <1>7 DEF StopState
  <1>8. CASE StopUsbTcpSockets BY <1>8 DEF StopUsbTcpSockets
  <1>9. CASE StopDispatch BY <1>9 DEF StopDispatch
  <1>10. CASE StopClient BY <1>10 DEF StopClient, Joinable
  <1>11. CASE StopJoinsBroadcast BY <1>11 DEF StopJoinsBroadcast, Join
  <1>12. CASE StopJoinsThreads BY <1>12 DEF StopJoinsThreads, JoinedThreads
  <1>13. CASE StopTrackingReceiver BY <1>13 DEF StopTrackingReceiver
  <1>14. CASE StopReturns
    <2>1. stops = 0 \/ stops = 1 BY <1>14 DEF StopReturns
    <2>2. stops' = stops + 1 /\ UNCHANGED running BY <1>14 DEF StopReturns
    <2>3. pc' = [pc EXCEPT !["owner"] = IF stops = 0 THEN "up" ELSE "gone"]
      <3>1. (stops + 1 < 2) <=> (stops = 0) BY <2>1
      <3>2. pc' = [pc EXCEPT !["owner"] = IF stops + 1 < 2 THEN "up" ELSE "gone"]
        BY <1>14 DEF StopReturns, StopCalls
      <3> QED BY <3>1, <3>2
    <2>4. PcType' BY <2>3
    <2>5. AllDone' BY <1>14, <2>3 DEF StopReturns
    <2> QED BY <1>14, <2>1, <2>2, <2>3, <2>4, <2>5 DEF StopReturns
  <1>15. CASE BroadcastEnds BY <1>15 DEF BroadcastEnds, KeepsBroadcasting
  <1> QED
      BY <1>1, <1>2, <1>3, <1>4, <1>5, <1>6, <1>7, <1>8, <1>9, <1>10, <1>11, <1>12, <1>13,
         <1>14, <1>15
      DEF Start, Stop

\* Start makes the receiver before it starts a thread, and Stop destroys it.
LEMMA OwnerKeepsReceiver ==
  ASSUME PcType, ThreadsInTime, ReceiverInTime, Start \/ Stop \/ BroadcastEnds
  PROVE  ReceiverInTime'
  <1> USE DEF ThreadsInTime, ReceiverInTime, PcType, AllDone,
              ServerThreads, Handlers, StartLabels, StopLabels,
             FromSockets, FromDispatch, FromClient, FromJoin, FromThreads, FromReceiver,
             FromEncoder, UsbThreads, Goes, configVars, stopVars, clientVars, socketVars,
             connectionVars, disconnectVars
  <1>1. CASE StartSockets BY <1>1 DEF StartSockets, StartFails, StopCalls
  <1>2. CASE StartTracking BY <1>2 DEF StartTracking, StartFails, StopCalls
  <1>3. CASE StartUsbTcpListeners
    <2>1. pc["owner"] = "st_listen" /\ trackingReceiver /\ trackingReceiver'
      BY <1>3 DEF StartUsbTcpListeners
    <2>2. pc'["owner"] = "st_threads" BY <1>3 DEF StartUsbTcpListeners
    <2> QED BY <2>1, <2>2
  <1>4. CASE StartWithoutListeners BY <1>4 DEF StartWithoutListeners, StartFails, StopCalls
  <1>5. CASE StartThreads
    <2>1. pc["owner"] = "st_threads" /\ trackingReceiver /\ trackingReceiver'
          BY <1>5 DEF StartThreads
    <2>2. pc' = [pc EXCEPT !["owner"] = "up", !["control"] = "receive",
                           !["encode"] = "check"]
      BY <1>5 DEF StartThreads
    <2> QED BY <2>1, <2>2
  <1>6. CASE StopBegins BY <1>6 DEF StopBegins
  <1>7. CASE StopState BY <1>7 DEF StopState
  <1>8. CASE StopUsbTcpSockets BY <1>8 DEF StopUsbTcpSockets
  <1>9. CASE StopDispatch BY <1>9 DEF StopDispatch
  <1>10. CASE StopClient BY <1>10 DEF StopClient, Joinable
  <1>11. CASE StopJoinsBroadcast BY <1>11 DEF StopJoinsBroadcast, Join
  <1>12. CASE StopJoinsThreads BY <1>12 DEF StopJoinsThreads, JoinedThreads
  <1>13. CASE StopTrackingReceiver BY <1>13 DEF StopTrackingReceiver
  <1>14. CASE StopReturns
    <2>1. pc["owner"] = "s_encoder" /\ pc'["owner"] \in {"up", "gone"} /\ UNCHANGED trackingReceiver
      BY <1>14 DEF StopReturns
    <2>2. \A t \in ServerThreads : pc'[t] = "done" BY <1>14 DEF StopReturns
    <2> QED BY <2>1, <2>2
  <1>15. CASE BroadcastEnds BY <1>15 DEF BroadcastEnds, KeepsBroadcasting
  <1> QED
      BY <1>1, <1>2, <1>3, <1>4, <1>5, <1>6, <1>7, <1>8, <1>9, <1>10, <1>11, <1>12, <1>13,
         <1>14, <1>15
      DEF Start, Stop

\* Each step of the second Stop takes away what it is there for.
LEMMA OwnerKeepsClean ==
  ASSUME PcType, ThreadsInTime, CleanUp, Start \/ Stop \/ BroadcastEnds
  PROVE  CleanUp'
  <1> USE DEF ThreadsInTime, CleanUp, PcType, AllDone, ServerThreads, Handlers, StartLabels,
              StopLabels,
             FromSockets, FromDispatch, FromClient, FromJoin, FromThreads, FromReceiver,
             FromEncoder, UsbThreads, Goes, configVars, stopVars, clientVars, socketVars,
             connectionVars, disconnectVars
  <1>1. CASE StartSockets BY <1>1 DEF StartSockets, StartFails, StopCalls
  <1>2. CASE StartTracking BY <1>2 DEF StartTracking, StartFails, StopCalls
  <1>3. CASE StartUsbTcpListeners BY <1>3 DEF StartUsbTcpListeners
  <1>4. CASE StartWithoutListeners BY <1>4 DEF StartWithoutListeners, StartFails, StopCalls
  <1>5. CASE StartThreads BY <1>5 DEF StartThreads
  <1>6. CASE StopBegins BY <1>6 DEF StopBegins
  <1>7. CASE StopState BY <1>7 DEF StopState
  <1>8. CASE StopUsbTcpSockets BY <1>8 DEF StopUsbTcpSockets
  <1>9. CASE StopDispatch BY <1>9 DEF StopDispatch
  <1>10. CASE StopClient BY <1>10 DEF StopClient, Joinable
  <1>11. CASE StopJoinsBroadcast BY <1>11 DEF StopJoinsBroadcast, Join
  <1>12. CASE StopJoinsThreads BY <1>12 DEF StopJoinsThreads, JoinedThreads
  <1>13. CASE StopTrackingReceiver BY <1>13 DEF StopTrackingReceiver
  <1>14. CASE StopReturns
    <2>1. pc["owner"] = "s_encoder" /\ pc'["owner"] \in {"up", "gone"} /\ encoder' = FALSE
      BY <1>14 DEF StopReturns
    <2>2. pc'["owner"] = "gone" => stops > 0
      <3>1. pc'["owner"] = "gone" => ~(stops + 1 < 2) BY <1>14 DEF StopReturns, StopCalls
      <3> QED BY <3>1
    <2>3. UNCHANGED <<status, connectionVars, listening, packetDispatchState, broadcastThread>>
      BY <1>14 DEF StopReturns
    <2> QED BY <2>1, <2>2, <2>3
  <1>15. CASE BroadcastEnds BY <1>15 DEF BroadcastEnds, KeepsBroadcasting
  <1> QED
      BY <1>1, <1>2, <1>3, <1>4, <1>5, <1>6, <1>7, <1>8, <1>9, <1>10, <1>11, <1>12, <1>13,
         <1>14, <1>15
      DEF Start, Stop

\* LifeInv holds throughout, for every setting of the transports.
LEMMA LifeInvHolds == Spec => []LifeInv
  <1>1. Init => LifeInv
    BY DEF Init, LifeInv, PcType, ThreadsInTime, AllDone, ReceiverInTime, CleanUp, ServerThreads, Handlers, UsbThreads, StartLabels, FromReceiver, FromEncoder
  <1>2. LifeInv /\ Next => LifeInv'
    <2> SUFFICES ASSUME LifeInv, Next PROVE LifeInv' OBVIOUS
    <2>1. CASE Start \/ Stop \/ BroadcastEnds
      BY <2>1, OwnerKeepsThreads, OwnerKeepsReceiver, OwnerKeepsClean DEF LifeInv
    <2>2. CASE Loops
      BY <2>2, LoopsMove, MovesKeepLife DEF LifeInv
    <2>3. ASSUME NEW t \in Handlers, HandleClientConnect(t) \/ ConnectSteps(t) \/ DisconnectSteps(t)
          PROVE  LifeInv'
      BY <2>3, HandlersMove, MovesKeepLife DEF LifeInv
    <2> QED BY <2>1, <2>2, <2>3 DEF Next, Loops
  <1>3. LifeInv /\ UNCHANGED vars => LifeInv'
    BY
    DEF LifeInv, PcType, ThreadsInTime, AllDone, ReceiverInTime, CleanUp,
           vars, configVars, stopVars, clientVars, socketVars, connectionVars, disconnectVars
  <1> QED BY <1>1, <1>2, <1>3, PTL DEF Spec

\* A destroyed server leaves nothing behind, whichever transports are on, a
\* Start that failed included.
THEOREM CleanAfterDestructionHolds == Spec => []CleanAfterDestruction
  <1>1. LifeInv => CleanAfterDestruction
    BY DEF LifeInv, ThreadsInTime, ReceiverInTime, CleanUp, CleanAfterDestruction, FromSockets,
           FromDispatch, FromClient, FromJoin, FromThreads, FromReceiver, FromEncoder
  <1> QED BY LifeInvHolds, <1>1, PTL

-----------------------------------------------------------------------------------
(* One transport at a time: one of the two handlers never leaves its loop.         *)

OneTransport ==
    pc["owner"] # "new" =>
       /\ wifiEnabled => ~usbAdbEnabled /\ pc["tcpControl"] = "done" /\ pc["tcpVideo"] = "done"
       /\ ~wifiEnabled => pc["control"] \in {"done", "receive"} /\ broadcastThread = "none"

\* Places where a handler has joined the broadcast thread, or found none, and
\* has not spawned another.
JoinedLabels == {"c_encoder", "c_failed", "c_forget", "c_state_back", "c_resume", "c_spawn",
                 "d_resume", "d_spawn"}

SpawnInv ==
    /\ OneTransport
    /\ NeverAssignedJoinable
    /\ pc["owner"] \in StartLabels => broadcastThread = "none"
    /\ \A t \in Handlers :
          /\ pc[t] \in JoinedLabels => broadcastThread = "none"
          /\ pc[t] \in {"c_spawn", "d_spawn"} => wifiEnabled

\* Where the handler of the transport that is on stands.
At == pc[IF wifiEnabled THEN "control" ELSE "tcpControl"]

\* Its places outside the handlers and those where a handler has changed nothing.
LoopLabels == {"done", "receive", "accept", "accepted", "announce", "read", "close"}
SettledLabels == LoopLabels \cup {"c_dispatch", "c_state", "d_enter", "d_state"}

Announces(expected) == wifiEnabled /\ pc["owner"] = "up" => (broadcastThread = "running" <=> expected)

\* What a handler has done at each of its places, while the server runs.
ConnectInv ==
    /\ At \in SettledLabels => (encoder <=> state = "Connected") /\ Announces(state = "Broadcasting")
    /\ At \in {"c_joinable", "c_join", "c_encoder", "c_failed", "c_forget", "c_state_back"} =>
          state = "Connected"
    /\ At \in {"c_failed", "c_forget", "c_state_back", "c_resume", "c_spawn"} => ~encoder
    /\ At \in {"c_forget", "c_state_back", "c_resume", "c_spawn"} => status = "idle"
    /\ At \in {"c_resume", "c_spawn"} => state = "Broadcasting"

DisconnectInv ==
    /\ At \in DisconnectLabels \ {"d_enter", "d_state"} => state = "Broadcasting"
    /\ At \in {"d_client", "d_dispatch", "d_sockets", "d_encoder"} =>
          /\ previousState \in {"Broadcasting", "Connected"}
          /\ encoder <=> previousState = "Connected"
          /\ Announces(previousState = "Broadcasting")
    /\ At \in {"d_joinable", "d_join", "d_resume", "d_spawn", "d_idle"} => ~encoder
    /\ At = "d_idle" => Announces(TRUE)

StatusInv ==
    At \in SettledLabels \cup {"d_client", "d_dispatch", "d_sockets", "d_encoder"} =>
       (status = "streaming" <=> encoder)

\* Packets of a connected client go where they should, but for a video
\* connection that is about to be routed.
Routed ==
    IF wifiEnabled
    THEN ~packetDispatchState.tcp /\ packetDispatchState.ip
    ELSE /\ packetDispatchState.tcp /\ clientUsesUsbAdb
         /\ pc["tcpVideo"] = "route" \/ tcpVideoClientSocket \in {NoSocket, packetDispatchState.socket}

RouteInv ==
    /\ wifiEnabled => ~clientUsesUsbAdb
    /\ pc["tcpVideo"] = "route" => tcpVideoClientSocket \in {NoSocket, clientSocket}
    /\ At = "c_dispatch" /\ ~wifiEnabled => clientUsesUsbAdb
    /\ At \in SettledLabels /\ state = "Connected" => Routed
    /\ At \in {"c_state", "c_joinable", "c_join", "c_encoder"} => Routed

\* Before Start is done.
StartInv ==
    /\ pc["owner"] \in {"new", "st_tracking"} =>
          ~encoder /\ status = "idle" /\ ~clientUsesUsbAdb /\ state # "Connected"
    /\ pc["owner"] \in StartLabels /\ wifiEnabled => state # "Connected" /\ ~encoder

AgreeInv ==
    /\ StartInv
    /\ running => state # "Stopped" /\ ConnectInv /\ DisconnectInv /\ StatusInv /\ RouteInv

\* Which transport is on decides which parts of a route may be set.
RouteType ==
    /\ packetDispatchState \in Routes
    /\ pc["owner"] = "new" \/ wifiEnabled => ~packetDispatchState.tcp
    /\ pc["owner"] = "new" \/ ~wifiEnabled => ~packetDispatchState.ip

\* TypeOK but for the route.
Scalars ==
    /\ running \in BOOLEAN /\ wifiEnabled \in BOOLEAN /\ usbAdbEnabled \in BOOLEAN
    /\ state \in {"Broadcasting", "Connected", "Stopped"}
    /\ broadcastThread \in {"none", "running", "finished"}
    /\ clientKnown \in BOOLEAN /\ clientUsesUsbAdb \in BOOLEAN /\ encoder \in BOOLEAN
    /\ listening \in BOOLEAN /\ trackingReceiver \in BOOLEAN
    /\ tcpControlClientSocket \in BOOLEAN /\ tcpTrackingClientSocket \in BOOLEAN
    /\ {tcpVideoClientSocket, clientSocket} \subseteq UsbSockets \cup {NoSocket}
    /\ status \in {"idle", "streaming"}

ServerInv == LifeInv /\ SpawnInv /\ AgreeInv /\ Scalars /\ RouteType

\* The threads.
LEMMA Places == PcType => DOMAIN pc = {"control", "encode", "tcpControl", "tcpVideo", "tcpTracking",
                                       "owner"}
  BY DEF PcType, ServerThreads

\* The broadcast thread is started only where it has been joined.
LEMMA SpawnPreserved ==
  ASSUME "auto" \notin Transports, ~StrayGoodbyes, PcType, ThreadsInTime, SpawnInv, Next
  PROVE  SpawnInv'
  <1>0. DOMAIN pc = {"control", "encode", "tcpControl", "tcpVideo", "tcpTracking", "owner"}
    BY Places
  <1> USE TransportsAssumption
      DEF SpawnInv, OneTransport, NeverAssignedJoinable, JoinedLabels, StartLabels, Handlers,
          Goes,
             configVars, stopVars, clientVars, socketVars, connectionVars, disconnectVars
  <1>1. CASE StartSockets
    <2>1. wifiEnabled' => ~usbAdbEnabled' BY <1>1 DEF StartSockets
    <2>2. \A t \in ServerThreads : pc[t] = "done" BY <1>1 DEF StartSockets, ThreadsInTime, AllDone
    <2>3. UNCHANGED <<broadcastThread, fault>> BY <1>1 DEF StartSockets
    <2>4. pc' = [pc EXCEPT !["owner"] = "up"] \/ pc' = [pc EXCEPT !["owner"] = "st_tracking"]
      BY <1>1 DEF StartSockets, StartFails
    <2>5. pc["owner"] = "new" BY <1>1 DEF StartSockets
    <2> QED BY <1>0, <2>1, <2>2, <2>3, <2>4, <2>5 DEF ServerThreads
  <1>2. CASE StartTracking BY <1>0, <1>2 DEF StartTracking, StartFails, StopCalls
  <1>3. CASE StartUsbTcpListeners BY <1>0, <1>3 DEF StartUsbTcpListeners
  <1>4. CASE StartWithoutListeners BY <1>0, <1>4 DEF StartWithoutListeners, StartFails, StopCalls
  <1>5. CASE StartThreads BY <1>0, <1>5 DEF StartThreads, Spawn
  <1>6. CASE StopBegins BY <1>0, <1>6 DEF StopBegins
  <1>7. CASE StopState BY <1>0, <1>7 DEF StopState
  <1>8. CASE StopUsbTcpSockets BY <1>0, <1>8 DEF StopUsbTcpSockets
  <1>9. CASE StopDispatch BY <1>0, <1>9 DEF StopDispatch
  <1>10. CASE StopClient BY <1>0, <1>10 DEF StopClient, Joinable
  <1>11. CASE StopJoinsBroadcast BY <1>0, <1>11 DEF StopJoinsBroadcast, Join
  <1>12. CASE StopJoinsThreads BY <1>0, <1>12 DEF StopJoinsThreads, JoinedThreads
  <1>13. CASE StopTrackingReceiver BY <1>0, <1>13 DEF StopTrackingReceiver
  <1>14. CASE StopReturns BY <1>0, <1>14 DEF StopReturns, StopCalls
  <1>15. CASE BroadcastEnds BY <1>0, <1>15 DEF BroadcastEnds, KeepsBroadcasting
  <1>16. CASE WifiDisconnects BY <1>0, <1>16 DEF WifiDisconnects
  <1>17. CASE ControlThreadEnds BY <1>0, <1>17 DEF ControlThreadEnds
  <1>18. CASE TcpControlAccepts BY <1>0, <1>18 DEF TcpControlAccepts
  <1>19. CASE UsbDisconnects BY <1>0, <1>19 DEF UsbDisconnects
  <1>20. CASE UsbConnectionEnds BY <1>0, <1>20 DEF UsbConnectionEnds
  <1>21. CASE TcpControlStores BY <1>0, <1>21 DEF TcpControlStores
  <1>22. CASE TcpControlAnnounces BY <1>0, <1>22 DEF TcpControlAnnounces, Return, IsUsb
  <1>23. CASE TcpControlCloses BY <1>0, <1>23 DEF TcpControlCloses
  <1>24. CASE TcpControlThreadEnds BY <1>0, <1>24 DEF TcpControlThreadEnds
  <1>25. CASE TcpVideoAccepts BY <1>0, <1>25 DEF TcpVideoAccepts
  <1>26. CASE TcpVideoStores BY <1>0, <1>26 DEF TcpVideoStores
  <1>27. CASE TcpVideoRoutes BY <1>0, <1>27 DEF TcpVideoRoutes, RoutesVideo
  <1>28. CASE TcpVideoThreadEnds BY <1>0, <1>28 DEF TcpVideoThreadEnds
  <1>29. CASE TcpTrackingAccepts BY <1>0, <1>29 DEF TcpTrackingAccepts
  <1>30. CASE TcpTrackingCloses BY <1>0, <1>30 DEF TcpTrackingCloses
  <1>31. CASE TcpTrackingStores BY <1>0, <1>31 DEF TcpTrackingStores
  <1>32. CASE TcpTrackingThreadEnds BY <1>0, <1>32 DEF TcpTrackingThreadEnds
  <1>33. ASSUME NEW t \in Handlers, HandleClientConnect(t) PROVE SpawnInv'
    BY <1>0, <1>33 DEF HandleClientConnect, IsUsb
  <1>34. ASSUME NEW t \in Handlers, ConnectDispatch(t) PROVE SpawnInv'
    BY <1>0, <1>34 DEF ConnectDispatch, IsUsb
  <1>35. ASSUME NEW t \in Handlers, ConnectState(t) PROVE SpawnInv'
    BY <1>0, <1>35 DEF ConnectState
  <1>36. ASSUME NEW t \in Handlers, ConnectTestsThread(t) PROVE SpawnInv'
    BY <1>0, <1>36 DEF ConnectTestsThread, Joinable
  <1>37. ASSUME NEW t \in Handlers, ConnectJoins(t) PROVE SpawnInv'
    BY <1>0, <1>37 DEF ConnectJoins, Join
  <1>38. ASSUME NEW t \in Handlers, ConnectStartsEncoder(t) PROVE SpawnInv'
    BY <1>0, <1>38 DEF ConnectStartsEncoder, Return, IsUsb
  <1>39. ASSUME NEW t \in Handlers, ConnectFails(t) PROVE SpawnInv'
    BY <1>0, <1>39 DEF ConnectFails, StatusWithoutEncoder
  <1>40. ASSUME NEW t \in Handlers, ConnectForgets(t) PROVE SpawnInv'
    BY <1>0, <1>40 DEF ConnectForgets, IsUsb
  <1>41. ASSUME NEW t \in Handlers, ConnectStateBack(t) PROVE SpawnInv'
    BY <1>0, <1>41 DEF ConnectStateBack
  <1>42. ASSUME NEW t \in Handlers, ConnectTestsRunning(t) PROVE SpawnInv'
    BY <1>0, <1>42 DEF ConnectTestsRunning, Return, IsUsb
  <1>43. ASSUME NEW t \in Handlers, ConnectSpawns(t) PROVE SpawnInv'
    <2>1. wifiEnabled /\ broadcastThread = "none" BY <1>43 DEF ConnectSpawns
    <2>2. pc["owner"] # "new" BY <1>43 DEF ConnectSpawns, ThreadsInTime, AllDone, ServerThreads
    <2>3. t = "control" /\ pc["tcpControl"] = "done" /\ ~usbAdbEnabled /\ pc["tcpVideo"] = "done"
      BY <1>43, <2>1, <2>2 DEF ConnectSpawns
    <2>4. fault' = "none" /\ \E to \in {"receive", "done"} : pc' = [pc EXCEPT !["control"] = to]
      BY <1>43, <2>1, <2>3 DEF ConnectSpawns, Spawn, Return, IsUsb
    <2>5. UNCHANGED <<wifiEnabled, usbAdbEnabled>> BY <1>43 DEF ConnectSpawns
    <2>6. pc["owner"] \notin StartLabels BY <1>43, <2>3 DEF ConnectSpawns, ThreadsInTime
    <2> QED BY <1>0, <2>1, <2>2, <2>3, <2>4, <2>5, <2>6
  <1>44. ASSUME NEW t \in Handlers, HandleClientDisconnect(t) PROVE SpawnInv'
    BY <1>0, <1>44 DEF HandleClientDisconnect, IsUsb, AfterDisconnect, Return
  <1>45. ASSUME NEW t \in Handlers, DisconnectState(t) PROVE SpawnInv'
    BY <1>0, <1>45 DEF DisconnectState
  <1>46. ASSUME NEW t \in Handlers, DisconnectClient(t) PROVE SpawnInv'
    BY <1>0, <1>46 DEF DisconnectClient, IsUsb, AfterDisconnect, Return
  <1>47. ASSUME NEW t \in Handlers, DisconnectDispatch(t) PROVE SpawnInv'
    BY <1>0, <1>47 DEF DisconnectDispatch, IdleRoute
  <1>48. ASSUME NEW t \in Handlers, DisconnectSockets(t) PROVE SpawnInv'
    BY <1>0, <1>48 DEF DisconnectSockets
  <1>49. ASSUME NEW t \in Handlers, DisconnectEncoder(t) PROVE SpawnInv'
    BY <1>0, <1>49 DEF DisconnectEncoder
  <1>50. ASSUME NEW t \in Handlers, DisconnectTestsThread(t) PROVE SpawnInv'
    BY <1>0, <1>50 DEF DisconnectTestsThread, Joinable
  <1>51. ASSUME NEW t \in Handlers, DisconnectJoins(t) PROVE SpawnInv'
    BY <1>0, <1>51 DEF DisconnectJoins, Join
  <1>52. ASSUME NEW t \in Handlers, DisconnectTestsRunning(t) PROVE SpawnInv'
    BY <1>0, <1>52 DEF DisconnectTestsRunning, MayResume
  <1>53. ASSUME NEW t \in Handlers, DisconnectSpawns(t) PROVE SpawnInv'
    <2>1. wifiEnabled /\ broadcastThread = "none" BY <1>53 DEF DisconnectSpawns
    <2>2. pc["owner"] # "new" BY <1>53 DEF DisconnectSpawns, ThreadsInTime, AllDone, ServerThreads
    <2>3. t = "control" /\ pc["tcpControl"] = "done" /\ ~usbAdbEnabled /\ pc["tcpVideo"] = "done"
      BY <1>53, <2>1, <2>2 DEF DisconnectSpawns
    <2>4. pc' = [pc EXCEPT !["control"] = "d_idle"] /\ fault' = "none"
      BY <1>53, <2>1, <2>3 DEF DisconnectSpawns, Spawn
    <2>5. UNCHANGED <<wifiEnabled, usbAdbEnabled>> BY <1>53 DEF DisconnectSpawns
    <2>6. pc["owner"] \notin StartLabels BY <1>53, <2>3 DEF DisconnectSpawns, ThreadsInTime
    <2> QED BY <1>0, <2>1, <2>2, <2>3, <2>4, <2>5, <2>6
  <1>54. ASSUME NEW t \in Handlers, DisconnectIdle(t) PROVE SpawnInv'
    BY <1>0, <1>54 DEF DisconnectIdle, IsUsb, AfterDisconnect, Return
  <1>55. CASE EncodeChecks BY <1>0, <1>55 DEF EncodeChecks
  <1>56. CASE EncodeBlocks BY <1>0, <1>56 DEF EncodeBlocks
  <1>57. CASE EncodeWakes BY <1>0, <1>57 DEF EncodeWakes
  <1> QED
    BY <1>1, <1>2, <1>3, <1>4, <1>5, <1>6, <1>7, <1>8, <1>9, <1>10, <1>11, <1>12, <1>13, <1>14,
       <1>15, <1>16, <1>17, <1>18, <1>19, <1>20, <1>21, <1>22, <1>23, <1>24, <1>25, <1>26,
       <1>27, <1>28, <1>29, <1>30, <1>31, <1>32, <1>33, <1>34, <1>35, <1>36, <1>37, <1>38,
       <1>39, <1>40, <1>41, <1>42, <1>43, <1>44, <1>45, <1>46, <1>47, <1>48, <1>49, <1>50,
       <1>51, <1>52, <1>53, <1>54, <1>55, <1>56, <1>57
    DEF Next, Start, Stop, ConnectSteps, DisconnectSteps, TcpControlSteps, TcpVideoSteps,
        TcpTrackingSteps, EncodeSteps

\* Every variable but the route keeps its type.
LEMMA ScalarsPreserved ==
  ASSUME Scalars, Next
  PROVE  Scalars'
  <1> USE DEF Scalars, configVars,
             stopVars, clientVars, socketVars, connectionVars, disconnectVars
  <1>1. CASE StartSockets BY <1>1 DEF StartSockets, StartFails, StopCalls
  <1>2. CASE StartTracking
    <2>1. CASE UNCHANGED <<trackingReceiver, running, state, status>>
          BY <1>2, <2>1 DEF StartTracking
    <2>2. CASE trackingReceiver' = TRUE /\ running' = TRUE /\ state' = "Broadcasting" /\ status' = "idle"
      BY <1>2, <2>2 DEF StartTracking
    <2> QED BY <1>2, <2>1, <2>2 DEF StartTracking
  <1>3. CASE StartUsbTcpListeners BY <1>3 DEF StartUsbTcpListeners
  <1>4. CASE StartWithoutListeners
    <2>1. usbAdbEnabled' \in BOOLEAN /\ running' \in BOOLEAN /\ trackingReceiver' \in BOOLEAN
      BY <1>4 DEF StartWithoutListeners, StartFails
    <2>2. UNCHANGED <<wifiEnabled, state, broadcastThread, clientKnown, clientUsesUsbAdb, encoder,
                      listening, tcpControlClientSocket, tcpTrackingClientSocket,
                      tcpVideoClientSocket, clientSocket, status>>
      BY <1>4 DEF StartWithoutListeners, StartFails
    <2>3. {tcpVideoClientSocket', clientSocket'} \subseteq UsbSockets \cup {NoSocket} BY <2>2
    <2> QED BY <2>1, <2>2, <2>3
  <1>5. CASE StartThreads BY <1>5 DEF StartThreads, Spawn
  <1>6. CASE StopBegins
    <2>1. running' \in BOOLEAN
      BY <1>6 DEF StopBegins
    <2>2. UNCHANGED <<wifiEnabled, usbAdbEnabled, state, broadcastThread, clientKnown,
                      clientUsesUsbAdb, encoder, listening, trackingReceiver,
                      tcpControlClientSocket, tcpTrackingClientSocket, tcpVideoClientSocket,
                      clientSocket, status>>
      BY <1>6 DEF StopBegins
    <2>3. {tcpVideoClientSocket', clientSocket'} \subseteq UsbSockets \cup {NoSocket} BY <2>2
    <2> QED BY <2>1, <2>2, <2>3
  <1>7. CASE StopState BY <1>7 DEF StopState
  <1>8. CASE StopUsbTcpSockets BY <1>8 DEF StopUsbTcpSockets
  <1>9. CASE StopDispatch BY <1>9 DEF StopDispatch
  <1>10. CASE StopClient
    <2>1. clientKnown' \in BOOLEAN /\ clientUsesUsbAdb' \in BOOLEAN
      BY <1>10 DEF StopClient
    <2>2. UNCHANGED <<wifiEnabled, usbAdbEnabled, running, state, broadcastThread, encoder,
                      listening, trackingReceiver, tcpControlClientSocket,
                      tcpTrackingClientSocket, tcpVideoClientSocket, clientSocket, status>>
      BY <1>10 DEF StopClient
    <2>3. {tcpVideoClientSocket', clientSocket'} \subseteq UsbSockets \cup {NoSocket} BY <2>2
    <2> QED BY <2>1, <2>2, <2>3
  <1>11. CASE StopJoinsBroadcast BY <1>11 DEF StopJoinsBroadcast, Join
  <1>12. CASE StopJoinsThreads BY <1>12 DEF StopJoinsThreads, JoinedThreads
  <1>13. CASE StopTrackingReceiver
    <2>1. trackingReceiver' \in BOOLEAN
      BY <1>13 DEF StopTrackingReceiver
    <2>2. UNCHANGED <<wifiEnabled, usbAdbEnabled, running, state, broadcastThread, clientKnown,
                      clientUsesUsbAdb, encoder, listening, tcpControlClientSocket,
                      tcpTrackingClientSocket, tcpVideoClientSocket, clientSocket, status>>
      BY <1>13 DEF StopTrackingReceiver
    <2>3. {tcpVideoClientSocket', clientSocket'} \subseteq UsbSockets \cup {NoSocket} BY <2>2
    <2> QED BY <2>1, <2>2, <2>3
  <1>14. CASE StopReturns
    <2>1. encoder' \in BOOLEAN
      BY <1>14 DEF StopReturns
    <2>2. UNCHANGED <<wifiEnabled, usbAdbEnabled, running, state, broadcastThread, clientKnown,
                      clientUsesUsbAdb, listening, trackingReceiver, tcpControlClientSocket,
                      tcpTrackingClientSocket, tcpVideoClientSocket, clientSocket, status>>
      BY <1>14 DEF StopReturns
    <2>3. {tcpVideoClientSocket', clientSocket'} \subseteq UsbSockets \cup {NoSocket} BY <2>2
    <2> QED BY <2>1, <2>2, <2>3
  <1>15. CASE BroadcastEnds BY <1>15 DEF BroadcastEnds, KeepsBroadcasting
  <1>16. CASE WifiDisconnects BY <1>16 DEF WifiDisconnects
  <1>17. CASE ControlThreadEnds BY <1>17 DEF ControlThreadEnds
  <1>18. CASE TcpControlAccepts BY <1>18 DEF TcpControlAccepts
  <1>19. CASE UsbDisconnects BY <1>19 DEF UsbDisconnects
  <1>20. CASE UsbConnectionEnds BY <1>20 DEF UsbConnectionEnds
  <1>21. CASE TcpControlStores BY <1>21 DEF TcpControlStores
  <1>22. CASE TcpControlAnnounces BY <1>22 DEF TcpControlAnnounces
  <1>23. CASE TcpControlCloses
    <2>1. tcpControlClientSocket' \in BOOLEAN
      BY <1>23 DEF TcpControlCloses
    <2>2. UNCHANGED <<wifiEnabled, usbAdbEnabled, running, state, broadcastThread, clientKnown,
                      clientUsesUsbAdb, encoder, listening, trackingReceiver,
                      tcpTrackingClientSocket, tcpVideoClientSocket, clientSocket, status>>
      BY <1>23 DEF TcpControlCloses
    <2>3. {tcpVideoClientSocket', clientSocket'} \subseteq UsbSockets \cup {NoSocket} BY <2>2
    <2> QED BY <2>1, <2>2, <2>3
  <1>24. CASE TcpControlThreadEnds BY <1>24 DEF TcpControlThreadEnds
  <1>25. CASE TcpVideoAccepts BY <1>25 DEF TcpVideoAccepts
  <1>26. CASE TcpVideoStores BY <1>26 DEF TcpVideoStores
  <1>27. CASE TcpVideoRoutes BY <1>27 DEF TcpVideoRoutes, RoutesVideo
  <1>28. CASE TcpVideoThreadEnds BY <1>28 DEF TcpVideoThreadEnds
  <1>29. CASE TcpTrackingAccepts BY <1>29 DEF TcpTrackingAccepts
  <1>30. CASE TcpTrackingCloses
    <2>1. tcpTrackingClientSocket' \in BOOLEAN
      BY <1>30 DEF TcpTrackingCloses
    <2>2. UNCHANGED <<wifiEnabled, usbAdbEnabled, running, state, broadcastThread, clientKnown,
                      clientUsesUsbAdb, encoder, listening, trackingReceiver,
                      tcpControlClientSocket, tcpVideoClientSocket, clientSocket, status>>
      BY <1>30 DEF TcpTrackingCloses
    <2>3. {tcpVideoClientSocket', clientSocket'} \subseteq UsbSockets \cup {NoSocket} BY <2>2
    <2> QED BY <2>1, <2>2, <2>3
  <1>31. CASE TcpTrackingStores BY <1>31 DEF TcpTrackingStores
  <1>32. CASE TcpTrackingThreadEnds BY <1>32 DEF TcpTrackingThreadEnds
  <1>33. ASSUME NEW t \in Handlers, HandleClientConnect(t) PROVE Scalars'
    BY <1>33 DEF HandleClientConnect, IsUsb
  <1>34. ASSUME NEW t \in Handlers, ConnectDispatch(t) PROVE Scalars'
    BY <1>34 DEF ConnectDispatch, IsUsb
  <1>35. ASSUME NEW t \in Handlers, ConnectState(t) PROVE Scalars'
    BY <1>35 DEF ConnectState
  <1>36. ASSUME NEW t \in Handlers, ConnectTestsThread(t) PROVE Scalars'
    BY <1>36 DEF ConnectTestsThread, Joinable
  <1>37. ASSUME NEW t \in Handlers, ConnectJoins(t) PROVE Scalars'
    BY <1>37 DEF ConnectJoins, Join
  <1>38. ASSUME NEW t \in Handlers, ConnectStartsEncoder(t) PROVE Scalars'
    BY <1>38 DEF ConnectStartsEncoder, Return, IsUsb
  <1>39. ASSUME NEW t \in Handlers, ConnectFails(t) PROVE Scalars'
    BY <1>39 DEF ConnectFails, StatusWithoutEncoder
  <1>40. ASSUME NEW t \in Handlers, ConnectForgets(t) PROVE Scalars'
    BY <1>40 DEF ConnectForgets, IsUsb
  <1>41. ASSUME NEW t \in Handlers, ConnectStateBack(t) PROVE Scalars'
    BY <1>41 DEF ConnectStateBack
  <1>42. ASSUME NEW t \in Handlers, ConnectTestsRunning(t) PROVE Scalars'
    BY <1>42 DEF ConnectTestsRunning, Return, IsUsb
  <1>43. ASSUME NEW t \in Handlers, ConnectSpawns(t) PROVE Scalars'
    BY <1>43 DEF ConnectSpawns, Spawn, Return, IsUsb
  <1>44. ASSUME NEW t \in Handlers, HandleClientDisconnect(t) PROVE Scalars'
    BY <1>44 DEF HandleClientDisconnect, IsUsb, AfterDisconnect, Return
  <1>45. ASSUME NEW t \in Handlers, DisconnectState(t) PROVE Scalars'
    BY <1>45 DEF DisconnectState
  <1>46. ASSUME NEW t \in Handlers, DisconnectClient(t) PROVE Scalars'
    <2>1. clientKnown' \in BOOLEAN /\ clientUsesUsbAdb' \in BOOLEAN
      BY <1>46 DEF DisconnectClient
    <2>2. UNCHANGED <<wifiEnabled, usbAdbEnabled, running, state, broadcastThread, encoder,
                      listening, trackingReceiver, tcpControlClientSocket,
                      tcpTrackingClientSocket, tcpVideoClientSocket, clientSocket, status>>
      BY <1>46 DEF DisconnectClient
    <2>3. {tcpVideoClientSocket', clientSocket'} \subseteq UsbSockets \cup {NoSocket} BY <2>2
    <2> QED BY <2>1, <2>2, <2>3
  <1>47. ASSUME NEW t \in Handlers, DisconnectDispatch(t) PROVE Scalars'
    BY <1>47 DEF DisconnectDispatch, IdleRoute
  <1>48. ASSUME NEW t \in Handlers, DisconnectSockets(t) PROVE Scalars'
    BY <1>48 DEF DisconnectSockets
  <1>49. ASSUME NEW t \in Handlers, DisconnectEncoder(t) PROVE Scalars'
    <2>1. encoder' \in BOOLEAN BY <1>49 DEF DisconnectEncoder
    <2>2. UNCHANGED <<configVars, running, state, broadcastThread, clientVars, socketVars, status>>
      BY <1>49 DEF DisconnectEncoder
    <2> HIDE DEF DisconnectEncoder
    <2>3. {tcpVideoClientSocket', clientSocket'} \subseteq UsbSockets \cup {NoSocket} BY <2>2
    <2> QED BY <2>1, <2>2, <2>3
  <1>50. ASSUME NEW t \in Handlers, DisconnectTestsThread(t) PROVE Scalars'
    BY <1>50 DEF DisconnectTestsThread, Joinable
  <1>51. ASSUME NEW t \in Handlers, DisconnectJoins(t) PROVE Scalars'
    BY <1>51 DEF DisconnectJoins, Join
  <1>52. ASSUME NEW t \in Handlers, DisconnectTestsRunning(t) PROVE Scalars'
    BY <1>52 DEF DisconnectTestsRunning, MayResume
  <1>53. ASSUME NEW t \in Handlers, DisconnectSpawns(t) PROVE Scalars'
    BY <1>53 DEF DisconnectSpawns, Spawn
  <1>54. ASSUME NEW t \in Handlers, DisconnectIdle(t) PROVE Scalars'
    BY <1>54 DEF DisconnectIdle, IsUsb, AfterDisconnect, Return
  <1>55. CASE EncodeChecks BY <1>55 DEF EncodeChecks
  <1>56. CASE EncodeBlocks BY <1>56 DEF EncodeBlocks
  <1>57. CASE EncodeWakes BY <1>57 DEF EncodeWakes
  <1> QED
    BY <1>1, <1>2, <1>3, <1>4, <1>5, <1>6, <1>7, <1>8, <1>9, <1>10, <1>11, <1>12, <1>13, <1>14,
       <1>15, <1>16, <1>17, <1>18, <1>19, <1>20, <1>21, <1>22, <1>23, <1>24, <1>25, <1>26,
       <1>27, <1>28, <1>29, <1>30, <1>31, <1>32, <1>33, <1>34, <1>35, <1>36, <1>37, <1>38,
       <1>39, <1>40, <1>41, <1>42, <1>43, <1>44, <1>45, <1>46, <1>47, <1>48, <1>49, <1>50,
       <1>51, <1>52, <1>53, <1>54, <1>55, <1>56, <1>57
    DEF Next, Start, Stop, ConnectSteps, DisconnectSteps, TcpControlSteps, TcpVideoSteps,
        TcpTrackingSteps, EncodeSteps

\* Every change of the route, its address and the transport is one of these.
LEMMA RouteChanges ==
  ASSUME PcType, Next, ~StartSockets, ~TcpVideoRoutes, ~StopDispatch,
         \A t \in Handlers : ~ConnectDispatch(t) /\ ~DisconnectDispatch(t)
  PROVE  /\ UNCHANGED <<packetDispatchState, wifiEnabled>>
         /\ pc'["owner"] = "new" => pc["owner"] = "new"
  <1> DEFINE Same == /\ UNCHANGED <<packetDispatchState, wifiEnabled>>
                     /\ pc'["owner"] = "new" => pc["owner"] = "new"
  <1>0. DOMAIN pc = {"control", "encode", "tcpControl", "tcpVideo", "tcpTracking", "owner"}
    BY Places
  <1> USE DEF Handlers, Goes, configVars, stopVars, clientVars, socketVars, connectionVars,
             disconnectVars
  <1>1. CASE StartTracking BY <1>0, <1>1 DEF StartTracking, StartFails
  <1>2. CASE StartUsbTcpListeners BY <1>0, <1>2 DEF StartUsbTcpListeners
  <1>3. CASE StartWithoutListeners BY <1>0, <1>3 DEF StartWithoutListeners, StartFails
  <1>4. CASE StartThreads BY <1>0, <1>4 DEF StartThreads
  <1>5. CASE StopBegins BY <1>0, <1>5 DEF StopBegins
  <1>6. CASE StopState BY <1>0, <1>6 DEF StopState
  <1>7. CASE StopUsbTcpSockets BY <1>0, <1>7 DEF StopUsbTcpSockets
  <1>8. CASE StopClient BY <1>0, <1>8 DEF StopClient
  <1>9. CASE StopJoinsBroadcast BY <1>0, <1>9 DEF StopJoinsBroadcast
  <1>10. CASE StopJoinsThreads BY <1>0, <1>10 DEF StopJoinsThreads
  <1>11. CASE StopTrackingReceiver BY <1>0, <1>11 DEF StopTrackingReceiver
  <1>12. CASE StopReturns BY <1>0, <1>12 DEF StopReturns
  <1>13. CASE BroadcastEnds BY <1>0, <1>13 DEF BroadcastEnds
  <1>14. CASE WifiDisconnects BY <1>0, <1>14 DEF WifiDisconnects
  <1>15. CASE ControlThreadEnds BY <1>0, <1>15 DEF ControlThreadEnds
  <1>16. CASE TcpControlAccepts BY <1>0, <1>16 DEF TcpControlAccepts
  <1>17. CASE UsbDisconnects BY <1>0, <1>17 DEF UsbDisconnects
  <1>18. CASE UsbConnectionEnds BY <1>0, <1>18 DEF UsbConnectionEnds
  <1>19. CASE TcpControlStores BY <1>0, <1>19 DEF TcpControlStores
  <1>20. CASE TcpControlAnnounces BY <1>0, <1>20 DEF TcpControlAnnounces
  <1>21. CASE TcpControlCloses BY <1>0, <1>21 DEF TcpControlCloses
  <1>22. CASE TcpControlThreadEnds BY <1>0, <1>22 DEF TcpControlThreadEnds
  <1>23. CASE TcpVideoAccepts BY <1>0, <1>23 DEF TcpVideoAccepts
  <1>24. CASE TcpVideoStores BY <1>0, <1>24 DEF TcpVideoStores
  <1>25. CASE TcpVideoThreadEnds BY <1>0, <1>25 DEF TcpVideoThreadEnds
  <1>26. CASE TcpTrackingAccepts BY <1>0, <1>26 DEF TcpTrackingAccepts
  <1>27. CASE TcpTrackingCloses BY <1>0, <1>27 DEF TcpTrackingCloses
  <1>28. CASE TcpTrackingStores BY <1>0, <1>28 DEF TcpTrackingStores
  <1>29. CASE TcpTrackingThreadEnds BY <1>0, <1>29 DEF TcpTrackingThreadEnds
  <1>30. ASSUME NEW t \in Handlers, HandleClientConnect(t)
         PROVE  Same BY <1>0, <1>30 DEF HandleClientConnect
  <1>31. ASSUME NEW t \in Handlers, ConnectState(t) PROVE Same BY <1>0, <1>31 DEF ConnectState
  <1>32. ASSUME NEW t \in Handlers, ConnectTestsThread(t)
         PROVE  Same BY <1>0, <1>32 DEF ConnectTestsThread
  <1>33. ASSUME NEW t \in Handlers, ConnectJoins(t) PROVE Same BY <1>0, <1>33 DEF ConnectJoins
  <1>34. ASSUME NEW t \in Handlers, ConnectStartsEncoder(t)
         PROVE  Same BY <1>0, <1>34 DEF ConnectStartsEncoder
  <1>35. ASSUME NEW t \in Handlers, ConnectFails(t) PROVE Same BY <1>0, <1>35 DEF ConnectFails
  <1>36. ASSUME NEW t \in Handlers, ConnectForgets(t) PROVE Same BY <1>0, <1>36 DEF ConnectForgets
  <1>37. ASSUME NEW t \in Handlers, ConnectStateBack(t)
         PROVE  Same BY <1>0, <1>37 DEF ConnectStateBack
  <1>38. ASSUME NEW t \in Handlers, ConnectTestsRunning(t)
         PROVE  Same BY <1>0, <1>38 DEF ConnectTestsRunning
  <1>39. ASSUME NEW t \in Handlers, ConnectSpawns(t) PROVE Same BY <1>0, <1>39 DEF ConnectSpawns
  <1>40. ASSUME NEW t \in Handlers, HandleClientDisconnect(t)
         PROVE  Same BY <1>0, <1>40 DEF HandleClientDisconnect
  <1>41. ASSUME NEW t \in Handlers, DisconnectState(t) PROVE Same BY <1>0, <1>41 DEF DisconnectState
  <1>42. ASSUME NEW t \in Handlers, DisconnectClient(t)
         PROVE  Same BY <1>0, <1>42 DEF DisconnectClient
  <1>43. ASSUME NEW t \in Handlers, DisconnectSockets(t)
         PROVE  Same BY <1>0, <1>43 DEF DisconnectSockets
  <1>44. ASSUME NEW t \in Handlers, DisconnectEncoder(t)
         PROVE  Same BY <1>0, <1>44 DEF DisconnectEncoder
  <1>45. ASSUME NEW t \in Handlers, DisconnectTestsThread(t)
         PROVE  Same BY <1>0, <1>45 DEF DisconnectTestsThread
  <1>46. ASSUME NEW t \in Handlers, DisconnectJoins(t) PROVE Same BY <1>0, <1>46 DEF DisconnectJoins
  <1>47. ASSUME NEW t \in Handlers, DisconnectTestsRunning(t)
         PROVE  Same BY <1>0, <1>47 DEF DisconnectTestsRunning
  <1>48. ASSUME NEW t \in Handlers, DisconnectSpawns(t)
         PROVE  Same BY <1>0, <1>48 DEF DisconnectSpawns
  <1>49. ASSUME NEW t \in Handlers, DisconnectIdle(t) PROVE Same BY <1>0, <1>49 DEF DisconnectIdle
  <1>50. CASE EncodeChecks BY <1>0, <1>50 DEF EncodeChecks
  <1>51. CASE EncodeBlocks BY <1>0, <1>51 DEF EncodeBlocks
  <1>52. CASE EncodeWakes BY <1>0, <1>52 DEF EncodeWakes
  <1> QED
    BY <1>1, <1>2, <1>3, <1>4, <1>5, <1>6, <1>7, <1>8, <1>9, <1>10, <1>11, <1>12, <1>13, <1>14,
       <1>15, <1>16, <1>17, <1>18, <1>19, <1>20, <1>21, <1>22, <1>23, <1>24, <1>25, <1>26,
       <1>27, <1>28, <1>29, <1>30, <1>31, <1>32, <1>33, <1>34, <1>35, <1>36, <1>37, <1>38,
       <1>39, <1>40, <1>41, <1>42, <1>43, <1>44, <1>45, <1>46, <1>47, <1>48, <1>49, <1>50,
       <1>51, <1>52
    DEF Next, Start, Stop, ConnectSteps, DisconnectSteps, TcpControlSteps, TcpVideoSteps,
        TcpTrackingSteps, EncodeSteps

\* A route stays one of the transport that is on.
LEMMA RoutePreserved ==
  ASSUME "auto" \notin Transports, ~StrayGoodbyes, PcType, ThreadsInTime, OneTransport, Scalars,
         RouteType, Next
  PROVE  RouteType'
  <1> DEFINE r == packetDispatchState
  <1>0. DOMAIN pc = {"control", "encode", "tcpControl", "tcpVideo", "tcpTracking", "owner"}
    BY Places
  <1>1. /\ r = [socket |-> r.socket, tcp |-> r.tcp, ip |-> r.ip, accepting |-> r.accepting]
        /\ r.accepting \in BOOLEAN /\ r.ip \in BOOLEAN /\ r.tcp \in BOOLEAN
        /\ r.tcp => ~r.ip /\ r.socket \in UsbSockets \cup {NoSocket}
        /\ ~r.tcp => r.socket \in {UdpSocket, NoSocket}
    BY DEF RouteType, Routes
  <1>2. ASSUME NEW x \in {UdpSocket, NoSocket}, NEW i \in BOOLEAN, NEW k \in BOOLEAN
        PROVE  [socket |-> x, tcp |-> FALSE, ip |-> i, accepting |-> k] \in Routes
    BY DEF Routes
  <1>3. ASSUME NEW x \in UsbSockets \cup {NoSocket}, NEW k \in BOOLEAN
        PROVE  [socket |-> x, tcp |-> TRUE, ip |-> FALSE, accepting |-> k] \in Routes
    BY DEF Routes
  <1>4. {tcpVideoClientSocket, clientSocket} \subseteq UsbSockets \cup {NoSocket} BY DEF Scalars
  <1>5. CASE StartSockets
    <2>1. ~r.tcp /\ ~r.ip BY <1>5 DEF StartSockets, RouteType
    <2>2. CASE UNCHANGED packetDispatchState BY <2>1, <2>2 DEF RouteType
    <2>3. CASE packetDispatchState' = [r EXCEPT !.socket = UdpSocket, !.accepting = TRUE]
      <3>1. packetDispatchState' =
               [socket |-> UdpSocket, tcp |-> FALSE, ip |-> FALSE, accepting |-> TRUE]
        BY <1>1, <2>1, <2>3
      <3>2. packetDispatchState' \in Routes BY <1>2, <3>1
      <3> QED BY <3>1, <3>2 DEF RouteType
    <2> QED BY <1>5, <2>2, <2>3 DEF StartSockets
  <1>6. CASE TcpVideoRoutes
    <2>1. pc["owner"] # "new" /\ UNCHANGED wifiEnabled /\ pc'["owner"] = pc["owner"]
      BY <1>0, <1>6 DEF TcpVideoRoutes, Goes, configVars, ThreadsInTime, AllDone, ServerThreads
    <2>2. CASE ~clientUsesUsbAdb BY <1>6, <2>1, <2>2 DEF TcpVideoRoutes, RoutesVideo, RouteType
    <2>3. CASE clientUsesUsbAdb
      <3>1. packetDispatchState' = [r EXCEPT !.socket = clientSocket, !.tcp = TRUE]
        BY <1>6, <2>3 DEF TcpVideoRoutes, RoutesVideo
      <3>2. ~wifiEnabled /\ ~r.ip
        BY <1>6, <2>1 DEF TcpVideoRoutes, Goes, OneTransport, RouteType, Scalars
      <3>3. packetDispatchState' =
               [socket |-> clientSocket, tcp |-> TRUE, ip |-> FALSE, accepting |-> r.accepting]
        BY <1>1, <3>1, <3>2
      <3>4. packetDispatchState' \in Routes BY <1>1, <1>3, <1>4, <3>3
      <3> QED BY <2>1, <3>2, <3>3, <3>4 DEF RouteType
    <2> QED BY <2>2, <2>3
  <1>7. CASE StopDispatch
    <2>1. packetDispatchState' =
             [socket |-> NoSocket, tcp |-> FALSE, ip |-> FALSE, accepting |-> FALSE]
      BY <1>7 DEF StopDispatch
    <2>2. packetDispatchState' \in Routes BY <1>2, <2>1
    <2> QED BY <2>1, <2>2 DEF RouteType
  <1>8. ASSUME NEW t \in Handlers, ConnectDispatch(t) PROVE RouteType'
    <2>1. pc["owner"] # "new" /\ UNCHANGED wifiEnabled /\ pc'["owner"] = pc["owner"]
      BY <1>0, <1>8 DEF ConnectDispatch, Goes, configVars, Handlers, ThreadsInTime, AllDone,
         ServerThreads
    <2>2. packetDispatchState' =
             [r EXCEPT !.socket = IF IsUsb(t) THEN tcpVideoClientSocket ELSE UdpSocket,
                       !.tcp = IsUsb(t), !.ip = ~IsUsb(t)]
      BY <1>8 DEF ConnectDispatch
    <2>3. IsUsb(t) <=> ~wifiEnabled
      BY <1>8, <2>1 DEF ConnectDispatch, OneTransport, IsUsb, Goes, Handlers, Scalars
    <2>4. CASE wifiEnabled
      <3>1. packetDispatchState' =
               [socket |-> UdpSocket, tcp |-> FALSE, ip |-> TRUE, accepting |-> r.accepting]
        BY <1>1, <2>2, <2>3, <2>4 DEF IsUsb
      <3>2. packetDispatchState' \in Routes BY <1>1, <1>2, <3>1
      <3> QED BY <2>1, <2>4, <3>1, <3>2 DEF RouteType
    <2>5. CASE ~wifiEnabled
      <3>1. packetDispatchState' =
               [socket |-> tcpVideoClientSocket, tcp |-> TRUE, ip |-> FALSE, accepting |-> r.accepting]
        BY <1>1, <2>2, <2>3, <2>5 DEF IsUsb
      <3>2. packetDispatchState' \in Routes BY <1>1, <1>3, <1>4, <3>1
      <3> QED BY <2>1, <2>5, <3>1, <3>2 DEF RouteType
    <2> QED BY <2>4, <2>5
  <1>9. ASSUME NEW t \in Handlers, DisconnectDispatch(t) PROVE RouteType'
    <2>1. packetDispatchState' =
             [socket |-> UdpSocket, tcp |-> FALSE, ip |-> FALSE, accepting |-> r.accepting]
      BY <1>1, <1>9 DEF DisconnectDispatch, IdleRoute
    <2>2. packetDispatchState' \in Routes BY <1>1, <1>2, <2>1
    <2> QED BY <2>1, <2>2 DEF RouteType
  <1>10. CASE /\ ~StartSockets /\ ~TcpVideoRoutes /\ ~StopDispatch
              /\ \A t \in Handlers : ~ConnectDispatch(t) /\ ~DisconnectDispatch(t)
    BY <1>10, RouteChanges DEF RouteType
  <1> QED BY <1>5, <1>6, <1>7, <1>8, <1>9, <1>10


\* Start and Stop.
LEMMA OwnerAgrees ==
  ASSUME "auto" \notin Transports, ~StrayGoodbyes, PcType, ThreadsInTime, SpawnInv, Scalars, AgreeInv,
         Start \/ Stop \/ BroadcastEnds
  PROVE  AgreeInv'
  <1>0. DOMAIN pc = {"control", "encode", "tcpControl", "tcpVideo", "tcpTracking", "owner"}
    BY Places
  <1> USE DEF AgreeInv, StartInv, ThreadsInTime, StartLabels, Goes, configVars, stopVars,
              clientVars, socketVars,
             connectionVars, disconnectVars
  <1>1. CASE StartSockets
    <2>1. ~running' BY <1>1 DEF StartSockets
    <2>2. pc["owner"] = "new" /\ UNCHANGED <<encoder, status, clientUsesUsbAdb, state>>
      BY <1>1 DEF StartSockets
    <2> QED BY <2>1, <2>2
  <1>2. CASE StartTracking
    <2>1. ~running /\ pc["owner"] = "st_tracking" /\ UNCHANGED <<encoder, clientUsesUsbAdb, wifiEnabled>>
      BY <1>2 DEF StartTracking
    <2>2. CASE StartFails /\ UNCHANGED <<running, status, state>>
      BY <1>0, <2>1, <2>2 DEF StartFails
    <2>3. CASE Goes("owner", "st_tracking", "st_listen") /\ running' /\ state' = "Broadcasting"
                 /\ status' = "idle"
      <3>1. /\ pc'["owner"] = "st_listen"
            /\ pc'["control"] = "done" /\ pc'["tcpControl"] = "done" /\ pc'["tcpVideo"] = "done"
        BY <1>0, <2>3 DEF AllDone, ServerThreads
      <3>2. At' = "done" BY <3>1 DEF At
      <3>3. ConnectInv' BY <2>1, <2>3, <3>1, <3>2 DEF ConnectInv, Announces
      <3>4. DisconnectInv' BY <3>2 DEF DisconnectInv, DisconnectLabels
      <3>5. StatusInv' BY <2>1, <2>3 DEF StatusInv
      <3>6. RouteInv' BY <2>1, <2>3, <3>1, <3>2 DEF RouteInv
      <3> QED BY <2>1, <2>3, <3>1, <3>3, <3>4, <3>5, <3>6
    <2> QED BY <1>2, <2>2, <2>3 DEF StartTracking
  <1>3. CASE StartUsbTcpListeners
    <2>1. /\ pc["owner"] = "st_listen" /\ ~wifiEnabled
          /\ UNCHANGED <<wifiEnabled, running, state, encoder, status, clientUsesUsbAdb>>
      BY <1>3 DEF StartUsbTcpListeners, SpawnInv, OneTransport
    <2>2. UNCHANGED <<packetDispatchState, tcpVideoClientSocket, clientSocket, previousState>>
      BY <1>3 DEF StartUsbTcpListeners
    <2>3. /\ pc'["owner"] = "st_threads" /\ pc'["control"] = "done"
          /\ pc'["tcpControl"] = "accept" /\ pc'["tcpVideo"] = "accept"
      BY <1>0, <1>3 DEF StartUsbTcpListeners
    <2>4. At = "done" /\ At' = "accept" BY <2>1, <2>3 DEF At, AllDone, ServerThreads
    <2>5. StartInv' BY <2>1, <2>3
    <2>6. ConnectInv => ConnectInv'
          BY <2>1, <2>4 DEF ConnectInv, Announces, SettledLabels, LoopLabels
    <2>7. DisconnectInv' BY <2>4 DEF DisconnectInv, DisconnectLabels
    <2>8. StatusInv => StatusInv' BY <2>1, <2>4 DEF StatusInv, SettledLabels, LoopLabels
    <2>9. RouteInv => RouteInv'
      <3>1. pc["tcpVideo"] = "done" BY <2>1 DEF AllDone, ServerThreads
      <3> QED
        BY <2>1, <2>2, <2>3, <2>4, <3>1 DEF RouteInv, Routed, SettledLabels, LoopLabels
    <2> QED BY <2>1, <2>5, <2>6, <2>7, <2>8, <2>9
  <1>4. CASE StartWithoutListeners
    <2>1. /\ pc["owner"] = "st_listen"
          /\ UNCHANGED <<wifiEnabled, state, encoder, status, clientUsesUsbAdb, previousState>>
          /\ UNCHANGED <<packetDispatchState, tcpVideoClientSocket, clientSocket>>
      BY <1>4 DEF StartWithoutListeners
    <2>2. CASE StartFails /\ ~running' BY <1>0, <2>1, <2>2 DEF StartFails
    <2>3. CASE wifiEnabled /\ Goes("owner", "st_listen", "st_threads") /\ UNCHANGED running
      <3>1. UNCHANGED At /\ At = "done" /\ pc'["tcpVideo"] = "done" /\ pc["tcpVideo"] = "done"
        BY <1>0, <2>1, <2>3 DEF At, AllDone, ServerThreads
      <3>2. pc'["owner"] = "st_threads" BY <1>0, <2>3
      <3>3. ConnectInv => ConnectInv' BY <2>1, <3>1, <3>2 DEF ConnectInv, Announces
      <3>4. DisconnectInv' BY <3>1 DEF DisconnectInv, DisconnectLabels
      <3>5. StatusInv => StatusInv' BY <2>1, <3>1 DEF StatusInv
      <3>6. RouteInv => RouteInv' BY <2>1, <3>1 DEF RouteInv, Routed
      <3> QED BY <2>1, <2>3, <3>2, <3>3, <3>4, <3>5, <3>6
    <2> QED BY <1>4, <2>2, <2>3 DEF StartWithoutListeners
  <1>5. CASE StartThreads
    <2>1. /\ pc["owner"] = "st_threads" /\ pc["control"] = "done"
          /\ UNCHANGED <<wifiEnabled, running, state, encoder, status, clientUsesUsbAdb, previousState>>
          /\ UNCHANGED <<packetDispatchState, tcpVideoClientSocket, clientSocket>>
          /\ wifiEnabled => broadcastThread' = "running"
      BY <1>5 DEF StartThreads, Spawn
    <2>2. /\ pc'["owner"] = "up" /\ pc'["control"] = "receive"
          /\ UNCHANGED <<pc["tcpControl"], pc["tcpVideo"]>>
      BY <1>0, <1>5 DEF StartThreads
    <2>3. CASE wifiEnabled
      <3>1. At = "done" /\ At' = "receive" BY <2>1, <2>2, <2>3 DEF At
      <3>2. running => state = "Broadcasting" BY <2>1, <2>3 DEF Scalars
      <3>3. running => ConnectInv'
        BY <2>1, <2>2, <2>3, <3>1, <3>2 DEF ConnectInv, Announces, SettledLabels, LoopLabels
      <3>4. DisconnectInv' BY <3>1 DEF DisconnectInv, DisconnectLabels
      <3>5. StatusInv => StatusInv' BY <2>1, <3>1 DEF StatusInv, SettledLabels, LoopLabels
      <3>6. running /\ RouteInv => RouteInv'
        BY <2>1, <2>2, <3>1, <3>2 DEF RouteInv
      <3> QED BY <2>1, <2>2, <3>3, <3>4, <3>5, <3>6
    <2>4. CASE ~wifiEnabled
      <3>1. UNCHANGED At BY <2>1, <2>2, <2>4 DEF At
      <3>2. ConnectInv => ConnectInv' BY <2>1, <2>4, <3>1 DEF ConnectInv, Announces
      <3>3. DisconnectInv => DisconnectInv' BY <2>1, <2>4, <3>1 DEF DisconnectInv, Announces
      <3>4. StatusInv => StatusInv' BY <2>1, <3>1 DEF StatusInv
      <3>5. RouteInv => RouteInv' BY <2>1, <2>2, <2>4, <3>1 DEF RouteInv, Routed
      <3> QED BY <2>1, <2>2, <3>2, <3>3, <3>4, <3>5
    <2> QED BY <2>3, <2>4
  <1>6. CASE StopBegins BY <1>0, <1>6 DEF StopBegins
  <1>7. CASE StopState BY <1>0, <1>7 DEF StopState
  <1>8. CASE StopUsbTcpSockets BY <1>0, <1>8 DEF StopUsbTcpSockets
  <1>9. CASE StopDispatch BY <1>0, <1>9 DEF StopDispatch
  <1>10. CASE StopClient BY <1>0, <1>10 DEF StopClient, Joinable
  <1>11. CASE StopJoinsBroadcast BY <1>0, <1>11 DEF StopJoinsBroadcast, Join
  <1>12. CASE StopJoinsThreads BY <1>0, <1>12 DEF StopJoinsThreads, JoinedThreads
  <1>13. CASE StopTrackingReceiver BY <1>0, <1>13 DEF StopTrackingReceiver
  <1>14. CASE StopReturns BY <1>0, <1>14 DEF StopReturns, StopCalls
  <1>15. CASE BroadcastEnds
    <2>1. /\ UNCHANGED <<pc, wifiEnabled, running, state, encoder, status, clientUsesUsbAdb>>
          /\ UNCHANGED <<packetDispatchState, tcpVideoClientSocket, clientSocket, previousState>>
          /\ broadcastThread = "running" /\ broadcastThread' = "finished"
          /\ running => state # "Broadcasting"
      BY <1>15 DEF BroadcastEnds, KeepsBroadcasting
    <2>2. UNCHANGED At BY <2>1 DEF At
    <2>3. running /\ ConnectInv => ConnectInv' BY <2>1, <2>2 DEF ConnectInv, Announces
    <2>4. running /\ DisconnectInv => DisconnectInv'
          BY <2>1, <2>2 DEF DisconnectInv, DisconnectLabels
    <2>5. StatusInv => StatusInv' BY <2>1, <2>2 DEF StatusInv
    <2>6. RouteInv => RouteInv' BY <2>1, <2>2 DEF RouteInv, Routed
    <2> QED BY <2>1, <2>3, <2>4, <2>5, <2>6
  <1> QED
    BY <1>1, <1>2, <1>3, <1>4, <1>5, <1>6, <1>7, <1>8, <1>9, <1>10, <1>11, <1>12, <1>13, <1>14,
       <1>15
    DEF Start, Stop


\* A handler at work is the one of the transport that is on, and no other moves.
LEMMA HandlerIsOn ==
  ASSUME PcType, ThreadsInTime, OneTransport, Scalars, UNCHANGED wifiEnabled,
         NEW t \in Handlers, NEW from, NEW to, Goes(t, from, to), from # "done",
         from = "receive" => wifiEnabled
  PROVE  /\ At = from /\ At' = to
         /\ t = "tcpControl" <=> ~wifiEnabled
         /\ UNCHANGED <<pc["owner"], pc["tcpVideo"]>>
         /\ StartInv'
  <1>0. DOMAIN pc = {"control", "encode", "tcpControl", "tcpVideo", "tcpTracking", "owner"}
    BY Places
  <1>1. pc[t] = from /\ pc' = [pc EXCEPT ![t] = to] BY DEF Goes
  <1>2. t = "control" \/ t = "tcpControl" BY DEF Handlers
  <1>3. pc["owner"] \notin {"new", "st_tracking"}
    BY <1>1 DEF ThreadsInTime, AllDone, ServerThreads, Handlers
  <1>4. t = "tcpControl" <=> ~wifiEnabled BY <1>1, <1>2, <1>3 DEF OneTransport, Scalars
  <1>5. pc'[t] = to /\ UNCHANGED <<pc["owner"], pc["tcpVideo"]>> BY <1>0, <1>1, <1>2
  <1>6. At = from /\ At' = to BY <1>1, <1>2, <1>4, <1>5 DEF At
  <1>7. wifiEnabled => pc["owner"] \notin StartLabels
    BY <1>1, <1>2, <1>4 DEF ThreadsInTime
  <1> QED BY <1>3, <1>4, <1>5, <1>6, <1>7 DEF StartInv

\* What a connect does.
LEMMA ConnectAgrees ==
  ASSUME PcType, ThreadsInTime, SpawnInv, Scalars, RouteType, AgreeInv,
         NEW t \in Handlers, HandleClientConnect(t) \/ ConnectSteps(t)
  PROVE  AgreeInv'
  <1> USE DEF SpawnInv, AgreeInv, configVars, stopVars, clientVars, socketVars, connectionVars,
              disconnectVars
  <1>1. CASE HandleClientConnect(t)
    <2> DEFINE from == IF IsUsb(t) THEN "read" ELSE "receive"
    <2>1. /\ Goes(t, from, "c_dispatch") /\ clientUsesUsbAdb' = (t = "tcpControl")
          /\ UNCHANGED <<wifiEnabled, running, state, broadcastThread, encoder, status, previousState>>
          /\ UNCHANGED <<packetDispatchState, tcpVideoClientSocket, clientSocket>>
      BY <1>1 DEF HandleClientConnect, IsUsb
    <2>2. from \in {"receive", "read"} /\ (from = "receive" => wifiEnabled)
      BY <1>1 DEF HandleClientConnect, IsUsb
    <2> HIDE DEF from
    <2>3. /\ At = from /\ At' = "c_dispatch" /\ StartInv'
          /\ t = "tcpControl" <=> ~wifiEnabled
          /\ UNCHANGED <<pc["owner"], pc["tcpVideo"]>>
      BY <2>1, <2>2, HandlerIsOn
    <2>4. ConnectInv => ConnectInv'
      BY <2>1, <2>2, <2>3 DEF ConnectInv, Announces, SettledLabels, LoopLabels
    <2>5. DisconnectInv' BY <2>3 DEF DisconnectInv, DisconnectLabels
    <2>6. StatusInv => StatusInv' BY <2>1, <2>2, <2>3 DEF StatusInv, SettledLabels, LoopLabels
    <2>7. RouteInv => RouteInv'
      BY <2>1, <2>2, <2>3 DEF RouteInv, Routed, SettledLabels, LoopLabels
    <2> QED BY <2>1, <2>3, <2>4, <2>5, <2>6, <2>7
  <1>2. CASE ConnectDispatch(t)
    <2>1. /\ Goes(t, "c_dispatch", "c_state")
          /\ UNCHANGED <<wifiEnabled, running, state, broadcastThread, encoder, status, previousState>>
          /\ UNCHANGED <<clientUsesUsbAdb, tcpVideoClientSocket, clientSocket>>
      BY <1>2 DEF ConnectDispatch
    <2>2. /\ At = "c_dispatch" /\ At' = "c_state" /\ StartInv'
          /\ t = "tcpControl" <=> ~wifiEnabled
          /\ UNCHANGED <<pc["owner"], pc["tcpVideo"]>>
      BY <2>1, HandlerIsOn
    <2>3. RouteInv => RouteInv'
      <3>1. packetDispatchState' =
               [packetDispatchState EXCEPT
                  !.socket = IF t = "tcpControl" THEN tcpVideoClientSocket ELSE UdpSocket,
                  !.tcp = (t = "tcpControl"), !.ip = (t # "tcpControl")]
        BY <1>2 DEF ConnectDispatch, IsUsb
      <3>2. /\ packetDispatchState'.tcp = (t = "tcpControl")
            /\ packetDispatchState'.ip = (t # "tcpControl")
            /\ t = "tcpControl" => packetDispatchState'.socket = tcpVideoClientSocket
        BY <3>1 DEF RouteType, Routes
      <3>3. RouteInv => Routed' BY <2>1, <2>2, <3>2 DEF RouteInv, Routed
      <3> QED BY <2>1, <2>2, <3>3 DEF RouteInv
    <2>4. ConnectInv => ConnectInv' BY <2>1, <2>2 DEF ConnectInv, Announces, SettledLabels
    <2>5. DisconnectInv' BY <2>2 DEF DisconnectInv, DisconnectLabels
    <2>6. StatusInv => StatusInv' BY <2>1, <2>2 DEF StatusInv, SettledLabels
    <2> QED BY <2>1, <2>2, <2>3, <2>4, <2>5, <2>6
  <1>3. CASE ConnectState(t)
    <2>1. /\ Goes(t, "c_state", "c_joinable")
          /\ UNCHANGED <<wifiEnabled, running>>
      BY <1>3 DEF ConnectState
    <2>2. StartInv' BY <2>1, HandlerIsOn
    <2> QED BY <1>3, <2>1, <2>2, HandlerIsOn
        DEF ConnectState, ConnectInv, DisconnectInv, StatusInv, RouteInv, Routed, Announces,
            SettledLabels, LoopLabels, DisconnectLabels
  <1>4. CASE ConnectTestsThread(t)
    <2>1. /\ Goes(t, "c_joinable", IF Joinable THEN "c_join" ELSE "c_encoder")
          /\ UNCHANGED <<wifiEnabled, running>>
      BY <1>4 DEF ConnectTestsThread
    <2>2. StartInv' BY <2>1, HandlerIsOn
    <2> QED BY <1>4, <2>1, <2>2, HandlerIsOn
        DEF ConnectTestsThread, Joinable, ConnectInv, DisconnectInv, StatusInv, RouteInv,
            Routed, Announces, SettledLabels, LoopLabels, DisconnectLabels
  <1>5. CASE ConnectJoins(t)
    <2>1. /\ Goes(t, "c_join", "c_encoder")
          /\ UNCHANGED <<wifiEnabled, running>>
      BY <1>5 DEF ConnectJoins
    <2>2. StartInv' BY <2>1, HandlerIsOn
    <2> QED BY <1>5, <2>1, <2>2, HandlerIsOn
        DEF ConnectJoins, Join, ConnectInv, DisconnectInv, StatusInv, RouteInv, Routed,
            Announces, SettledLabels, LoopLabels, DisconnectLabels
  <1>6. CASE ConnectStartsEncoder(t)
    <2>1. /\ UNCHANGED <<wifiEnabled, running, state, broadcastThread, clientUsesUsbAdb, previousState>>
          /\ UNCHANGED <<packetDispatchState, tcpVideoClientSocket, clientSocket>>
      BY <1>6 DEF ConnectStartsEncoder
    <2>2. CASE Goes(t, "c_encoder", Return(t)) /\ encoder' = TRUE /\ status' = "streaming"
      <3>1. Return(t) \in {"receive", "read", "close", "done"} BY DEF Return
      <3>2. /\ At = "c_encoder" /\ At' = Return(t) /\ StartInv'
            /\ UNCHANGED <<pc["owner"], pc["tcpVideo"]>>
        BY <2>1, <2>2, HandlerIsOn
      <3>3. broadcastThread = "none" BY <2>2 DEF JoinedLabels, Goes
      <3>4. ConnectInv => ConnectInv'
        BY <2>1, <2>2, <3>1, <3>2, <3>3 DEF ConnectInv, Announces, SettledLabels, LoopLabels
      <3>5. DisconnectInv' BY <3>1, <3>2 DEF DisconnectInv, DisconnectLabels
      <3>6. StatusInv' BY <2>2 DEF StatusInv
      <3>7. RouteInv => RouteInv'
        BY <2>1, <3>1, <3>2 DEF RouteInv, Routed, SettledLabels, LoopLabels
      <3> QED BY <2>1, <3>2, <3>4, <3>5, <3>6, <3>7
    <2>3. CASE Goes(t, "c_encoder", "c_failed") /\ encoder' = FALSE
      <3>1. StartInv' BY <2>1, <2>3, HandlerIsOn
      <3> QED BY <2>1, <2>3, <3>1, HandlerIsOn
          DEF ConnectInv, DisconnectInv, StatusInv, RouteInv, Routed, Announces, SettledLabels,
              LoopLabels, DisconnectLabels
    <2> QED BY <1>6, <2>2, <2>3 DEF ConnectStartsEncoder
  <1>7. CASE ConnectFails(t)
    <2>1. /\ Goes(t, "c_failed", "c_forget")
          /\ UNCHANGED <<wifiEnabled, running>>
      BY <1>7 DEF ConnectFails
    <2>2. StartInv' BY <2>1, HandlerIsOn
    <2> QED BY <1>7, <2>1, <2>2, HandlerIsOn
        DEF ConnectFails, StatusWithoutEncoder, ConnectInv, DisconnectInv, StatusInv, RouteInv,
            Routed, Announces, SettledLabels, LoopLabels, DisconnectLabels
  <1>8. CASE ConnectForgets(t)
    <2>1. /\ Goes(t, "c_forget", "c_state_back") /\ (clientUsesUsbAdb' => clientUsesUsbAdb)
          /\ UNCHANGED <<wifiEnabled, running, state, broadcastThread, encoder, status, previousState>>
          /\ UNCHANGED <<packetDispatchState, tcpVideoClientSocket, clientSocket>>
      BY <1>8 DEF ConnectForgets
    <2>2. /\ At = "c_forget" /\ At' = "c_state_back" /\ StartInv'
          /\ UNCHANGED <<pc["owner"], pc["tcpVideo"]>>
      BY <2>1, HandlerIsOn
    <2>3. ConnectInv => ConnectInv' BY <2>1, <2>2 DEF ConnectInv, SettledLabels, LoopLabels
    <2>4. DisconnectInv' BY <2>2 DEF DisconnectInv, DisconnectLabels
    <2>5. StatusInv' BY <2>2 DEF StatusInv, SettledLabels, LoopLabels
    <2>6. RouteInv => RouteInv' BY <2>1, <2>2 DEF RouteInv, SettledLabels, LoopLabels
    <2> QED BY <2>1, <2>2, <2>3, <2>4, <2>5, <2>6
  <1>9. CASE ConnectStateBack(t)
    <2>1. /\ Goes(t, "c_state_back", "c_resume")
          /\ UNCHANGED <<wifiEnabled, running>>
      BY <1>9 DEF ConnectStateBack
    <2>2. StartInv' BY <2>1, HandlerIsOn
    <2> QED BY <1>9, <2>1, <2>2, HandlerIsOn
        DEF ConnectStateBack, ConnectInv, DisconnectInv, StatusInv, RouteInv, Routed,
            Announces, SettledLabels, LoopLabels, DisconnectLabels
  <1>10. CASE ConnectTestsRunning(t)
    <2>1. /\ Goes(t, "c_resume", IF wifiEnabled /\ running THEN "c_spawn" ELSE Return(t))
          /\ UNCHANGED <<wifiEnabled, running>>
      BY <1>10 DEF ConnectTestsRunning
    <2>2. StartInv' BY <2>1, HandlerIsOn
    <2> QED BY <1>10, <2>1, <2>2, HandlerIsOn
        DEF ConnectTestsRunning, Return, IsUsb, ConnectInv, DisconnectInv, StatusInv, RouteInv,
            Routed, Announces, SettledLabels, LoopLabels, DisconnectLabels
  <1>11. CASE ConnectSpawns(t)
    <2>1. /\ Goes(t, "c_spawn", Return(t))
          /\ UNCHANGED <<wifiEnabled, running>>
      BY <1>11 DEF ConnectSpawns
    <2>2. StartInv' BY <2>1, HandlerIsOn
    <2> QED BY <1>11, <2>1, <2>2, HandlerIsOn
        DEF ConnectSpawns, Spawn, Return, IsUsb, ConnectInv, DisconnectInv, StatusInv,
            RouteInv, Routed, Announces, SettledLabels, LoopLabels, DisconnectLabels
  <1> QED
    BY <1>1, <1>2, <1>3, <1>4, <1>5, <1>6, <1>7, <1>8, <1>9, <1>10, <1>11
    DEF ConnectSteps


\* What a disconnect does.
LEMMA DisconnectAgrees ==
  ASSUME PcType, ThreadsInTime, SpawnInv, Scalars, RouteType, AgreeInv,
         NEW t \in Handlers, DisconnectSteps(t)
  PROVE  AgreeInv'
  <1> USE DEF SpawnInv, AgreeInv, configVars, stopVars, clientVars, socketVars, connectionVars,
              disconnectVars
  <1>1. CASE HandleClientDisconnect(t)
    <2>1. /\ Goes(t, "d_enter", IF running THEN "d_state" ELSE AfterDisconnect(t))
          /\ UNCHANGED <<wifiEnabled, running>>
      BY <1>1 DEF HandleClientDisconnect
    <2>2. StartInv' BY <2>1, HandlerIsOn
    <2> QED
      BY <1>1, <2>1, <2>2, HandlerIsOn
      DEF HandleClientDisconnect, IsUsb, AfterDisconnect, Return, ConnectInv, DisconnectInv, StatusInv,
          RouteInv,
           Routed, Announces, SettledLabels, LoopLabels, DisconnectLabels
  <1>2. CASE DisconnectState(t)
    <2>1. /\ Goes(t, "d_state", "d_client")
          /\ UNCHANGED <<wifiEnabled, running>>
      BY <1>2 DEF DisconnectState
    <2>2. StartInv' BY <2>1, HandlerIsOn
    <2> QED
      BY <1>2, <2>1, <2>2, HandlerIsOn
      DEF DisconnectState, Scalars, ConnectInv, DisconnectInv, StatusInv, RouteInv,
           Routed, Announces, SettledLabels, LoopLabels, DisconnectLabels
  <1>3. CASE DisconnectClient(t)
    <2>1. /\ Goes(t, "d_client",
                  IF previousState # "Connected" /\ ~clientUsesUsbAdb /\ ~clientKnown
                  THEN AfterDisconnect(t) ELSE "d_dispatch")
          /\ UNCHANGED <<wifiEnabled, running>>
      BY <1>3 DEF DisconnectClient
    <2>2. StartInv' BY <2>1, HandlerIsOn
    <2> QED
      BY <1>3, <2>1, <2>2, HandlerIsOn
      DEF DisconnectClient, IsUsb, AfterDisconnect, Return, ConnectInv, DisconnectInv, StatusInv, RouteInv,
           Routed, Announces, SettledLabels, LoopLabels, DisconnectLabels
  <1>4. CASE DisconnectDispatch(t)
    <2>1. /\ Goes(t, "d_dispatch", "d_sockets")
          /\ UNCHANGED <<wifiEnabled, running>>
      BY <1>4 DEF DisconnectDispatch
    <2>2. StartInv' BY <2>1, HandlerIsOn
    <2> QED
      BY <1>4, <2>1, <2>2, HandlerIsOn
      DEF DisconnectDispatch, IdleRoute, ConnectInv, DisconnectInv, StatusInv, RouteInv,
           Routed, Announces, SettledLabels, LoopLabels, DisconnectLabels
  <1>5. CASE DisconnectSockets(t)
    <2>1. /\ Goes(t, "d_sockets", "d_encoder")
          /\ UNCHANGED <<wifiEnabled, running>>
      BY <1>5 DEF DisconnectSockets
    <2>2. StartInv' BY <2>1, HandlerIsOn
    <2> QED
      BY <1>5, <2>1, <2>2, HandlerIsOn
      DEF DisconnectSockets, ConnectInv, DisconnectInv, StatusInv, RouteInv,
           Routed, Announces, SettledLabels, LoopLabels, DisconnectLabels
  <1>6. CASE DisconnectEncoder(t)
    <2>1. /\ Goes(t, "d_encoder", IF previousState = "Connected" THEN "d_joinable" ELSE "d_idle")
          /\ UNCHANGED <<wifiEnabled, running>>
      BY <1>6 DEF DisconnectEncoder
    <2>2. StartInv' BY <2>1, HandlerIsOn
    <2> QED
      BY <1>6, <2>1, <2>2, HandlerIsOn
      DEF DisconnectEncoder, ConnectInv, DisconnectInv, StatusInv, RouteInv,
           Routed, Announces, SettledLabels, LoopLabels, DisconnectLabels
  <1>7. CASE DisconnectTestsThread(t)
    <2>1. /\ Goes(t, "d_joinable", IF Joinable THEN "d_join" ELSE "d_resume")
          /\ UNCHANGED <<wifiEnabled, running>>
      BY <1>7 DEF DisconnectTestsThread
    <2>2. StartInv' BY <2>1, HandlerIsOn
    <2> QED
      BY <1>7, <2>1, <2>2, HandlerIsOn
      DEF DisconnectTestsThread, Joinable, ConnectInv, DisconnectInv, StatusInv, RouteInv,
           Routed, Announces, SettledLabels, LoopLabels, DisconnectLabels
  <1>8. CASE DisconnectJoins(t)
    <2>1. /\ Goes(t, "d_join", "d_resume")
          /\ UNCHANGED <<wifiEnabled, running>>
      BY <1>8 DEF DisconnectJoins
    <2>2. StartInv' BY <2>1, HandlerIsOn
    <2> QED
      BY <1>8, <2>1, <2>2, HandlerIsOn
      DEF DisconnectJoins, Join, ConnectInv, DisconnectInv, StatusInv, RouteInv,
           Routed, Announces, SettledLabels, LoopLabels, DisconnectLabels
  <1>9. CASE DisconnectTestsRunning(t)
    <2>1. /\ Goes(t, "d_resume", IF MayResume THEN "d_spawn" ELSE "d_idle")
          /\ UNCHANGED <<wifiEnabled, running>>
      BY <1>9 DEF DisconnectTestsRunning
    <2>2. StartInv' BY <2>1, HandlerIsOn
    <2> QED
      BY <1>9, <2>1, <2>2, HandlerIsOn
      DEF DisconnectTestsRunning, MayResume, ConnectInv, DisconnectInv, StatusInv, RouteInv,
           Routed, Announces, SettledLabels, LoopLabels, DisconnectLabels
  <1>10. CASE DisconnectSpawns(t)
    <2>1. /\ Goes(t, "d_spawn", "d_idle")
          /\ UNCHANGED <<wifiEnabled, running>>
      BY <1>10 DEF DisconnectSpawns
    <2>2. StartInv' BY <2>1, HandlerIsOn
    <2> QED
      BY <1>10, <2>1, <2>2, HandlerIsOn
      DEF DisconnectSpawns, Spawn, ConnectInv, DisconnectInv, StatusInv, RouteInv,
           Routed, Announces, SettledLabels, LoopLabels, DisconnectLabels
  <1>11. CASE DisconnectIdle(t)
    <2>1. /\ Goes(t, "d_idle", AfterDisconnect(t))
          /\ UNCHANGED <<wifiEnabled, running>>
      BY <1>11 DEF DisconnectIdle
    <2>2. StartInv' BY <2>1, HandlerIsOn
    <2> QED
      BY <1>11, <2>1, <2>2, HandlerIsOn
      DEF DisconnectIdle, IsUsb, AfterDisconnect, Return, ConnectInv, DisconnectInv, StatusInv, RouteInv,
           Routed, Announces, SettledLabels, LoopLabels, DisconnectLabels
  <1> QED
    BY <1>1, <1>2, <1>3, <1>4, <1>5, <1>6, <1>7, <1>8, <1>9, <1>10, <1>11
    DEF DisconnectSteps

\* What the threads' loops do.
LEMMA LoopsAgree ==
  ASSUME ~StrayGoodbyes, PcType, ThreadsInTime, SpawnInv, Scalars, RouteType, AgreeInv, Loops
  PROVE  AgreeInv'
  <1>0. DOMAIN pc = {"control", "encode", "tcpControl", "tcpVideo", "tcpTracking", "owner"}
    BY Places
  <1> USE DEF SpawnInv, AgreeInv, configVars, stopVars, clientVars, socketVars, connectionVars,
              disconnectVars
  <1>1. CASE WifiDisconnects
    <2>1. /\ Goes("control", "receive", "d_enter")
          /\ wifiEnabled /\ UNCHANGED <<wifiEnabled, running>>
      BY <1>1 DEF WifiDisconnects
    <2>2. StartInv' BY <2>1, HandlerIsOn DEF Handlers
    <2> QED
      BY <1>1, <2>1, <2>2, HandlerIsOn
      DEF WifiDisconnects, Handlers, ConnectInv, DisconnectInv, StatusInv, RouteInv,
           Routed, Announces, SettledLabels, LoopLabels, DisconnectLabels
  <1>2. CASE ControlThreadEnds
    <2>1. ~running' /\ pc["owner"] \notin StartLabels /\ pc'["owner"] = pc["owner"]
      BY <1>0, <1>2 DEF ControlThreadEnds, Goes, ThreadsInTime
    <2> QED BY <2>1 DEF StartInv, StartLabels
  <1>3. CASE TcpControlAccepts
    <2>1. /\ Goes("tcpControl", "accept", "accepted")
          /\ UNCHANGED <<wifiEnabled, running>>
      BY <1>3 DEF TcpControlAccepts
    <2>2. StartInv' BY <2>1, HandlerIsOn DEF Handlers
    <2> QED
      BY <1>3, <2>1, <2>2, HandlerIsOn
      DEF TcpControlAccepts, Handlers, ConnectInv, DisconnectInv, StatusInv, RouteInv,
           Routed, Announces, SettledLabels, LoopLabels, DisconnectLabels
  <1>4. CASE UsbDisconnects
    <2>1. /\ Goes("tcpControl", "read", "d_enter")
          /\ UNCHANGED <<wifiEnabled, running>>
      BY <1>4 DEF UsbDisconnects
    <2>2. StartInv' BY <2>1, HandlerIsOn DEF Handlers
    <2> QED
      BY <1>4, <2>1, <2>2, HandlerIsOn
      DEF UsbDisconnects, Handlers, ConnectInv, DisconnectInv, StatusInv, RouteInv,
           Routed, Announces, SettledLabels, LoopLabels, DisconnectLabels
  <1>5. CASE UsbConnectionEnds
    <2>1. /\ Goes("tcpControl", "read", "close")
          /\ UNCHANGED <<wifiEnabled, running>>
      BY <1>5 DEF UsbConnectionEnds
    <2>2. StartInv' BY <2>1, HandlerIsOn DEF Handlers
    <2> QED
      BY <1>5, <2>1, <2>2, HandlerIsOn
      DEF UsbConnectionEnds, Handlers, ConnectInv, DisconnectInv, StatusInv, RouteInv,
           Routed, Announces, SettledLabels, LoopLabels, DisconnectLabels
  <1>6. CASE TcpControlStores
    <2>1. /\ Goes("tcpControl", "accepted", "announce")
          /\ UNCHANGED <<wifiEnabled, running>>
      BY <1>6 DEF TcpControlStores
    <2>2. StartInv' BY <2>1, HandlerIsOn DEF Handlers
    <2> QED
      BY <1>6, <2>1, <2>2, HandlerIsOn
      DEF TcpControlStores, Handlers, ConnectInv, DisconnectInv, StatusInv, RouteInv,
           Routed, Announces, SettledLabels, LoopLabels, DisconnectLabels
  <1>7. CASE TcpControlAnnounces
    <2>1. /\ \E to \in {"read", "close", "accept"} : Goes("tcpControl", "announce", to)
          /\ UNCHANGED <<wifiEnabled, running, state, broadcastThread, encoder, status, previousState>>
          /\ UNCHANGED <<packetDispatchState, tcpVideoClientSocket, clientSocket, clientUsesUsbAdb>>
      BY <1>7 DEF TcpControlAnnounces, Return, IsUsb
    <2>2. At = "announce" /\ At' \in {"read", "close", "accept"} /\ StartInv'
          /\ UNCHANGED <<pc["owner"], pc["tcpVideo"]>>
      BY <2>1, HandlerIsOn DEF Handlers
    <2> QED
      BY <2>1, <2>2
      DEF ConnectInv, DisconnectInv, StatusInv, RouteInv,
             Routed, Announces, SettledLabels, LoopLabels, DisconnectLabels
  <1>8. CASE TcpControlCloses
    <2>1. /\ Goes("tcpControl", "close", IF ~running THEN "done"
                                         ELSE IF clientUsesUsbAdb THEN "d_enter" ELSE "accept")
          /\ UNCHANGED <<wifiEnabled, running>>
      BY <1>8 DEF TcpControlCloses
    <2>2. StartInv' BY <2>1, HandlerIsOn DEF Handlers
    <2> QED
      BY <1>8, <2>1, <2>2, HandlerIsOn
      DEF TcpControlCloses, Handlers, ConnectInv, DisconnectInv, StatusInv, RouteInv,
           Routed, Announces, SettledLabels, LoopLabels, DisconnectLabels
  <1>9. CASE TcpControlThreadEnds
    <2>1. /\ Goes("tcpControl", "accept", "done")
          /\ UNCHANGED <<wifiEnabled, running>>
      BY <1>9 DEF TcpControlThreadEnds
    <2>2. StartInv' BY <2>1, HandlerIsOn DEF Handlers
    <2> QED
      BY <1>9, <2>1, <2>2, HandlerIsOn
      DEF TcpControlThreadEnds, Handlers, ConnectInv, DisconnectInv, StatusInv, RouteInv,
           Routed, Announces, SettledLabels, LoopLabels, DisconnectLabels
  <1>10. CASE TcpVideoAccepts
    <2>1. UNCHANGED At BY <1>0, <1>10 DEF TcpVideoAccepts, Goes, At
    <2> QED
      BY <1>0, <1>10, <2>1
      DEF TcpVideoAccepts, Goes, StartInv, ConnectInv, DisconnectInv, StatusInv, RouteInv,
           Routed, Announces, SettledLabels, LoopLabels, DisconnectLabels
  <1>11. CASE TcpVideoStores
    <2>1. UNCHANGED At BY <1>0, <1>11 DEF TcpVideoStores, Goes, At
    <2> QED
      BY <1>0, <1>11, <2>1
      DEF TcpVideoStores, Goes, StartInv, ConnectInv, DisconnectInv, StatusInv, RouteInv,
           Routed, Announces, SettledLabels, LoopLabels, DisconnectLabels
  <1>12. CASE TcpVideoRoutes
    <2>1. UNCHANGED At BY <1>0, <1>12 DEF TcpVideoRoutes, Goes, At
    <2> QED
      BY <1>0, <1>12, <2>1
      DEF TcpVideoRoutes, RoutesVideo, Goes, StartInv, ConnectInv, DisconnectInv, StatusInv,
          RouteInv,
           Routed, Announces, SettledLabels, LoopLabels, DisconnectLabels
  <1>13. CASE TcpVideoThreadEnds
    <2>1. UNCHANGED At BY <1>0, <1>13 DEF TcpVideoThreadEnds, Goes, At
    <2> QED
      BY <1>0, <1>13, <2>1
      DEF TcpVideoThreadEnds, Goes, StartInv, ConnectInv, DisconnectInv, StatusInv, RouteInv,
           Routed, Announces, SettledLabels, LoopLabels, DisconnectLabels
  <1>14. CASE TcpTrackingAccepts
    <2>1. UNCHANGED At BY <1>0, <1>14 DEF TcpTrackingAccepts, Goes, At
    <2> QED
      BY <1>0, <1>14, <2>1
      DEF TcpTrackingAccepts, Goes, StartInv, ConnectInv, DisconnectInv, StatusInv, RouteInv,
           Routed, Announces, SettledLabels, LoopLabels, DisconnectLabels
  <1>15. CASE TcpTrackingCloses
    <2>1. UNCHANGED At BY <1>0, <1>15 DEF TcpTrackingCloses, Goes, At
    <2> QED
      BY <1>0, <1>15, <2>1
      DEF TcpTrackingCloses, Goes, StartInv, ConnectInv, DisconnectInv, StatusInv, RouteInv,
           Routed, Announces, SettledLabels, LoopLabels, DisconnectLabels
  <1>16. CASE TcpTrackingStores
    <2>1. UNCHANGED At BY <1>0, <1>16 DEF TcpTrackingStores, Goes, At
    <2> QED
      BY <1>0, <1>16, <2>1
      DEF TcpTrackingStores, Goes, StartInv, ConnectInv, DisconnectInv, StatusInv, RouteInv,
           Routed, Announces, SettledLabels, LoopLabels, DisconnectLabels
  <1>17. CASE TcpTrackingThreadEnds
    <2>1. UNCHANGED At BY <1>0, <1>17 DEF TcpTrackingThreadEnds, Goes, At
    <2> QED
      BY <1>0, <1>17, <2>1
      DEF TcpTrackingThreadEnds, Goes, StartInv, ConnectInv, DisconnectInv, StatusInv, RouteInv,
           Routed, Announces, SettledLabels, LoopLabels, DisconnectLabels
  <1>18. CASE EncodeSteps \/ EncodeWakes
    <2>1. /\ UNCHANGED <<running, wifiEnabled, state, broadcastThread, encoder, status>>
          /\ UNCHANGED <<clientUsesUsbAdb, previousState, packetDispatchState>>
          /\ UNCHANGED <<tcpVideoClientSocket, clientSocket>>
          /\ \E from, to : Goes("encode", from, to)
      BY <1>18 DEF EncodeSteps, EncodeChecks, EncodeBlocks, EncodeWakes
    <2>2. UNCHANGED <<pc["owner"], pc["control"], pc["tcpControl"], pc["tcpVideo"]>>
      BY <1>0, <2>1 DEF Goes
    <2>3. UNCHANGED At BY <2>1, <2>2 DEF At
    <2>4. StartInv' BY <2>1, <2>2 DEF StartInv
    <2>5. ConnectInv => ConnectInv' BY <2>1, <2>2, <2>3 DEF ConnectInv, Announces
    <2>6. DisconnectInv => DisconnectInv' BY <2>1, <2>2, <2>3 DEF DisconnectInv, Announces
    <2>7. StatusInv => StatusInv' BY <2>1, <2>3 DEF StatusInv
    <2>8. RouteInv => RouteInv' BY <2>1, <2>2, <2>3 DEF RouteInv, Routed
    <2> QED BY <2>1, <2>4, <2>5, <2>6, <2>7, <2>8
  <1> QED
    BY <1>1, <1>2, <1>3, <1>4, <1>5, <1>6, <1>7, <1>8, <1>9, <1>10, <1>11, <1>12, <1>13, <1>14,
       <1>15, <1>16, <1>17, <1>18
    DEF Loops, TcpControlSteps, TcpVideoSteps, TcpTrackingSteps

\* With one transport at a time ServerInv holds throughout.
LEMMA ServerInvHolds ==
  ASSUME "auto" \notin Transports, ~StrayGoodbyes
  PROVE  Spec => []ServerInv
  <1>1. Init => SpawnInv /\ AgreeInv /\ Scalars /\ RouteType
    <2> SUFFICES ASSUME Init PROVE SpawnInv /\ AgreeInv /\ Scalars /\ RouteType OBVIOUS
    <2>1. /\ pc["owner"] = "new" /\ fault = "none" /\ broadcastThread = "none"
          /\ \A t \in ServerThreads : pc[t] = "done"
      BY DEF Init, ServerThreads, Handlers, UsbThreads
    <2>2. SpawnInv
      BY <2>1
      DEF SpawnInv, OneTransport, NeverAssignedJoinable, JoinedLabels, Handlers, ServerThreads
    <2>3. AgreeInv BY DEF Init, AgreeInv, StartInv
    <2>4. Scalars BY DEF Init, Scalars
    <2>5. RouteType BY DEF Init, RouteType, Routes
    <2> QED BY <2>2, <2>3, <2>4, <2>5
  <1>2. LifeInv /\ LifeInv' /\ ServerInv /\ Next => ServerInv'
    <2> SUFFICES ASSUME LifeInv', ServerInv, Next PROVE ServerInv' OBVIOUS
    <2> USE DEF ServerInv
    <2>1. PcType /\ ThreadsInTime BY DEF LifeInv
    <2>2. SpawnInv' BY <2>1, SpawnPreserved
    <2>3. Scalars' BY ScalarsPreserved
    <2>4. RouteType' BY <2>1, RoutePreserved DEF SpawnInv
    <2>5. AgreeInv'
      <3>1. CASE Start \/ Stop \/ BroadcastEnds BY <2>1, <3>1, OwnerAgrees
      <3>2. CASE Loops BY <2>1, <3>2, LoopsAgree
      <3>3. ASSUME NEW t \in Handlers, HandleClientConnect(t) \/ ConnectSteps(t) PROVE AgreeInv'
        BY <2>1, <3>3, ConnectAgrees
      <3>4. ASSUME NEW t \in Handlers, DisconnectSteps(t) PROVE AgreeInv'
        BY <2>1, <3>4, DisconnectAgrees
      <3> QED BY <3>1, <3>2, <3>3, <3>4 DEF Next, Loops
    <2> QED BY <2>2, <2>3, <2>4, <2>5
  <1>3. ServerInv /\ UNCHANGED vars => ServerInv'
    <2> SUFFICES ASSUME ServerInv, UNCHANGED vars PROVE ServerInv' OBVIOUS
    <2> USE DEF ServerInv, vars, configVars, stopVars, clientVars, socketVars, connectionVars,
                disconnectVars
    <2>1. LifeInv'
      BY
      DEF LifeInv, PcType, ThreadsInTime, AllDone, ReceiverInTime,
          CleanUp
    <2>2. SpawnInv' BY DEF SpawnInv, OneTransport, NeverAssignedJoinable
    <2>3. Scalars' BY DEF Scalars
    <2>4. RouteType' BY DEF RouteType, Routes
    <2>5. UNCHANGED At BY DEF At
    <2>6. AgreeInv'
      BY <2>5
      DEF AgreeInv, StartInv, ConnectInv, DisconnectInv, StatusInv, RouteInv, Routed, Announces
    <2> QED BY <2>1, <2>2, <2>3, <2>4, <2>6
  <1> QED BY <1>1, <1>2, <1>3, LifeInvHolds, PTL DEF Spec, ServerInv

\* Every variable keeps its type, and a route over TCP has no address and no UDP
\* socket, nor the other way round.
THEOREM TypeOKHolds ==
  ASSUME "auto" \notin Transports, ~StrayGoodbyes
  PROVE  Spec => []TypeOK
  <1>1. ServerInv => TypeOK
    BY DEF ServerInv, LifeInv, ThreadsInTime, Scalars, RouteType, TypeOK, StopCalls
  <1> QED BY ServerInvHolds, <1>1, PTL

\* With one transport at a time broadcastThread_ is never assigned while it holds
\* a thread, however connects, disconnects and Stop interleave.
THEOREM NeverAssignedJoinableHolds ==
  ASSUME "auto" \notin Transports, ~StrayGoodbyes
  PROVE  Spec => []NeverAssignedJoinable
  <1>1. ServerInv => NeverAssignedJoinable BY DEF ServerInv, SpawnInv
  <1> QED BY ServerInvHolds, <1>1, PTL

\* Between messages encoder, state, status, announcement and route of a connection
\* agree, for every set of descriptors.
THEOREM ConnectionAgreesHolds ==
  ASSUME "auto" \notin Transports, ~StrayGoodbyes
  PROVE  Spec => []ConnectionAgrees
  <1>1. ASSUME ServerInv, running, Quiet PROVE ConnectionAgrees
    <2>1. At \in LoopLabels /\ pc["owner"] = "up" /\ pc["tcpVideo"] # "route"
      BY <1>1 DEF Quiet, At, LoopLabels
    <2>2. At \in SettledLabels BY <2>1 DEF SettledLabels
    <2>3. /\ encoder <=> state = "Connected"
          /\ wifiEnabled => (broadcastThread = "running" <=> state = "Broadcasting")
      BY <1>1, <2>1, <2>2 DEF ServerInv, AgreeInv, ConnectInv, Announces
    <2>4. status = "streaming" <=> encoder
      BY <1>1, <2>2 DEF ServerInv, AgreeInv, StatusInv
    <2>5. state = "Connected" => Routed /\ (wifiEnabled => ~clientUsesUsbAdb)
      BY <1>1, <2>2 DEF ServerInv, AgreeInv, RouteInv
    <2> QED BY <2>1, <2>3, <2>4, <2>5 DEF ConnectionAgrees, Routed
  <1>2. ServerInv => ConnectionAgrees BY <1>1 DEF ConnectionAgrees
  <1> QED BY ServerInvHolds, <1>2, PTL

===================================================================================
