-------------------------- MODULE AndroidClient_proofs --------------------------
(*****************************************************************************)
(* Proofs about AndroidClient.tla, for every way the server can be reached.  *)
(* Main may stop the networking, or try USB, at any step of a connect of the *)
(* discovery thread and of a loss the receive thread reports.                *)
(*****************************************************************************)
EXTENDS AndroidClient, TLAPS

ConfigLabels == {"found", "claim", "receive", "control", "tell", "connected"}
UsbLabels == {"usbRead", "usbOpen", "usbAnnounce", "usbDone"}
StopLabels == {"close", "flags", "sockets", "joinDiscovery", "joinReceive", "reset"}
FrameLabels == {"app", "retry", "events", "frame"}
MainLabels ==
    FrameLabels \cup {"lost", "flag", "start", "discover", "left"} \cup StopLabels \cup UsbLabels
        \cup ConfigLabels
DiscoveryLabels == {"none", "done", "loop", "recv"} \cup ConfigLabels
ReceiveLabels == {"none", "udp", "tcp", "lost", "flag", "done"}

\* Main works on the objects of the networking, which exist.
AtWork == {"flags", "sockets", "joinDiscovery", "joinReceive", "discover"}
             \cup UsbLabels \cup ConfigLabels

PcType ==
    /\ pc = [t \in Threads |-> pc[t]]
    /\ pc.main \in MainLabels /\ pc.discovery \in DiscoveryLabels /\ pc.receive \in ReceiveLabels
    /\ then \in FrameLabels \cup {"start", "left"}
    /\ pc.main \in StopLabels => then \in {"start", "events", "left"}
    /\ pc.main \in {"start", "discover"} \cup UsbLabels \cup ConfigLabels
          => then \in {"retry", "events"}

ConnectionStates == {"Disconnected", "Discovering", "Connecting", "Connected"}

\* TypeOK but for the threads' places.
Scalars ==
    /\ reach \in Reaches /\ served \in Transports \cup {"none"}
    /\ state \in ConnectionStates /\ previousState \in ConnectionStates
    /\ expected = [t \in {"main", "discovery"} |-> expected[t]]
    /\ expected.main \in ConnectionStates /\ expected.discovery \in ConnectionStates
    /\ needsReconnect \in BOOLEAN /\ starting \in BOOLEAN /\ networking \in BOOLEAN
    /\ decoderReady \in BOOLEAN /\ trackingSocket \in BOOLEAN /\ controlSocket \in BOOLEAN
    /\ controlTcpSocket \in BOOLEAN /\ discovering \in BOOLEAN /\ discoverySocket \in BOOLEAN
    /\ receiving \in BOOLEAN /\ hasVideoTexture \in BOOLEAN /\ session \in BOOLEAN
    /\ terminated \in BOOLEAN
    /\ transportMode \in Transports /\ videoSocket \in Transports \cup {"none"}

\* A thread runs only while the objects exist, and not once it is joined.
ThreadsInTime ==
    /\ ~networking => pc.discovery = "none" /\ pc.receive = "none"
    /\ pc.main \in {"joinReceive", "reset"} => pc.discovery = "none"
    /\ pc.main = "reset" => pc.receive = "none"
    /\ pc.main \in AtWork => networking

\* Threads keep to their places, and run in time.
LEMMA PlacesKept ==
  ASSUME PcType, ThreadsInTime, Next
  PROVE  PcType' /\ ThreadsInTime'
  <1> USE DEF PcType, ThreadsInTime, MainLabels, DiscoveryLabels, ReceiveLabels, FrameLabels,
              StopLabels, UsbLabels, ConfigLabels, AtWork, Threads,
              vars, atomics, localVars, controlSockets, receiverVars, objectVars, appVars
  <1>1. CASE FrameReconnects
    <2>1. Goes("main", "app", "close") /\ then' = "start" /\ UNCHANGED networking
      BY <1>1 DEF FrameReconnects
    <2> QED BY <2>1 DEF At, Goes
  <1>2. CASE FrameGoesOn BY <1>2 DEF FrameGoesOn, At, Goes
  <1>3. CASE RetryUsbAdbTransport
    <2>1. /\ Goes("main", "retry", "usbRead")
          /\ networking /\ then' = "events" /\ UNCHANGED networking
      BY <1>3 DEF RetryUsbAdbTransport, Retries
    <2> QED BY <2>1 DEF At, Goes
  <1>4. CASE RetryNotNeeded BY <1>4 DEF RetryNotNeeded, At, Goes
  <1>5. CASE NoEvent BY <1>5 DEF NoEvent, At, Goes
  <1>6. CASE FrameShows BY <1>6 DEF FrameShows, At, Goes
  <1>7. CASE FrameShowsNone BY <1>7 DEF FrameShowsNone, At, Goes
  <1>8. CASE FrameStalls
    <2>1. Goes("main", "frame", "lost") /\ UNCHANGED <<then, networking>>
      BY <1>8 DEF FrameStalls
    <2> QED BY <2>1 DEF At, Goes
  <1>9. CASE LostStoresState("main", "app") BY <1>9 DEF LostStoresState, LosesFrom, At, Goes
  <1>10. CASE LostFlagsReconnect("main", "app") BY <1>10 DEF LostFlagsReconnect, At, Goes
  <1>11. CASE CloseControlSocket
    <2>1. /\ Goes("main", "close", IF networking THEN "flags" ELSE "reset")
          /\ UNCHANGED <<then, networking>>
      BY <1>11 DEF CloseControlSocket
    <2> QED BY <2>1 DEF At, Goes
  <1>12. CASE StopClearsFlags
    <2>1. Goes("main", "flags", "sockets") /\ UNCHANGED <<then, networking>>
      BY <1>12 DEF StopClearsFlags
    <2> QED BY <2>1 DEF At, Goes
  <1>13. CASE StopClosesSockets
    <2>1. Goes("main", "sockets", "joinDiscovery") /\ UNCHANGED <<then, networking>>
      BY <1>13 DEF StopClosesSockets
    <2> QED BY <2>1 DEF At, Goes
  <1>14. CASE StopJoins("discovery", "joinDiscovery", "joinReceive")
         BY <1>14 DEF StopJoins, At, Goes
  <1>15. CASE StopJoins("receive", "joinReceive", "reset") BY <1>15 DEF StopJoins, At, Goes
  <1>16. CASE ResetConnectionEnds
    <2>1. /\ Goes("main", "reset", then) /\ ~networking'
          /\ then' = IF then = "start" THEN "retry" ELSE then
      BY <1>16 DEF ResetConnectionEnds
    <2> QED BY <2>1 DEF At, Goes
  <1>17. CASE StartNetworking
    <2>1. Goes("main", "start", "usbRead") /\ networking' /\ UNCHANGED then
      BY <1>17 DEF StartNetworking
    <2> QED BY <2>1 DEF At, Goes
  <1>18. CASE StartDiscovery BY <1>18 DEF StartDiscovery, At, Goes
  <1>19. CASE OpenUsbControlSocket
    <2>1. /\ Goes("main", "usbOpen", "usbAnnounce") \/ Goes("main", "usbOpen", UsbFailed)
          /\ UNCHANGED <<then, networking>>
      BY <1>19 DEF OpenUsbControlSocket, UsbGivesUp, Goes
    <2> QED BY <2>1 DEF At, Goes, UsbFailed
  <1>20. CASE ReadUsbAnnounce
    <2>1. /\ Goes("main", "usbAnnounce", "found") \/ Goes("main", "usbAnnounce", UsbFailed)
          /\ UNCHANGED <<then, networking>>
      BY <1>20 DEF ReadUsbAnnounce, UsbGivesUp, Goes
    <2> QED BY <2>1 DEF At, Goes, UsbFailed
  <1>21. CASE UsbTried BY <1>21 DEF UsbTried, UsbFailed, At, Goes
  <1>22. CASE ServerFound("main")
    <2>1. /\ Goes("main", "found", "claim") \/ Goes("main", "found", "usbDone")
          /\ UNCHANGED <<then, networking>>
      BY <1>22 DEF ServerFound, Returns
    <2> QED BY <2>1 DEF At, Goes
  <1>23. CASE ClaimConnecting("main")
         BY <1>23 DEF ClaimConnecting, Returns, Over, AfterClaim, At, Goes
  <1>24. CASE StartReceiving("main")
    <2>1. /\ At("main", "receive") /\ pc' = [pc EXCEPT !["main"] = "control", !.receive = "tcp"]
          /\ UNCHANGED <<then, networking>>
      BY <1>24 DEF StartReceiving
    <2> QED BY <2>1 DEF At, Goes
  <1>25. CASE StartReceivingFails("main") BY <1>25 DEF StartReceivingFails, Returns, At, Goes
  <1>26. CASE OpenControlSocket("main")
    <2>1. Goes("main", "control", "tell") /\ UNCHANGED <<then, networking>>
      BY <1>26 DEF OpenControlSocket
    <2> QED BY <2>1 DEF At, Goes
  <1>27. CASE SendClientConnect("main")
    <2>1. Goes("main", "tell", "connected") /\ UNCHANGED <<then, networking>>
      BY <1>27 DEF SendClientConnect
    <2> QED BY <2>1 DEF At, Goes
  <1>28. CASE ConnectionIsSetUp("main")
    <2>1. Goes("main", "connected", "usbDone") /\ UNCHANGED <<then, networking>>
      BY <1>28 DEF ConnectionIsSetUp, Returns
    <2> QED BY <2>1 DEF At, Goes
  <1>29. CASE ServerFound("discovery")
    <2>1. /\ Goes("discovery", "found", "claim") \/ Goes("discovery", "found", "loop")
          /\ UNCHANGED <<then, networking>>
      BY <1>29 DEF ServerFound, Returns
    <2> QED BY <2>1 DEF At, Goes
  <1>30. CASE ClaimConnecting("discovery")
         BY <1>30 DEF ClaimConnecting, Returns, Over, AfterClaim, At, Goes
  <1>31. CASE StartReceiving("discovery")
    <2>1. /\ At("discovery", "receive")
          /\ pc' = [pc EXCEPT !["discovery"] = "control", !.receive = "udp"]
          /\ UNCHANGED <<then, networking>>
      BY <1>31 DEF StartReceiving
    <2> QED BY <2>1 DEF At, Goes
  <1>32. CASE StartReceivingFails("discovery") BY <1>32 DEF StartReceivingFails, Returns, At, Goes
  <1>33. CASE OpenControlSocket("discovery")
    <2>1. Goes("discovery", "control", "tell") /\ UNCHANGED <<then, networking>>
      BY <1>33 DEF OpenControlSocket
    <2> QED BY <2>1 DEF At, Goes
  <1>34. CASE SendClientConnect("discovery")
    <2>1. Goes("discovery", "tell", "connected") /\ UNCHANGED <<then, networking>>
      BY <1>34 DEF SendClientConnect
    <2> QED BY <2>1 DEF At, Goes
  <1>35. CASE ConnectionIsSetUp("discovery")
    <2>1. Goes("discovery", "connected", "loop") /\ UNCHANGED <<then, networking>>
      BY <1>35 DEF ConnectionIsSetUp, Returns
    <2> QED BY <2>1 DEF At, Goes
  <1>36. CASE DiscoveryLoop BY <1>36 DEF DiscoveryLoop, At, Goes
  <1>37. CASE DiscoveryHearsNothing BY <1>37 DEF DiscoveryHearsNothing, At, Goes
  <1>38. CASE DiscoveryHears BY <1>38 DEF DiscoveryHears, At, Goes
  <1>39. CASE ReceiveThreadEnds BY <1>39 DEF ReceiveThreadEnds, At, Goes
  <1>40. CASE LostStoresState("receive", "done") BY <1>40 DEF LostStoresState, LosesFrom, At, Goes
  <1>41. CASE LostFlagsReconnect("receive", "done") BY <1>41 DEF LostFlagsReconnect, At, Goes
  <1>42. CASE ReceiveTcpThreadEnds
    <2>1. /\ Goes("receive", "tcp", "lost") \/ Goes("receive", "tcp", "done")
          /\ UNCHANGED <<then, networking>>
      BY <1>42 DEF ReceiveTcpThreadEnds
    <2> QED BY <2>1 DEF At, Goes
  <1>43. CASE SessionReady BY <1>43 DEF SessionReady, At, Goes
  <1>44. CASE SessionStopping
    <2>1. Goes("main", "events", "close") /\ then' = "events" /\ UNCHANGED networking
      BY <1>44 DEF SessionStopping
    <2> QED BY <2>1 DEF At, Goes
  <1>45. CASE AppDestroyed
    <2>1. Goes("main", "app", "close") /\ then' = "left" /\ UNCHANGED networking
      BY <1>45 DEF AppDestroyed
    <2> QED BY <2>1 DEF At, Goes
  <1>46. CASE ServerLeaves BY <1>46 DEF ServerLeaves, At, Goes
  <1>47. CASE ReadPreviousState BY <1>47 DEF ReadPreviousState, At, Goes
  <1> QED BY <1>1, <1>2, <1>3, <1>4, <1>5, <1>6, <1>7, <1>8, <1>9, <1>10, <1>11, <1>12,
             <1>13, <1>14, <1>15, <1>16, <1>17, <1>18, <1>19, <1>20, <1>21, <1>22, <1>23,
             <1>24, <1>25, <1>26, <1>27, <1>28, <1>29, <1>30, <1>31, <1>32, <1>33, <1>34,
             <1>35, <1>36, <1>37, <1>38, <1>39, <1>40, <1>41, <1>42, <1>43, <1>44, <1>45,
             <1>46, <1>47
         DEF Next, Main, Discovery, Receive, Choose, Configure

\* Types are kept.
LEMMA ScalarsKept ==
  ASSUME Scalars, Next
  PROVE  Scalars'
  <1> USE DEF Scalars, ConnectionStates, Transports, At, Goes,
              vars, atomics, localVars, controlSockets, receiverVars, objectVars, appVars
  <1>1. CASE FrameReconnects
    <2>1. needsReconnect' \in BOOLEAN
      BY <1>1 DEF FrameReconnects
    <2>2. UNCHANGED <<reach, served, state, previousState, expected, starting, networking,
                      decoderReady, trackingSocket, controlSocket, controlTcpSocket,
                      discovering, discoverySocket, receiving, hasVideoTexture, session,
                      terminated, transportMode, videoSocket>>
      BY <1>1 DEF FrameReconnects
    <2> QED BY <2>1, <2>2
  <1>2. CASE FrameGoesOn BY <1>2 DEF FrameGoesOn
  <1>3. CASE RetryUsbAdbTransport
    <2>1. starting' \in BOOLEAN
      BY <1>3 DEF RetryUsbAdbTransport
    <2>2. UNCHANGED <<reach, served, state, previousState, expected, needsReconnect, networking,
                      decoderReady, trackingSocket, controlSocket, controlTcpSocket,
                      discovering, discoverySocket, receiving, hasVideoTexture, session,
                      terminated, transportMode, videoSocket>>
      BY <1>3 DEF RetryUsbAdbTransport
    <2> QED BY <2>1, <2>2
  <1>4. CASE RetryNotNeeded BY <1>4 DEF RetryNotNeeded
  <1>5. CASE NoEvent BY <1>5 DEF NoEvent
  <1>6. CASE FrameShows BY <1>6 DEF FrameShows
  <1>7. CASE FrameShowsNone BY <1>7 DEF FrameShowsNone
  <1>8. CASE FrameStalls
    <2>1. hasVideoTexture' \in BOOLEAN
      BY <1>8 DEF FrameStalls
    <2>2. UNCHANGED <<reach, served, state, previousState, expected, needsReconnect,
                      starting, networking, decoderReady, trackingSocket, controlSocket,
                      controlTcpSocket, discovering, discoverySocket, receiving, session,
                      terminated, transportMode, videoSocket>>
      BY <1>8 DEF FrameStalls
    <2> QED BY <2>1, <2>2
  <1>9. CASE LostStoresState("main", "app") BY <1>9 DEF LostStoresState, LosesFrom
  <1>10. CASE LostFlagsReconnect("main", "app") BY <1>10 DEF LostFlagsReconnect
  <1>11. CASE CloseControlSocket
    <2>1. controlSocket' \in BOOLEAN /\ controlTcpSocket' \in BOOLEAN
      BY <1>11 DEF CloseControlSocket
    <2>2. served' \in {served, "none"}
      BY <1>11 DEF CloseControlSocket
    <2>3. UNCHANGED <<reach, state, previousState, expected, needsReconnect, starting,
                      networking, decoderReady, trackingSocket, discovering,
                      discoverySocket, receiving, hasVideoTexture, session, terminated,
                      transportMode, videoSocket>>
      BY <1>11 DEF CloseControlSocket
    <2> QED BY <2>1, <2>2, <2>3
  <1>12. CASE StopClearsFlags
    <2>1. discovering' \in BOOLEAN /\ receiving' \in BOOLEAN
      BY <1>12 DEF StopClearsFlags
    <2>2. UNCHANGED <<reach, served, state, previousState, expected, needsReconnect,
                      starting, networking, decoderReady, trackingSocket, controlSocket,
                      controlTcpSocket, discoverySocket, hasVideoTexture, session,
                      terminated, transportMode, videoSocket>>
      BY <1>12 DEF StopClearsFlags
    <2> QED BY <2>1, <2>2
  <1>13. CASE StopClosesSockets
    <2>1. discoverySocket' \in BOOLEAN
      BY <1>13 DEF StopClosesSockets
    <2>2. videoSocket' = "none"
      BY <1>13 DEF StopClosesSockets
    <2>3. UNCHANGED <<reach, served, state, previousState, expected, needsReconnect,
                      starting, networking, decoderReady, trackingSocket, controlSocket,
                      controlTcpSocket, discovering, receiving, hasVideoTexture, session,
                      terminated, transportMode>>
      BY <1>13 DEF StopClosesSockets
    <2> QED BY <2>1, <2>2, <2>3
  <1>14. CASE StopJoins("discovery", "joinDiscovery", "joinReceive") BY <1>14 DEF StopJoins
  <1>15. CASE StopJoins("receive", "joinReceive", "reset") BY <1>15 DEF StopJoins
  <1>16. CASE ResetConnectionEnds
    <2>1. /\ networking' \in BOOLEAN /\ decoderReady' \in BOOLEAN
          /\ trackingSocket' \in BOOLEAN /\ needsReconnect' \in BOOLEAN
          /\ hasVideoTexture' \in BOOLEAN
      BY <1>16 DEF ResetConnectionEnds
    <2>2. transportMode' = "wifi" /\ state' = "Disconnected"
      BY <1>16 DEF ResetConnectionEnds
    <2>3. UNCHANGED <<reach, served, previousState, expected, starting, controlSocket,
                      controlTcpSocket, discovering, discoverySocket, receiving, session,
                      terminated, videoSocket>>
      BY <1>16 DEF ResetConnectionEnds
    <2> QED BY <2>1, <2>2, <2>3
  <1>17. CASE StartNetworking
    <2>1. networking' \in BOOLEAN /\ needsReconnect' \in BOOLEAN /\ starting' \in BOOLEAN
      BY <1>17 DEF StartNetworking
    <2>2. transportMode' = "wifi" /\ state' = "Disconnected"
      BY <1>17 DEF StartNetworking
    <2>3. UNCHANGED <<reach, served, previousState, expected, decoderReady, trackingSocket,
                      controlSocket, controlTcpSocket, discovering, discoverySocket, receiving,
                      hasVideoTexture, session, terminated, videoSocket>>
      BY <1>17 DEF StartNetworking
    <2> QED BY <2>1, <2>2, <2>3
  <1>18. CASE StartDiscovery BY <1>18 DEF StartDiscovery
  <1>19. CASE OpenUsbControlSocket
    <2>1. controlTcpSocket' \in BOOLEAN
      BY <1>19 DEF OpenUsbControlSocket, UsbGivesUp
    <2>2. state' \in {state, previousState}
      BY <1>19 DEF OpenUsbControlSocket, UsbGivesUp
    <2>3. UNCHANGED <<reach, served, previousState, expected, needsReconnect, starting,
                      networking, decoderReady, trackingSocket, controlSocket, discovering,
                      discoverySocket, receiving, hasVideoTexture, session, terminated,
                      transportMode, videoSocket>>
      BY <1>19 DEF OpenUsbControlSocket, UsbGivesUp
    <2> QED BY <2>1, <2>2, <2>3
  <1>20. CASE ReadUsbAnnounce
    <2>1. controlTcpSocket' \in BOOLEAN
      BY <1>20 DEF ReadUsbAnnounce, UsbGivesUp
    <2>2. state' \in {state, previousState}
      BY <1>20 DEF ReadUsbAnnounce, UsbGivesUp
    <2>3. UNCHANGED <<reach, served, previousState, expected, needsReconnect, starting,
                      networking, decoderReady, trackingSocket, controlSocket, discovering,
                      discoverySocket, receiving, hasVideoTexture, session, terminated,
                      transportMode, videoSocket>>
      BY <1>20 DEF ReadUsbAnnounce, UsbGivesUp
    <2> QED BY <2>1, <2>2, <2>3
  <1>21. CASE UsbTried BY <1>21 DEF UsbTried, UsbFailed
  <1>22. CASE ServerFound("main")
    <2>1. needsReconnect' \in BOOLEAN
      BY <1>22 DEF ServerFound
    <2>2. expected' = [expected EXCEPT !["main"] = state]
      BY <1>22 DEF ServerFound
    <2>3. UNCHANGED <<reach, served, state, previousState, starting, networking,
                      decoderReady, trackingSocket, controlSocket, controlTcpSocket,
                      discovering, discoverySocket, receiving, hasVideoTexture, session,
                      terminated, transportMode, videoSocket>>
      BY <1>22 DEF ServerFound
    <2>4. /\ expected' = [t \in {"main", "discovery"} |-> expected'[t]]
          /\ expected'.main \in ConnectionStates /\ expected'.discovery \in ConnectionStates
      BY <2>2
    <2> QED BY <2>1, <2>3, <2>4
  <1>23. CASE ClaimConnecting("main") BY <1>23 DEF ClaimConnecting, Returns, Over, AfterClaim
  <1>24. CASE StartReceiving("main")
    <2>1. receiving' \in BOOLEAN /\ terminated' \in BOOLEAN
      BY <1>24 DEF StartReceiving
    <2>2. videoSocket' = Over("main")
      BY <1>24 DEF StartReceiving
    <2>3. UNCHANGED <<reach, served, state, previousState, expected, needsReconnect,
                      starting, networking, decoderReady, trackingSocket, controlSocket,
                      controlTcpSocket, discovering, discoverySocket, hasVideoTexture,
                      session, transportMode>>
      BY <1>24 DEF StartReceiving
    <2> QED BY <2>1, <2>2, <2>3 DEF Over
  <1>25. CASE StartReceivingFails("main") BY <1>25 DEF StartReceivingFails, Returns
  <1>26. CASE OpenControlSocket("main")
    <2>1. /\ trackingSocket' \in BOOLEAN /\ controlSocket' \in BOOLEAN
          /\ controlTcpSocket' \in BOOLEAN
      BY <1>26 DEF OpenControlSocket
    <2>2. served' \in {served, "none"}
      BY <1>26 DEF OpenControlSocket
    <2>3. UNCHANGED <<reach, state, previousState, expected, needsReconnect, starting,
                      networking, decoderReady, discovering, discoverySocket, receiving,
                      hasVideoTexture, session, terminated, transportMode, videoSocket>>
      BY <1>26 DEF OpenControlSocket
    <2> QED BY <2>1, <2>2, <2>3
  <1>27. CASE SendClientConnect("main")
    <2>1. controlSocket' \in BOOLEAN
      BY <1>27 DEF SendClientConnect
    <2>2. served' \in {served, Over("main")}
      BY <1>27 DEF SendClientConnect
    <2>3. UNCHANGED <<reach, state, previousState, expected, needsReconnect, starting,
                      networking, decoderReady, trackingSocket, controlTcpSocket,
                      discovering, discoverySocket, receiving, hasVideoTexture, session,
                      terminated, transportMode, videoSocket>>
      BY <1>27 DEF SendClientConnect
    <2> QED BY <2>1, <2>2, <2>3 DEF Over
  <1>28. CASE ConnectionIsSetUp("main")
    <2>1. discovering' \in BOOLEAN
      BY <1>28 DEF ConnectionIsSetUp
    <2>2. state' = "Connected"
      BY <1>28 DEF ConnectionIsSetUp
    <2>3. UNCHANGED <<reach, served, previousState, expected, needsReconnect, starting,
                      networking, decoderReady, trackingSocket, controlSocket,
                      controlTcpSocket, discoverySocket, receiving, hasVideoTexture,
                      session, terminated, transportMode, videoSocket>>
      BY <1>28 DEF ConnectionIsSetUp
    <2> QED BY <2>1, <2>2, <2>3
  <1>29. CASE ServerFound("discovery")
    <2>1. needsReconnect' \in BOOLEAN
      BY <1>29 DEF ServerFound
    <2>2. expected' = [expected EXCEPT !["discovery"] = state]
      BY <1>29 DEF ServerFound
    <2>3. UNCHANGED <<reach, served, state, previousState, starting, networking,
                      decoderReady, trackingSocket, controlSocket, controlTcpSocket,
                      discovering, discoverySocket, receiving, hasVideoTexture, session,
                      terminated, transportMode, videoSocket>>
      BY <1>29 DEF ServerFound
    <2>4. /\ expected' = [t \in {"main", "discovery"} |-> expected'[t]]
          /\ expected'.main \in ConnectionStates /\ expected'.discovery \in ConnectionStates
      BY <2>2
    <2> QED BY <2>1, <2>3, <2>4
  <1>30. CASE ClaimConnecting("discovery") BY <1>30 DEF ClaimConnecting, Returns, Over, AfterClaim
  <1>31. CASE StartReceiving("discovery")
    <2>1. receiving' \in BOOLEAN /\ terminated' \in BOOLEAN
      BY <1>31 DEF StartReceiving
    <2>2. videoSocket' = Over("discovery")
      BY <1>31 DEF StartReceiving
    <2>3. UNCHANGED <<reach, served, state, previousState, expected, needsReconnect,
                      starting, networking, decoderReady, trackingSocket, controlSocket,
                      controlTcpSocket, discovering, discoverySocket, hasVideoTexture,
                      session, transportMode>>
      BY <1>31 DEF StartReceiving
    <2> QED BY <2>1, <2>2, <2>3 DEF Over
  <1>32. CASE StartReceivingFails("discovery") BY <1>32 DEF StartReceivingFails, Returns
  <1>33. CASE OpenControlSocket("discovery")
    <2>1. /\ trackingSocket' \in BOOLEAN /\ controlSocket' \in BOOLEAN
          /\ controlTcpSocket' \in BOOLEAN
      BY <1>33 DEF OpenControlSocket
    <2>2. served' \in {served, "none"}
      BY <1>33 DEF OpenControlSocket
    <2>3. UNCHANGED <<reach, state, previousState, expected, needsReconnect, starting,
                      networking, decoderReady, discovering, discoverySocket, receiving,
                      hasVideoTexture, session, terminated, transportMode, videoSocket>>
      BY <1>33 DEF OpenControlSocket
    <2> QED BY <2>1, <2>2, <2>3
  <1>34. CASE SendClientConnect("discovery")
    <2>1. controlSocket' \in BOOLEAN
      BY <1>34 DEF SendClientConnect
    <2>2. served' \in {served, Over("discovery")}
      BY <1>34 DEF SendClientConnect
    <2>3. UNCHANGED <<reach, state, previousState, expected, needsReconnect, starting,
                      networking, decoderReady, trackingSocket, controlTcpSocket,
                      discovering, discoverySocket, receiving, hasVideoTexture, session,
                      terminated, transportMode, videoSocket>>
      BY <1>34 DEF SendClientConnect
    <2> QED BY <2>1, <2>2, <2>3 DEF Over
  <1>35. CASE ConnectionIsSetUp("discovery")
    <2>1. discovering' \in BOOLEAN
      BY <1>35 DEF ConnectionIsSetUp
    <2>2. state' = "Connected"
      BY <1>35 DEF ConnectionIsSetUp
    <2>3. UNCHANGED <<reach, served, previousState, expected, needsReconnect, starting,
                      networking, decoderReady, trackingSocket, controlSocket,
                      controlTcpSocket, discoverySocket, receiving, hasVideoTexture,
                      session, terminated, transportMode, videoSocket>>
      BY <1>35 DEF ConnectionIsSetUp
    <2> QED BY <2>1, <2>2, <2>3
  <1>36. CASE DiscoveryLoop BY <1>36 DEF DiscoveryLoop
  <1>37. CASE DiscoveryHearsNothing BY <1>37 DEF DiscoveryHearsNothing
  <1>38. CASE DiscoveryHears BY <1>38 DEF DiscoveryHears
  <1>39. CASE ReceiveThreadEnds BY <1>39 DEF ReceiveThreadEnds
  <1>40. CASE LostStoresState("receive", "done") BY <1>40 DEF LostStoresState, LosesFrom
  <1>41. CASE LostFlagsReconnect("receive", "done") BY <1>41 DEF LostFlagsReconnect
  <1>42. CASE ReceiveTcpThreadEnds
    <2>1. receiving' \in BOOLEAN
      BY <1>42 DEF ReceiveTcpThreadEnds
    <2>2. UNCHANGED <<reach, served, state, previousState, expected, needsReconnect,
                      starting, networking, decoderReady, trackingSocket, controlSocket,
                      controlTcpSocket, discovering, discoverySocket, hasVideoTexture,
                      session, terminated, transportMode, videoSocket>>
      BY <1>42 DEF ReceiveTcpThreadEnds
    <2> QED BY <2>1, <2>2
  <1>43. CASE SessionReady BY <1>43 DEF SessionReady
  <1>44. CASE SessionStopping
    <2>1. session' \in BOOLEAN
      BY <1>44 DEF SessionStopping
    <2>2. UNCHANGED <<reach, served, state, previousState, expected, needsReconnect,
                      starting, networking, decoderReady, trackingSocket, controlSocket,
                      controlTcpSocket, discovering, discoverySocket, receiving,
                      hasVideoTexture, terminated, transportMode, videoSocket>>
      BY <1>44 DEF SessionStopping
    <2> QED BY <2>1, <2>2
  <1>45. CASE AppDestroyed
    <2>1. session' \in BOOLEAN
      BY <1>45 DEF AppDestroyed
    <2>2. UNCHANGED <<reach, served, state, previousState, expected, needsReconnect,
                      starting, networking, decoderReady, trackingSocket, controlSocket,
                      controlTcpSocket, discovering, discoverySocket, receiving,
                      hasVideoTexture, terminated, transportMode, videoSocket>>
      BY <1>45 DEF AppDestroyed
    <2> QED BY <2>1, <2>2
  <1>46. CASE ServerLeaves BY <1>46 DEF ServerLeaves
  <1>47. CASE ReadPreviousState BY <1>47 DEF ReadPreviousState
  <1> QED BY <1>1, <1>2, <1>3, <1>4, <1>5, <1>6, <1>7, <1>8, <1>9, <1>10, <1>11, <1>12,
             <1>13, <1>14, <1>15, <1>16, <1>17, <1>18, <1>19, <1>20, <1>21, <1>22, <1>23,
             <1>24, <1>25, <1>26, <1>27, <1>28, <1>29, <1>30, <1>31, <1>32, <1>33, <1>34,
             <1>35, <1>36, <1>37, <1>38, <1>39, <1>40, <1>41, <1>42, <1>43, <1>44, <1>45,
             <1>46, <1>47
         DEF Next, Main, Discovery, Receive, Choose, Configure

-----------------------------------------------------------------------------
(* What a reset leaves, and who receives. *)

\* From the time Stop has closed the sockets the discovery thread may still open
\* one for the receive thread it starts, which then runs until Stop is called
\* again: the join of it does not return.
ResetInv ==
    /\ ~networking =>
          /\ ~discoverySocket /\ ~trackingSocket /\ ~decoderReady /\ ~hasVideoTexture
          /\ videoSocket = "none"
    /\ pc.main \in {"joinDiscovery", "joinReceive", "reset"} =>
          /\ ~discoverySocket
          /\ videoSocket # "none" => pc.receive = "udp" /\ receiving

Connecting(t) == pc[t] \in {"control", "tell", "connected"}

\* Whoever may store "Connected" has a receive thread.
ReceivesInv ==
    \/ pc.receive # "none" \/ Stopping
    \/ /\ state # "Connected" /\ ~Connecting("main") /\ ~Connecting("discovery")
       /\ pc.main \in {"usbOpen", "usbAnnounce"} => previousState # "Connected"

\* Over WiFi main never connects, and the receive thread ends only when stopped.
WifiInv ==
    reach = {"wifi"} =>
        /\ pc.main \notin {"usbAnnounce", "usbDone"} \cup ConfigLabels
        /\ pc.receive \in {"none", "udp", "done"}
        /\ Connecting("discovery") =>
              (pc.receive = "udp" /\ receiving /\ videoSocket = "wifi") \/ Stopping

\* No step gives a client that is reset anything.
LEMMA ResetKept ==
  ASSUME PcType, ThreadsInTime, Scalars, ResetInv, Next
  PROVE  ResetInv'
  <1> USE DEF vars, atomics, localVars, controlSockets, receiverVars, objectVars, appVars,
              At, Goes, PcType, ThreadsInTime, AtWork, StopLabels, UsbLabels, ConfigLabels,
              FrameLabels, MainLabels, DiscoveryLabels, ReceiveLabels, Threads, ResetInv, Scalars
  <1>1. CASE FrameReconnects BY <1>1 DEF FrameReconnects
  <1>2. CASE FrameGoesOn BY <1>2 DEF FrameGoesOn
  <1>3. CASE RetryUsbAdbTransport BY <1>3 DEF RetryUsbAdbTransport, Retries
  <1>4. CASE RetryNotNeeded BY <1>4 DEF RetryNotNeeded
  <1>5. CASE NoEvent BY <1>5 DEF NoEvent
  <1>6. CASE FrameShows BY <1>6 DEF FrameShows
  <1>7. CASE FrameShowsNone BY <1>7 DEF FrameShowsNone
  <1>8. CASE FrameStalls BY <1>8 DEF FrameStalls
  <1>9. CASE LostStoresState("main", "app") BY <1>9 DEF LostStoresState, LosesFrom
  <1>10. CASE LostFlagsReconnect("main", "app") BY <1>10 DEF LostFlagsReconnect
  <1>11. CASE CloseControlSocket BY <1>11 DEF CloseControlSocket
  <1>12. CASE StopClearsFlags BY <1>12 DEF StopClearsFlags
  <1>13. CASE StopClosesSockets BY <1>13 DEF StopClosesSockets
  <1>14. CASE StopJoins("discovery", "joinDiscovery", "joinReceive") BY <1>14 DEF StopJoins
  <1>15. CASE StopJoins("receive", "joinReceive", "reset") BY <1>15 DEF StopJoins
  <1>16. CASE ResetConnectionEnds BY <1>16 DEF ResetConnectionEnds
  <1>17. CASE StartNetworking BY <1>17 DEF StartNetworking
  <1>18. CASE StartDiscovery BY <1>18 DEF StartDiscovery
  <1>19. CASE OpenUsbControlSocket BY <1>19 DEF OpenUsbControlSocket, UsbGivesUp, UsbFailed
  <1>20. CASE ReadUsbAnnounce BY <1>20 DEF ReadUsbAnnounce, UsbGivesUp, UsbFailed
  <1>21. CASE UsbTried BY <1>21 DEF UsbTried, UsbFailed
  <1>22. CASE ServerFound("main") BY <1>22 DEF ServerFound, Returns
  <1>23. CASE ClaimConnecting("main") BY <1>23 DEF ClaimConnecting, Returns, Over, AfterClaim
  <1>24. CASE StartReceiving("main") BY <1>24 DEF StartReceiving, Over
  <1>25. CASE StartReceivingFails("main") BY <1>25 DEF StartReceivingFails, Returns
  <1>26. CASE OpenControlSocket("main") BY <1>26 DEF OpenControlSocket
  <1>27. CASE SendClientConnect("main") BY <1>27 DEF SendClientConnect, Over
  <1>28. CASE ConnectionIsSetUp("main") BY <1>28 DEF ConnectionIsSetUp, Returns
  <1>29. CASE ServerFound("discovery") BY <1>29 DEF ServerFound, Returns
  <1>30. CASE ClaimConnecting("discovery") BY <1>30 DEF ClaimConnecting, Returns, Over, AfterClaim
  <1>31. CASE StartReceiving("discovery") BY <1>31 DEF StartReceiving, Over
  <1>32. CASE StartReceivingFails("discovery") BY <1>32 DEF StartReceivingFails, Returns
  <1>33. CASE OpenControlSocket("discovery") BY <1>33 DEF OpenControlSocket
  <1>34. CASE SendClientConnect("discovery") BY <1>34 DEF SendClientConnect, Over
  <1>35. CASE ConnectionIsSetUp("discovery") BY <1>35 DEF ConnectionIsSetUp, Returns
  <1>36. CASE DiscoveryLoop BY <1>36 DEF DiscoveryLoop
  <1>37. CASE DiscoveryHearsNothing BY <1>37 DEF DiscoveryHearsNothing
  <1>38. CASE DiscoveryHears BY <1>38 DEF DiscoveryHears
  <1>39. CASE ReceiveThreadEnds BY <1>39 DEF ReceiveThreadEnds
  <1>40. CASE LostStoresState("receive", "done") BY <1>40 DEF LostStoresState, LosesFrom
  <1>41. CASE LostFlagsReconnect("receive", "done") BY <1>41 DEF LostFlagsReconnect
  <1>42. CASE ReceiveTcpThreadEnds BY <1>42 DEF ReceiveTcpThreadEnds
  <1>43. CASE SessionReady BY <1>43 DEF SessionReady
  <1>44. CASE SessionStopping BY <1>44 DEF SessionStopping
  <1>45. CASE AppDestroyed BY <1>45 DEF AppDestroyed
  <1>46. CASE ServerLeaves BY <1>46 DEF ServerLeaves
  <1>47. CASE ReadPreviousState BY <1>47 DEF ReadPreviousState
  <1> QED BY <1>1, <1>2, <1>3, <1>4, <1>5, <1>6, <1>7, <1>8, <1>9, <1>10, <1>11, <1>12,
             <1>13, <1>14, <1>15, <1>16, <1>17, <1>18, <1>19, <1>20, <1>21, <1>22, <1>23,
             <1>24, <1>25, <1>26, <1>27, <1>28, <1>29, <1>30, <1>31, <1>32, <1>33, <1>34,
             <1>35, <1>36, <1>37, <1>38, <1>39, <1>40, <1>41, <1>42, <1>43, <1>44, <1>45,
             <1>46, <1>47
         DEF Next, Main, Discovery, Receive, Choose, Configure

\* A state of "Connected" is stored, or restored, only over a receive thread.
LEMMA ReceivesKept ==
  ASSUME PcType, ThreadsInTime, ReceivesInv, Next
  PROVE  ReceivesInv'
  <1> USE DEF vars, atomics, localVars, controlSockets, receiverVars, objectVars, appVars,
              At, Goes, PcType, ThreadsInTime, AtWork, StopLabels, UsbLabels, ConfigLabels,
              FrameLabels, MainLabels, DiscoveryLabels, ReceiveLabels, Threads,
              ReceivesInv, Connecting, Stopping
  <1>1. CASE FrameReconnects BY <1>1 DEF FrameReconnects
  <1>2. CASE FrameGoesOn BY <1>2 DEF FrameGoesOn
  <1>3. CASE RetryUsbAdbTransport BY <1>3 DEF RetryUsbAdbTransport, Retries
  <1>4. CASE RetryNotNeeded BY <1>4 DEF RetryNotNeeded
  <1>5. CASE NoEvent BY <1>5 DEF NoEvent
  <1>6. CASE FrameShows BY <1>6 DEF FrameShows
  <1>7. CASE FrameShowsNone BY <1>7 DEF FrameShowsNone
  <1>8. CASE FrameStalls BY <1>8 DEF FrameStalls
  <1>9. CASE LostStoresState("main", "app") BY <1>9 DEF LostStoresState, LosesFrom
  <1>10. CASE LostFlagsReconnect("main", "app") BY <1>10 DEF LostFlagsReconnect
  <1>11. CASE CloseControlSocket BY <1>11 DEF CloseControlSocket
  <1>12. CASE StopClearsFlags BY <1>12 DEF StopClearsFlags
  <1>13. CASE StopClosesSockets BY <1>13 DEF StopClosesSockets
  <1>14. CASE StopJoins("discovery", "joinDiscovery", "joinReceive") BY <1>14 DEF StopJoins
  <1>15. CASE StopJoins("receive", "joinReceive", "reset") BY <1>15 DEF StopJoins
  <1>16. CASE ResetConnectionEnds BY <1>16 DEF ResetConnectionEnds
  <1>17. CASE StartNetworking BY <1>17 DEF StartNetworking
  <1>18. CASE StartDiscovery BY <1>18 DEF StartDiscovery
  <1>19. CASE OpenUsbControlSocket BY <1>19 DEF OpenUsbControlSocket, UsbGivesUp, UsbFailed
  <1>20. CASE ReadUsbAnnounce BY <1>20 DEF ReadUsbAnnounce, UsbGivesUp, UsbFailed
  <1>21. CASE UsbTried BY <1>21 DEF UsbTried, UsbFailed
  <1>22. CASE ServerFound("main") BY <1>22 DEF ServerFound, Returns
  <1>23. CASE ClaimConnecting("main") BY <1>23 DEF ClaimConnecting, Returns, Over, AfterClaim
  <1>24. CASE StartReceiving("main") BY <1>24 DEF StartReceiving, Over
  <1>25. CASE StartReceivingFails("main") BY <1>25 DEF StartReceivingFails, Returns
  <1>26. CASE OpenControlSocket("main") BY <1>26 DEF OpenControlSocket
  <1>27. CASE SendClientConnect("main") BY <1>27 DEF SendClientConnect, Over
  <1>28. CASE ConnectionIsSetUp("main") BY <1>28 DEF ConnectionIsSetUp, Returns
  <1>29. CASE ServerFound("discovery") BY <1>29 DEF ServerFound, Returns
  <1>30. CASE ClaimConnecting("discovery") BY <1>30 DEF ClaimConnecting, Returns, Over, AfterClaim
  <1>31. CASE StartReceiving("discovery") BY <1>31 DEF StartReceiving, Over
  <1>32. CASE StartReceivingFails("discovery") BY <1>32 DEF StartReceivingFails, Returns
  <1>33. CASE OpenControlSocket("discovery") BY <1>33 DEF OpenControlSocket
  <1>34. CASE SendClientConnect("discovery") BY <1>34 DEF SendClientConnect, Over
  <1>35. CASE ConnectionIsSetUp("discovery") BY <1>35 DEF ConnectionIsSetUp, Returns
  <1>36. CASE DiscoveryLoop BY <1>36 DEF DiscoveryLoop
  <1>37. CASE DiscoveryHearsNothing BY <1>37 DEF DiscoveryHearsNothing
  <1>38. CASE DiscoveryHears BY <1>38 DEF DiscoveryHears
  <1>39. CASE ReceiveThreadEnds BY <1>39 DEF ReceiveThreadEnds
  <1>40. CASE LostStoresState("receive", "done") BY <1>40 DEF LostStoresState, LosesFrom
  <1>41. CASE LostFlagsReconnect("receive", "done") BY <1>41 DEF LostFlagsReconnect
  <1>42. CASE ReceiveTcpThreadEnds BY <1>42 DEF ReceiveTcpThreadEnds
  <1>43. CASE SessionReady BY <1>43 DEF SessionReady
  <1>44. CASE SessionStopping BY <1>44 DEF SessionStopping
  <1>45. CASE AppDestroyed BY <1>45 DEF AppDestroyed
  <1>46. CASE ServerLeaves BY <1>46 DEF ServerLeaves
  <1>47. CASE ReadPreviousState BY <1>47 DEF ReadPreviousState
  <1> QED BY <1>1, <1>2, <1>3, <1>4, <1>5, <1>6, <1>7, <1>8, <1>9, <1>10, <1>11, <1>12,
             <1>13, <1>14, <1>15, <1>16, <1>17, <1>18, <1>19, <1>20, <1>21, <1>22, <1>23,
             <1>24, <1>25, <1>26, <1>27, <1>28, <1>29, <1>30, <1>31, <1>32, <1>33, <1>34,
             <1>35, <1>36, <1>37, <1>38, <1>39, <1>40, <1>41, <1>42, <1>43, <1>44, <1>45,
             <1>46, <1>47
         DEF Next, Main, Discovery, Receive, Choose, Configure

\* Where only WiFi is in reach the discovery thread alone connects.
LEMMA WifiKept ==
  ASSUME PcType, ThreadsInTime, WifiInv, Next
  PROVE  WifiInv'
  <1> USE DEF vars, atomics, localVars, controlSockets, receiverVars, objectVars, appVars,
              At, Goes, PcType, ThreadsInTime, AtWork, StopLabels, UsbLabels, ConfigLabels,
              FrameLabels, MainLabels, DiscoveryLabels, ReceiveLabels, Threads,
              WifiInv, Connecting, Stopping, UsbReachable
  <1>1. CASE FrameReconnects BY <1>1 DEF FrameReconnects
  <1>2. CASE FrameGoesOn BY <1>2 DEF FrameGoesOn
  <1>3. CASE RetryUsbAdbTransport BY <1>3 DEF RetryUsbAdbTransport, Retries
  <1>4. CASE RetryNotNeeded BY <1>4 DEF RetryNotNeeded
  <1>5. CASE NoEvent BY <1>5 DEF NoEvent
  <1>6. CASE FrameShows BY <1>6 DEF FrameShows
  <1>7. CASE FrameShowsNone BY <1>7 DEF FrameShowsNone
  <1>8. CASE FrameStalls BY <1>8 DEF FrameStalls
  <1>9. CASE LostStoresState("main", "app") BY <1>9 DEF LostStoresState, LosesFrom
  <1>10. CASE LostFlagsReconnect("main", "app") BY <1>10 DEF LostFlagsReconnect
  <1>11. CASE CloseControlSocket BY <1>11 DEF CloseControlSocket
  <1>12. CASE StopClearsFlags BY <1>12 DEF StopClearsFlags
  <1>13. CASE StopClosesSockets BY <1>13 DEF StopClosesSockets
  <1>14. CASE StopJoins("discovery", "joinDiscovery", "joinReceive") BY <1>14 DEF StopJoins
  <1>15. CASE StopJoins("receive", "joinReceive", "reset") BY <1>15 DEF StopJoins
  <1>16. CASE ResetConnectionEnds BY <1>16 DEF ResetConnectionEnds
  <1>17. CASE StartNetworking BY <1>17 DEF StartNetworking
  <1>18. CASE StartDiscovery BY <1>18 DEF StartDiscovery
  <1>19. CASE OpenUsbControlSocket BY <1>19 DEF OpenUsbControlSocket, UsbGivesUp, UsbFailed
  <1>20. CASE ReadUsbAnnounce BY <1>20 DEF ReadUsbAnnounce, UsbGivesUp, UsbFailed
  <1>21. CASE UsbTried BY <1>21 DEF UsbTried, UsbFailed
  <1>22. CASE ServerFound("main") BY <1>22 DEF ServerFound, Returns
  <1>23. CASE ClaimConnecting("main") BY <1>23 DEF ClaimConnecting, Returns, Over, AfterClaim
  <1>24. CASE StartReceiving("main") BY <1>24 DEF StartReceiving, Over
  <1>25. CASE StartReceivingFails("main") BY <1>25 DEF StartReceivingFails, Returns
  <1>26. CASE OpenControlSocket("main") BY <1>26 DEF OpenControlSocket
  <1>27. CASE SendClientConnect("main") BY <1>27 DEF SendClientConnect, Over
  <1>28. CASE ConnectionIsSetUp("main") BY <1>28 DEF ConnectionIsSetUp, Returns
  <1>29. CASE ServerFound("discovery") BY <1>29 DEF ServerFound, Returns
  <1>30. CASE ClaimConnecting("discovery") BY <1>30 DEF ClaimConnecting, Returns, Over, AfterClaim
  <1>31. CASE StartReceiving("discovery") BY <1>31 DEF StartReceiving, Over
  <1>32. CASE StartReceivingFails("discovery") BY <1>32 DEF StartReceivingFails, Returns
  <1>33. CASE OpenControlSocket("discovery") BY <1>33 DEF OpenControlSocket
  <1>34. CASE SendClientConnect("discovery") BY <1>34 DEF SendClientConnect, Over
  <1>35. CASE ConnectionIsSetUp("discovery") BY <1>35 DEF ConnectionIsSetUp, Returns
  <1>36. CASE DiscoveryLoop BY <1>36 DEF DiscoveryLoop
  <1>37. CASE DiscoveryHearsNothing BY <1>37 DEF DiscoveryHearsNothing
  <1>38. CASE DiscoveryHears BY <1>38 DEF DiscoveryHears
  <1>39. CASE ReceiveThreadEnds BY <1>39 DEF ReceiveThreadEnds
  <1>40. CASE LostStoresState("receive", "done") BY <1>40 DEF LostStoresState, LosesFrom
  <1>41. CASE LostFlagsReconnect("receive", "done") BY <1>41 DEF LostFlagsReconnect
  <1>42. CASE ReceiveTcpThreadEnds BY <1>42 DEF ReceiveTcpThreadEnds
  <1>43. CASE SessionReady BY <1>43 DEF SessionReady
  <1>44. CASE SessionStopping BY <1>44 DEF SessionStopping
  <1>45. CASE AppDestroyed BY <1>45 DEF AppDestroyed
  <1>46. CASE ServerLeaves BY <1>46 DEF ServerLeaves
  <1>47. CASE ReadPreviousState BY <1>47 DEF ReadPreviousState
  <1> QED BY <1>1, <1>2, <1>3, <1>4, <1>5, <1>6, <1>7, <1>8, <1>9, <1>10, <1>11, <1>12,
             <1>13, <1>14, <1>15, <1>16, <1>17, <1>18, <1>19, <1>20, <1>21, <1>22, <1>23,
             <1>24, <1>25, <1>26, <1>27, <1>28, <1>29, <1>30, <1>31, <1>32, <1>33, <1>34,
             <1>35, <1>36, <1>37, <1>38, <1>39, <1>40, <1>41, <1>42, <1>43, <1>44, <1>45,
             <1>46, <1>47
         DEF Next, Main, Discovery, Receive, Choose, Configure

\* A server takes the client for one only when it is told of it.
LEMMA OnlyTellingServes ==
  ASSUME Next, served' \notin {served, "none"}
  PROVE  \E t \in {"main", "discovery"} :
            /\ At(t, "tell") /\ SendClientConnect(t) /\ served' = Over(t)
  <1> USE DEF vars, objectVars
  <1>1. ASSUME NEW t \in {"main", "discovery"}, Configure(t)
        PROVE  At(t, "tell") /\ SendClientConnect(t) /\ served' = Over(t)
    <2>1. ~ServerFound(t) /\ ~ClaimConnecting(t) BY DEF ServerFound, ClaimConnecting
    <2>2. ~StartReceiving(t) /\ ~StartReceivingFails(t)
      BY DEF StartReceiving, StartReceivingFails
    <2>3. ~OpenControlSocket(t) /\ ~ConnectionIsSetUp(t)
      BY DEF OpenControlSocket, ConnectionIsSetUp
    <2>4. SendClientConnect(t) BY <1>1, <2>1, <2>2, <2>3 DEF Configure
    <2> QED BY <2>4 DEF SendClientConnect, Goes
  <1>2. Main => Configure("main")
    <2>1. ~(FrameReconnects \/ FrameGoesOn \/ RetryUsbAdbTransport \/ RetryNotNeeded \/ NoEvent)
      BY DEF FrameReconnects, FrameGoesOn, RetryUsbAdbTransport, RetryNotNeeded, NoEvent
    <2>2. ~(FrameShows \/ FrameShowsNone \/ FrameStalls)
      BY DEF FrameShows, FrameShowsNone, FrameStalls
    <2>3. ~LostStoresState("main", "app") /\ ~LostFlagsReconnect("main", "app")
      BY DEF LostStoresState, LostFlagsReconnect
    <2>4. ~(CloseControlSocket \/ StopClearsFlags \/ StopClosesSockets)
      BY DEF CloseControlSocket, StopClearsFlags, StopClosesSockets
    <2>5. /\ ~StopJoins("discovery", "joinDiscovery", "joinReceive")
          /\ ~StopJoins("receive", "joinReceive", "reset")
      BY DEF StopJoins
    <2>6. ~(ResetConnectionEnds \/ StartNetworking \/ StartDiscovery)
      BY DEF ResetConnectionEnds, StartNetworking, StartDiscovery
    <2>7. ~(ReadPreviousState \/ OpenUsbControlSocket \/ ReadUsbAnnounce \/ UsbTried)
      BY DEF ReadPreviousState, OpenUsbControlSocket, ReadUsbAnnounce, UsbTried
    <2> QED BY <2>1, <2>2, <2>3, <2>4, <2>5, <2>6, <2>7 DEF Main
  <1>3. Discovery => Configure("discovery")
    BY DEF Discovery, DiscoveryLoop, DiscoveryHearsNothing
  <1>4. ~Receive BY DEF Receive, ReceiveThreadEnds, LostStoresState, LostFlagsReconnect
  <1>5. ~Choose
    BY DEF Choose, SessionReady, SessionStopping, AppDestroyed, DiscoveryHears,
           ReceiveTcpThreadEnds, ServerLeaves
  <1> QED BY <1>1, <1>2, <1>3, <1>4, <1>5 DEF Next

-----------------------------------------------------------------------------
(* Theorems. *)

\* The inductive invariant, its first part inductive alone.
TypeInv == PcType /\ ThreadsInTime /\ Scalars
IInv == TypeInv /\ ResetInv /\ ReceivesInv /\ WifiInv

\* The client starts with nothing.
LEMMA InitHolds == Init => IInv
  <1> SUFFICES ASSUME Init PROVE IInv
    OBVIOUS
  <1>1. /\ pc.main = "app" /\ pc.discovery = "none" /\ pc.receive = "none"
        /\ pc = [t \in Threads |-> pc[t]] /\ then = "app"
    BY DEF Init, Threads
  <1>2. PcType /\ ThreadsInTime
    BY <1>1 DEF PcType, ThreadsInTime, MainLabels, DiscoveryLabels, ReceiveLabels,
         FrameLabels, StopLabels, UsbLabels, ConfigLabels, AtWork
  <1>3. Scalars BY DEF Init, Scalars, ConnectionStates, Transports
  <1>4. /\ ~discoverySocket /\ ~trackingSocket /\ ~decoderReady /\ ~hasVideoTexture
        /\ videoSocket = "none" /\ state = "Disconnected"
    BY DEF Init
  <1>5. ResetInv /\ ReceivesInv /\ WifiInv
    BY <1>1, <1>4 DEF ResetInv, ReceivesInv, WifiInv, Connecting, ConfigLabels
  <1> QED BY <1>2, <1>3, <1>5 DEF IInv, TypeInv

LEMMA StepHolds == IInv /\ [Next]_vars => IInv'
  <1> SUFFICES ASSUME IInv, [Next]_vars PROVE IInv'
    OBVIOUS
  <1>1. CASE Next
    BY <1>1, PlacesKept, ScalarsKept, ResetKept, ReceivesKept, WifiKept DEF IInv, TypeInv
  <1>2. CASE UNCHANGED vars
    <2> USE <1>2 DEF IInv, TypeInv, vars, atomics, localVars, controlSockets, receiverVars,
                     objectVars, appVars
    <2>1. PcType' /\ ThreadsInTime' BY DEF PcType, ThreadsInTime
    <2>2. Scalars' BY DEF Scalars
    <2>3. ResetInv' /\ ReceivesInv' /\ WifiInv'
      BY DEF ResetInv, ReceivesInv, WifiInv, Connecting, Stopping
    <2> QED BY <2>1, <2>2, <2>3
  <1> QED BY <1>1, <1>2

LEMMA IInvHolds == Spec => []IInv
  BY InitHolds, StepHolds, PTL DEF Spec

\* Each variable keeps its type, and a thread that runs has an object it runs
\* in, whatever main does while another thread connects (XrApp.h:175-205,
\* NetworkReceiver.h:94-100).
THEOREM TypeOKHolds == Spec => []TypeOK
  <1>1. IInv => TypeOK
    BY DEF IInv, TypeInv, PcType, ThreadsInTime, Scalars, ConnectionStates, TypeOK
  <1> QED BY IInvHolds, <1>1, PTL

\* A reset that returns leaves no thread, video or discovery socket, decoder or
\* texture, even of a connection the discovery thread was making
\* (XrApp.cpp:1091-1109, NetworkReceiver.cpp:726-749).
THEOREM ResetLeavesNothingHolds == Spec => []ResetLeavesNothing
  <1>1. IInv => ResetLeavesNothing
    BY DEF IInv, TypeInv, ThreadsInTime, ResetInv, ResetLeavesNothing
  <1> QED BY IInvHolds, <1>1, PTL

\* A client that takes itself for connected has a receive thread, unless it is
\* being reset (XrApp.cpp:1261, 1277, 1486, 1112).
THEOREM ConnectedReceivesHolds == Spec => []ConnectedReceives
  <1>1. IInv => ConnectedReceives BY DEF IInv, ReceivesInv, ConnectedReceives
  <1> QED BY IInvHolds, <1>1, PTL

\* Over WiFi a server is told of the client only when the receive thread runs on
\* its socket, unless main is stopping them (XrApp.cpp:1403-1406, 1485).
THEOREM ListensBeforeConnectHolds == Spec => ListensBeforeConnect
  <1>1. IInv /\ [Next]_vars =>
          [reach = {"wifi"} /\ served' \notin {served, "none"} =>
             (pc.receive = "udp" /\ videoSocket = "wifi") \/ Stopping]_vars
    <2> SUFFICES ASSUME IInv, [Next]_vars, reach = {"wifi"}, served' \notin {served, "none"}
                 PROVE  (pc.receive = "udp" /\ videoSocket = "wifi") \/ Stopping
      OBVIOUS
    <2>1. Next BY DEF vars
    <2>2. PICK t \in {"main", "discovery"} : At(t, "tell")
      BY <2>1, OnlyTellingServes
    <2>3. WifiInv BY DEF IInv
    <2> QED BY <2>2, <2>3 DEF At, WifiInv, Connecting, ConfigLabels
  <1> QED BY IInvHolds, <1>1, PTL DEF Spec, ListensBeforeConnect
================================================================================
