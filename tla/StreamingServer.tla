--------------------------- MODULE StreamingServer ---------------------------
(***************************************************************************)
(* The connection lifecycle of the streaming server                        *)
(* (runtime/src/StreamingServer.cpp), from Start to the end of the         *)
(* destructor.  "control" receives UDP messages of WiFi clients,           *)
(* "tcpControl", "tcpVideo" and "tcpTracking" serve the USB client,        *)
(* "encode" waits for frames, and "owner" is the session that starts,      *)
(* stops and destroys the server; one more thread, which announces the     *)
(* server, is the state of the std::thread object broadcastThread_.  A     *)
(* step is a critical section or one atomic access.                        *)
(*                                                                         *)
(* Frames (FramePath), the callbacks of an encoder, which nobody joins     *)
(* (VideoEncoder), and the poses received are not followed here.           *)
(***************************************************************************)
EXTENDS Naturals

CONSTANTS
    Transports,     \* the values of streamingTransport the runs start with
    UsbSockets,     \* descriptors the video listener may return
    UsbTracking,    \* a USB client opens its tracking connection
    StrayGoodbyes   \* a UDP client says goodbye to a server that was not announced

ASSUME TransportsAssumption ==
    /\ Transports \subseteq {"wifi", "usb_adb", "auto"}
    /\ UsbTracking \in BOOLEAN /\ StrayGoodbyes \in BOOLEAN

VARIABLES
    wifiEnabled, usbAdbEnabled,
    running, state,
    broadcastThread,        \* "none" (not joinable), "running" or "finished"
    clientKnown,            \* clientIp_, clientName_, clientPort_ are set
    clientUsesUsbAdb,
    packetDispatchState,    \* where encoded packets go: [socket, tcp, ip, accepting]
    listening,              \* the three TCP listeners are open
    tcpControlClientSocket, \* the control connection is open
    tcpVideoClientSocket,
    tcpTrackingClientSocket,
    clientSocket,           \* TcpVideoThread's: the descriptor it accepted last
    trackingReceiver,       \* trackingReceiver_ is not null
    encoder,                \* encoder_ is not null
    status,                 \* the connection state RuntimeStatus publishes
    disconnectMutex,        \* held
    previousState, wasUsbClient,   \* locals of HandleClientDisconnect
    stops,                  \* calls of Stop that returned
    fault,                  \* why the process has ended, if it has
    pc

clientVars == <<clientKnown, clientUsesUsbAdb>>
connectionVars == <<tcpControlClientSocket, tcpVideoClientSocket, tcpTrackingClientSocket>>
socketVars == <<connectionVars, clientSocket>>
disconnectVars == <<disconnectMutex, previousState, wasUsbClient>>
configVars == <<wifiEnabled, usbAdbEnabled, listening, trackingReceiver>>
stopVars == <<running, stops>>
vars == <<configVars, stopVars, state, broadcastThread, clientVars, packetDispatchState,
          socketVars, encoder, status, disconnectVars, fault, pc>>

NoSocket == "none"
UdpSocket == "udp"
Handlers == {"control", "tcpControl"}
UsbThreads == {"tcpControl", "tcpVideo", "tcpTracking"}

\* Thread t goes on from one point of its code to another.
Goes(t, from, to) == fault = "none" /\ pc[t] = from /\ pc' = [pc EXCEPT ![t] = to]

\* A server just constructed; a thread that was not started is "done".
Init ==
    /\ wifiEnabled = TRUE /\ usbAdbEnabled = TRUE
    /\ listening = FALSE /\ trackingReceiver = FALSE
    /\ running = FALSE
    /\ state = "Stopped"
    /\ broadcastThread = "none"
    /\ clientKnown = FALSE /\ clientUsesUsbAdb = FALSE
    /\ packetDispatchState =
          [socket |-> NoSocket, tcp |-> FALSE, ip |-> FALSE, accepting |-> FALSE]
    /\ tcpControlClientSocket = FALSE /\ tcpVideoClientSocket = NoSocket
    /\ tcpTrackingClientSocket = FALSE /\ clientSocket = NoSocket
    /\ encoder = FALSE
    /\ status = "idle"
    /\ disconnectMutex = FALSE /\ previousState = "Broadcasting" /\ wasUsbClient = FALSE
    /\ stops = 0
    /\ fault = "none"
    /\ pc = [t \in Handlers \cup UsbThreads \cup {"encode", "owner"} |->
                IF t = "owner" THEN "new" ELSE "done"]

------------------------------------------------------------------------------
(* The broadcast thread and its std::thread object.                        *)

\* A slip: the loop looks at state_ only.
KeepsBroadcastingByState == state = "Broadcasting"
KeepsBroadcasting == running /\ state = "Broadcasting"

BroadcastEnds ==
    /\ broadcastThread = "running"
    /\ ~KeepsBroadcasting
    /\ broadcastThread' = "finished"
    /\ UNCHANGED <<configVars, stopVars, state, clientVars, packetDispatchState, socketVars,
                   encoder, status, disconnectVars, fault, pc>>

\* broadcastThread_ = std::thread(...): onto a joinable object it terminates.
Spawn ==
    /\ broadcastThread' = "running"
    /\ fault' = IF broadcastThread # "none" THEN "assigned" ELSE "none"

\* A slip: nobody joins the old thread.
JoinableNever == FALSE
Joinable == broadcastThread # "none"

\* join() returns when the thread has ended.  If another thread has joined it
\* meanwhile the behaviour is undefined: it throws, which ends the process.
Join ==
    /\ broadcastThread # "running"
    /\ broadcastThread' = "none"
    /\ fault' = IF broadcastThread = "none" THEN "joinedTwice" ELSE "none"

------------------------------------------------------------------------------
(* Start.  When it fails the session destroys the server at once.          *)

\* EndSession's call and the destructor's.
StopCallsUndestroyed == 1   \* a slip: the destructor does not stop
StopCalls == 2

\* EndSession's call of Stop does not happen, the destructor's does.
StartFails ==
    /\ Goes("owner", pc["owner"], "up")
    /\ stops' = StopCalls - 1

StartSockets ==
    /\ pc["owner"] = "new"
    /\ \E transport \in Transports :
          /\ wifiEnabled' = (transport # "usb_adb")
          /\ usbAdbEnabled' = (transport # "wifi")
    /\ \/ StartFails /\ UNCHANGED packetDispatchState
       \/ /\ Goes("owner", "new", "st_tracking")
          /\ packetDispatchState' =
                [packetDispatchState EXCEPT !.socket = UdpSocket, !.accepting = TRUE]
          /\ UNCHANGED stops
    /\ UNCHANGED <<listening, trackingReceiver, running, state, broadcastThread, clientVars,
                   socketVars, encoder, status, disconnectVars, fault>>

StartTracking ==
    /\ pc["owner"] = "st_tracking"
    /\ \/ StartFails /\ UNCHANGED <<trackingReceiver, running, state, status>>
       \/ /\ Goes("owner", "st_tracking", "st_listen")
          /\ trackingReceiver' = TRUE
          /\ running' = TRUE /\ state' = "Broadcasting" /\ status' = "idle"
          /\ UNCHANGED stops
    /\ UNCHANGED <<wifiEnabled, usbAdbEnabled, listening, broadcastThread, clientVars,
                   packetDispatchState, socketVars, encoder, disconnectVars, fault>>

\* The USB threads serve clients before Start goes on.
StartUsbTcpListeners ==
    /\ pc["owner"] = "st_listen" /\ usbAdbEnabled /\ fault = "none"
    /\ listening' = TRUE
    /\ pc' = [pc EXCEPT !["owner"] = "st_threads", !["tcpControl"] = "accept",
                         !["tcpVideo"] = "accept", !["tcpTracking"] = "accept"]
    /\ UNCHANGED <<wifiEnabled, usbAdbEnabled, trackingReceiver, stopVars, state,
                   broadcastThread, clientVars, packetDispatchState, socketVars, encoder,
                   status, disconnectVars, fault>>

\* No listeners are asked for, or they cannot be had: without WiFi Start fails.
StartWithoutListeners ==
    /\ pc["owner"] = "st_listen"
    /\ usbAdbEnabled' = (usbAdbEnabled /\ ~wifiEnabled)
    /\ \/ /\ wifiEnabled
          /\ Goes("owner", "st_listen", "st_threads")
          /\ UNCHANGED <<trackingReceiver, stopVars>>
       \/ /\ ~wifiEnabled
          /\ StartFails
          /\ running' = FALSE /\ trackingReceiver' = FALSE
    /\ UNCHANGED <<wifiEnabled, listening, state, broadcastThread, clientVars,
                   packetDispatchState, socketVars, encoder, status, disconnectVars, fault>>

StartThreads ==
    /\ pc["owner"] = "st_threads" /\ fault = "none"
    /\ IF wifiEnabled THEN Spawn ELSE UNCHANGED <<broadcastThread, fault>>
    /\ pc' = [pc EXCEPT !["owner"] = "up", !["control"] = "receive",
                         !["encode"] = "check"]
    /\ UNCHANGED <<configVars, stopVars, state, clientVars, packetDispatchState, socketVars,
                   encoder, status, disconnectVars>>

Start ==
    \/ StartSockets \/ StartTracking \/ StartUsbTcpListeners \/ StartWithoutListeners
    \/ StartThreads

------------------------------------------------------------------------------
(* HandleClientConnect in the control thread, HandleUsbClientConnect in    *)
(* the USB control thread: the same steps but for who the client is.       *)

IsUsb(t) == t = "tcpControl"

\* Where a handler returns to: its loop tests running_ and then waits for the
\* next datagram, or the next record.
Return(t) ==
    IF IsUsb(t) THEN IF running THEN "read" ELSE "close"
                ELSE IF running THEN "receive" ELSE "done"

\* The message may come, or have come, when running_ has been cleared meanwhile.
HandleClientConnect(t) ==
    /\ IF IsUsb(t) THEN tcpControlClientSocket ELSE wifiEnabled
    /\ Goes(t, IF IsUsb(t) THEN "read" ELSE "receive", "c_dispatch")
    /\ clientKnown' = TRUE
    /\ clientUsesUsbAdb' = IsUsb(t)
    /\ UNCHANGED <<configVars, stopVars, state, broadcastThread, packetDispatchState,
                   socketVars, encoder, status, disconnectVars, fault>>

ConnectDispatch(t) ==
    /\ Goes(t, "c_dispatch", "c_state")
    /\ packetDispatchState' =
          [packetDispatchState EXCEPT
             !.socket = IF IsUsb(t) THEN tcpVideoClientSocket ELSE UdpSocket,
             !.tcp = IsUsb(t), !.ip = ~IsUsb(t)]
    /\ UNCHANGED <<configVars, stopVars, state, broadcastThread, clientVars, socketVars,
                   encoder, status, disconnectVars, fault>>

ConnectState(t) ==
    /\ Goes(t, "c_state", "c_joinable")
    /\ state' = "Connected"
    /\ UNCHANGED <<configVars, stopVars, broadcastThread, clientVars, packetDispatchState,
                   socketVars, encoder, status, disconnectVars, fault>>

ConnectTestsThread(t) ==
    /\ Goes(t, "c_joinable", IF Joinable THEN "c_join" ELSE "c_encoder")
    /\ UNCHANGED <<configVars, stopVars, state, broadcastThread, clientVars,
                   packetDispatchState, socketVars, encoder, status, disconnectVars, fault>>

ConnectJoins(t) ==
    /\ Goes(t, "c_join", "c_encoder")
    /\ Join
    /\ UNCHANGED <<configVars, stopVars, state, clientVars, packetDispatchState, socketVars,
                   encoder, status, disconnectVars>>

\* Under encoderMutex_: a new encoder, which may fail to initialise.
ConnectStartsEncoder(t) ==
    \E ready \in BOOLEAN :
       /\ Goes(t, "c_encoder", IF ready THEN Return(t) ELSE "c_failed")
       /\ encoder' = ready
       /\ status' = IF ready THEN "streaming" ELSE status
       /\ UNCHANGED <<configVars, stopVars, state, broadcastThread, clientVars,
                      packetDispatchState, socketVars, disconnectVars, fault>>

\* What is published when there is no encoder.
StatusWithoutEncoder == "idle"

ConnectFails(t) ==
    /\ Goes(t, "c_failed", "c_forget")
    /\ status' = StatusWithoutEncoder
    /\ UNCHANGED <<configVars, stopVars, state, broadcastThread, clientVars,
                   packetDispatchState, socketVars, encoder, disconnectVars, fault>>

ConnectForgets(t) ==
    /\ Goes(t, "c_forget", "c_state_back")
    /\ clientUsesUsbAdb' = (clientUsesUsbAdb /\ ~IsUsb(t))
    /\ UNCHANGED <<configVars, stopVars, state, broadcastThread, clientKnown,
                   packetDispatchState, socketVars, encoder, status, disconnectVars, fault>>

ConnectStateBack(t) ==
    /\ Goes(t, "c_state_back", "c_resume")
    /\ state' = "Broadcasting"
    /\ UNCHANGED <<configVars, stopVars, broadcastThread, clientVars, packetDispatchState,
                   socketVars, encoder, status, disconnectVars, fault>>

ConnectTestsRunning(t) ==
    /\ Goes(t, "c_resume", IF wifiEnabled /\ running THEN "c_spawn" ELSE Return(t))
    /\ UNCHANGED <<configVars, stopVars, state, broadcastThread, clientVars,
                   packetDispatchState, socketVars, encoder, status, disconnectVars, fault>>

ConnectSpawns(t) ==
    /\ Goes(t, "c_spawn", Return(t))
    /\ Spawn
    /\ UNCHANGED <<configVars, stopVars, state, clientVars, packetDispatchState, socketVars,
                   encoder, status, disconnectVars>>

------------------------------------------------------------------------------
(* HandleClientDisconnect, in either control thread; it holds              *)
(* disconnectMutex_ throughout.                                            *)

\* After it the USB thread closes its connection and accepts another one.
AfterDisconnect(t) == IF IsUsb(t) THEN "close" ELSE Return(t)

\* The thread's loop has tested running_, the handler tests it again under the lock.
HandleClientDisconnect(t) ==
    /\ ~disconnectMutex
    /\ Goes(t, "d_enter", IF running THEN "d_state" ELSE AfterDisconnect(t))
    /\ disconnectMutex' = running
    /\ UNCHANGED <<configVars, stopVars, state, broadcastThread, clientVars,
                   packetDispatchState, socketVars, encoder, status, previousState,
                   wasUsbClient, fault>>

DisconnectState(t) ==
    /\ Goes(t, "d_state", "d_client")
    /\ previousState' = state
    /\ state' = "Broadcasting"
    /\ UNCHANGED <<configVars, stopVars, broadcastThread, clientVars, packetDispatchState,
                   socketVars, encoder, status, disconnectMutex, wasUsbClient, fault>>

\* Nothing more to do when nobody was connected or known.
DisconnectClient(t) ==
    LET hadClient == clientUsesUsbAdb \/ clientKnown
        nothing == previousState # "Connected" /\ ~hadClient
    IN  /\ Goes(t, "d_client", IF nothing THEN AfterDisconnect(t) ELSE "d_dispatch")
        /\ disconnectMutex' = ~nothing
        /\ wasUsbClient' = clientUsesUsbAdb
        /\ clientKnown' = FALSE /\ clientUsesUsbAdb' = FALSE
        /\ UNCHANGED <<configVars, stopVars, state, broadcastThread, packetDispatchState,
                       socketVars, encoder, status, previousState, fault>>

\* A slip: the route stays a TCP one.
IdleRouteStaysTcp == [packetDispatchState EXCEPT !.socket = UdpSocket, !.ip = FALSE]
IdleRoute == [packetDispatchState EXCEPT !.socket = UdpSocket, !.tcp = FALSE, !.ip = FALSE]

DisconnectDispatch(t) ==
    /\ Goes(t, "d_dispatch", "d_sockets")
    /\ packetDispatchState' = IdleRoute
    /\ UNCHANGED <<configVars, stopVars, state, broadcastThread, clientVars, socketVars,
                   encoder, status, disconnectVars, fault>>

DisconnectSockets(t) ==
    /\ Goes(t, "d_sockets", "d_encoder")
    /\ tcpControlClientSocket' = (tcpControlClientSocket /\ ~wasUsbClient)
    /\ tcpVideoClientSocket' = IF wasUsbClient THEN NoSocket ELSE tcpVideoClientSocket
    /\ tcpTrackingClientSocket' = (tcpTrackingClientSocket /\ ~wasUsbClient)
    /\ UNCHANGED <<configVars, stopVars, state, broadcastThread, clientVars, clientSocket,
                   packetDispatchState, encoder, status, disconnectVars, fault>>

DisconnectEncoder(t) ==
    /\ Goes(t, "d_encoder", IF previousState = "Connected" THEN "d_joinable" ELSE "d_idle")
    /\ encoder' = FALSE
    /\ UNCHANGED <<configVars, stopVars, state, broadcastThread, clientVars,
                   packetDispatchState, socketVars, status, disconnectVars, fault>>

DisconnectTestsThread(t) ==
    /\ Goes(t, "d_joinable", IF Joinable THEN "d_join" ELSE "d_resume")
    /\ UNCHANGED <<configVars, stopVars, state, broadcastThread, clientVars,
                   packetDispatchState, socketVars, encoder, status, disconnectVars, fault>>

DisconnectJoins(t) ==
    /\ Goes(t, "d_join", "d_resume")
    /\ Join
    /\ UNCHANGED <<configVars, stopVars, state, clientVars, packetDispatchState, socketVars,
                   encoder, status, disconnectVars>>

\* A slip: the broadcast is not resumed.
MayResumeNever == FALSE
MayResume == wifiEnabled /\ running

DisconnectTestsRunning(t) ==
    /\ Goes(t, "d_resume", IF MayResume THEN "d_spawn" ELSE "d_idle")
    /\ UNCHANGED <<configVars, stopVars, state, broadcastThread, clientVars,
                   packetDispatchState, socketVars, encoder, status, disconnectVars, fault>>

DisconnectSpawns(t) ==
    /\ Goes(t, "d_spawn", "d_idle")
    /\ Spawn
    /\ UNCHANGED <<configVars, stopVars, state, clientVars, packetDispatchState, socketVars,
                   encoder, status, disconnectVars>>

DisconnectIdle(t) ==
    /\ Goes(t, "d_idle", AfterDisconnect(t))
    /\ status' = "idle"
    /\ disconnectMutex' = FALSE
    /\ UNCHANGED <<configVars, stopVars, state, broadcastThread, clientVars,
                   packetDispatchState, socketVars, encoder, previousState, wasUsbClient,
                   fault>>

------------------------------------------------------------------------------
(* The threads' loops.                                                     *)

\* A WiFi client says goodbye (MessageType::ServerDisconnect).  The code takes it
\* without WiFi too, when no UDP client was told of the server.
WifiDisconnects ==
    /\ wifiEnabled \/ StrayGoodbyes
    /\ Goes("control", "receive", "d_enter")
    /\ UNCHANGED <<configVars, stopVars, state, broadcastThread, clientVars,
                   packetDispatchState, socketVars, encoder, status, disconnectVars, fault>>

\* Nothing comes for a second, or something that is neither of the two messages.
ControlThreadEnds ==
    /\ ~running
    /\ Goes("control", "receive", "done")
    /\ UNCHANGED <<configVars, stopVars, state, broadcastThread, clientVars,
                   packetDispatchState, socketVars, encoder, status, disconnectVars, fault>>

\* Between testing running_ and storing the connection it accepted the thread may
\* be overtaken by a whole Stop.
TcpControlAccepts ==
    /\ listening
    /\ Goes("tcpControl", "accept", "accepted")
    /\ UNCHANGED <<configVars, stopVars, state, broadcastThread, clientVars,
                   packetDispatchState, socketVars, encoder, status, disconnectVars, fault>>

TcpControlStores ==
    /\ Goes("tcpControl", "accepted", "announce")
    /\ tcpControlClientSocket' = TRUE
    /\ UNCHANGED <<configVars, stopVars, state, broadcastThread, clientVars,
                   packetDispatchState, tcpVideoClientSocket, tcpTrackingClientSocket,
                   clientSocket, encoder, status, disconnectVars, fault>>

\* The announcement may fail to be sent: the client is gone.
TcpControlAnnounces ==
    \E announced \in BOOLEAN :
       /\ Goes("tcpControl", "announce", IF announced THEN Return("tcpControl") ELSE "accept")
       /\ tcpControlClientSocket' = (tcpControlClientSocket /\ announced)
       /\ UNCHANGED <<configVars, stopVars, state, broadcastThread, clientVars,
                      packetDispatchState, tcpVideoClientSocket, tcpTrackingClientSocket,
                      clientSocket, encoder, status, disconnectVars, fault>>

\* A Disconnect record.
UsbDisconnects ==
    /\ tcpControlClientSocket
    /\ Goes("tcpControl", "read", "d_enter")
    /\ UNCHANGED <<configVars, stopVars, state, broadcastThread, clientVars,
                   packetDispatchState, socketVars, encoder, status, disconnectVars, fault>>

\* The connection is lost, was closed by another thread, or the server stops.
UsbConnectionEnds ==
    /\ Goes("tcpControl", "read", "close")
    /\ UNCHANGED <<configVars, stopVars, state, broadcastThread, clientVars,
                   packetDispatchState, socketVars, encoder, status, disconnectVars, fault>>

\* The end of the connection; a client still known by USB is disconnected, which
\* a server that stops leaves out once it has disconnectMutex_.
TcpControlCloses ==
    /\ ~running /\ clientUsesUsbAdb => ~disconnectMutex
    /\ Goes("tcpControl", "close", IF ~running THEN "done"
                                   ELSE IF clientUsesUsbAdb THEN "d_enter" ELSE "accept")
    /\ tcpControlClientSocket' = FALSE
    /\ UNCHANGED <<configVars, stopVars, state, broadcastThread, clientVars,
                   packetDispatchState, tcpVideoClientSocket, tcpTrackingClientSocket,
                   clientSocket, encoder, status, disconnectVars, fault>>

TcpControlThreadEnds ==
    /\ ~running
    /\ Goes("tcpControl", "accept", "done")
    /\ UNCHANGED <<configVars, stopVars, state, broadcastThread, clientVars,
                   packetDispatchState, socketVars, encoder, status, disconnectVars, fault>>

TcpVideoAccepts ==
    /\ listening
    /\ Goes("tcpVideo", "accept", "accepted")
    /\ \E s \in UsbSockets \ {tcpVideoClientSocket} : clientSocket' = s
    /\ UNCHANGED <<configVars, stopVars, state, broadcastThread, clientVars,
                   packetDispatchState, connectionVars, encoder, status, disconnectVars,
                   fault>>

\* An older connection is closed.
TcpVideoStores ==
    /\ Goes("tcpVideo", "accepted", "route")
    /\ tcpVideoClientSocket' = clientSocket
    /\ UNCHANGED <<configVars, stopVars, state, broadcastThread, clientVars, clientSocket,
                   packetDispatchState, tcpControlClientSocket, tcpTrackingClientSocket,
                   encoder, status, disconnectVars, fault>>

\* Packets go to the new video connection.
RoutesVideo == clientUsesUsbAdb

\* The connection may have been closed meanwhile.
TcpVideoRoutes ==
    /\ Goes("tcpVideo", "route", "accept")
    /\ packetDispatchState' =
          IF RoutesVideo
          THEN [packetDispatchState EXCEPT !.socket = clientSocket, !.tcp = TRUE]
          ELSE packetDispatchState
    /\ UNCHANGED <<configVars, stopVars, state, broadcastThread, clientVars, socketVars,
                   encoder, status, disconnectVars, fault>>

TcpVideoThreadEnds ==
    /\ ~running
    /\ Goes("tcpVideo", "accept", "done")
    /\ UNCHANGED <<configVars, stopVars, state, broadcastThread, clientVars,
                   packetDispatchState, socketVars, encoder, status, disconnectVars, fault>>

TcpTrackingAccepts ==
    /\ listening /\ UsbTracking
    /\ Goes("tcpTracking", "accept", "accepted")
    /\ UNCHANGED <<configVars, stopVars, state, broadcastThread, clientVars,
                   packetDispatchState, socketVars, encoder, status, disconnectVars, fault>>

\* From then on the thread gives what it reads to trackingReceiver_.
TcpTrackingStores ==
    /\ Goes("tcpTracking", "accepted", "read")
    /\ tcpTrackingClientSocket' = TRUE
    /\ UNCHANGED <<configVars, stopVars, state, broadcastThread, clientVars,
                   packetDispatchState, tcpControlClientSocket, tcpVideoClientSocket,
                   clientSocket, encoder, status, disconnectVars, fault>>

\* The connection is lost, was closed by another thread, or the server stops.
TcpTrackingCloses ==
    /\ Goes("tcpTracking", "read", "accept")
    /\ tcpTrackingClientSocket' = FALSE
    /\ UNCHANGED <<configVars, stopVars, state, broadcastThread, clientVars,
                   packetDispatchState, tcpControlClientSocket, tcpVideoClientSocket,
                   clientSocket, encoder, status, disconnectVars, fault>>

TcpTrackingThreadEnds ==
    /\ ~running
    /\ Goes("tcpTracking", "accept", "done")
    /\ UNCHANGED <<configVars, stopVars, state, broadcastThread, clientVars,
                   packetDispatchState, socketVars, encoder, status, disconnectVars, fault>>

\* EncodeThread's wait tests running_ with frameMutex_ held, and then gives the
\* mutex up and sleeps, in one step.  A frame keeps the thread before the test.
EncodeChecks ==
    /\ Goes("encode", "check", IF running THEN "blocking" ELSE "done")
    /\ UNCHANGED <<configVars, stopVars, state, broadcastThread, clientVars,
                   packetDispatchState, socketVars, encoder, status, disconnectVars, fault>>

EncodeBlocks ==
    /\ Goes("encode", "blocking", "asleep")
    /\ UNCHANGED <<configVars, stopVars, state, broadcastThread, clientVars,
                   packetDispatchState, socketVars, encoder, status, disconnectVars, fault>>

\* By a frame that is queued, or spuriously.
EncodeWakes ==
    /\ Goes("encode", "asleep", "check")
    /\ UNCHANGED <<configVars, stopVars, state, broadcastThread, clientVars,
                   packetDispatchState, socketVars, encoder, status, disconnectVars, fault>>

------------------------------------------------------------------------------
(* Stop: EndSession calls it and destroys the server, whose destructor     *)
(* calls it again.                                                         *)

StopBegins ==
    /\ Goes("owner", "up", "s_state")
    /\ running' = FALSE
    /\ UNCHANGED <<configVars, stops, state, broadcastThread, clientVars,
                   packetDispatchState, socketVars, encoder, status, disconnectVars, fault>>

\* frameReadyCv_.notify_all: only a thread that sleeps already wakes.
StopState ==
    /\ pc["owner"] = "s_state" /\ fault = "none"
    /\ pc' = [pc EXCEPT !["owner"] = "s_sockets",
                        !["encode"] = IF @ = "asleep" THEN "check" ELSE @]
    /\ state' = "Stopped"
    /\ status' = "idle"
    /\ UNCHANGED <<configVars, stopVars, broadcastThread, clientVars, packetDispatchState,
                   socketVars, encoder, disconnectVars, fault>>

StopUsbTcpSockets ==
    /\ Goes("owner", "s_sockets", "s_dispatch")
    /\ listening' = FALSE
    /\ tcpControlClientSocket' = FALSE /\ tcpVideoClientSocket' = NoSocket
    /\ tcpTrackingClientSocket' = FALSE
    /\ UNCHANGED <<wifiEnabled, usbAdbEnabled, trackingReceiver, stopVars, state,
                   broadcastThread, clientVars, clientSocket, packetDispatchState, encoder,
                   status, disconnectVars, fault>>

StopDispatch ==
    /\ Goes("owner", "s_dispatch", "s_client")
    /\ packetDispatchState' =
          [socket |-> NoSocket, tcp |-> FALSE, ip |-> FALSE, accepting |-> FALSE]
    /\ UNCHANGED <<configVars, stopVars, state, broadcastThread, clientVars, socketVars,
                   encoder, status, disconnectVars, fault>>

StopClient ==
    /\ Goes("owner", "s_client", IF Joinable THEN "s_join" ELSE "s_join_threads")
    /\ clientKnown' = FALSE /\ clientUsesUsbAdb' = FALSE
    /\ UNCHANGED <<configVars, stopVars, state, broadcastThread, packetDispatchState,
                   socketVars, encoder, status, disconnectVars, fault>>

StopJoinsBroadcast ==
    /\ Goes("owner", "s_join", "s_join_threads")
    /\ Join
    /\ UNCHANGED <<configVars, stopVars, state, clientVars, packetDispatchState, socketVars,
                   encoder, status, disconnectVars>>

JoinedThreads == {"control", "encode", "tcpControl", "tcpVideo", "tcpTracking"}

\* The other threads are joined one after the other; nothing restarts them.
StopJoinsThreads ==
    /\ \A t \in JoinedThreads : pc[t] = "done"
    /\ Goes("owner", "s_join_threads", "s_receiver")
    /\ UNCHANGED <<configVars, stopVars, state, broadcastThread, clientVars,
                   packetDispatchState, socketVars, encoder, status, disconnectVars, fault>>

StopTrackingReceiver ==
    /\ Goes("owner", "s_receiver", "s_encoder")
    /\ trackingReceiver' = FALSE
    /\ UNCHANGED <<wifiEnabled, usbAdbEnabled, listening, stopVars, state, broadcastThread,
                   clientVars, packetDispatchState, socketVars, encoder, status,
                   disconnectVars, fault>>

StopReturns ==
    /\ Goes("owner", "s_encoder", IF stops + 1 < StopCalls THEN "up" ELSE "gone")
    /\ encoder' = FALSE
    /\ stops' = stops + 1
    /\ UNCHANGED <<configVars, running, state, broadcastThread, clientVars,
                   packetDispatchState, socketVars, status, disconnectVars, fault>>

------------------------------------------------------------------------------
ConnectSteps(t) ==
    \/ ConnectDispatch(t) \/ ConnectState(t) \/ ConnectTestsThread(t) \/ ConnectJoins(t)
    \/ ConnectStartsEncoder(t) \/ ConnectFails(t) \/ ConnectForgets(t)
    \/ ConnectStateBack(t) \/ ConnectTestsRunning(t) \/ ConnectSpawns(t)

DisconnectSteps(t) ==
    \/ HandleClientDisconnect(t) \/ DisconnectState(t) \/ DisconnectClient(t)
    \/ DisconnectDispatch(t) \/ DisconnectSockets(t) \/ DisconnectEncoder(t)
    \/ DisconnectTestsThread(t) \/ DisconnectJoins(t) \/ DisconnectTestsRunning(t)
    \/ DisconnectSpawns(t) \/ DisconnectIdle(t)

Stop ==
    \/ StopBegins \/ StopState \/ StopUsbTcpSockets \/ StopDispatch \/ StopClient
    \/ StopJoinsBroadcast \/ StopJoinsThreads
    \/ StopTrackingReceiver \/ StopReturns

TcpControlSteps ==
    \/ TcpControlStores \/ TcpControlAnnounces \/ TcpControlCloses \/ TcpControlThreadEnds

TcpVideoSteps == TcpVideoStores \/ TcpVideoRoutes \/ TcpVideoThreadEnds

TcpTrackingSteps == TcpTrackingStores \/ TcpTrackingThreadEnds

EncodeSteps == EncodeChecks \/ EncodeBlocks

Next ==
    \/ Start \/ Stop
    \/ BroadcastEnds
    \/ \E t \in Handlers : HandleClientConnect(t) \/ ConnectSteps(t) \/ DisconnectSteps(t)
    \/ WifiDisconnects \/ ControlThreadEnds
    \/ TcpControlAccepts \/ UsbDisconnects \/ UsbConnectionEnds \/ TcpControlSteps
    \/ TcpVideoAccepts \/ TcpVideoSteps
    \/ TcpTrackingAccepts \/ TcpTrackingCloses \/ TcpTrackingSteps
    \/ EncodeSteps \/ EncodeWakes

Spec == Init /\ [][Next]_vars

HandlerSteps(t) == ConnectSteps(t) \/ DisconnectSteps(t)

\* Each thread goes on with what it has begun, and when the server stops it notices
\* that its sockets are closed; a Stop once begun goes on to the destructor.  No
\* client has to connect or leave, no frame to come, and the session need not end.
Fairness ==
    /\ WF_vars(BroadcastEnds)
    /\ WF_vars(HandlerSteps("control") \/ ControlThreadEnds)
    /\ WF_vars(HandlerSteps("tcpControl") \/ TcpControlSteps \/ (~running /\ UsbConnectionEnds))
    /\ WF_vars(TcpVideoSteps)
    /\ WF_vars(TcpTrackingSteps \/ (~running /\ TcpTrackingCloses))
    /\ WF_vars(EncodeSteps)
    /\ WF_vars((pc["owner"] # "up" \/ stops > 0) /\ Stop)

FairSpec == Spec /\ Fairness
------------------------------------------------------------------------------
(* Properties.                                                             *)

\* A route over TCP has no address, one over UDP no connection.
Routes ==
    [socket : UsbSockets \cup {NoSocket}, tcp : {TRUE}, ip : {FALSE}, accepting : BOOLEAN]
       \cup [socket : {UdpSocket, NoSocket}, tcp : {FALSE}, ip : BOOLEAN, accepting : BOOLEAN]

\* Each variable keeps its type; a route over TCP never names the UDP socket, nor
\* the other way round (StreamingServer.h:80-92).
TypeOK ==
    /\ running \in BOOLEAN /\ wifiEnabled \in BOOLEAN /\ usbAdbEnabled \in BOOLEAN
    /\ state \in {"Broadcasting", "Connected", "Stopped"}
    /\ broadcastThread \in {"none", "running", "finished"}
    /\ clientKnown \in BOOLEAN /\ clientUsesUsbAdb \in BOOLEAN /\ encoder \in BOOLEAN
    /\ packetDispatchState \in Routes
    /\ listening \in BOOLEAN /\ trackingReceiver \in BOOLEAN
    /\ tcpControlClientSocket \in BOOLEAN /\ tcpTrackingClientSocket \in BOOLEAN
    /\ {tcpVideoClientSocket, clientSocket} \subseteq UsbSockets \cup {NoSocket}
    /\ status \in {"idle", "streaming"}
    /\ stops \in 0 .. StopCalls

\* No handler is at work: each thread waits for the network.
Quiet ==
    /\ pc["owner"] = "up"
    /\ pc["control"] = "receive" /\ pc["tcpVideo"] \in {"accept", "done"}
    /\ pc["tcpControl"] \in {"accept", "read", "done"}

\* Between messages the parts of a connection tell the same.  There is an encoder
\* exactly while a client is connected, and that is what the published status
\* says.  A server with WiFi announces itself exactly while it has no client,
\* after a failed connect or a disconnect too.  Packets go to the connected
\* client: to the video connection of a USB client once it is open, whichever of
\* its two connections came first, or to the address of a WiFi client
\* (StreamingServer.cpp:1002-1235, 711-727).
ConnectionAgrees ==
    running /\ Quiet =>
       /\ encoder <=> state = "Connected"
       /\ status = "streaming" <=> encoder
       /\ wifiEnabled => (broadcastThread = "running" <=> state = "Broadcasting")
       /\ state = "Connected" =>
             IF clientUsesUsbAdb
             THEN /\ packetDispatchState.tcp
                  /\ tcpVideoClientSocket \in {NoSocket, packetDispatchState.socket}
             ELSE ~packetDispatchState.tcp /\ packetDispatchState.ip

\* broadcastThread_ is never assigned while it holds a thread, which would end
\* the process: every connect and every disconnect spawns at most one thread
\* for each it has joined.
NeverAssignedJoinable == fault # "assigned"

\* Once the server is destroyed, after a Start that failed as well, nothing of it
\* is left: no thread (a handler may spawn one after Stop has looked for it), no
\* connection (one may have been accepted before Stop and stored after it), no
\* encoder and no route for the packets of its callbacks; the status is idle.
CleanAfterDestruction ==
    pc["owner"] = "gone" =>
       /\ broadcastThread = "none"
       /\ ~tcpControlClientSocket /\ tcpVideoClientSocket = NoSocket
       /\ ~tcpTrackingClientSocket /\ ~listening
       /\ ~encoder /\ ~trackingReceiver
       /\ ~packetDispatchState.accepting /\ packetDispatchState.socket = NoSocket
       /\ status = "idle"

Stopping == pc["owner"] \notin {"new", "st_tracking", "st_listen", "st_threads", "up"}

\* Of all the threads Stop joins only the encode thread can keep it for ever, and
\* only by going to sleep after the notification it has missed: the handlers, the
\* listeners and the broadcast end whatever they are doing, and the server is
\* destroyed (StreamingServer.cpp:397, 433-456).
OnlyEncodeKeepsStop ==
    Stopping ~> (pc["owner"] = "gone" \/ fault # "none" \/ pc["encode"] = "asleep")

\* "Either side can disconnect and return to idle": the runtime's side does it
\* by Stop, which must end, and not by the end of the process.
StopReturnsToIdle == Stopping ~> (pc["owner"] = "gone" \/ pc["encode"] = "asleep")

\* "A client connects and advertises capabilities. The runtime starts video and
\* tracking exchange": the handler of a USB client's ClientConnect returns.
UsbConnectIsAnswered ==
    (pc["tcpControl"] = "c_join") ~> (pc["tcpControl"] # "c_join" \/ fault # "none")
==============================================================================
