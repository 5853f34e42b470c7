----------------------------- MODULE AndroidClient -----------------------------
(***************************************************************************)
(* How the Quest client finds a server, connects to it, notices that the   *)
(* stream is lost, and starts again: XrApp with the threads and sockets of *)
(* its NetworkReceiver.  Threads: "main" (XrApp::RunFrame, which also      *)
(* tries USB over adb reverse), "discovery" (listens for announcements and *)
(* makes the WiFi connection) and "receive" (the video socket).  The two   *)
(* atomics connectionState_ and needsReconnect_ are all they agree by.     *)
(*                                                                         *)
(* The server is here what the client can tell of it: `served', the        *)
(* transport it sends video over.  StreamingServer.tla is the other side.  *)
(***************************************************************************)
EXTENDS Naturals

CONSTANT
    Reaches             \* how the server can be reached: sets of transports

Transports == {"wifi", "usb"}

ASSUME ClientAssumption == Reaches \subseteq SUBSET Transports

VARIABLES
    reach,              \* the member of Reaches that holds
    served,             \* what the server streams over, or "none"
    state,              \* connectionState_
    needsReconnect,
    previousState,      \* TryStartUsbAdbTransport's
    expected,           \* ConfigureServerConnection's `state', of each thread
    networking,         \* the receiver, the tracking sender and the decoder exist
    decoderReady,
    trackingSocket,
    transportMode,
    controlSocket, controlTcpSocket,
    discovering, discoverySocket,
    receiving, videoSocket,             \* "none", "wifi" or "usb"
    hasVideoTexture,
    session,            \* sessionRunning_
    terminated,         \* std::terminate has been called
    pc,                 \* of each thread; "none" of one that is not joinable
    starting,           \* main tries USB in StartNetworking, not in a retry
    then                \* where main goes on after ResetConnection, StartNetworking

atomics == <<state, needsReconnect>>
localVars == <<previousState, expected, starting, then>>
controlSockets == <<controlSocket, controlTcpSocket>>
receiverVars == <<discovering, discoverySocket, receiving, videoSocket>>
objectVars == <<networking, decoderReady, trackingSocket, transportMode>>
appVars == <<hasVideoTexture, session>>
vars == <<reach, served, atomics, localVars, controlSockets, receiverVars, objectVars, appVars,
          terminated, pc>>

\* Where a thread stands; a terminated process takes no step.  The receive
\* thread receives at "udp" or "tcp".
At(t, label) == pc[t] = label /\ ~terminated
Goes(t, from, to) == At(t, from) /\ pc' = [pc EXCEPT ![t] = to]

Init ==
    /\ reach \in Reaches
    /\ served = "none" /\ state = "Disconnected" /\ needsReconnect = FALSE
    /\ previousState = "Disconnected" /\ starting = FALSE
    /\ expected = [t \in {"main", "discovery"} |-> "Disconnected"]
    /\ networking = FALSE /\ decoderReady = FALSE /\ trackingSocket = FALSE
    /\ transportMode = "wifi" /\ controlSocket = FALSE /\ controlTcpSocket = FALSE
    /\ discovering = FALSE /\ discoverySocket = FALSE
    /\ receiving = FALSE /\ videoSocket = "none"
    /\ hasVideoTexture = FALSE /\ session = FALSE /\ terminated = FALSE
    /\ pc = [main |-> "app", discovery |-> "none", receive |-> "none"]
    /\ then = "app"

-----------------------------------------------------------------------------
(* XrApp::RunFrame, on the main thread. *)

FrameReconnects ==
    /\ needsReconnect
    /\ Goes("main", "app", "close")
    /\ needsReconnect' = FALSE
    /\ then' = "start"
    /\ UNCHANGED <<reach, served, state, previousState, expected, starting, controlSockets,
                   receiverVars, objectVars, appVars, terminated>>

FrameGoesOn ==
    /\ ~needsReconnect
    /\ Goes("main", "app", "retry")
    /\ UNCHANGED <<reach, served, atomics, localVars, controlSockets, receiverVars, objectVars,
                   appVars, terminated>>

\* The guard of RetryUsbAdbTransportIfNeeded, and of TryStartUsbAdbTransport
\* again: nothing else keeps it from a thread that connects or reports a loss.
Retries == state # "Connected" /\ ~needsReconnect /\ networking

RetryUsbAdbTransport ==
    /\ Retries
    /\ Goes("main", "retry", "usbRead")
    /\ starting' = FALSE
    /\ then' = "events"
    /\ UNCHANGED <<reach, served, atomics, previousState, expected, controlSockets, receiverVars,
                   objectVars, appVars, terminated>>

\* The guard fails, or the last attempt was less than a second ago.
RetryNotNeeded ==
    /\ Goes("main", "retry", "events")
    /\ UNCHANGED <<reach, served, atomics, localVars, controlSockets, receiverVars, objectVars,
                   appVars, terminated>>

NoEvent ==
    /\ Goes("main", "events", IF session THEN "frame" ELSE "app")
    /\ UNCHANGED <<reach, served, atomics, localVars, controlSockets, receiverVars, objectVars,
                   appVars, terminated>>

\* HandleSessionStateChange: CreateSwapchains ends with StartNetworking.
SessionReady ==
    /\ ~session
    /\ Goes("main", "events", "start")
    /\ session' = TRUE
    /\ then' = "events"
    /\ UNCHANGED <<reach, served, atomics, previousState, expected, starting, controlSockets,
                   receiverVars, objectVars, hasVideoTexture, terminated>>

SessionStopping ==
    /\ session
    /\ Goes("main", "events", "close")
    /\ session' = FALSE
    /\ then' = "events"
    /\ UNCHANGED <<reach, served, atomics, previousState, expected, starting, controlSockets,
                   receiverVars, objectVars, hasVideoTexture, terminated>>

\* android_main leaves its loop: XrApp::Shutdown.
AppDestroyed ==
    /\ Goes("main", "app", "close")
    /\ session' = FALSE
    /\ then' = "left"
    /\ UNCHANGED <<reach, served, atomics, previousState, expected, starting, controlSockets,
                   receiverVars, objectVars, hasVideoTexture, terminated>>

\* RenderFrame binds a decoded frame; one that is decoded has been received.
FrameShows ==
    /\ decoderReady /\ served # "none" /\ videoSocket = served /\ pc.receive \in {"udp", "tcp"}
    /\ Goes("main", "frame", "app")
    /\ hasVideoTexture' = TRUE
    /\ UNCHANGED <<reach, served, atomics, localVars, controlSockets, receiverVars, objectVars,
                   session, terminated>>

FrameShowsNone ==
    /\ Goes("main", "frame", "app")
    /\ UNCHANGED <<reach, served, atomics, localVars, controlSockets, receiverVars, objectVars,
                   appVars, terminated>>

\* No frame for two seconds, which is longer than it takes to connect.
FrameStalls ==
    /\ decoderReady /\ hasVideoTexture
    /\ Goes("main", "frame", "lost")
    /\ hasVideoTexture' = FALSE
    /\ UNCHANGED <<reach, served, atomics, localVars, controlSockets, receiverVars, objectVars,
                   session, terminated>>

\* OnConnectionLost, of main and of the receive thread: two stores.
LosesFromConnected == {"Connected"}
LosesFrom == {"Connecting", "Connected"}

LostStoresState(t, end) ==
    /\ Goes(t, "lost", IF state \in LosesFrom THEN "flag" ELSE end)
    /\ state' = IF state \in LosesFrom THEN "Disconnected" ELSE state
    /\ UNCHANGED <<reach, served, needsReconnect, localVars, controlSockets, receiverVars,
                   objectVars, appVars, terminated>>

LostFlagsReconnect(t, end) ==
    /\ Goes(t, "flag", end)
    /\ needsReconnect' = TRUE
    /\ UNCHANGED <<reach, served, state, localVars, controlSockets, receiverVars, objectVars,
                   appVars, terminated>>

-----------------------------------------------------------------------------
(* ResetConnection and StartNetworking. *)

\* A server that is told goodbye over UDP may not hear it.
CloseControlSocket ==
    /\ Goes("main", "close", IF networking THEN "flags" ELSE "reset")
    /\ \/ served' = served
       \/ served' = "none" /\ served = "wifi" /\ controlSocket
       \/ served' = "none" /\ served = "usb" /\ controlTcpSocket
    /\ controlSocket' = FALSE /\ controlTcpSocket' = FALSE
    /\ UNCHANGED <<reach, atomics, localVars, receiverVars, objectVars, appVars, terminated>>

StopClearsFlags ==
    /\ Goes("main", "flags", "sockets")
    /\ discovering' = FALSE /\ receiving' = FALSE
    /\ UNCHANGED <<reach, served, atomics, localVars, controlSockets, discoverySocket, videoSocket,
                   objectVars, appVars, terminated>>

StopClosesSockets ==
    /\ Goes("main", "sockets", "joinDiscovery")
    /\ discoverySocket' = FALSE /\ videoSocket' = "none"
    /\ UNCHANGED <<reach, served, atomics, localVars, controlSockets, discovering, receiving,
                   objectVars, appVars, terminated>>

StopDetaches(t, from, to) ==
    /\ Goes("main", from, to)
    /\ UNCHANGED <<reach, served, atomics, localVars, controlSockets, receiverVars, objectVars,
                   appVars, terminated>>

StopJoinsReceiveFirst(t, from, to) ==
    LET other == IF t = "discovery" THEN "receive" ELSE "discovery" IN
       /\ At("main", from) /\ pc[other] \in {"none", "done"}
       /\ pc' = [pc EXCEPT !.main = to, ![other] = "none"]
       /\ UNCHANGED <<reach, served, atomics, localVars, controlSockets, receiverVars,
                      objectVars, appVars, terminated>>

StopJoins(t, from, to) ==
    /\ At("main", from) /\ pc[t] \in {"none", "done"}
    /\ pc' = [pc EXCEPT !.main = to, ![t] = "none"]
    /\ UNCHANGED <<reach, served, atomics, localVars, controlSockets, receiverVars, objectVars,
                   appVars, terminated>>

ResetConnectionKeepsState ==
    /\ Goes("main", "reset", then)
    /\ networking' = FALSE /\ decoderReady' = FALSE /\ trackingSocket' = FALSE
    /\ transportMode' = "wifi" /\ needsReconnect' = FALSE /\ hasVideoTexture' = FALSE
    /\ then' = IF then = "start" THEN "retry" ELSE then
    /\ UNCHANGED <<reach, served, state, previousState, expected, starting, controlSockets,
                   receiverVars, session, terminated>>

ResetConnectionEnds ==
    /\ Goes("main", "reset", then)
    /\ networking' = FALSE /\ decoderReady' = FALSE /\ trackingSocket' = FALSE
    /\ transportMode' = "wifi" /\ state' = "Disconnected" /\ needsReconnect' = FALSE
    /\ hasVideoTexture' = FALSE
    /\ then' = IF then = "start" THEN "retry" ELSE then
    /\ UNCHANGED <<reach, served, previousState, expected, starting, controlSockets, receiverVars,
                   session, terminated>>

\* The three objects never exist here: what would reset them first has done so.
StartNetworking ==
    /\ Goes("main", "start", "usbRead")
    /\ networking' = TRUE
    /\ transportMode' = "wifi" /\ state' = "Disconnected" /\ needsReconnect' = FALSE
    /\ starting' = TRUE
    /\ UNCHANGED <<reach, served, previousState, expected, controlSockets, receiverVars,
                   decoderReady, trackingSocket, appVars, terminated, then>>

\* StartNetworking listens when USB fails; RunFrame goes on with its events.
UsbFailed == IF starting THEN "discover" ELSE then

StartDiscovery ==
    /\ At("main", "discover")
    /\ state' = "Discovering"
    /\ \E bound \in BOOLEAN :
          /\ discoverySocket' = bound /\ discovering' = bound
          /\ pc' = [pc EXCEPT !.main = then, !.discovery = IF bound THEN "loop" ELSE "none"]
    /\ UNCHANGED <<reach, served, needsReconnect, localVars, controlSockets, receiving,
                   videoSocket, objectVars, appVars, terminated>>

-----------------------------------------------------------------------------
(* TryStartUsbAdbTransport, on the main thread. *)

UsbReachable == "usb" \in reach

\* The state is read some time after the guard has been tested.
ReadPreviousState ==
    /\ Goes("main", "usbRead", "usbOpen")
    /\ previousState' = state
    /\ UNCHANGED <<reach, served, atomics, expected, starting, then, controlSockets, receiverVars,
                   objectVars, appVars, terminated>>

\* Giving up restores it, whatever another thread has stored since.
UsbGivesUp ==
    /\ controlTcpSocket' = FALSE
    /\ state' = previousState
    /\ pc' = [pc EXCEPT !.main = UsbFailed]

OpenUsbControlSocket ==
    /\ At("main", "usbOpen")
    /\ \/ /\ UsbReachable
          /\ controlTcpSocket' = TRUE
          /\ pc' = [pc EXCEPT !.main = "usbAnnounce"]
          /\ UNCHANGED state
       \/ UsbGivesUp
    /\ UNCHANGED <<reach, served, needsReconnect, localVars, controlSocket, receiverVars,
                   objectVars, appVars, terminated>>

\* The announcement is read from the socket, unless the server does not answer
\* or OpenControlSocket of the discovery thread has closed it.
ReadUsbAnnounce ==
    /\ At("main", "usbAnnounce")
    /\ \/ /\ controlTcpSocket
          /\ pc' = [pc EXCEPT !.main = "found"]
          /\ UNCHANGED <<state, controlTcpSocket>>
       \/ UsbGivesUp
    /\ UNCHANGED <<reach, served, needsReconnect, localVars, controlSocket, receiverVars,
                   objectVars, appVars, terminated>>

UsbTried ==
    /\ Goes("main", "usbDone", IF state = "Connected" THEN then ELSE UsbFailed)
    /\ UNCHANGED <<reach, served, atomics, localVars, controlSockets, receiverVars, objectVars,
                   appVars, terminated>>

-----------------------------------------------------------------------------
(* ConfigureServerConnection, of main over USB and of discovery over WiFi. *)

Over(t) == IF t = "main" THEN "usb" ELSE "wifi"
Returns(t) == IF t = "main" THEN "usbDone" ELSE "loop"

\* A server that announces itself to a connected client has restarted, unless
\* the connection is younger than three seconds.
ServerFound(t) ==
    /\ Goes(t, "found", IF state \in {"Connected", "Connecting"} THEN Returns(t) ELSE "claim")
    /\ expected' = [expected EXCEPT ![t] = state]
    /\ needsReconnect' \in IF state = "Connected" THEN {needsReconnect, TRUE} ELSE {needsReconnect}
    /\ UNCHANGED <<reach, served, state, previousState, starting, then, controlSockets,
                   receiverVars, objectVars, appVars, terminated>>

\* What follows when the state has been claimed.
AfterClaimTells == "tell"
AfterClaim == "receive"

\* compare_exchange_strong, and the decoder, which is not made twice.
ClaimConnecting(t) ==
    LET wins == state = expected[t] IN
       /\ Goes(t, "claim", IF wins THEN AfterClaim ELSE Returns(t))
       /\ state' = IF wins THEN "Connecting" ELSE state
       /\ transportMode' = IF wins THEN Over(t) ELSE transportMode
       /\ decoderReady' \in IF wins /\ ~decoderReady THEN BOOLEAN ELSE {decoderReady}
       /\ UNCHANGED <<reach, served, needsReconnect, localVars, controlSockets, receiverVars,
                      networking, trackingSocket, appVars, terminated>>

\* To assign a thread to a std::thread that is joinable ends the process.
StartReceiving(t) ==
    /\ At(t, "receive")
    /\ receiving' = TRUE /\ videoSocket' = Over(t)
    /\ terminated' = (pc.receive # "none")
    /\ pc' = [pc EXCEPT ![t] = "control", !.receive = IF t = "main" THEN "tcp" ELSE "udp"]
    /\ UNCHANGED <<reach, served, atomics, localVars, controlSockets, discovering,
                   discoverySocket, objectVars, appVars>>

StartReceivingFails(t) ==
    /\ Goes(t, "receive", Returns(t))
    /\ transportMode' = "wifi" /\ state' = "Disconnected" /\ videoSocket' = "none"
    /\ controlTcpSocket' = (controlTcpSocket /\ t # "main")
    /\ UNCHANGED <<reach, served, needsReconnect, localVars, controlSocket, discovering,
                   discoverySocket, receiving, networking, decoderReady, trackingSocket, appVars,
                   terminated>>

\* The tracking sender's socket and, over WiFi, OpenControlSocket, which closes
\* both control sockets first and may fail.
OpenControlSocket(t) ==
    /\ Goes(t, "control", "tell")
    /\ trackingSocket' \in {trackingSocket, TRUE}
    /\ \/ t = "main" /\ UNCHANGED controlSockets
       \/ t = "discovery" /\ controlSocket' \in BOOLEAN /\ controlTcpSocket' = FALSE
    /\ served' = IF t = "discovery" /\ controlTcpSocket /\ served = "usb" THEN "none" ELSE served
    /\ UNCHANGED <<reach, atomics, localVars, receiverVars, networking, decoderReady,
                   transportMode, appVars, terminated>>

\* SendClientConnect, which opens the control socket when it is not; a server
\* may not get the datagram, or fail to make its encoder.
SendClientConnect(t) ==
    /\ Goes(t, "tell", "connected")
    /\ \/ t = "main" /\ UNCHANGED controlSocket
       \/ t = "discovery" /\ controlSocket' \in {controlSocket, TRUE}
    /\ \/ UNCHANGED served
       \/ served' = Over(t) /\ (IF t = "main" THEN controlTcpSocket ELSE controlSocket')
    /\ UNCHANGED <<reach, atomics, localVars, controlTcpSocket, receiverVars, objectVars, appVars,
                   terminated>>

ConnectionIsSetUp(t) ==
    /\ Goes(t, "connected", Returns(t))
    /\ state' = "Connected"
    /\ discovering' = FALSE
    /\ UNCHANGED <<reach, served, needsReconnect, localVars, controlSockets, discoverySocket,
                   receiving, videoSocket, objectVars, appVars, terminated>>

Configure(t) ==
    \/ ServerFound(t) \/ ClaimConnecting(t) \/ StartReceiving(t) \/ StartReceivingFails(t)
    \/ OpenControlSocket(t) \/ SendClientConnect(t) \/ ConnectionIsSetUp(t)

-----------------------------------------------------------------------------
(* The discovery thread. *)

\* A server announces itself while it has no client; an announcement sent just
\* before may still be in the socket.
DiscoveryHears ==
    /\ "wifi" \in reach /\ discoverySocket
    /\ Goes("discovery", "recv", "found")
    /\ UNCHANGED <<reach, served, atomics, localVars, controlSockets, receiverVars, objectVars,
                   appVars, terminated>>

\* The read times out after a second.
DiscoveryHearsNothing ==
    /\ Goes("discovery", "recv", "loop")
    /\ UNCHANGED <<reach, served, atomics, localVars, controlSockets, receiverVars, objectVars,
                   appVars, terminated>>

DiscoveryLoop ==
    /\ Goes("discovery", "loop", IF discovering THEN "recv" ELSE "done")
    /\ UNCHANGED <<reach, served, atomics, localVars, controlSockets, receiverVars, objectVars,
                   appVars, terminated>>

-----------------------------------------------------------------------------
(* The receive thread: ReceiveThread or ReceiveTcpThread. *)

ReceiveThreadEnds ==
    /\ ~receiving
    /\ Goes("receive", "udp", "done")
    /\ UNCHANGED <<reach, served, atomics, localVars, controlSockets, receiverVars, objectVars,
                   appVars, terminated>>

\* The socket has been closed by the server, or by the cable: the read returns.
ReceiveTcpThreadEnds ==
    /\ Goes("receive", "tcp", IF receiving THEN "lost" ELSE "done")
    /\ receiving' = FALSE
    /\ UNCHANGED <<reach, served, atomics, localVars, controlSockets, discovering, discoverySocket,
                   videoSocket, objectVars, appVars, terminated>>

-----------------------------------------------------------------------------

\* The application on the server's side ends, or another client takes its place.
ServerLeaves ==
    /\ served # "none"
    /\ served' = "none"
    /\ UNCHANGED <<reach, atomics, localVars, controlSockets, receiverVars, objectVars, appVars,
                   terminated, pc>>

Main ==
    \/ FrameReconnects \/ FrameGoesOn \/ RetryUsbAdbTransport \/ RetryNotNeeded \/ NoEvent
    \/ FrameShows \/ FrameShowsNone \/ FrameStalls
    \/ LostStoresState("main", "app") \/ LostFlagsReconnect("main", "app")
    \/ CloseControlSocket \/ StopClearsFlags \/ StopClosesSockets
    \/ StopJoins("discovery", "joinDiscovery", "joinReceive")
    \/ StopJoins("receive", "joinReceive", "reset")
    \/ ResetConnectionEnds \/ StartNetworking \/ StartDiscovery
    \/ ReadPreviousState \/ OpenUsbControlSocket \/ ReadUsbAnnounce \/ UsbTried
    \/ Configure("main")

Discovery == DiscoveryLoop \/ DiscoveryHearsNothing \/ Configure("discovery")

Receive ==
    \/ ReceiveThreadEnds
    \/ LostStoresState("receive", "done") \/ LostFlagsReconnect("receive", "done")

\* What the system, the user and the server choose.
Choose == SessionReady \/ SessionStopping \/ AppDestroyed \/ DiscoveryHears
          \/ ReceiveTcpThreadEnds \/ ServerLeaves

Next == Main \/ Discovery \/ Receive \/ Choose

Spec == Init /\ [][Next]_vars

\* The threads run; the session is begun; a server without a client closes its
\* video socket; and a stream that has ended shows no frame for two seconds.
FairSpec ==
    /\ Spec
    /\ WF_vars(Main)
    /\ WF_vars(Discovery)
    /\ WF_vars(Receive)
    /\ WF_vars(served # "usb" /\ ReceiveTcpThreadEnds)
    /\ SF_vars(served # transportMode /\ FrameStalls)

-----------------------------------------------------------------------------
(* Properties. *)

Threads == {"main", "discovery", "receive"}

\* Each variable keeps its type; a thread that runs has an object it runs in
\* (XrApp.h:175-205, NetworkReceiver.h:94-100).
TypeOK ==
    /\ reach \in Reaches /\ served \in Transports \cup {"none"}
    /\ {state, previousState} \cup {expected[t] : t \in DOMAIN expected}
          \subseteq {"Disconnected", "Discovering", "Connecting", "Connected"}
    /\ {needsReconnect, starting, networking, decoderReady, trackingSocket, controlSocket,
        controlTcpSocket, discovering, discoverySocket, receiving, hasVideoTexture, session,
        terminated} \subseteq BOOLEAN
    /\ transportMode \in Transports /\ videoSocket \in Transports \cup {"none"}
    /\ DOMAIN pc = Threads
    /\ pc.discovery \notin {"none", "done"} \/ pc.receive \notin {"none", "done"} => networking

\* A reset that returns leaves no thread, video or discovery socket, decoder or
\* texture of the connection, even one the discovery thread was making: it is
\* joined before the receive thread it may start (XrApp.cpp:1091-1109,
\* NetworkReceiver.cpp:726-749).  The control sockets are closed before the join
\* and are not among them: a connect that is under way opens one again.
ResetLeavesNothing ==
    ~networking =>
        /\ pc.discovery = "none" /\ pc.receive = "none"
        /\ ~(discoverySocket \/ trackingSocket \/ decoderReady \/ hasVideoTexture)
        /\ videoSocket = "none"

Stopping == pc.main \in {"close", "flags", "sockets", "joinDiscovery", "joinReceive", "reset"}

\* A client that takes itself for connected has a receive thread, running or to
\* be joined, unless it is being reset: with none, neither a retry nor a loss
\* would ever follow.  Four places store the state, one of them an old value
\* (XrApp.cpp:1261, 1277, 1486, 1112).
ConnectedReceives == state = "Connected" => pc.receive # "none" \/ Stopping

\* Over WiFi a server is told of the client only when the receive thread runs on
\* its socket, unless main is stopping them: its first packets, which carry the
\* keyframe, would be dropped otherwise (XrApp.cpp:1403-1406, 1485).  Where USB
\* is in reach as well, a connect of main's may replace the socket.
ListensBeforeConnect ==
    [][reach = {"wifi"} /\ served' \notin {served, "none"} =>
          (pc.receive = "udp" /\ videoSocket = "wifi") \/ Stopping]_vars

StreamEnded == pc.receive # "none" /\ served = "none" /\ session /\ ~terminated
Searches == pc.receive = "none" /\ state \in {"Disconnected", "Discovering"}

\* docs/platforms/quest.md:76, "When the runtime closes the USB control/video
\* sockets or video stalls after an app exits, the Quest client resets
\* connection state and returns to the same retry loop": the first half, where
\* only USB is in reach.  A retry between the two stores of OnConnectionLost
\* ends the process instead (NeverAssignedJoinable).
UsbLossReturnsToRetry ==
    reach = {"usb"} /\ StreamEnded ~> Searches \/ ~StreamEnded

\* The second half, once a frame has been shown.
StallReturnsToRetry ==
    StreamEnded /\ hasVideoTexture ~> Searches \/ ~StreamEnded

\* docs/platforms/quest.md:56, "returns to discovery/retry automatically when the
\* runtime or OpenXR app session stops": with no condition on the frames shown.
ReturnsToRetry == StreamEnded ~> Searches \/ ~StreamEnded

\* No run checks these two, which the code does not keep.  A thread object that is
\* still joinable is never assigned over: that ends the process
\* (NetworkReceiver.cpp:191, 223).  And a Stop returns (726-749): a connect it
\* overlaps sets receiving_ again.
NeverAssignedJoinable == ~terminated
StopReturns == pc.main \in {"joinDiscovery", "joinReceive"} ~> pc.main = "reset"
=============================================================================
