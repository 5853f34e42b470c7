------------------------------- MODULE Session -------------------------------
(***************************************************************************)
(* The OpenXR session and its frame loop (runtime/src/Session.cpp), with   *)
(* the instance's event queue (Instance.cpp), the pointer to the tracking  *)
(* receiver (InputManager.cpp) and the application's threads.              *)
(*                                                                         *)
(* A pipelined application waits for frames, renders them and controls the *)
(* session from different threads: WaitThread, FrameThread, ControlThread, *)
(* any of which may be the same.  Only waitedFrameCount_ and frameBegun_   *)
(* are under frameStateMutex_, so a call is several steps: pc[t] is where  *)
(* thread t is inside a call.  A call that returns an error before it      *)
(* changes anything is not a step.                                         *)
(***************************************************************************)
EXTENDS Integers, Sequences, FiniteSets

CONSTANTS
    WaitThread, FrameThread, ControlThread,
    EventDriven,    \* the application ends a session only when it was told to
    MaxSessions,    \* bound: sessions created over the life of the instance
    MaxWaited       \* bound: frames waited for and not begun

ASSUME SessionAssumption ==
    /\ EventDriven \in BOOLEAN
    /\ MaxSessions \in Nat
    /\ MaxWaited \in Nat \ {0}

VARIABLES
    session,            \* the live session's number, NoSession if there is none
    created,            \* handles given out so far
    state,              \* state_
    running,            \* running_
    exitRequested,      \* exitRequested_
    frameBegun,         \* frameBegun_
    waitedFrameCount,   \* waitedFrameCount_
    streamingServer,    \* streamingServer_ is not null
    streamingStarted,   \* streamingStarted_
    clientConnected,    \* the server's IsClientConnected()
    trackingReceiver,   \* inputManager_->trackingReceiver_ is not null
    eventQueue,         \* Instance::eventQueue_
    appState,           \* the state in the last event the application polled
    announcing,         \* TransitionState's newState, not yet pushed
    pc

sessionVars == <<session, created>>
frameVars   == <<frameBegun, waitedFrameCount>>
serverVars  == <<streamingServer, streamingStarted, clientConnected>>
eventVars   == <<eventQueue, appState, announcing>>
lifeVars    == <<state, running, exitRequested>>
vars == <<sessionVars, lifeVars, frameVars, serverVars, trackingReceiver, eventVars, pc>>

Threads == {WaitThread, FrameThread, ControlThread}
NoSession == 0
States == {"IDLE", "READY", "SYNCHRONIZED", "VISIBLE", "FOCUSED", "STOPPING", "EXITING"}
Unknown == "UNKNOWN"

WaitLabels == {"wf_server", "wf_pacing", "wf_input", "wf_tracking", "wf_count"}
EndFrameLabels ==
    {"ef_layers", "ef_wire", "ef_unwire", "ef_send", "ef_sending", "ef_finish", "ef_advance"}
BeginLabels == {"bs_run", "bs_stream", "bs_start"}
EndLabels == {"es_stop", "es_unwire", "es_reset", "es_idle", "es_exiting"}
ControlLabels == BeginLabels \cup EndLabels
Labels == {"idle", "ef_push", "q_tracking"} \cup WaitLabels \cup EndFrameLabels \cup ControlLabels

Alive == session # NoSession

\* Thread t goes on from one point of its call to another.
Goes(t, from, to) == pc[t] = from /\ pc' = [pc EXCEPT ![t] = to]

Event(s) == [session |-> session, state |-> s]

\* A slip: a session that is STOPPING still runs its frame loop.
IsFrameLoopRunningStateStopping == running
IsFrameLoopRunningState == running /\ state # "STOPPING"

Init ==
    /\ session = NoSession
    /\ created = 0
    /\ state = "IDLE"
    /\ running = FALSE
    /\ exitRequested = FALSE
    /\ frameBegun = FALSE
    /\ waitedFrameCount = 0
    /\ streamingServer = FALSE
    /\ streamingStarted = FALSE
    /\ clientConnected = FALSE
    /\ trackingReceiver = FALSE
    /\ eventQueue = <<>>
    /\ appState = Unknown
    /\ announcing = "IDLE"
    /\ pc = [t \in Threads |-> "idle"]

------------------------------------------------------------------------------
(* Creation and destruction.  The application holds the session handle to  *)
(* itself in both (OpenXR's external synchronisation of the handle).       *)

CreateSession ==
    /\ ~Alive /\ created < MaxSessions
    /\ \A t \in Threads : pc[t] = "idle"
    /\ session' = created + 1
    /\ created' = created + 1
    /\ state' = "READY"
    /\ running' = FALSE /\ exitRequested' = FALSE
    /\ frameBegun' = FALSE /\ waitedFrameCount' = 0
    /\ streamingServer' = FALSE /\ streamingStarted' = FALSE /\ clientConnected' = FALSE
    /\ trackingReceiver' = FALSE
    /\ eventQueue' = eventQueue \o << [session |-> created + 1, state |-> "IDLE"],
                                      [session |-> created + 1, state |-> "READY"] >>
    /\ appState' = Unknown
    /\ UNCHANGED <<announcing, pc>>

\* The destructor takes the session's events from the instance's queue; the others
\* stay in their order.
RemoveEventsForSession(q) ==
    LET others == {i \in 1 .. Len(q) : q[i].session # session}
        Nth(n) == CHOOSE i \in others : Cardinality({j \in others : j <= i}) = n
    IN  [n \in 1 .. Cardinality(others) |-> q[Nth(n)]]

DestroySession ==
    /\ Alive
    /\ \A t \in Threads : pc[t] = "idle"
    /\ session' = NoSession
    /\ running' = FALSE /\ exitRequested' = TRUE /\ state' = "IDLE"
    /\ frameBegun' = FALSE /\ waitedFrameCount' = 0
    /\ trackingReceiver' = FALSE
    /\ streamingServer' = FALSE /\ clientConnected' = FALSE
    /\ streamingStarted' = (streamingStarted /\ ~streamingServer)
    /\ eventQueue' = RemoveEventsForSession(eventQueue)
    /\ appState' = Unknown
    /\ UNCHANGED <<created, announcing, pc>>

------------------------------------------------------------------------------
(* Calls of the control thread.                                            *)

PollEvent ==
    /\ pc[ControlThread] = "idle"
    /\ eventQueue # <<>>
    /\ appState' = Head(eventQueue).state
    /\ eventQueue' = Tail(eventQueue)
    /\ UNCHANGED <<sessionVars, lifeVars, frameVars, serverVars, trackingReceiver,
                   announcing, pc>>

BeginSession ==
    /\ Alive
    /\ ~running
    /\ state = "READY"
    /\ exitRequested' = FALSE
    /\ frameBegun' = FALSE /\ waitedFrameCount' = 0
    /\ Goes(ControlThread, "idle", "bs_run")
    /\ UNCHANGED <<sessionVars, state, running, serverVars, trackingReceiver, eventVars>>

BeginRuns ==
    /\ Goes(ControlThread, "bs_run", "bs_stream")
    /\ running' = TRUE
    /\ UNCHANGED <<sessionVars, state, exitRequested, frameVars, serverVars,
                   trackingReceiver, eventVars>>

StartStreamingIfNeeded ==
    /\ Goes(ControlThread, "bs_stream", IF streamingStarted THEN "idle" ELSE "bs_start")
    /\ streamingServer' = (streamingServer \/ ~streamingStarted)
    /\ clientConnected' = (clientConnected /\ streamingStarted)
    /\ UNCHANGED <<sessionVars, lifeVars, frameVars, streamingStarted, trackingReceiver,
                   eventVars>>

\* StreamingServer::Start may fail: the session then runs without a server.
StreamingStarts ==
    /\ Goes(ControlThread, "bs_start", "idle")
    /\ \E started \in BOOLEAN :
          /\ streamingServer' = started /\ streamingStarted' = started
          /\ clientConnected' = (clientConnected /\ started)
    /\ UNCHANGED <<sessionVars, lifeVars, frameVars, trackingReceiver, eventVars>>

RequestExitSession ==
    /\ Alive
    /\ pc[ControlThread] = "idle"
    /\ running
    /\ exitRequested' = TRUE
    /\ UNCHANGED <<sessionVars, state, running, frameVars, serverVars, trackingReceiver,
                   eventVars, pc>>

EndSession ==
    /\ Alive
    /\ EventDriven => appState = "STOPPING"
    /\ state = "STOPPING"
    /\ running' = FALSE
    /\ Goes(ControlThread, "idle", "es_stop")
    /\ UNCHANGED <<sessionVars, state, exitRequested, frameVars, serverVars,
                   trackingReceiver, eventVars>>

EndStopsServer ==
    /\ Goes(ControlThread, "es_stop", IF streamingServer THEN "es_unwire" ELSE "es_reset")
    /\ streamingServer' = FALSE
    /\ clientConnected' = FALSE
    /\ streamingStarted' = (streamingStarted /\ ~streamingServer)
    /\ UNCHANGED <<sessionVars, lifeVars, frameVars, trackingReceiver, eventVars>>

\* EndSession has the input manager give the pointer up.
ReceiverAfterEnd == FALSE

EndUnwires ==
    /\ Goes(ControlThread, "es_unwire", "es_reset")
    /\ trackingReceiver' = ReceiverAfterEnd
    /\ UNCHANGED <<sessionVars, lifeVars, frameVars, serverVars, eventVars>>

EndResetsFrames ==
    /\ Goes(ControlThread, "es_reset", "es_idle")
    /\ frameBegun' = FALSE /\ waitedFrameCount' = 0
    /\ UNCHANGED <<sessionVars, lifeVars, serverVars, trackingReceiver, eventVars>>

\* No thread looks at state_ between TransitionState's write and its event: the
\* frame loop is not running, and it is this thread that polls.
EndIdles ==
    /\ Goes(ControlThread, "es_idle", "es_exiting")
    /\ state' = "IDLE"
    /\ eventQueue' = Append(eventQueue, Event("IDLE"))
    /\ UNCHANGED <<sessionVars, running, exitRequested, frameVars, serverVars,
                   trackingReceiver, appState, announcing>>

EndExits ==
    /\ Goes(ControlThread, "es_exiting", "idle")
    /\ state' = "EXITING"
    /\ eventQueue' = Append(eventQueue, Event("EXITING"))
    /\ exitRequested' = FALSE
    /\ UNCHANGED <<sessionVars, running, frameVars, serverVars, trackingReceiver,
                   appState, announcing>>

------------------------------------------------------------------------------
(* Input queries of any thread: IsInputDeviceActive and                    *)
(* GetCurrentInteractionProfile, which xrSyncActions, spaces and profiles   *)
(* reach, test the pointer and then use it.                                *)

QueryInput(t) ==
    /\ Alive
    /\ trackingReceiver
    /\ Goes(t, "idle", "q_tracking")
    /\ UNCHANGED <<sessionVars, lifeVars, frameVars, serverVars, trackingReceiver, eventVars>>

QueryUsesReceiver(t) ==
    /\ Goes(t, "q_tracking", "idle")
    /\ UNCHANGED <<sessionVars, lifeVars, frameVars, serverVars, trackingReceiver, eventVars>>

------------------------------------------------------------------------------
(* xrWaitFrame.                                                            *)

WaitFrame ==
    /\ Alive
    /\ waitedFrameCount < MaxWaited
    /\ IsFrameLoopRunningState
    /\ Goes(WaitThread, "idle", "wf_server")
    /\ UNCHANGED <<sessionVars, lifeVars, frameVars, serverVars, trackingReceiver, eventVars>>

WaitSeesServer ==
    /\ Goes(WaitThread, "wf_server", IF streamingServer THEN "wf_pacing" ELSE "wf_input")
    /\ UNCHANGED <<sessionVars, lifeVars, frameVars, serverVars, trackingReceiver, eventVars>>

\* GetTargetRefreshRateHz, then the sleep up to the frame's due time.
WaitPaces ==
    /\ Goes(WaitThread, "wf_pacing", "wf_input")
    /\ UNCHANGED <<sessionVars, lifeVars, frameVars, serverVars, trackingReceiver, eventVars>>

WaitSeesReceiver ==
    /\ Goes(WaitThread, "wf_input", IF trackingReceiver THEN "wf_tracking" ELSE "wf_count")
    /\ UNCHANGED <<sessionVars, lifeVars, frameVars, serverVars, trackingReceiver, eventVars>>

WaitUpdatesInput ==
    /\ Goes(WaitThread, "wf_tracking", "wf_count")
    /\ UNCHANGED <<sessionVars, lifeVars, frameVars, serverVars, trackingReceiver, eventVars>>

\* A slip: the loop is not checked again after the sleep.
WaitStillRunsUnchecked == TRUE
WaitStillRuns == IsFrameLoopRunningState

WaitCounts ==
    /\ Goes(WaitThread, "wf_count", "idle")
    /\ waitedFrameCount' = waitedFrameCount + (IF WaitStillRuns THEN 1 ELSE 0)
    /\ UNCHANGED <<sessionVars, lifeVars, frameBegun, serverVars, trackingReceiver, eventVars>>

------------------------------------------------------------------------------
(* xrBeginFrame and xrEndFrame.                                            *)

\* A slip: a frame nobody waited for may begin.
MayBeginUnwaited == IsFrameLoopRunningState
MayBegin == IsFrameLoopRunningState /\ waitedFrameCount > 0

BeginFrame ==
    /\ Alive
    /\ pc[FrameThread] = "idle"
    /\ MayBegin
    /\ waitedFrameCount' = waitedFrameCount - 1
    /\ frameBegun' = TRUE       \* if it was already, the call says FRAME_DISCARDED
    /\ UNCHANGED <<sessionVars, lifeVars, serverVars, trackingReceiver, eventVars, pc>>

EndFrame ==
    /\ Alive
    /\ IsFrameLoopRunningState
    /\ frameBegun
    /\ Goes(FrameThread, "idle", "ef_layers")
    /\ UNCHANGED <<sessionVars, lifeVars, frameVars, serverVars, trackingReceiver, eventVars>>

\* A bad argument or layer: the frame stays begun.
EndFrameRefused ==
    /\ Goes(FrameThread, "ef_layers", "idle")
    /\ UNCHANGED <<sessionVars, lifeVars, frameVars, serverVars, trackingReceiver, eventVars>>

\* CheckStreamingConnection is two tests of IsClientConnected; the pointer is
\* taken from the server and stored after the first.
EndFrameTestsWiring ==
    /\ Goes(FrameThread, "ef_layers",
            IF ~streamingServer THEN "ef_finish"
            ELSE IF clientConnected /\ ~trackingReceiver THEN "ef_wire" ELSE "ef_unwire")
    /\ UNCHANGED <<sessionVars, lifeVars, frameVars, serverVars, trackingReceiver, eventVars>>

EndFrameWires ==
    /\ Goes(FrameThread, "ef_wire", "ef_unwire")
    /\ trackingReceiver' = TRUE
    /\ UNCHANGED <<sessionVars, lifeVars, frameVars, serverVars, eventVars>>

EndFrameUnwires ==
    /\ Goes(FrameThread, "ef_unwire", "ef_send")
    /\ trackingReceiver' = (trackingReceiver /\ clientConnected)
    /\ UNCHANGED <<sessionVars, lifeVars, frameVars, serverVars, eventVars>>

EndFrameTestsClient ==
    /\ Goes(FrameThread, "ef_send", IF clientConnected THEN "ef_sending" ELSE "ef_finish")
    /\ UNCHANGED <<sessionVars, lifeVars, frameVars, serverVars, trackingReceiver, eventVars>>

SendFrame ==
    /\ Goes(FrameThread, "ef_sending", "ef_finish")
    /\ UNCHANGED <<sessionVars, lifeVars, frameVars, serverVars, trackingReceiver, eventVars>>

EndFrameFinishes ==
    /\ Goes(FrameThread, "ef_finish", "ef_advance")
    /\ frameBegun' = FALSE
    /\ UNCHANGED <<sessionVars, lifeVars, waitedFrameCount, serverVars, trackingReceiver,
                   eventVars>>

\* The state after a submitted frame while an exit is asked for; a slip that
\* forgets READY, and one that goes from FOCUSED straight to STOPPING.
ExitStateForgetsReady(s) ==
    CASE s = "FOCUSED" -> "VISIBLE" [] s = "VISIBLE" -> "SYNCHRONIZED"
      [] s = "SYNCHRONIZED" -> "STOPPING" [] OTHER -> s
ExitStateHasty(s) ==
    IF s \in {"FOCUSED", "VISIBLE", "READY", "SYNCHRONIZED"} THEN "STOPPING" ELSE s
ExitState(s) ==
    CASE s = "FOCUSED" -> "VISIBLE"
      [] s \in {"VISIBLE", "READY"} -> "SYNCHRONIZED"
      [] s = "SYNCHRONIZED" -> "STOPPING"
      [] OTHER -> s

EnterState(s) ==
    CASE s = "READY" -> "SYNCHRONIZED"
      [] s = "SYNCHRONIZED" -> "VISIBLE"
      [] s = "VISIBLE" -> "FOCUSED"
      [] OTHER -> s

StateAfterFrame ==
    IF ~running THEN state
    ELSE IF exitRequested THEN ExitState(state) ELSE EnterState(state)

\* AdvanceSessionStateAfterFrameSubmission up to the write of state_; the event
\* follows in a step of its own.
AdvanceSessionState ==
    /\ Goes(FrameThread, "ef_advance", IF StateAfterFrame = state THEN "idle" ELSE "ef_push")
    /\ state' = StateAfterFrame
    /\ announcing' = StateAfterFrame
    /\ UNCHANGED <<sessionVars, running, exitRequested, frameVars, serverVars,
                   trackingReceiver, eventQueue, appState>>

PushEvent ==
    /\ Goes(FrameThread, "ef_push", "idle")
    /\ eventQueue' = Append(eventQueue, Event(announcing))
    /\ UNCHANGED <<sessionVars, lifeVars, frameVars, serverVars, trackingReceiver,
                   appState, announcing>>

------------------------------------------------------------------------------
(* The headset, as the server's threads see it.                            *)

ClientConnects ==
    /\ streamingServer /\ ~clientConnected
    /\ clientConnected' = TRUE
    /\ UNCHANGED <<sessionVars, lifeVars, frameVars, streamingServer, streamingStarted,
                   trackingReceiver, eventVars, pc>>

ClientLeaves ==
    /\ clientConnected
    /\ clientConnected' = FALSE
    /\ UNCHANGED <<sessionVars, lifeVars, frameVars, streamingServer, streamingStarted,
                   trackingReceiver, eventVars, pc>>

------------------------------------------------------------------------------
Queries == \E t \in Threads : QueryInput(t) \/ QueryUsesReceiver(t)

WaitSteps ==
    WaitSeesServer \/ WaitPaces \/ WaitSeesReceiver \/ WaitUpdatesInput \/ WaitCounts

EndFrameSteps ==
    \/ EndFrameRefused \/ EndFrameTestsWiring \/ EndFrameWires \/ EndFrameUnwires
    \/ EndFrameTestsClient \/ SendFrame \/ EndFrameFinishes \/ AdvanceSessionState \/ PushEvent

ControlSteps ==
    \/ BeginRuns \/ StartStreamingIfNeeded \/ StreamingStarts
    \/ EndStopsServer \/ EndUnwires \/ EndResetsFrames \/ EndIdles \/ EndExits

Next ==
    \/ CreateSession \/ DestroySession
    \/ PollEvent \/ BeginSession \/ RequestExitSession \/ EndSession
    \/ Queries
    \/ WaitFrame \/ BeginFrame \/ EndFrame
    \/ WaitSteps \/ EndFrameSteps \/ ControlSteps
    \/ ClientConnects \/ ClientLeaves

Spec == Init /\ [][Next]_vars

\* A call once entered goes on to its return, as the threads are scheduled; and
\* the application keeps polling events, keeps its frame loop turning, submits
\* a valid frame again and again, and begins and ends the session when it may.
Fairness ==
    /\ WF_vars(WaitSteps) /\ WF_vars(EndFrameSteps) /\ WF_vars(ControlSteps)
    /\ \A t \in Threads : WF_vars(QueryUsesReceiver(t))
    /\ SF_vars(PollEvent) /\ SF_vars(BeginSession) /\ SF_vars(EndSession)
    /\ SF_vars(WaitFrame) /\ SF_vars(BeginFrame) /\ SF_vars(EndFrame)
    /\ SF_vars(EndFrameTestsWiring)

FairSpec == Spec /\ Fairness
------------------------------------------------------------------------------
(* Properties.                                                             *)

\* Each variable keeps its type; in particular the count of waited frames never
\* goes below zero, which in the code would be an unsigned wrap (Session.cpp:399-424).
TypeOK ==
    /\ session \in Nat /\ created \in Nat
    /\ state \in States /\ running \in BOOLEAN /\ exitRequested \in BOOLEAN
    /\ frameBegun \in BOOLEAN /\ waitedFrameCount \in Nat
    /\ streamingServer \in BOOLEAN /\ streamingStarted \in BOOLEAN
    /\ clientConnected \in BOOLEAN /\ trackingReceiver \in BOOLEAN
    /\ eventQueue \in Seq([session : Nat, state : States])
    /\ appState \in States \cup {Unknown} /\ announcing \in States
    /\ pc \in [Threads -> Labels]

\* No thread is inside a call on a streaming server that EndSession has already
\* destroyed: EndFrame and WaitFrame dereference streamingServer_ without a lock.
NoDanglingServerUse ==
    \A t \in Threads :
       pc[t] \in {"wf_pacing", "ef_wire", "ef_unwire", "ef_send", "ef_sending"} => streamingServer

\* The raw pointer in the input manager leads to a receiver that exists: EndFrame,
\* which takes it from the server some time after it has tested the client, never
\* stores it into a session that has been ended meanwhile.  Between two statements
\* of EndSession, the reset of the server that owns the receiver and that of the
\* pointer, it does not (Session.cpp:215-217, 898-900).
ReceiverHasServer ==
    trackingReceiver => streamingServer \/ pc[ControlThread] = "es_unwire"

\* No run checks this, which the code does not keep: an input query of a thread
\* that does not end the session may use the receiver when it is gone
\* (InputManager.cpp:382, 415).
NoDanglingReceiverUse ==
    \A t \in Threads : pc[t] \in {"wf_tracking", "q_tracking"} => streamingServer

\* When the session is not running, and EndSession is past its reset, no frame
\* is waited for or begun: a call that slept in WaitFrame while the session
\* ended must not leave a frame behind.
NoFrameSurvivesEnd ==
    ~running /\ pc[ControlThread] \notin {"es_stop", "es_unwire", "es_reset"}
        => waitedFrameCount = 0 /\ ~frameBegun

\* The lifecycle OpenXR prescribes, from each state to the next announced.
LegalSuccessors == [s \in States \cup {Unknown} |->
    CASE s = Unknown -> {"IDLE"}
      [] s = "IDLE" -> {"READY", "EXITING"}
      [] s = "READY" -> {"SYNCHRONIZED"}
      [] s = "SYNCHRONIZED" -> {"VISIBLE", "STOPPING"}
      [] s = "VISIBLE" -> {"FOCUSED", "SYNCHRONIZED"}
      [] s = "FOCUSED" -> {"VISIBLE"}
      [] s = "STOPPING" -> {"IDLE"}
      [] s = "EXITING" -> {}]

\* What the application knows followed by what it has still to poll is a legal
\* lifecycle, and once every event is pushed it ends in the session's state:
\* events of the rendering and of the ending thread never arrive out of order.  No
\* event of a destroyed session is left for the application, nor one of an earlier
\* session under the handle of the current one.
EventsTellLifecycle ==
    /\ \A i \in 1 .. Len(eventQueue) : eventQueue[i].session = session
    /\ Alive =>
       LET told == <<appState>> \o [i \in 1 .. Len(eventQueue) |-> eventQueue[i].state]
           due  == told \o (IF pc[FrameThread] = "ef_push" THEN <<announcing>> ELSE <<>>)
       IN  /\ \A i \in 1 .. Len(due) - 1 : due[i + 1] \in LegalSuccessors[due[i]]
           /\ due[Len(due)] = state

\* A requested exit is carried through: frame by frame down to STOPPING, then by
\* the application's xrEndSession to EXITING (or the session is destroyed).
ExitCompletes == (running /\ exitRequested) ~> (state = "EXITING" \/ ~Alive)
==============================================================================
