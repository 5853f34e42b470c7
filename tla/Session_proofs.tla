---------------------------- MODULE Session_proofs ----------------------------
(***************************************************************************)
(* Proofs about Session.tla, for every number of sessions and of waited    *)
(* frames and every assignment of threads to roles; the two theorems on    *)
(* the server's pointers take xrWaitFrame to be called by the control      *)
(* thread.                                                                 *)
(***************************************************************************)
EXTENDS Session, FiniteSetTheorems, TLAPS

\* Every call is made by the thread that has the role.
Roles ==
    \A t \in Threads :
       /\ pc[t] \in WaitLabels => t = WaitThread
       /\ pc[t] \in EndFrameLabels \cup {"ef_push"} => t = FrameThread
       /\ pc[t] \in ControlLabels => t = ControlThread

\* While EndFrame has not yet reached its state transition the session runs and
\* is not STOPPING, so EndSession is not under way.
FrameHoldsOffEnd ==
    pc[FrameThread] \in EndFrameLabels =>
       running /\ state # "STOPPING" /\ pc[ControlThread] \notin EndLabels

\* A server exists only once streaming was started, or while BeginSession starts
\* it; no receiver is wired to it then.
ServerWasStarted ==
    /\ streamingServer => streamingStarted \/ pc[ControlThread] = "bs_start"
    /\ pc[ControlThread] = "bs_start" => ~trackingReceiver

\* While BeginSession is under way there is no frame, so none is submitted.
BeginIsQuiet ==
    pc[ControlThread] \in BeginLabels =>
       waitedFrameCount = 0 /\ ~frameBegun /\ pc[FrameThread] \notin EndFrameLabels

\* EndSession runs with the frame loop stopped.
EndIsStopped == pc[ControlThread] \in EndLabels => ~running

PcType == pc \in [Threads -> Labels]

IInv == PcType /\ Roles /\ EndIsStopped /\ FrameHoldsOffEnd /\ BeginIsQuiet
        /\ ServerWasStarted /\ NoDanglingServerUse /\ ReceiverHasServer

\* The initial state satisfies every part of the invariant.
LEMMA InitIInv == Init => IInv
  BY DEF Init, IInv, PcType, Roles, EndIsStopped, FrameHoldsOffEnd,
         BeginIsQuiet, ServerWasStarted, NoDanglingServerUse,
         ReceiverHasServer, Labels, WaitLabels, EndFrameLabels, ControlLabels, BeginLabels,
         EndLabels, Threads

\* Calls of the control thread, and creation and destruction, keep the invariant.
LEMMA ControlPreserves ==
  ASSUME IInv, WaitThread = ControlThread,
         CreateSession \/ DestroySession \/ PollEvent \/ BeginSession \/ RequestExitSession
           \/ EndSession \/ Queries \/ ControlSteps
  PROVE  IInv'
  <1> USE DEF IInv, PcType, Roles, EndIsStopped, FrameHoldsOffEnd,
         BeginIsQuiet, ServerWasStarted, NoDanglingServerUse,
         ReceiverHasServer, Labels, WaitLabels, EndFrameLabels, ControlLabels, BeginLabels,
         EndLabels, Threads, Goes, serverVars, lifeVars, frameVars
  <1>1. CASE CreateSession BY <1>1 DEF CreateSession
  <1>2. CASE DestroySession BY <1>2 DEF DestroySession
  <1>3. CASE PollEvent BY <1>3 DEF PollEvent
  <1>4. CASE BeginSession BY <1>4 DEF BeginSession
  <1>5. CASE RequestExitSession BY <1>5 DEF RequestExitSession
  <1>6. CASE EndSession BY <1>6 DEF EndSession
  <1>7. CASE Queries BY <1>7 DEF Queries, QueryInput, QueryUsesReceiver
  <1>8. CASE BeginRuns BY <1>8 DEF BeginRuns
  <1>9. CASE StartStreamingIfNeeded BY <1>9 DEF StartStreamingIfNeeded
  <1>10. CASE EndStopsServer BY <1>10 DEF EndStopsServer
  <1>11. CASE EndUnwires BY <1>11 DEF EndUnwires, ReceiverAfterEnd
  <1>12. CASE EndResetsFrames BY <1>12 DEF EndResetsFrames
  <1>13. CASE EndIdles BY <1>13 DEF EndIdles
  <1>14. CASE EndExits BY <1>14 DEF EndExits
  <1>15. CASE StreamingStarts BY <1>15 DEF StreamingStarts
  <1> QED BY <1>1, <1>2, <1>3, <1>4, <1>5, <1>6, <1>7, <1>8, <1>9, <1>10, <1>11, <1>12,
             <1>13, <1>14, <1>15 DEF ControlSteps

\* The frame loop's calls and the headset keep the invariant.
LEMMA FramePreserves ==
  ASSUME IInv, WaitThread = ControlThread,
         WaitFrame \/ BeginFrame \/ EndFrame \/ WaitSteps \/ EndFrameSteps
           \/ ClientConnects \/ ClientLeaves
  PROVE  IInv'
  <1> USE DEF IInv, PcType, Roles, EndIsStopped, FrameHoldsOffEnd,
         BeginIsQuiet, ServerWasStarted, NoDanglingServerUse,
         ReceiverHasServer, Labels, WaitLabels, EndFrameLabels, ControlLabels, BeginLabels,
         EndLabels, Threads, Goes, sessionVars, serverVars, lifeVars, frameVars, eventVars
  <1>1. CASE WaitFrame BY <1>1 DEF WaitFrame, IsFrameLoopRunningState
  <1>2. CASE BeginFrame BY <1>2 DEF BeginFrame, MayBegin
  <1>3. CASE EndFrame BY <1>3 DEF EndFrame, IsFrameLoopRunningState
  <1>4. CASE WaitSeesServer BY <1>4 DEF WaitSeesServer
  <1>5. CASE WaitPaces BY <1>5 DEF WaitPaces
  <1>6. CASE WaitSeesReceiver BY <1>6 DEF WaitSeesReceiver
  <1>7. CASE WaitUpdatesInput BY <1>7 DEF WaitUpdatesInput
  <1>8. CASE WaitCounts BY <1>8 DEF WaitCounts
  <1>9. CASE EndFrameRefused BY <1>9 DEF EndFrameRefused
  <1>10. CASE EndFrameWires BY <1>10 DEF EndFrameWires
  <1>11. CASE EndFrameUnwires BY <1>11 DEF EndFrameUnwires
  <1>12. CASE EndFrameTestsClient BY <1>12 DEF EndFrameTestsClient
  <1>13. CASE SendFrame BY <1>13 DEF SendFrame
  <1>14. CASE EndFrameFinishes BY <1>14 DEF EndFrameFinishes
  <1>15. CASE AdvanceSessionState BY <1>15 DEF AdvanceSessionState
  <1>16. CASE PushEvent BY <1>16 DEF PushEvent
  <1>17. CASE ClientConnects BY <1>17 DEF ClientConnects
  <1>18. CASE ClientLeaves BY <1>18 DEF ClientLeaves
  <1>19. CASE EndFrameTestsWiring BY <1>19 DEF EndFrameTestsWiring
  <1> QED BY <1>1, <1>2, <1>3, <1>4, <1>5, <1>6, <1>7, <1>8, <1>9,
             <1>10, <1>11, <1>12, <1>13, <1>14, <1>15, <1>16, <1>17, <1>18, <1>19
             DEF WaitSteps, EndFrameSteps

\* With xrWaitFrame on the control thread IInv holds throughout.
LEMMA IInvHolds ==
  ASSUME WaitThread = ControlThread
  PROVE  Spec => []IInv
  <1>1. IInv /\ Next => IInv' BY ControlPreserves, FramePreserves DEF Next
  <1>2. IInv /\ UNCHANGED vars => IInv'
    BY DEF IInv, PcType, Roles, EndIsStopped, FrameHoldsOffEnd,
         BeginIsQuiet, ServerWasStarted, NoDanglingServerUse,
           ReceiverHasServer, vars, sessionVars, serverVars, lifeVars, frameVars, eventVars
  <1> QED BY InitIInv, <1>1, <1>2, PTL DEF Spec

\* EndSession never destroys the server under a frame call of another thread, if
\* xrWaitFrame is called by the thread that ends the session.
THEOREM NoDanglingServerUseHolds ==
  ASSUME WaitThread = ControlThread
  PROVE  Spec => []NoDanglingServerUse
  <1>1. IInv => NoDanglingServerUse BY DEF IInv
  <1> QED BY IInvHolds, <1>1, PTL

\* Under the same condition the raw pointer to the tracking receiver is kept no
\* longer than the server that owns the receiver, but for two statements of
\* EndSession: EndFrame never stores it into a session that has been ended.
THEOREM ReceiverHasServerHolds ==
  ASSUME WaitThread = ControlThread
  PROVE  Spec => []ReceiverHasServer
  <1>1. IInv => ReceiverHasServer BY DEF IInv
  <1> QED BY IInvHolds, <1>1, PTL

-------------------------------------------------------------------------------
(* No frame survives the end of the session, whatever the threads.         *)

\* The invariant: inside BeginSession the frames are reset too, and EndSession
\* runs with the frame loop stopped.
FramesInv ==
    /\ PcType
    /\ running \in BOOLEAN /\ waitedFrameCount \in Nat /\ frameBegun \in BOOLEAN
    /\ EndIsStopped
    /\ NoFrameSurvivesEnd

\* Creation, destruction and the control thread's calls keep it.
LEMMA ControlPreservesFrames ==
  ASSUME FramesInv, Roles,
         CreateSession \/ DestroySession \/ PollEvent \/ BeginSession \/ RequestExitSession
           \/ EndSession \/ Queries \/ ControlSteps
  PROVE  FramesInv'
  <1> USE DEF FramesInv, EndIsStopped, PcType, NoFrameSurvivesEnd, Roles, Labels, WaitLabels,
              EndFrameLabels,
         ControlLabels, BeginLabels, EndLabels, Threads, Goes, sessionVars, serverVars, lifeVars,
         frameVars, eventVars
  <1>1. CASE CreateSession BY <1>1 DEF CreateSession
  <1>2. CASE DestroySession BY <1>2 DEF DestroySession
  <1>3. CASE PollEvent BY <1>3 DEF PollEvent
  <1>4. CASE BeginSession BY <1>4 DEF BeginSession
  <1>5. CASE RequestExitSession BY <1>5 DEF RequestExitSession
  <1>6. CASE EndSession BY <1>6 DEF EndSession
  <1>7. CASE Queries BY <1>7 DEF Queries, QueryInput, QueryUsesReceiver
  <1>8. CASE BeginRuns BY <1>8 DEF BeginRuns
  <1>9. CASE StartStreamingIfNeeded BY <1>9 DEF StartStreamingIfNeeded
  <1>10. CASE EndStopsServer BY <1>10 DEF EndStopsServer
  <1>11. CASE EndUnwires BY <1>11 DEF EndUnwires
  <1>12. CASE EndResetsFrames BY <1>12 DEF EndResetsFrames
  <1>13. CASE EndIdles BY <1>13 DEF EndIdles
  <1>14. CASE EndExits BY <1>14 DEF EndExits
  <1>15. CASE StreamingStarts BY <1>15 DEF StreamingStarts
  <1> QED BY <1>1, <1>2, <1>3, <1>4, <1>5, <1>6, <1>7, <1>8,
             <1>9, <1>10, <1>11, <1>12, <1>13, <1>14, <1>15 DEF ControlSteps

\* So do the frame calls: a count or a begun frame needs a running session, at
\* the moment of the step itself.
LEMMA FramePreservesFrames ==
  ASSUME FramesInv, Roles,
         WaitFrame \/ BeginFrame \/ EndFrame \/ WaitSteps \/ EndFrameSteps
           \/ ClientConnects \/ ClientLeaves
  PROVE  FramesInv'
  <1> USE DEF FramesInv, EndIsStopped, PcType, NoFrameSurvivesEnd, Roles, Labels, WaitLabels,
              EndFrameLabels,
         ControlLabels, BeginLabels, EndLabels, Threads, Goes, sessionVars, serverVars, lifeVars,
         frameVars, eventVars
  <1>1. CASE WaitFrame BY <1>1 DEF WaitFrame, IsFrameLoopRunningState
  <1>2. CASE BeginFrame BY <1>2 DEF BeginFrame, MayBegin, IsFrameLoopRunningState
  <1>3. CASE EndFrame BY <1>3 DEF EndFrame
  <1>4. CASE WaitSeesServer BY <1>4 DEF WaitSeesServer
  <1>5. CASE WaitPaces BY <1>5 DEF WaitPaces
  <1>6. CASE WaitSeesReceiver BY <1>6 DEF WaitSeesReceiver
  <1>7. CASE WaitUpdatesInput BY <1>7 DEF WaitUpdatesInput
  <1>8. CASE WaitCounts BY <1>8 DEF WaitCounts, WaitStillRuns, IsFrameLoopRunningState
  <1>9. CASE EndFrameRefused BY <1>9 DEF EndFrameRefused
  <1>10. CASE EndFrameWires BY <1>10 DEF EndFrameWires
  <1>11. CASE EndFrameUnwires BY <1>11 DEF EndFrameUnwires
  <1>12. CASE EndFrameTestsClient BY <1>12 DEF EndFrameTestsClient
  <1>13. CASE SendFrame BY <1>13 DEF SendFrame
  <1>14. CASE EndFrameFinishes BY <1>14 DEF EndFrameFinishes
  <1>15. CASE AdvanceSessionState BY <1>15 DEF AdvanceSessionState
  <1>16. CASE PushEvent BY <1>16 DEF PushEvent
  <1>17. CASE ClientConnects BY <1>17 DEF ClientConnects
  <1>18. CASE ClientLeaves BY <1>18 DEF ClientLeaves
  <1>19. CASE EndFrameTestsWiring BY <1>19 DEF EndFrameTestsWiring
  <1> QED BY <1>1, <1>2, <1>3, <1>4, <1>5, <1>6, <1>7, <1>8, <1>9,
             <1>10, <1>11, <1>12, <1>13, <1>14, <1>15, <1>16, <1>17, <1>18, <1>19
             DEF WaitSteps, EndFrameSteps

\* A call begins in the thread that has its role and goes on there.
LEMMA RolesPreserved ==
  ASSUME PcType, Roles, Next
  PROVE  Roles'
  <1> USE DEF PcType, Roles, Labels, WaitLabels, EndFrameLabels, ControlLabels, BeginLabels,
         EndLabels, Threads, Goes
  <1>1. CASE UNCHANGED pc BY <1>1
  <1>2. CASE BeginSession BY <1>2 DEF BeginSession
  <1>3. CASE EndSession BY <1>3 DEF EndSession
  <1>4. CASE Queries BY <1>4 DEF Queries, QueryInput, QueryUsesReceiver
  <1>5. CASE BeginRuns BY <1>5 DEF BeginRuns
  <1>6. CASE StartStreamingIfNeeded BY <1>6 DEF StartStreamingIfNeeded
  <1>7. CASE EndStopsServer BY <1>7 DEF EndStopsServer
  <1>8. CASE EndUnwires BY <1>8 DEF EndUnwires
  <1>9. CASE EndResetsFrames BY <1>9 DEF EndResetsFrames
  <1>10. CASE EndIdles BY <1>10 DEF EndIdles
  <1>11. CASE EndExits BY <1>11 DEF EndExits
  <1>12. CASE StreamingStarts BY <1>12 DEF StreamingStarts
  <1>13. CASE WaitFrame BY <1>13 DEF WaitFrame
  <1>14. CASE EndFrame BY <1>14 DEF EndFrame
  <1>15. CASE WaitSeesServer BY <1>15 DEF WaitSeesServer
  <1>16. CASE WaitPaces BY <1>16 DEF WaitPaces
  <1>17. CASE WaitSeesReceiver BY <1>17 DEF WaitSeesReceiver
  <1>18. CASE WaitUpdatesInput BY <1>18 DEF WaitUpdatesInput
  <1>19. CASE WaitCounts BY <1>19 DEF WaitCounts
  <1>20. CASE EndFrameRefused BY <1>20 DEF EndFrameRefused
  <1>21. CASE EndFrameWires BY <1>21 DEF EndFrameWires
  <1>22. CASE EndFrameUnwires BY <1>22 DEF EndFrameUnwires
  <1>23. CASE EndFrameTestsClient BY <1>23 DEF EndFrameTestsClient
  <1>24. CASE SendFrame BY <1>24 DEF SendFrame
  <1>25. CASE EndFrameFinishes BY <1>25 DEF EndFrameFinishes
  <1>26. CASE AdvanceSessionState BY <1>26 DEF AdvanceSessionState
  <1>27. CASE PushEvent BY <1>27 DEF PushEvent
  <1>28. CASE EndFrameTestsWiring BY <1>28 DEF EndFrameTestsWiring
  <1> QED
    BY <1>1, <1>2, <1>3, <1>4, <1>5, <1>6, <1>7, <1>8, <1>9, <1>10, <1>11, <1>12, <1>13, <1>14,
       <1>15, <1>16, <1>17, <1>18, <1>19, <1>20, <1>21, <1>22, <1>23, <1>24, <1>25,
       <1>26, <1>27, <1>28
    DEF Next, WaitSteps, EndFrameSteps, ControlSteps, CreateSession, DestroySession, PollEvent,
        RequestExitSession, BeginFrame, ClientConnects, ClientLeaves

\* FramesInv holds throughout.
LEMMA FramesInvHolds == Spec => [](FramesInv /\ Roles)
  <1> DEFINE Inv == FramesInv /\ Roles
  <1>1. Init => Inv
    <2> SUFFICES ASSUME Init PROVE Inv
      OBVIOUS
    <2>1. NoFrameSurvivesEnd /\ running \in BOOLEAN /\ waitedFrameCount \in Nat
             /\ frameBegun \in BOOLEAN
      BY DEF Init, NoFrameSurvivesEnd
    <2> QED BY <2>1, InitIInv DEF IInv, FramesInv
  <1>2. Inv /\ Next => Inv'
    <2> SUFFICES ASSUME Inv, Next PROVE Inv'
      OBVIOUS
    <2>1. FramesInv' BY ControlPreservesFrames, FramePreservesFrames DEF Next
    <2>2. Roles' BY RolesPreserved DEF FramesInv
    <2> QED BY <2>1, <2>2
  <1>3. Inv /\ UNCHANGED vars => Inv'
    BY DEF FramesInv, EndIsStopped, PcType, NoFrameSurvivesEnd, Roles, vars, lifeVars,
           frameVars
  <1> QED BY <1>1, <1>2, <1>3, PTL DEF Spec

\* The reset in EndSession and the second check in WaitFrame leave no frame of
\* an ended session, although a call of another thread may be sleeping in it.
THEOREM NoFrameSurvivesEndHolds == Spec => []NoFrameSurvivesEnd
  <1>1. FramesInv /\ Roles => NoFrameSurvivesEnd BY DEF FramesInv
  <1> QED BY FramesInvHolds, <1>1, PTL

-------------------------------------------------------------------------------
(* The event queue, for every number of sessions.                          *)

Events == [session : Nat, state : States]

\* The queue holds events of the live session only.
OwnEvents ==
    /\ eventQueue \in Seq(Events)
    /\ \A i \in 1 .. Len(eventQueue) : eventQueue[i].session = session
    /\ ~Alive => eventQueue = <<>>

\* When every event is the session's the destructor empties the queue.
LEMMA NoEventStays ==
  ASSUME \A i \in 1 .. Len(eventQueue) : eventQueue[i].session = session
  PROVE  RemoveEventsForSession(eventQueue) = <<>>
  <1> DEFINE others == {i \in 1 .. Len(eventQueue) : eventQueue[i].session # session}
             Nth(n) == CHOOSE i \in others : Cardinality({j \in others : j <= i}) = n
  <1>1. others = {} OBVIOUS
  <1>2. Cardinality(others) = 0 BY <1>1, FS_EmptySet
  <1>3. RemoveEventsForSession(eventQueue)
          = [n \in 1 .. Cardinality(others) |-> eventQueue[Nth(n)]]
    BY DEF RemoveEventsForSession
  <1> HIDE DEF others, Nth
  <1>4. RemoveEventsForSession(eventQueue) = [n \in 1 .. 0 |-> eventQueue[Nth(n)]]
    BY <1>2, <1>3
  <1> QED BY <1>4

\* An event appended.
LEMMA AppendedEvent ==
  ASSUME NEW q \in Seq(Events), NEW e \in Events
  PROVE  /\ Append(q, e) \in Seq(Events) /\ Len(Append(q, e)) = Len(q) + 1
         /\ \A i \in 1 .. Len(q) : Append(q, e)[i] = q[i]
         /\ Append(q, e)[Len(q) + 1] = e
  OBVIOUS

\* Calls happen in a live session.
Calling == ~Alive => \A t \in Threads : pc[t] = "idle"

\* A thread inside a call stays the session's until it returns.
LEMMA CallingPreserved ==
  ASSUME PcType, Calling, session \in Nat, created \in Nat, Next
  PROVE  Calling'
  <1> USE DEF Calling, PcType, Labels, Threads, Alive, NoSession, Goes, sessionVars
  <1>1. CASE CreateSession BY <1>1 DEF CreateSession, Alive
  <1>2. CASE DestroySession BY <1>2 DEF DestroySession, Alive
  <1>3. CASE PollEvent BY <1>3 DEF PollEvent
  <1>4. CASE BeginSession BY <1>4 DEF BeginSession, Alive
  <1>5. CASE RequestExitSession BY <1>5 DEF RequestExitSession
  <1>6. CASE EndSession BY <1>6 DEF EndSession
  <1>7. CASE Queries BY <1>7 DEF Queries, QueryInput, QueryUsesReceiver
  <1>8. CASE BeginRuns BY <1>8 DEF BeginRuns
  <1>9. CASE StartStreamingIfNeeded BY <1>9 DEF StartStreamingIfNeeded
  <1>10. CASE EndStopsServer BY <1>10 DEF EndStopsServer
  <1>11. CASE EndUnwires BY <1>11 DEF EndUnwires, ReceiverAfterEnd
  <1>12. CASE EndResetsFrames BY <1>12 DEF EndResetsFrames
  <1>13. CASE EndIdles BY <1>13 DEF EndIdles, Event
  <1>14. CASE EndExits BY <1>14 DEF EndExits, Event
  <1>15. CASE StreamingStarts BY <1>15 DEF StreamingStarts
  <1>16. CASE WaitFrame BY <1>16 DEF WaitFrame, IsFrameLoopRunningState
  <1>17. CASE BeginFrame BY <1>17 DEF BeginFrame, MayBegin, IsFrameLoopRunningState
  <1>18. CASE EndFrame BY <1>18 DEF EndFrame, IsFrameLoopRunningState
  <1>19. CASE WaitSeesServer BY <1>19 DEF WaitSeesServer
  <1>20. CASE WaitPaces BY <1>20 DEF WaitPaces
  <1>21. CASE WaitSeesReceiver BY <1>21 DEF WaitSeesReceiver
  <1>22. CASE WaitUpdatesInput BY <1>22 DEF WaitUpdatesInput
  <1>23. CASE WaitCounts BY <1>23 DEF WaitCounts, WaitStillRuns, IsFrameLoopRunningState
  <1>24. CASE EndFrameRefused BY <1>24 DEF EndFrameRefused
  <1>25. CASE EndFrameWires BY <1>25 DEF EndFrameWires
  <1>26. CASE EndFrameUnwires BY <1>26 DEF EndFrameUnwires
  <1>27. CASE EndFrameTestsClient BY <1>27 DEF EndFrameTestsClient
  <1>28. CASE SendFrame BY <1>28 DEF SendFrame
  <1>29. CASE EndFrameFinishes BY <1>29 DEF EndFrameFinishes
  <1>30. CASE AdvanceSessionState
         BY <1>30 DEF AdvanceSessionState, StateAfterFrame, ExitState, EnterState
  <1>31. CASE PushEvent BY <1>31 DEF PushEvent, Event
  <1>32. CASE ClientConnects BY <1>32 DEF ClientConnects
  <1>33. CASE ClientLeaves BY <1>33 DEF ClientLeaves
  <1>34. CASE EndFrameTestsWiring BY <1>34 DEF EndFrameTestsWiring
  <1> QED
    BY <1>1, <1>2, <1>3, <1>4, <1>5, <1>6, <1>7, <1>8, <1>9, <1>10, <1>11, <1>12, <1>13,
       <1>14, <1>15, <1>16, <1>17, <1>18, <1>19, <1>20, <1>21, <1>22, <1>23, <1>24, <1>25,
       <1>26, <1>27, <1>28, <1>29, <1>30, <1>31, <1>32, <1>33, <1>34
    DEF Next, WaitSteps, EndFrameSteps, ControlSteps

\* Threads keep to the places of the calls.
LEMMA PcTypePreserved ==
  ASSUME PcType, Next
  PROVE  PcType'
  <1> USE DEF PcType, Labels, WaitLabels, EndFrameLabels, ControlLabels, BeginLabels, EndLabels,
         Threads, Goes
  <1>1. CASE CreateSession BY <1>1 DEF CreateSession, Alive
  <1>2. CASE DestroySession BY <1>2 DEF DestroySession, Alive
  <1>3. CASE PollEvent BY <1>3 DEF PollEvent
  <1>4. CASE BeginSession BY <1>4 DEF BeginSession, Alive
  <1>5. CASE RequestExitSession BY <1>5 DEF RequestExitSession
  <1>6. CASE EndSession BY <1>6 DEF EndSession
  <1>7. CASE Queries BY <1>7 DEF Queries, QueryInput, QueryUsesReceiver
  <1>8. CASE BeginRuns BY <1>8 DEF BeginRuns
  <1>9. CASE StartStreamingIfNeeded BY <1>9 DEF StartStreamingIfNeeded
  <1>10. CASE EndStopsServer BY <1>10 DEF EndStopsServer
  <1>11. CASE EndUnwires BY <1>11 DEF EndUnwires, ReceiverAfterEnd
  <1>12. CASE EndResetsFrames BY <1>12 DEF EndResetsFrames
  <1>13. CASE EndIdles BY <1>13 DEF EndIdles, Event
  <1>14. CASE EndExits BY <1>14 DEF EndExits, Event
  <1>15. CASE StreamingStarts BY <1>15 DEF StreamingStarts
  <1>16. CASE WaitFrame BY <1>16 DEF WaitFrame, IsFrameLoopRunningState
  <1>17. CASE BeginFrame BY <1>17 DEF BeginFrame, MayBegin, IsFrameLoopRunningState
  <1>18. CASE EndFrame BY <1>18 DEF EndFrame, IsFrameLoopRunningState
  <1>19. CASE WaitSeesServer BY <1>19 DEF WaitSeesServer
  <1>20. CASE WaitPaces BY <1>20 DEF WaitPaces
  <1>21. CASE WaitSeesReceiver BY <1>21 DEF WaitSeesReceiver
  <1>22. CASE WaitUpdatesInput BY <1>22 DEF WaitUpdatesInput
  <1>23. CASE WaitCounts BY <1>23 DEF WaitCounts, WaitStillRuns, IsFrameLoopRunningState
  <1>24. CASE EndFrameRefused BY <1>24 DEF EndFrameRefused
  <1>25. CASE EndFrameWires BY <1>25 DEF EndFrameWires
  <1>26. CASE EndFrameUnwires BY <1>26 DEF EndFrameUnwires
  <1>27. CASE EndFrameTestsClient BY <1>27 DEF EndFrameTestsClient
  <1>28. CASE SendFrame BY <1>28 DEF SendFrame
  <1>29. CASE EndFrameFinishes BY <1>29 DEF EndFrameFinishes
  <1>30. CASE AdvanceSessionState
         BY <1>30 DEF AdvanceSessionState, StateAfterFrame, ExitState, EnterState
  <1>31. CASE PushEvent BY <1>31 DEF PushEvent, Event
  <1>32. CASE ClientConnects BY <1>32 DEF ClientConnects
  <1>33. CASE ClientLeaves BY <1>33 DEF ClientLeaves
  <1>34. CASE EndFrameTestsWiring BY <1>34 DEF EndFrameTestsWiring
  <1> QED
    BY <1>1, <1>2, <1>3, <1>4, <1>5, <1>6, <1>7, <1>8, <1>9, <1>10, <1>11, <1>12, <1>13,
       <1>14, <1>15, <1>16, <1>17, <1>18, <1>19, <1>20, <1>21, <1>22, <1>23, <1>24, <1>25,
       <1>26, <1>27, <1>28, <1>29, <1>30, <1>31, <1>32, <1>33, <1>34
    DEF Next, WaitSteps, EndFrameSteps, ControlSteps

\* TypeOK but for the queue and the threads.
Scalars ==
    /\ session \in Nat /\ created \in Nat
    /\ state \in States /\ running \in BOOLEAN /\ exitRequested \in BOOLEAN
    /\ frameBegun \in BOOLEAN /\ waitedFrameCount \in Nat
    /\ streamingServer \in BOOLEAN /\ streamingStarted \in BOOLEAN
    /\ clientConnected \in BOOLEAN /\ trackingReceiver \in BOOLEAN
    /\ appState \in States \cup {Unknown} /\ announcing \in States

\* The states a submitted frame leads to.
LEMMA FrameLeadsTo ==
  ASSUME state \in States
  PROVE  /\ StateAfterFrame \in States
         /\ StateAfterFrame # state =>
               /\ StateAfterFrame \in {"SYNCHRONIZED", "VISIBLE", "FOCUSED", "STOPPING"}
               /\ StateAfterFrame \in LegalSuccessors[state]
               /\ state \in {"READY", "SYNCHRONIZED", "VISIBLE", "FOCUSED"} /\ running
  BY DEF StateAfterFrame, ExitState, EnterState, States, LegalSuccessors, Unknown

\* TypeOK but for the queue's events and the threads' places is preserved.
LEMMA ScalarsPreserved ==
  ASSUME Scalars, eventQueue \in Seq(Events), Next
  PROVE  Scalars'
  <1> USE DEF Scalars, States, NoSession, sessionVars, lifeVars, frameVars, serverVars, eventVars
  <1>1. CASE CreateSession
    <2>1. /\ running' \in BOOLEAN /\ exitRequested' \in BOOLEAN /\ frameBegun' \in BOOLEAN
          /\ streamingServer' \in BOOLEAN /\ streamingStarted' \in BOOLEAN
          /\ clientConnected' \in BOOLEAN /\ trackingReceiver' \in BOOLEAN
      BY <1>1 DEF CreateSession
    <2>2. /\ session' \in Nat /\ created' \in Nat /\ state' = "READY" /\ waitedFrameCount' = 0
          /\ appState' = Unknown /\ UNCHANGED announcing
      BY <1>1 DEF CreateSession
    <2> QED BY <2>1, <2>2
  <1>2. CASE DestroySession BY <1>2 DEF DestroySession, Alive
  <1>3. CASE PollEvent
    <2>1. Head(eventQueue) \in Events BY <1>3 DEF PollEvent
    <2>2. appState' \in States BY <1>3, <2>1 DEF PollEvent, Events
    <2> QED BY <1>3, <2>2 DEF PollEvent
  <1>4. CASE BeginSession BY <1>4 DEF BeginSession, Alive
  <1>5. CASE RequestExitSession BY <1>5 DEF RequestExitSession
  <1>6. CASE EndSession
    <2>1. running' \in BOOLEAN BY <1>6 DEF EndSession
    <2>2. UNCHANGED <<session, created, state, exitRequested, frameBegun, waitedFrameCount,
                      streamingServer, streamingStarted, clientConnected, trackingReceiver,
                      appState, announcing>>
          BY <1>6 DEF EndSession
    <2> QED BY <2>1, <2>2
  <1>7. CASE Queries BY <1>7 DEF Queries, QueryInput, QueryUsesReceiver
  <1>8. CASE BeginRuns BY <1>8 DEF BeginRuns
  <1>9. CASE StartStreamingIfNeeded
    <2>1. streamingServer' \in BOOLEAN /\ streamingStarted' \in BOOLEAN /\ clientConnected' \in BOOLEAN
          BY <1>9 DEF StartStreamingIfNeeded
    <2>2. UNCHANGED <<session, created, state, running, exitRequested, frameBegun,
                      waitedFrameCount, trackingReceiver, appState, announcing>>
          BY <1>9 DEF StartStreamingIfNeeded
    <2> QED BY <2>1, <2>2
  <1>10. CASE EndStopsServer
    <2>1. streamingServer' \in BOOLEAN /\ streamingStarted' \in BOOLEAN /\ clientConnected' \in BOOLEAN
          BY <1>10 DEF EndStopsServer
    <2>2. UNCHANGED <<session, created, state, running, exitRequested, frameBegun,
                      waitedFrameCount, trackingReceiver, appState, announcing>>
          BY <1>10 DEF EndStopsServer
    <2> QED BY <2>1, <2>2
  <1>11. CASE EndUnwires
    <2>1. trackingReceiver' \in BOOLEAN BY <1>11 DEF EndUnwires, ReceiverAfterEnd
    <2>2. UNCHANGED <<session, created, state, running, exitRequested, frameBegun,
                      waitedFrameCount, streamingServer, streamingStarted, clientConnected,
                      appState, announcing>>
          BY <1>11 DEF EndUnwires
    <2> QED BY <2>1, <2>2
  <1>12. CASE EndResetsFrames
    <2>1. frameBegun' \in BOOLEAN /\ waitedFrameCount' = 0 BY <1>12 DEF EndResetsFrames
    <2>2. UNCHANGED <<session, created, state, running, exitRequested, streamingServer,
                      streamingStarted, clientConnected, trackingReceiver, appState, announcing>>
          BY <1>12 DEF EndResetsFrames
    <2> QED BY <2>1, <2>2
  <1>13. CASE EndIdles BY <1>13 DEF EndIdles, Event
  <1>14. CASE EndExits
    <2>1. exitRequested' \in BOOLEAN /\ state' = "EXITING" BY <1>14 DEF EndExits
    <2>2. UNCHANGED <<session, created, running, frameBegun, waitedFrameCount, streamingServer,
                      streamingStarted, clientConnected, trackingReceiver, appState, announcing>>
          BY <1>14 DEF EndExits
    <2> QED BY <2>1, <2>2
  <1>15. CASE StreamingStarts BY <1>15 DEF StreamingStarts
  <1>16. CASE WaitFrame BY <1>16 DEF WaitFrame, IsFrameLoopRunningState
  <1>17. CASE BeginFrame BY <1>17 DEF BeginFrame, MayBegin, IsFrameLoopRunningState
  <1>18. CASE EndFrame BY <1>18 DEF EndFrame, IsFrameLoopRunningState
  <1>19. CASE WaitSeesServer BY <1>19 DEF WaitSeesServer
  <1>20. CASE WaitPaces BY <1>20 DEF WaitPaces
  <1>21. CASE WaitSeesReceiver BY <1>21 DEF WaitSeesReceiver
  <1>22. CASE WaitUpdatesInput BY <1>22 DEF WaitUpdatesInput
  <1>23. CASE WaitCounts BY <1>23 DEF WaitCounts, WaitStillRuns, IsFrameLoopRunningState
  <1>24. CASE EndFrameRefused BY <1>24 DEF EndFrameRefused
  <1>25. CASE EndFrameWires BY <1>25 DEF EndFrameWires
  <1>26. CASE EndFrameUnwires BY <1>26 DEF EndFrameUnwires
  <1>27. CASE EndFrameTestsClient BY <1>27 DEF EndFrameTestsClient
  <1>28. CASE SendFrame BY <1>28 DEF SendFrame
  <1>29. CASE EndFrameFinishes
    <2>1. frameBegun' \in BOOLEAN BY <1>29 DEF EndFrameFinishes
    <2>2. UNCHANGED <<session, created, state, running, exitRequested, waitedFrameCount,
                      streamingServer, streamingStarted, clientConnected, trackingReceiver,
                      appState, announcing>>
          BY <1>29 DEF EndFrameFinishes
    <2> QED BY <2>1, <2>2
  <1>30. CASE AdvanceSessionState
    <2>1. StateAfterFrame \in States BY FrameLeadsTo
    <2> QED BY <1>30, <2>1 DEF AdvanceSessionState
  <1>31. CASE PushEvent BY <1>31 DEF PushEvent, Event
  <1>32. CASE ClientConnects BY <1>32 DEF ClientConnects
  <1>33. CASE ClientLeaves
    <2>1. clientConnected' \in BOOLEAN BY <1>33 DEF ClientLeaves
    <2>2. UNCHANGED <<session, created, state, running, exitRequested, frameBegun,
                      waitedFrameCount, streamingServer, streamingStarted, trackingReceiver,
                      appState, announcing>>
          BY <1>33 DEF ClientLeaves
    <2> QED BY <2>1, <2>2
  <1>34. CASE EndFrameTestsWiring BY <1>34 DEF EndFrameTestsWiring
  <1> QED
    BY <1>1, <1>2, <1>3, <1>4, <1>5, <1>6, <1>7, <1>8, <1>9, <1>10, <1>11, <1>12, <1>13,
       <1>14, <1>15, <1>16, <1>17, <1>18, <1>19, <1>20, <1>21, <1>22, <1>23, <1>24, <1>25,
       <1>26, <1>27, <1>28, <1>29, <1>30, <1>31, <1>32, <1>33, <1>34
    DEF Next, WaitSteps, EndFrameSteps, ControlSteps

\* The queue holds events of the live session only, and none without one.
LEMMA OwnEventsPreserved ==
  ASSUME Scalars, OwnEvents, Calling, Next
  PROVE  OwnEvents'
  <1> USE DEF OwnEvents, Alive, NoSession, sessionVars, lifeVars, frameVars, serverVars, eventVars
  <1>1. CASE CreateSession
    <2>1. eventQueue = <<>> /\ session' = created + 1 /\ session' \in Nat \ {0}
      BY <1>1 DEF CreateSession, Scalars
    <2> DEFINE e1 == [session |-> created + 1, state |-> "IDLE"]
               e2 == [session |-> created + 1, state |-> "READY"]
    <2>2. eventQueue' = <<>> \o <<e1, e2>> BY <1>1, <2>1 DEF CreateSession
    <2>3. e1 \in Events /\ e2 \in Events /\ e1.session = session' /\ e2.session = session'
      BY <2>1 DEF Events, States
    <2> HIDE DEF e1, e2
    <2>4. eventQueue' = <<e1, e2>> BY <2>2
    <2> QED BY <2>1, <2>3, <2>4
  <1>2. CASE DestroySession
    <2>1. eventQueue' = <<>> BY <1>2, NoEventStays DEF DestroySession
    <2> QED BY <2>1
  <1>3. CASE PollEvent
    <2>1. eventQueue' = Tail(eventQueue) /\ eventQueue # <<>> /\ UNCHANGED session
      BY <1>3 DEF PollEvent
    <2> QED BY <2>1
  <1>4. CASE BeginSession BY <1>4 DEF BeginSession, Alive
  <1>5. CASE RequestExitSession BY <1>5 DEF RequestExitSession
  <1>6. CASE EndSession BY <1>6 DEF EndSession
  <1>7. CASE Queries BY <1>7 DEF Queries, QueryInput, QueryUsesReceiver
  <1>8. CASE BeginRuns BY <1>8 DEF BeginRuns
  <1>9. CASE StartStreamingIfNeeded BY <1>9 DEF StartStreamingIfNeeded
  <1>10. CASE EndStopsServer BY <1>10 DEF EndStopsServer
  <1>11. CASE EndUnwires BY <1>11 DEF EndUnwires, ReceiverAfterEnd
  <1>12. CASE EndResetsFrames BY <1>12 DEF EndResetsFrames
  <1>13. CASE EndIdles
    <2>1. pc[ControlThread] # "idle" BY <1>13 DEF EndIdles, Goes
    <2>2. Alive BY <2>1 DEF Calling, Threads
    <2>3. Event("IDLE") \in Events /\ Event("IDLE").session = session
      BY DEF Event, Events, Scalars, States
    <2>4. eventQueue' = Append(eventQueue, Event("IDLE")) /\ UNCHANGED session BY <1>13 DEF EndIdles
    <2> QED BY <2>2, <2>3, <2>4, AppendedEvent
  <1>14. CASE EndExits
    <2>1. pc[ControlThread] # "idle" BY <1>14 DEF EndExits, Goes
    <2>2. Alive BY <2>1 DEF Calling, Threads
    <2>3. Event("EXITING") \in Events /\ Event("EXITING").session = session
      BY DEF Event, Events, Scalars, States
    <2>4. eventQueue' = Append(eventQueue, Event("EXITING")) /\ UNCHANGED session
          BY <1>14 DEF EndExits
    <2> QED BY <2>2, <2>3, <2>4, AppendedEvent
  <1>15. CASE StreamingStarts BY <1>15 DEF StreamingStarts
  <1>16. CASE WaitFrame BY <1>16 DEF WaitFrame, IsFrameLoopRunningState
  <1>17. CASE BeginFrame BY <1>17 DEF BeginFrame, MayBegin, IsFrameLoopRunningState
  <1>18. CASE EndFrame BY <1>18 DEF EndFrame, IsFrameLoopRunningState
  <1>19. CASE WaitSeesServer BY <1>19 DEF WaitSeesServer
  <1>20. CASE WaitPaces BY <1>20 DEF WaitPaces
  <1>21. CASE WaitSeesReceiver BY <1>21 DEF WaitSeesReceiver
  <1>22. CASE WaitUpdatesInput BY <1>22 DEF WaitUpdatesInput
  <1>23. CASE WaitCounts BY <1>23 DEF WaitCounts, WaitStillRuns, IsFrameLoopRunningState
  <1>24. CASE EndFrameRefused BY <1>24 DEF EndFrameRefused
  <1>25. CASE EndFrameWires BY <1>25 DEF EndFrameWires
  <1>26. CASE EndFrameUnwires BY <1>26 DEF EndFrameUnwires
  <1>27. CASE EndFrameTestsClient BY <1>27 DEF EndFrameTestsClient
  <1>28. CASE SendFrame BY <1>28 DEF SendFrame
  <1>29. CASE EndFrameFinishes BY <1>29 DEF EndFrameFinishes
  <1>30. CASE AdvanceSessionState
         BY <1>30 DEF AdvanceSessionState, StateAfterFrame, ExitState, EnterState
  <1>31. CASE PushEvent
    <2>1. pc[FrameThread] # "idle" BY <1>31 DEF PushEvent, Goes
    <2>2. Alive BY <2>1 DEF Calling, Threads
    <2>3. Event(announcing) \in Events /\ Event(announcing).session = session
      BY DEF Event, Events, Scalars, States
    <2>4. eventQueue' = Append(eventQueue, Event(announcing)) /\ UNCHANGED session
          BY <1>31 DEF PushEvent
    <2> QED BY <2>2, <2>3, <2>4, AppendedEvent
  <1>32. CASE ClientConnects BY <1>32 DEF ClientConnects
  <1>33. CASE ClientLeaves BY <1>33 DEF ClientLeaves
  <1>34. CASE EndFrameTestsWiring BY <1>34 DEF EndFrameTestsWiring
  <1> QED
    BY <1>1, <1>2, <1>3, <1>4, <1>5, <1>6, <1>7, <1>8, <1>9, <1>10, <1>11, <1>12, <1>13,
       <1>14, <1>15, <1>16, <1>17, <1>18, <1>19, <1>20, <1>21, <1>22, <1>23, <1>24, <1>25,
       <1>26, <1>27, <1>28, <1>29, <1>30, <1>31, <1>32, <1>33, <1>34
    DEF Next, WaitSteps, EndFrameSteps, ControlSteps

\* Types and the ownership of events hold throughout, whatever the threads' roles.
LEMMA TypesHold == Spec => [](Scalars /\ OwnEvents /\ Calling /\ PcType)
  <1> DEFINE Inv == Scalars /\ OwnEvents /\ Calling /\ PcType
  <1>1. Init => Inv
    <2> SUFFICES ASSUME Init PROVE Inv OBVIOUS
    <2>1. Scalars
      <3>1. /\ running \in BOOLEAN /\ exitRequested \in BOOLEAN /\ frameBegun \in BOOLEAN
            /\ streamingServer \in BOOLEAN /\ streamingStarted \in BOOLEAN
            /\ clientConnected \in BOOLEAN /\ trackingReceiver \in BOOLEAN
        BY DEF Init
      <3>2. /\ session = 0 /\ created = 0 /\ state = "IDLE" /\ waitedFrameCount = 0
            /\ appState = Unknown /\ announcing = "IDLE"
        BY DEF Init, NoSession
      <3> QED BY <3>1, <3>2 DEF Scalars, States
    <2>2. OwnEvents BY DEF Init, OwnEvents, Events
    <2>3. Calling BY DEF Init, Calling
    <2> QED BY <2>1, <2>2, <2>3, InitIInv DEF IInv
  <1>2. Inv /\ Next => Inv'
    <2> SUFFICES ASSUME Inv, Next PROVE Inv' OBVIOUS
    <2>1. session \in Nat /\ created \in Nat BY DEF Scalars
    <2>2. Scalars' BY ScalarsPreserved DEF OwnEvents
    <2> QED BY <2>1, <2>2, OwnEventsPreserved, CallingPreserved, PcTypePreserved
  <1>3. Inv /\ UNCHANGED vars => Inv'
    BY DEF Scalars, OwnEvents, Calling, PcType, Alive, vars, sessionVars, lifeVars, frameVars,
           serverVars, eventVars
  <1> QED BY <1>1, <1>2, <1>3, PTL DEF Spec

\* Each variable keeps its type: the count of waited frames never wraps.
THEOREM TypeOKHolds == Spec => []TypeOK
  <1>1. Scalars /\ OwnEvents /\ Calling /\ PcType => TypeOK
    BY DEF Scalars, OwnEvents, PcType, TypeOK, Events
  <1> QED BY TypesHold, <1>1, PTL

\* What the application knows, at 0, and what it will poll.
Told == [i \in 0 .. Len(eventQueue) |-> IF i = 0 THEN appState ELSE eventQueue[i].state]

Rising == {"READY", "SYNCHRONIZED", "VISIBLE", "FOCUSED"}

\* The story is legal and ends in the session's state, or just before it while
\* the rendering thread has still to push the event.
Story ==
    Alive =>
       /\ \A i \in 1 .. Len(eventQueue) : Told[i] \in LegalSuccessors[Told[i - 1]]
       /\ IF pc[FrameThread] = "ef_push"
          THEN state = announcing /\ announcing \in LegalSuccessors[Told[Len(eventQueue)]]
          ELSE Told[Len(eventQueue)] = state

\* STOPPING has not been told while the session rises or the rendering thread has
\* an event to push: an application that ends the session when it was told to
\* does not end it before that event is pushed.
Endings ==
    /\ pc[FrameThread] = "ef_push" \/ state \in Rising =>
          \A i \in 0 .. Len(eventQueue) : Told[i] # "STOPPING"
    /\ pc[FrameThread] = "ef_push" => pc[ControlThread] \notin EndLabels
    /\ pc[ControlThread] \in EndLabels =>
          state = IF pc[ControlThread] = "es_exiting" THEN "IDLE" ELSE "STOPPING"

\* An event pushed is told last.
LEMMA PushTells ==
  ASSUME eventQueue \in Seq(Events), NEW x \in States, session \in Nat,
         eventQueue' = Append(eventQueue, Event(x)), UNCHANGED appState
  PROVE  /\ Len(eventQueue) \in Nat /\ Len(eventQueue') = Len(eventQueue) + 1
         /\ \A i \in 0 .. Len(eventQueue) : Told'[i] = Told[i]
         /\ Told'[Len(eventQueue')] = x
  <1>1. Event(x) \in Events /\ Event(x).state = x BY DEF Event, Events
  <1>2. /\ Len(eventQueue') = Len(eventQueue) + 1
        /\ \A i \in 1 .. Len(eventQueue) : eventQueue'[i] = eventQueue[i]
        /\ eventQueue'[Len(eventQueue) + 1] = Event(x)
    BY <1>1, AppendedEvent
  <1>3. Len(eventQueue) \in Nat OBVIOUS
  <1> QED BY <1>1, <1>2, <1>3 DEF Told

\* An event polled is known.
LEMMA PollTells ==
  ASSUME eventQueue \in Seq(Events), PollEvent
  PROVE  /\ Len(eventQueue) \in Nat \ {0} /\ Len(eventQueue') = Len(eventQueue) - 1
         /\ \A i \in 0 .. Len(eventQueue') : Told'[i] = Told[i + 1]
  <1>1. eventQueue # <<>> /\ eventQueue' = Tail(eventQueue) /\ appState' = Head(eventQueue).state
    BY DEF PollEvent
  <1>2. /\ Len(eventQueue) \in Nat \ {0} /\ Len(eventQueue') = Len(eventQueue) - 1
        /\ Head(eventQueue) = eventQueue[1]
        /\ \A i \in 1 .. Len(eventQueue) - 1 : eventQueue'[i] = eventQueue[i + 1]
    BY <1>1
  <1> QED BY <1>1, <1>2 DEF Told

\* What changes neither the session's state nor its events.
LEMMA KeepsStory ==
  ASSUME Story, Endings, UNCHANGED <<session, eventQueue, appState, state, announcing>>,
         pc'[FrameThread] = "ef_push" <=> pc[FrameThread] = "ef_push",
         pc'[ControlThread] \in EndLabels =>
            /\ pc[FrameThread] # "ef_push"
            /\ state = IF pc'[ControlThread] = "es_exiting" THEN "IDLE" ELSE "STOPPING"
  PROVE  Story' /\ Endings'
  <1>1. UNCHANGED Told BY DEF Told
  <1> QED BY <1>1 DEF Story, Endings, Alive

\* Each state is entered from the one before, and announced in that order.
LEMMA StoryPreserved ==
  ASSUME EventDriven \/ FrameThread = ControlThread, Scalars, OwnEvents, Calling, PcType,
         EndIsStopped, Story, Endings, Next
  PROVE  Story' /\ Endings'
  <1>1. CASE CreateSession
    <2>1. /\ state' = "READY" /\ UNCHANGED pc /\ \A t \in Threads : pc[t] = "idle"
          /\ appState' = Unknown /\ eventQueue = <<>>
      BY <1>1 DEF CreateSession, OwnEvents
    <2> DEFINE e1 == [session |-> created + 1, state |-> "IDLE"]
               e2 == [session |-> created + 1, state |-> "READY"]
    <2>2. eventQueue' = <<>> \o <<e1, e2>> BY <1>1, <2>1 DEF CreateSession
    <2>3. e1.state = "IDLE" /\ e2.state = "READY" OBVIOUS
    <2> HIDE DEF e1, e2
    <2>4. eventQueue' = <<e1, e2>> BY <2>2
    <2>5. /\ Len(eventQueue') = 2
          /\ Told'[0] = Unknown /\ Told'[1] = "IDLE" /\ Told'[2] = "READY"
      BY <2>1, <2>3, <2>4 DEF Told
    <2>6. "IDLE" \in LegalSuccessors[Unknown] /\ "READY" \in LegalSuccessors["IDLE"]
      BY DEF LegalSuccessors, States, Unknown
    <2>7. Story' BY <2>1, <2>5, <2>6 DEF Story, Threads
    <2>8. Endings' BY <2>1, <2>5 DEF Endings, EndLabels, Threads, Unknown
    <2> QED BY <2>7, <2>8
  <1>2. CASE DestroySession
    <2>1. session' = NoSession /\ state' = "IDLE" /\ UNCHANGED pc /\ \A t \in Threads : pc[t] = "idle"
      BY <1>2 DEF DestroySession
    <2> QED BY <2>1 DEF Story, Endings, Alive, Rising, EndLabels, Threads
  <1>3. CASE PollEvent
    <2>1. UNCHANGED <<session, state, announcing, pc>> BY <1>3 DEF PollEvent, sessionVars, lifeVars
    <2>2. /\ Len(eventQueue) \in Nat \ {0} /\ Len(eventQueue') = Len(eventQueue) - 1
          /\ \A i \in 0 .. Len(eventQueue') : Told'[i] = Told[i + 1]
      BY <1>3, PollTells DEF OwnEvents
    <2>3. Told'[Len(eventQueue')] = Told[Len(eventQueue)] BY <2>2
    <2>4. \A i \in 1 .. Len(eventQueue') : Told'[i - 1] = Told[i] /\ Told'[i] = Told[i + 1]
      BY <2>2
    <2>5. Alive => \A i \in 1 .. Len(eventQueue') : Told[i + 1] \in LegalSuccessors[Told[i]]
      <3> SUFFICES ASSUME Alive, NEW i \in 1 .. Len(eventQueue')
                   PROVE  Told[i + 1] \in LegalSuccessors[Told[i]]
        OBVIOUS
      <3>1. i + 1 \in 1 .. Len(eventQueue) /\ (i + 1) - 1 = i BY <2>2
      <3> QED BY <3>1 DEF Story
    <2>6. Story' BY <2>1, <2>3, <2>4, <2>5 DEF Story, Alive
    <2>7. Endings' BY <2>1, <2>2 DEF Endings
    <2> QED BY <2>6, <2>7
  <1>4. CASE BeginSession
    <2>1. UNCHANGED <<session, eventQueue, appState, state, announcing>>
      BY <1>4 DEF BeginSession, sessionVars, lifeVars, eventVars
    <2>2. pc'[FrameThread] = "ef_push" <=> pc[FrameThread] = "ef_push"
      BY <1>4 DEF BeginSession, Goes, PcType, Threads
    <2>3. pc'[ControlThread] \in EndLabels =>
             /\ pc[ControlThread] \in EndLabels
             /\ pc'[ControlThread] = "es_exiting" <=> pc[ControlThread] = "es_exiting"
      BY <1>4 DEF BeginSession, Goes, PcType, Threads, EndLabels
    <2> QED BY <2>1, <2>2, <2>3, KeepsStory DEF Endings
  <1>5. CASE RequestExitSession
    <2>1. UNCHANGED <<session, eventQueue, appState, state, announcing>>
      BY <1>5 DEF RequestExitSession, sessionVars, lifeVars, eventVars
    <2>2. pc'[FrameThread] = "ef_push" <=> pc[FrameThread] = "ef_push"
      BY <1>5 DEF RequestExitSession, Goes, PcType, Threads
    <2>3. pc'[ControlThread] \in EndLabels =>
             /\ pc[ControlThread] \in EndLabels
             /\ pc'[ControlThread] = "es_exiting" <=> pc[ControlThread] = "es_exiting"
      BY <1>5 DEF RequestExitSession, Goes, PcType, Threads, EndLabels
    <2> QED BY <2>1, <2>2, <2>3, KeepsStory DEF Endings
  <1>6. CASE EndSession
    <2>1. pc[ControlThread] = "idle" /\ state = "STOPPING" /\ (EventDriven => appState = "STOPPING")
      BY <1>6 DEF EndSession, Goes
    <2>2. pc[FrameThread] # "ef_push"
      <3>1. CASE EventDriven
        <4>1. Told[0] = "STOPPING" BY <2>1, <3>1 DEF Told, OwnEvents
        <4> QED BY <4>1 DEF Endings, OwnEvents
      <3>2. CASE FrameThread = ControlThread BY <2>1, <3>2
      <3> QED BY <3>1, <3>2
    <2>3. UNCHANGED <<session, eventQueue, appState, state, announcing>>
      BY <1>6 DEF EndSession, sessionVars, eventVars
    <2>4. pc'[FrameThread] # "ef_push" /\ pc'[ControlThread] = "es_stop"
      BY <1>6, <2>2 DEF EndSession, Goes, PcType, Threads
    <2> QED BY <2>1, <2>2, <2>3, <2>4, KeepsStory
  <1>7. CASE Queries
    <2>1. UNCHANGED <<session, eventQueue, appState, state, announcing>>
      BY <1>7 DEF Queries, QueryInput, QueryUsesReceiver, sessionVars, lifeVars, eventVars
    <2>2. pc'[FrameThread] = "ef_push" <=> pc[FrameThread] = "ef_push"
      BY <1>7 DEF Queries, QueryInput, QueryUsesReceiver, Goes, PcType, Threads
    <2>3. pc'[ControlThread] \in EndLabels =>
             /\ pc[ControlThread] \in EndLabels
             /\ pc'[ControlThread] = "es_exiting" <=> pc[ControlThread] = "es_exiting"
      BY <1>7 DEF Queries, QueryInput, QueryUsesReceiver, Goes, PcType, Threads, EndLabels
    <2> QED BY <2>1, <2>2, <2>3, KeepsStory DEF Endings
  <1>8. CASE BeginRuns
    <2>1. UNCHANGED <<session, eventQueue, appState, state, announcing>>
      BY <1>8 DEF BeginRuns, sessionVars, lifeVars, eventVars
    <2>2. pc'[FrameThread] = "ef_push" <=> pc[FrameThread] = "ef_push"
      BY <1>8 DEF BeginRuns, Goes, PcType, Threads
    <2>3. pc'[ControlThread] \in EndLabels =>
             /\ pc[ControlThread] \in EndLabels
             /\ pc'[ControlThread] = "es_exiting" <=> pc[ControlThread] = "es_exiting"
      BY <1>8 DEF BeginRuns, Goes, PcType, Threads, EndLabels
    <2> QED BY <2>1, <2>2, <2>3, KeepsStory DEF Endings
  <1>9. CASE StartStreamingIfNeeded
    <2>1. UNCHANGED <<session, eventQueue, appState, state, announcing>>
      BY <1>9 DEF StartStreamingIfNeeded, sessionVars, lifeVars, eventVars
    <2>2. pc'[FrameThread] = "ef_push" <=> pc[FrameThread] = "ef_push"
      BY <1>9 DEF StartStreamingIfNeeded, Goes, PcType, Threads
    <2>3. pc'[ControlThread] \in EndLabels =>
             /\ pc[ControlThread] \in EndLabels
             /\ pc'[ControlThread] = "es_exiting" <=> pc[ControlThread] = "es_exiting"
      BY <1>9 DEF StartStreamingIfNeeded, Goes, PcType, Threads, EndLabels
    <2> QED BY <2>1, <2>2, <2>3, KeepsStory DEF Endings
  <1>10. CASE EndStopsServer
    <2>1. UNCHANGED <<session, eventQueue, appState, state, announcing>>
      BY <1>10 DEF EndStopsServer, sessionVars, lifeVars, eventVars
    <2>2. pc'[FrameThread] = "ef_push" <=> pc[FrameThread] = "ef_push"
      BY <1>10 DEF EndStopsServer, Goes, PcType, Threads
    <2>3. pc'[ControlThread] \in EndLabels =>
             /\ pc[ControlThread] \in EndLabels
             /\ pc'[ControlThread] = "es_exiting" <=> pc[ControlThread] = "es_exiting"
      BY <1>10 DEF EndStopsServer, Goes, PcType, Threads, EndLabels
    <2> QED BY <2>1, <2>2, <2>3, KeepsStory DEF Endings
  <1>11. CASE EndUnwires
    <2>1. UNCHANGED <<session, eventQueue, appState, state, announcing>>
      BY <1>11 DEF EndUnwires, sessionVars, lifeVars, eventVars
    <2>2. pc'[FrameThread] = "ef_push" <=> pc[FrameThread] = "ef_push"
      BY <1>11 DEF EndUnwires, Goes, PcType, Threads
    <2>3. pc'[ControlThread] \in EndLabels =>
             /\ pc[ControlThread] \in EndLabels
             /\ pc'[ControlThread] = "es_exiting" <=> pc[ControlThread] = "es_exiting"
      BY <1>11 DEF EndUnwires, Goes, PcType, Threads, EndLabels
    <2> QED BY <2>1, <2>2, <2>3, KeepsStory DEF Endings
  <1>12. CASE EndResetsFrames
    <2>1. UNCHANGED <<session, eventQueue, appState, state, announcing>>
      BY <1>12 DEF EndResetsFrames, sessionVars, lifeVars, eventVars
    <2>2. pc'[FrameThread] = "ef_push" <=> pc[FrameThread] = "ef_push"
      BY <1>12 DEF EndResetsFrames, Goes, PcType, Threads
    <2>3. pc'[ControlThread] \in EndLabels =>
             /\ pc[ControlThread] \in EndLabels
             /\ pc'[ControlThread] = "es_exiting" <=> pc[ControlThread] = "es_exiting"
      BY <1>12 DEF EndResetsFrames, Goes, PcType, Threads, EndLabels
    <2> QED BY <2>1, <2>2, <2>3, KeepsStory DEF Endings
  <1>13. CASE EndIdles
    <2>1. /\ pc[ControlThread] = "es_idle" /\ pc' = [pc EXCEPT ![ControlThread] = "es_exiting"]
          /\ eventQueue' = Append(eventQueue, Event("IDLE")) /\ state' = "IDLE"
          /\ UNCHANGED <<session, appState>>
      BY <1>13 DEF EndIdles, Goes, sessionVars
    <2>2. Alive /\ pc[FrameThread] # "ef_push" /\ state = "STOPPING"
      BY <2>1 DEF Calling, Threads, Endings, EndLabels
    <2>3. pc'[FrameThread] # "ef_push" /\ pc'[ControlThread] = "es_exiting"
      BY <2>1, <2>2 DEF PcType, Threads
    <2>4. /\ Len(eventQueue) \in Nat /\ Len(eventQueue') = Len(eventQueue) + 1
          /\ \A i \in 0 .. Len(eventQueue) : Told'[i] = Told[i]
          /\ Told'[Len(eventQueue')] = "IDLE"
      BY <2>1, PushTells DEF OwnEvents, Scalars, States
    <2>5. Told[Len(eventQueue)] = "STOPPING" BY <2>2 DEF Story
    <2>6. "IDLE" \in LegalSuccessors["STOPPING"] BY DEF LegalSuccessors, States
    <2>7. Story' BY <2>1, <2>2, <2>3, <2>4, <2>5, <2>6 DEF Story, Alive
    <2>8. Endings' BY <2>1, <2>3 DEF Endings, Rising, EndLabels
    <2> QED BY <2>7, <2>8
  <1>14. CASE EndExits
    <2>1. /\ pc[ControlThread] = "es_exiting" /\ pc' = [pc EXCEPT ![ControlThread] = "idle"]
          /\ eventQueue' = Append(eventQueue, Event("EXITING")) /\ state' = "EXITING"
          /\ UNCHANGED <<session, appState>>
      BY <1>14 DEF EndExits, Goes, sessionVars
    <2>2. Alive /\ pc[FrameThread] # "ef_push" /\ state = "IDLE"
      BY <2>1 DEF Calling, Threads, Endings, EndLabels
    <2>3. pc'[FrameThread] # "ef_push" /\ pc'[ControlThread] = "idle"
      BY <2>1, <2>2 DEF PcType, Threads
    <2>4. /\ Len(eventQueue) \in Nat /\ Len(eventQueue') = Len(eventQueue) + 1
          /\ \A i \in 0 .. Len(eventQueue) : Told'[i] = Told[i]
          /\ Told'[Len(eventQueue')] = "EXITING"
      BY <2>1, PushTells DEF OwnEvents, Scalars, States
    <2>5. Told[Len(eventQueue)] = "IDLE" BY <2>2 DEF Story
    <2>6. "EXITING" \in LegalSuccessors["IDLE"] BY DEF LegalSuccessors, States
    <2>7. Story' BY <2>1, <2>2, <2>3, <2>4, <2>5, <2>6 DEF Story, Alive
    <2>8. Endings' BY <2>1, <2>3 DEF Endings, Rising, EndLabels
    <2> QED BY <2>7, <2>8
  <1>15. CASE StreamingStarts
    <2>1. UNCHANGED <<session, eventQueue, appState, state, announcing>>
      BY <1>15 DEF StreamingStarts, sessionVars, lifeVars, eventVars
    <2>2. pc'[FrameThread] = "ef_push" <=> pc[FrameThread] = "ef_push"
      BY <1>15 DEF StreamingStarts, Goes, PcType, Threads
    <2>3. pc'[ControlThread] \in EndLabels =>
             /\ pc[ControlThread] \in EndLabels
             /\ pc'[ControlThread] = "es_exiting" <=> pc[ControlThread] = "es_exiting"
      BY <1>15 DEF StreamingStarts, Goes, PcType, Threads, EndLabels
    <2> QED BY <2>1, <2>2, <2>3, KeepsStory DEF Endings
  <1>16. CASE WaitFrame
    <2>1. UNCHANGED <<session, eventQueue, appState, state, announcing>>
      BY <1>16 DEF WaitFrame, sessionVars, lifeVars, eventVars
    <2>2. pc'[FrameThread] = "ef_push" <=> pc[FrameThread] = "ef_push"
      BY <1>16 DEF WaitFrame, Goes, PcType, Threads
    <2>3. pc'[ControlThread] \in EndLabels =>
             /\ pc[ControlThread] \in EndLabels
             /\ pc'[ControlThread] = "es_exiting" <=> pc[ControlThread] = "es_exiting"
      BY <1>16 DEF WaitFrame, Goes, PcType, Threads, EndLabels
    <2> QED BY <2>1, <2>2, <2>3, KeepsStory DEF Endings
  <1>17. CASE BeginFrame
    <2>1. UNCHANGED <<session, eventQueue, appState, state, announcing>>
      BY <1>17 DEF BeginFrame, sessionVars, lifeVars, eventVars
    <2>2. pc'[FrameThread] = "ef_push" <=> pc[FrameThread] = "ef_push"
      BY <1>17 DEF BeginFrame, Goes, PcType, Threads
    <2>3. pc'[ControlThread] \in EndLabels =>
             /\ pc[ControlThread] \in EndLabels
             /\ pc'[ControlThread] = "es_exiting" <=> pc[ControlThread] = "es_exiting"
      BY <1>17 DEF BeginFrame, Goes, PcType, Threads, EndLabels
    <2> QED BY <2>1, <2>2, <2>3, KeepsStory DEF Endings
  <1>18. CASE EndFrame
    <2>1. UNCHANGED <<session, eventQueue, appState, state, announcing>>
      BY <1>18 DEF EndFrame, sessionVars, lifeVars, eventVars
    <2>2. pc'[FrameThread] = "ef_push" <=> pc[FrameThread] = "ef_push"
      BY <1>18 DEF EndFrame, Goes, PcType, Threads
    <2>3. pc'[ControlThread] \in EndLabels =>
             /\ pc[ControlThread] \in EndLabels
             /\ pc'[ControlThread] = "es_exiting" <=> pc[ControlThread] = "es_exiting"
      BY <1>18 DEF EndFrame, Goes, PcType, Threads, EndLabels
    <2> QED BY <2>1, <2>2, <2>3, KeepsStory DEF Endings
  <1>19. CASE WaitSeesServer
    <2>1. UNCHANGED <<session, eventQueue, appState, state, announcing>>
      BY <1>19 DEF WaitSeesServer, sessionVars, lifeVars, eventVars
    <2>2. pc'[FrameThread] = "ef_push" <=> pc[FrameThread] = "ef_push"
      BY <1>19 DEF WaitSeesServer, Goes, PcType, Threads
    <2>3. pc'[ControlThread] \in EndLabels =>
             /\ pc[ControlThread] \in EndLabels
             /\ pc'[ControlThread] = "es_exiting" <=> pc[ControlThread] = "es_exiting"
      BY <1>19 DEF WaitSeesServer, Goes, PcType, Threads, EndLabels
    <2> QED BY <2>1, <2>2, <2>3, KeepsStory DEF Endings
  <1>20. CASE WaitPaces
    <2>1. UNCHANGED <<session, eventQueue, appState, state, announcing>>
      BY <1>20 DEF WaitPaces, sessionVars, lifeVars, eventVars
    <2>2. pc'[FrameThread] = "ef_push" <=> pc[FrameThread] = "ef_push"
      BY <1>20 DEF WaitPaces, Goes, PcType, Threads
    <2>3. pc'[ControlThread] \in EndLabels =>
             /\ pc[ControlThread] \in EndLabels
             /\ pc'[ControlThread] = "es_exiting" <=> pc[ControlThread] = "es_exiting"
      BY <1>20 DEF WaitPaces, Goes, PcType, Threads, EndLabels
    <2> QED BY <2>1, <2>2, <2>3, KeepsStory DEF Endings
  <1>21. CASE WaitSeesReceiver
    <2>1. UNCHANGED <<session, eventQueue, appState, state, announcing>>
      BY <1>21 DEF WaitSeesReceiver, sessionVars, lifeVars, eventVars
    <2>2. pc'[FrameThread] = "ef_push" <=> pc[FrameThread] = "ef_push"
      BY <1>21 DEF WaitSeesReceiver, Goes, PcType, Threads
    <2>3. pc'[ControlThread] \in EndLabels =>
             /\ pc[ControlThread] \in EndLabels
             /\ pc'[ControlThread] = "es_exiting" <=> pc[ControlThread] = "es_exiting"
      BY <1>21 DEF WaitSeesReceiver, Goes, PcType, Threads, EndLabels
    <2> QED BY <2>1, <2>2, <2>3, KeepsStory DEF Endings
  <1>22. CASE WaitUpdatesInput
    <2>1. UNCHANGED <<session, eventQueue, appState, state, announcing>>
      BY <1>22 DEF WaitUpdatesInput, sessionVars, lifeVars, eventVars
    <2>2. pc'[FrameThread] = "ef_push" <=> pc[FrameThread] = "ef_push"
      BY <1>22 DEF WaitUpdatesInput, Goes, PcType, Threads
    <2>3. pc'[ControlThread] \in EndLabels =>
             /\ pc[ControlThread] \in EndLabels
             /\ pc'[ControlThread] = "es_exiting" <=> pc[ControlThread] = "es_exiting"
      BY <1>22 DEF WaitUpdatesInput, Goes, PcType, Threads, EndLabels
    <2> QED BY <2>1, <2>2, <2>3, KeepsStory DEF Endings
  <1>23. CASE WaitCounts
    <2>1. UNCHANGED <<session, eventQueue, appState, state, announcing>>
      BY <1>23 DEF WaitCounts, sessionVars, lifeVars, eventVars
    <2>2. pc'[FrameThread] = "ef_push" <=> pc[FrameThread] = "ef_push"
      BY <1>23 DEF WaitCounts, Goes, PcType, Threads
    <2>3. pc'[ControlThread] \in EndLabels =>
             /\ pc[ControlThread] \in EndLabels
             /\ pc'[ControlThread] = "es_exiting" <=> pc[ControlThread] = "es_exiting"
      BY <1>23 DEF WaitCounts, Goes, PcType, Threads, EndLabels
    <2> QED BY <2>1, <2>2, <2>3, KeepsStory DEF Endings
  <1>24. CASE EndFrameRefused
    <2>1. UNCHANGED <<session, eventQueue, appState, state, announcing>>
      BY <1>24 DEF EndFrameRefused, sessionVars, lifeVars, eventVars
    <2>2. pc'[FrameThread] = "ef_push" <=> pc[FrameThread] = "ef_push"
      BY <1>24 DEF EndFrameRefused, Goes, PcType, Threads
    <2>3. pc'[ControlThread] \in EndLabels =>
             /\ pc[ControlThread] \in EndLabels
             /\ pc'[ControlThread] = "es_exiting" <=> pc[ControlThread] = "es_exiting"
      BY <1>24 DEF EndFrameRefused, Goes, PcType, Threads, EndLabels
    <2> QED BY <2>1, <2>2, <2>3, KeepsStory DEF Endings
  <1>25. CASE EndFrameWires
    <2>1. UNCHANGED <<session, eventQueue, appState, state, announcing>>
      BY <1>25 DEF EndFrameWires, sessionVars, lifeVars, eventVars
    <2>2. pc'[FrameThread] = "ef_push" <=> pc[FrameThread] = "ef_push"
      BY <1>25 DEF EndFrameWires, Goes, PcType, Threads
    <2>3. pc'[ControlThread] \in EndLabels =>
             /\ pc[ControlThread] \in EndLabels
             /\ pc'[ControlThread] = "es_exiting" <=> pc[ControlThread] = "es_exiting"
      BY <1>25 DEF EndFrameWires, Goes, PcType, Threads, EndLabels
    <2> QED BY <2>1, <2>2, <2>3, KeepsStory DEF Endings
  <1>26. CASE EndFrameUnwires
    <2>1. UNCHANGED <<session, eventQueue, appState, state, announcing>>
      BY <1>26 DEF EndFrameUnwires, sessionVars, lifeVars, eventVars
    <2>2. pc'[FrameThread] = "ef_push" <=> pc[FrameThread] = "ef_push"
      BY <1>26 DEF EndFrameUnwires, Goes, PcType, Threads
    <2>3. pc'[ControlThread] \in EndLabels =>
             /\ pc[ControlThread] \in EndLabels
             /\ pc'[ControlThread] = "es_exiting" <=> pc[ControlThread] = "es_exiting"
      BY <1>26 DEF EndFrameUnwires, Goes, PcType, Threads, EndLabels
    <2> QED BY <2>1, <2>2, <2>3, KeepsStory DEF Endings
  <1>27. CASE EndFrameTestsClient
    <2>1. UNCHANGED <<session, eventQueue, appState, state, announcing>>
      BY <1>27 DEF EndFrameTestsClient, sessionVars, lifeVars, eventVars
    <2>2. pc'[FrameThread] = "ef_push" <=> pc[FrameThread] = "ef_push"
      BY <1>27 DEF EndFrameTestsClient, Goes, PcType, Threads
    <2>3. pc'[ControlThread] \in EndLabels =>
             /\ pc[ControlThread] \in EndLabels
             /\ pc'[ControlThread] = "es_exiting" <=> pc[ControlThread] = "es_exiting"
      BY <1>27 DEF EndFrameTestsClient, Goes, PcType, Threads, EndLabels
    <2> QED BY <2>1, <2>2, <2>3, KeepsStory DEF Endings
  <1>28. CASE SendFrame
    <2>1. UNCHANGED <<session, eventQueue, appState, state, announcing>>
      BY <1>28 DEF SendFrame, sessionVars, lifeVars, eventVars
    <2>2. pc'[FrameThread] = "ef_push" <=> pc[FrameThread] = "ef_push"
      BY <1>28 DEF SendFrame, Goes, PcType, Threads
    <2>3. pc'[ControlThread] \in EndLabels =>
             /\ pc[ControlThread] \in EndLabels
             /\ pc'[ControlThread] = "es_exiting" <=> pc[ControlThread] = "es_exiting"
      BY <1>28 DEF SendFrame, Goes, PcType, Threads, EndLabels
    <2> QED BY <2>1, <2>2, <2>3, KeepsStory DEF Endings
  <1>29. CASE EndFrameFinishes
    <2>1. UNCHANGED <<session, eventQueue, appState, state, announcing>>
      BY <1>29 DEF EndFrameFinishes, sessionVars, lifeVars, eventVars
    <2>2. pc'[FrameThread] = "ef_push" <=> pc[FrameThread] = "ef_push"
      BY <1>29 DEF EndFrameFinishes, Goes, PcType, Threads
    <2>3. pc'[ControlThread] \in EndLabels =>
             /\ pc[ControlThread] \in EndLabels
             /\ pc'[ControlThread] = "es_exiting" <=> pc[ControlThread] = "es_exiting"
      BY <1>29 DEF EndFrameFinishes, Goes, PcType, Threads, EndLabels
    <2> QED BY <2>1, <2>2, <2>3, KeepsStory DEF Endings
  <1>30. CASE AdvanceSessionState
    <2>1. /\ pc[FrameThread] = "ef_advance" /\ state' = StateAfterFrame /\ announcing' = StateAfterFrame
          /\ pc' = [pc EXCEPT ![FrameThread] =
                       IF StateAfterFrame = state THEN "idle" ELSE "ef_push"]
          /\ UNCHANGED <<session, eventQueue, appState>>
      BY <1>30 DEF AdvanceSessionState, Goes, sessionVars
    <2>2. UNCHANGED Told BY <2>1 DEF Told
    <2>3. Alive BY <2>1 DEF Calling, Threads
    <2>4. CASE StateAfterFrame = state
      <3>1. /\ state' = state /\ pc'[FrameThread] = "idle"
            /\ pc'[ControlThread] \in EndLabels => pc'[ControlThread] = pc[ControlThread]
        BY <2>1, <2>4 DEF PcType, Threads, EndLabels
      <3> QED BY <2>1, <2>2, <3>1 DEF Story, Endings, Alive
    <2>5. CASE StateAfterFrame # state
      <3>1. /\ state' \in {"SYNCHRONIZED", "VISIBLE", "FOCUSED", "STOPPING"}
            /\ state' \in LegalSuccessors[state] /\ state \in Rising /\ running
        BY <2>1, <2>5, FrameLeadsTo DEF Scalars, Rising
      <3>2. pc'[FrameThread] = "ef_push" /\ pc'[ControlThread] \notin EndLabels
        BY <2>1, <2>5, <3>1 DEF PcType, Threads, EndLabels, EndIsStopped
      <3>3. Told[Len(eventQueue)] = state BY <2>1, <2>3 DEF Story
      <3>4. Story' BY <2>1, <2>2, <3>1, <3>2, <3>3 DEF Story, Alive
      <3>5. Endings' BY <2>1, <2>2, <3>1, <3>2 DEF Endings
      <3> QED BY <3>4, <3>5
    <2> QED BY <2>4, <2>5
  <1>31. CASE PushEvent
    <2>1. /\ pc[FrameThread] = "ef_push" /\ pc' = [pc EXCEPT ![FrameThread] = "idle"]
          /\ eventQueue' = Append(eventQueue, Event(announcing))
          /\ UNCHANGED <<session, appState, state>>
      BY <1>31 DEF PushEvent, Goes, sessionVars, lifeVars
    <2>2. Alive BY <2>1 DEF Calling, Threads
    <2>3. pc'[FrameThread] = "idle" /\ pc'[ControlThread] \notin EndLabels
      BY <2>1 DEF PcType, Threads, Endings, EndLabels
    <2>4. /\ Len(eventQueue) \in Nat /\ Len(eventQueue') = Len(eventQueue) + 1
          /\ \A i \in 0 .. Len(eventQueue) : Told'[i] = Told[i]
          /\ Told'[Len(eventQueue')] = announcing
      BY <2>1, PushTells DEF OwnEvents, Scalars
    <2>5. state = announcing /\ announcing \in LegalSuccessors[Told[Len(eventQueue)]]
      BY <2>1, <2>2 DEF Story
    <2>6. Story'
      <3>1. ASSUME NEW i \in 1 .. Len(eventQueue')
            PROVE  Told'[i] \in LegalSuccessors[Told'[i - 1]]
        <4>1. CASE i = Len(eventQueue') BY <2>4, <2>5, <4>1
        <4>2. CASE i \in 1 .. Len(eventQueue)
          BY <2>2, <2>4, <4>2 DEF Story
        <4> QED BY <2>4, <4>1, <4>2
      <3> QED BY <2>1, <2>3, <2>4, <2>5, <3>1 DEF Story
    <2>7. Endings'
      <3>1. ASSUME state \in Rising, NEW i \in 0 .. Len(eventQueue') PROVE Told'[i] # "STOPPING"
        <4>1. CASE i = Len(eventQueue') BY <2>4, <2>5, <3>1, <4>1 DEF Rising
        <4>2. CASE i \in 0 .. Len(eventQueue) BY <2>1, <2>4, <4>2 DEF Endings
        <4> QED BY <2>4, <4>1, <4>2
      <3> QED BY <2>1, <2>3, <3>1 DEF Endings
    <2> QED BY <2>6, <2>7
  <1>32. CASE ClientConnects
    <2>1. UNCHANGED <<session, eventQueue, appState, state, announcing>>
      BY <1>32 DEF ClientConnects, sessionVars, lifeVars, eventVars
    <2>2. pc'[FrameThread] = "ef_push" <=> pc[FrameThread] = "ef_push"
      BY <1>32 DEF ClientConnects, Goes, PcType, Threads
    <2>3. pc'[ControlThread] \in EndLabels =>
             /\ pc[ControlThread] \in EndLabels
             /\ pc'[ControlThread] = "es_exiting" <=> pc[ControlThread] = "es_exiting"
      BY <1>32 DEF ClientConnects, Goes, PcType, Threads, EndLabels
    <2> QED BY <2>1, <2>2, <2>3, KeepsStory DEF Endings
  <1>33. CASE ClientLeaves
    <2>1. UNCHANGED <<session, eventQueue, appState, state, announcing>>
      BY <1>33 DEF ClientLeaves, sessionVars, lifeVars, eventVars
    <2>2. pc'[FrameThread] = "ef_push" <=> pc[FrameThread] = "ef_push"
      BY <1>33 DEF ClientLeaves, Goes, PcType, Threads
    <2>3. pc'[ControlThread] \in EndLabels =>
             /\ pc[ControlThread] \in EndLabels
             /\ pc'[ControlThread] = "es_exiting" <=> pc[ControlThread] = "es_exiting"
      BY <1>33 DEF ClientLeaves, Goes, PcType, Threads, EndLabels
    <2> QED BY <2>1, <2>2, <2>3, KeepsStory DEF Endings
  <1>34. CASE EndFrameTestsWiring
    <2>1. UNCHANGED <<session, eventQueue, appState, state, announcing>>
      BY <1>34 DEF EndFrameTestsWiring, sessionVars, lifeVars, eventVars
    <2>2. pc'[FrameThread] = "ef_push" <=> pc[FrameThread] = "ef_push"
      BY <1>34 DEF EndFrameTestsWiring, Goes, PcType, Threads
    <2>3. pc'[ControlThread] \in EndLabels =>
             /\ pc[ControlThread] \in EndLabels
             /\ pc'[ControlThread] = "es_exiting" <=> pc[ControlThread] = "es_exiting"
      BY <1>34 DEF EndFrameTestsWiring, Goes, PcType, Threads, EndLabels
    <2> QED BY <2>1, <2>2, <2>3, KeepsStory DEF Endings
  <1> QED
    BY <1>1, <1>2, <1>3, <1>4, <1>5, <1>6, <1>7, <1>8, <1>9, <1>10, <1>11, <1>12, <1>13,
       <1>14, <1>15, <1>16, <1>17, <1>18, <1>19, <1>20, <1>21, <1>22, <1>23, <1>24, <1>25,
       <1>26, <1>27, <1>28, <1>29, <1>30, <1>31, <1>32, <1>33, <1>34
    DEF Next, WaitSteps, EndFrameSteps, ControlSteps

\* An application that ends a session when it was told to, or that renders and
\* ends on one thread, polls a legal lifecycle that ends in the session's state,
\* for every number of sessions and frames.
THEOREM EventsTellLifecycleHolds ==
  ASSUME EventDriven \/ FrameThread = ControlThread
  PROVE  Spec => []EventsTellLifecycle
  <1> DEFINE Types == Scalars /\ OwnEvents /\ Calling /\ PcType
  <1>1. Init => Story /\ Endings
    BY DEF Init, Story, Endings, Alive, Rising, EndLabels, Threads
  <1>2. Types /\ FramesInv /\ Roles /\ Story /\ Endings /\ Next => Story' /\ Endings'
    BY StoryPreserved DEF FramesInv
  <1>3. Story /\ Endings /\ UNCHANGED vars => Story' /\ Endings'
    <2> SUFFICES ASSUME Story, Endings, UNCHANGED vars PROVE Story' /\ Endings' OBVIOUS
    <2>1. UNCHANGED <<session, eventQueue, appState, state, announcing, pc>>
      BY DEF vars, sessionVars, lifeVars, eventVars
    <2> QED BY <2>1, KeepsStory DEF Endings
  <1>4. ASSUME Types, Story PROVE EventsTellLifecycle
    <2>1. \A i \in 1 .. Len(eventQueue) : eventQueue[i].session = session BY <1>4 DEF OwnEvents
    <2> DEFINE n == Len(eventQueue)
               states == [i \in 1 .. n |-> eventQueue[i].state]
               told == <<appState>> \o states
               due == told \o (IF pc[FrameThread] = "ef_push" THEN <<announcing>> ELSE <<>>)
    <2>2. ASSUME Alive
          PROVE  /\ \A i \in 1 .. Len(due) - 1 : due[i + 1] \in LegalSuccessors[due[i]]
                 /\ due[Len(due)] = state
      <3>1. n \in Nat /\ states \in Seq(States) /\ Len(states) = n
        <4>1. n \in Nat /\ \A i \in 1 .. n : eventQueue[i] \in Events BY <1>4 DEF OwnEvents
        <4>2. \A i \in 1 .. n : states[i] \in States BY <4>1 DEF Events
        <4> QED BY <4>1, <4>2
      <3>2. /\ Len(told) = n + 1
            /\ \A i \in 1 .. n + 1 : told[i] = Told[i - 1]
        BY <3>1 DEF Told
      <3>3. \A i \in 1 .. n : told[i + 1] \in LegalSuccessors[told[i]]
        <4> SUFFICES ASSUME NEW i \in 1 .. n PROVE told[i + 1] \in LegalSuccessors[told[i]]
          OBVIOUS
        <4>1. i + 1 \in 1 .. n + 1 /\ i \in 1 .. n + 1 /\ (i + 1) - 1 = i BY <3>1
        <4>2. told[i + 1] = Told[i] /\ told[i] = Told[i - 1] BY <3>2, <4>1
        <4> HIDE DEF told
        <4> QED BY <1>4, <2>2, <4>2 DEF Story
      <3>4. CASE pc[FrameThread] # "ef_push"
        <4>1. due = told /\ told[n + 1] = state
          BY <1>4, <2>2, <3>1, <3>2, <3>4 DEF Story
        <4> HIDE DEF due, told
        <4> QED BY <3>1, <3>2, <3>3, <4>1
      <3>5. CASE pc[FrameThread] = "ef_push"
        <4>1. /\ Len(due) = n + 2 /\ due[n + 2] = announcing
              /\ \A i \in 1 .. n + 1 : due[i] = told[i]
          BY <3>1, <3>2, <3>5
        <4>2. announcing = state /\ announcing \in LegalSuccessors[told[n + 1]]
          BY <1>4, <2>2, <3>1, <3>2, <3>5 DEF Story
        <4> HIDE DEF due, told
        <4> QED BY <3>1, <3>3, <4>1, <4>2
      <3> QED BY <3>4, <3>5
    <2> QED BY <2>1, <2>2 DEF EventsTellLifecycle
  <1>5. Types /\ Story => EventsTellLifecycle BY <1>4
  <1> QED BY TypesHold, FramesInvHolds, <1>1, <1>2, <1>3, <1>5, PTL DEF Spec

===============================================================================
