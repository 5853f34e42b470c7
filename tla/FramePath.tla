------------------------------- MODULE FramePath -------------------------------
(***************************************************************************)
(* The way of a rendered frame from Session::EndFrame to the encoder:      *)
(* who owns the texture slices EndFrame retains, the latest-frame-only     *)
(* queue (StreamingServer::SendFrame, pendingFrame_), the encode thread    *)
(* and its condition variable, and the connect, disconnect and stop that   *)
(* empty the queue and replace the encoder meanwhile.  Threads: "render"   *)
(* (the application's), "encode", and "handler" (a client connects or      *)
(* leaves); the render thread is also the one that stops the server, as    *)
(* Session::EndSession does (Session.tla has the other case).              *)
(*                                                                         *)
(* A reference is one retain of one texture; it is a number.               *)
(***************************************************************************)
EXTENDS Naturals, Sequences, FiniteSets

CONSTANTS
    Layers,             \* kinds of layers an application submits
    MaxLayers,          \* kMaxSupportedCompositionLayers
    MaxProjections      \* projection layers among them

LayerKinds == {"projection", "badProjection", "quad", "badQuad"}

ASSUME FramePathAssumption ==
    Layers \subseteq LayerKinds /\ MaxLayers \in Nat /\ MaxProjections \in Nat

VARIABLES
    running, state,
    encoder,            \* "none", "initializing" (its mutex is held) or "ready"
    layers,             \* of EndFrame, those it has not looked at yet
    eyes,               \* EndFrame's leftTex and rightTex
    replacedFrame,      \* SendFrame's
    pendingFrame,       \* pendingFrame_; NoFrame when it is not valid
    encodeFrame,        \* EncodeThread's frame
    retained,           \* references retained and not yet released
    overReleased,       \* a reference was released that was not retained
    pc                  \* of each thread

endFrameVars == <<layers, eyes, replacedFrame>>
textureVars == <<retained, overReleased>>
vars == <<running, state, encoder, endFrameVars, pendingFrame, encodeFrame, textureVars, pc>>

Null == 0
NoFrame == [left |-> Null, right |-> Null]
Held(frame) == {frame.left, frame.right} \ {Null}

Goes(t, from, to) == pc[t] = from /\ pc' = [pc EXCEPT ![t] = to]

Init ==
    /\ running = TRUE /\ state = "Broadcasting" /\ encoder = "none"
    /\ layers = <<>> /\ eyes = NoFrame /\ replacedFrame = NoFrame
    /\ pendingFrame = NoFrame /\ encodeFrame = NoFrame
    /\ retained = {} /\ overReleased = FALSE
    /\ pc = [render |-> "app", encode |-> "loop", handler |-> "idle"]

\* Swapchain::ReleaseTextureSlice of both eyes; nullptr is left alone.
Release(frame) ==
    /\ retained' = retained \ Held(frame)
    /\ overReleased' = (overReleased \/ ~(Held(frame) \subseteq retained))

\* A reference not in use.
NewReference(inUse) == CHOOSE r \in 1..(Cardinality(inUse) + 1) : r \notin inUse

\* The encode thread is about to sleep and holds frameMutex_.
FrameMutexFree == pc.encode # "blocking"
EncoderMutexFree == encoder # "initializing"

-----------------------------------------------------------------------------
(* Session::EndFrame and StreamingServer::SendFrame, on the render thread. *)

Projections(ls) == Cardinality({i \in DOMAIN ls : ls[i] \in {"projection", "badProjection"}})

EndFrame ==
    /\ Goes("render", "app", "layers")
    /\ running
    /\ \E n \in 0..MaxLayers : \E ls \in [1..n -> Layers] :
          Projections(ls) <= MaxProjections /\ layers' = ls
    /\ UNCHANGED <<running, state, encoder, eyes, replacedFrame, pendingFrame, encodeFrame,
                   textureVars>>

\* ValidateProjectionLayer takes the slice of each view in turn, up to the
\* first view that is not valid; a slice that cannot be made is nullptr.
TakeProjection ==
    /\ pc.render = "layers" /\ layers # <<>>
    /\ \E views \in 0..2, made \in SUBSET {"left", "right"} :
          /\ Head(layers) = IF views = 2 THEN "projection" ELSE "badProjection"
          /\ LET left == IF "left" \in made THEN NewReference(retained) ELSE Null
                 right == IF "right" \in made THEN NewReference(retained \cup {left}) ELSE Null
             IN /\ eyes' = [left |-> IF views >= 1 THEN left ELSE eyes.left,
                            right |-> IF views = 2 THEN right ELSE eyes.right]
                /\ retained' = retained \cup
                      ({IF views >= 1 THEN left ELSE Null, IF views = 2 THEN right ELSE Null} \ {Null})
          /\ pc' = [pc EXCEPT !.render = IF views = 2 THEN "layers" ELSE "release"]
    /\ layers' = IF Head(layers) = "projection" THEN Tail(layers) ELSE <<>>
    /\ UNCHANGED <<running, state, encoder, replacedFrame, pendingFrame, encodeFrame, overReleased>>

\* A quad that is not valid, like any layer of a kind the runtime does not
\* know, ends EndFrame with an error.
TakeOtherLayer ==
    /\ layers # <<>> /\ Head(layers) \in {"quad", "badQuad"}
    /\ Goes("render", "layers", IF Head(layers) = "quad" THEN "layers" ELSE "release")
    /\ layers' = IF Head(layers) = "quad" THEN Tail(layers) ELSE <<>>
    /\ UNCHANGED <<running, state, encoder, eyes, replacedFrame, pendingFrame, encodeFrame,
                   textureVars>>

LayersTaken ==
    /\ layers = <<>>
    /\ Goes("render", "layers", IF state = "Connected" THEN "send" ELSE "release")
    /\ UNCHANGED <<running, state, encoder, endFrameVars, pendingFrame, encodeFrame, textureVars>>

\* EndFrame's last lines, and its error returns.
ReleaseEyes ==
    /\ Goes("render", "release", "app")
    /\ Release(eyes)
    /\ eyes' = NoFrame
    /\ UNCHANGED <<running, state, encoder, layers, replacedFrame, pendingFrame, encodeFrame>>

\* SendFrame queues frames of two eyes only.
MaySend(frame) == frame.left # Null /\ frame.right # Null

\* What EndFrame still owns when SendFrame returns.  AfterSendKept, and the forms
\* below that stand before what they vary, are slips the code might have made:
\* Spec uses none.
AfterSendKept(frame) == frame
AfterSend(frame) == NoFrame

SendFrame ==
    LET sends == MaySend(eyes) /\ state = "Connected" IN
       /\ Goes("render", "send", IF sends THEN "checkEncoder" ELSE "release")
       /\ IF sends THEN UNCHANGED <<eyes, textureVars>> ELSE Release(eyes) /\ eyes' = AfterSend(eyes)
       /\ UNCHANGED <<running, state, encoder, layers, replacedFrame, pendingFrame, encodeFrame>>

SendFrameChecksEncoder ==
    /\ EncoderMutexFree
    /\ Goes("render", "checkEncoder", IF encoder = "ready" THEN "enqueue" ELSE "release")
    /\ IF encoder = "ready" THEN UNCHANGED <<eyes, textureVars>>
                            ELSE Release(eyes) /\ eyes' = AfterSend(eyes)
    /\ UNCHANGED <<running, state, encoder, layers, replacedFrame, pendingFrame, encodeFrame>>

\* The frame in the queue that this one takes the place of.
ReplacedForgotten(frame) == NoFrame
Replaced(frame) == frame

SendFrameEnqueues ==
    /\ FrameMutexFree
    /\ Goes("render", "enqueue", "replaced")
    /\ replacedFrame' = Replaced(pendingFrame)
    /\ pendingFrame' = eyes
    /\ UNCHANGED <<running, state, encoder, layers, eyes, encodeFrame, textureVars>>

\* Where the encode thread is after a notify: only a thread that sleeps wakes.
AfterNotifyNone(at) == at
AfterNotify(at) == IF at = "asleep" THEN "check" ELSE at

SendFrameNotifies ==
    /\ pc.render = "replaced"
    /\ Release(replacedFrame)
    /\ replacedFrame' = NoFrame
    /\ eyes' = AfterSend(eyes)
    /\ pc' = [pc EXCEPT !.render = "release", !.encode = AfterNotify(pc.encode)]
    /\ UNCHANGED <<running, state, encoder, layers, pendingFrame, encodeFrame>>

-----------------------------------------------------------------------------
(* The encode thread. *)

EncodeLoop ==
    /\ Goes("encode", "loop", IF running THEN "check" ELSE "done")
    /\ UNCHANGED <<running, state, encoder, endFrameVars, pendingFrame, encodeFrame, textureVars>>

\* The wait's predicate, with frameMutex_ held: take the frame, end, or sleep.
EncodeCheck ==
    /\ Goes("encode", "check", CASE pendingFrame # NoFrame -> "copyEncoder"
                                 [] pendingFrame = NoFrame /\ running -> "blocking"
                                 [] OTHER -> "done")
    /\ encodeFrame' = pendingFrame
    /\ pendingFrame' = NoFrame
    /\ UNCHANGED <<running, state, encoder, endFrameVars, textureVars>>

\* The wait gives frameMutex_ up and sleeps, in one step.
EncodeBlocks ==
    /\ Goes("encode", "blocking", "asleep")
    /\ UNCHANGED <<running, state, encoder, endFrameVars, pendingFrame, encodeFrame, textureVars>>

\* A condition variable may wake a thread that nobody notified.
EncodeWakesSpuriously ==
    /\ Goes("encode", "asleep", "check")
    /\ UNCHANGED <<running, state, encoder, endFrameVars, pendingFrame, encodeFrame, textureVars>>

EncodeCopiesEncoder ==
    /\ EncoderMutexFree
    /\ Goes("encode", "copyEncoder", IF encoder = "ready" THEN "encode" ELSE "release")
    /\ UNCHANGED <<running, state, encoder, endFrameVars, pendingFrame, encodeFrame, textureVars>>

\* EncodeStereo reads both textures; it may also refuse the frame.
EncodeStereo ==
    /\ Goes("encode", "encode", "release")
    /\ UNCHANGED <<running, state, encoder, endFrameVars, pendingFrame, encodeFrame, textureVars>>

EncodeReleases ==
    /\ Goes("encode", "release", "loop")
    /\ Release(encodeFrame)
    /\ encodeFrame' = NoFrame
    /\ UNCHANGED <<running, state, encoder, endFrameVars, pendingFrame>>

-----------------------------------------------------------------------------
(* A client connects and leaves. *)

\* HandleClientConnect takes a client that connects again as a new one.
ClientConnects ==
    /\ running
    /\ Goes("handler", "idle", "arrive")
    /\ UNCHANGED <<running, state, encoder, endFrameVars, pendingFrame, encodeFrame, textureVars>>

ConnectStoresState ==
    /\ Goes("handler", "arrive", "connect")
    /\ state' = "Connected"
    /\ UNCHANGED <<running, encoder, endFrameVars, pendingFrame, encodeFrame, textureVars>>

\* The encoder is made with its mutex held, from here to its end.
ConnectMakesEncoder ==
    /\ EncoderMutexFree
    /\ Goes("handler", "connect", "initialize")
    /\ encoder' = "initializing"
    /\ UNCHANGED <<running, state, endFrameVars, pendingFrame, encodeFrame, textureVars>>

ConnectEnds ==
    /\ \/ Goes("handler", "initialize", "idle") /\ encoder' = "ready"
       \/ Goes("handler", "initialize", "failed") /\ encoder' = "none"
    /\ UNCHANGED <<running, state, endFrameVars, pendingFrame, encodeFrame, textureVars>>

ConnectFails ==
    /\ Goes("handler", "failed", "idle")
    /\ state' = "Broadcasting"
    /\ UNCHANGED <<running, encoder, endFrameVars, pendingFrame, encodeFrame, textureVars>>

ClientLeaves ==
    /\ running
    /\ Goes("handler", "idle", "depart")
    /\ UNCHANGED <<running, state, encoder, endFrameVars, pendingFrame, encodeFrame, textureVars>>

LeaveStoresState ==
    /\ Goes("handler", "depart", "leave")
    /\ state' = "Broadcasting"
    /\ UNCHANGED <<running, encoder, endFrameVars, pendingFrame, encodeFrame, textureVars>>

LeaveEmptiesQueue ==
    /\ FrameMutexFree
    /\ Goes("handler", "leave", "reset")
    /\ Release(pendingFrame)
    /\ pendingFrame' = NoFrame
    /\ UNCHANGED <<running, state, encoder, endFrameVars, encodeFrame>>

LeaveResetsEncoder ==
    /\ EncoderMutexFree
    /\ Goes("handler", "reset", "idle")
    /\ encoder' = "none"
    /\ UNCHANGED <<running, state, endFrameVars, pendingFrame, encodeFrame, textureVars>>

-----------------------------------------------------------------------------
(* StreamingServer::Stop. *)

Stop ==
    /\ Goes("render", "app", "notify")
    /\ running' = FALSE
    /\ state' = "Stopped"
    /\ UNCHANGED <<encoder, endFrameVars, pendingFrame, encodeFrame, textureVars>>

\* notify_all, without frameMutex_.
StopNotifies ==
    /\ pc.render = "notify"
    /\ pc' = [pc EXCEPT !.render = "join", !.encode = AfterNotify(pc.encode)]
    /\ UNCHANGED <<running, state, encoder, endFrameVars, pendingFrame, encodeFrame, textureVars>>

StopJoins ==
    /\ pc.encode = "done" /\ pc.handler = "idle"
    /\ Goes("render", "join", "empty")
    /\ UNCHANGED <<running, state, encoder, endFrameVars, pendingFrame, encodeFrame, textureVars>>

\* What Stop releases of the queue.
LeftQueued(frame) == frame

StopEmptiesQueue ==
    /\ Goes("render", "empty", "stopped")
    /\ Release(LeftQueued(pendingFrame))
    /\ pendingFrame' = NoFrame
    /\ encoder' = "none"
    /\ UNCHANGED <<running, state, endFrameVars, encodeFrame>>

-----------------------------------------------------------------------------

Render ==
    \/ TakeProjection \/ TakeOtherLayer \/ LayersTaken \/ ReleaseEyes
    \/ SendFrame \/ SendFrameChecksEncoder \/ SendFrameEnqueues \/ SendFrameNotifies
    \/ StopNotifies \/ StopJoins \/ StopEmptiesQueue

Encode == EncodeLoop \/ EncodeCheck \/ EncodeBlocks \/ EncodeCopiesEncoder
          \/ EncodeStereo \/ EncodeReleases

Handle == ConnectStoresState \/ ConnectMakesEncoder \/ ConnectEnds \/ ConnectFails
          \/ LeaveStoresState \/ LeaveEmptiesQueue \/ LeaveResetsEncoder

\* What the application, the client and the condition variable choose.
Choose == EndFrame \/ Stop \/ ClientConnects \/ ClientLeaves \/ EncodeWakesSpuriously

Next == Choose \/ Render \/ Encode \/ Handle

Spec == Init /\ [][Next]_vars

\* Each thread goes on with what it has begun; and it gets the encoder's mutex
\* in the end: the handler holds it once per client, while the encoder is made.
FairSpec ==
    /\ Spec
    /\ WF_vars(Render) /\ WF_vars(Encode) /\ WF_vars(Handle)
    /\ SF_vars(EncodeCopiesEncoder)

-----------------------------------------------------------------------------
(* Properties. *)

FullFrames(refs) == [left : refs, right : refs]

\* Each variable keeps its type; what is queued or encoded has both eyes, two
\* different references (StreamingServer.cpp:1361, 789-815).
TypeOK ==
    /\ running \in BOOLEAN /\ overReleased \in BOOLEAN
    /\ state \in {"Broadcasting", "Connected", "Stopped"}
    /\ encoder \in {"none", "initializing", "ready"}
    /\ eyes \in FullFrames(Nat)
    /\ \A frame \in {replacedFrame, pendingFrame, encodeFrame} :
          frame = NoFrame \/ (frame \in FullFrames(Nat \ {Null}) /\ frame.left # frame.right)

\* What EndFrame owns: not the frame that SendFrame has queued already.
EyesOwned == IF pc.render = "replaced" THEN {} ELSE Held(eyes)
Owners == <<EyesOwned, Held(replacedFrame), Held(pendingFrame), Held(encodeFrame)>>

\* Every slice a frame retained has exactly one owner that will release it, and
\* none is released twice, whichever way the frame ends: error, no client,
\* no encoder, replaced, encoded, client gone, server stopped (Swapchain.h:70-75).
\* Once Stop has returned nothing of any frame is left (StreamingServer.cpp:433-471).
OwnedOnce ==
    /\ pc.render = "stopped" => retained = {}
    /\ ~overReleased
    /\ retained = UNION {Owners[i] : i \in DOMAIN Owners}
    /\ \A i, j \in DOMAIN Owners : i # j => Owners[i] \cap Owners[j] = {}

\* To the two ends of the queue all of this is a place for one frame whose slices
\* belong to it: neither EndFrame nor a replaced frame's release takes a texture away
\* that is queued or that the encode thread reads (StreamingServer.cpp:789-815).
Slot == INSTANCE FrameSlot WITH slot <- pendingFrame, taken <- encodeFrame
ImplementsSlot == Slot!Spec

\* A queued frame does not stay in the queue of a server that runs: it is
\* taken, or replaced, or dropped with its client, even when it was queued while
\* the encode thread was about to sleep (StreamingServer.cpp:789-803, 1408).
QueuedFrameIsTaken ==
    \A r \in 1..8 : pendingFrame.left = r ~> (pendingFrame.left # r \/ ~running)

\* Swapchain.h:72, "Caller must call ReleaseTextureSlice() on the returned pointer
\* when done": between two frames, when the server has none either, no slice is
\* left retained.
EveryRetainIsReleased ==
    pc.render = "app" /\ pendingFrame = NoFrame /\ encodeFrame = NoFrame => retained = {}

\* docs/protocol.md:117, "Either side can disconnect and return to idle", as far
\* as the encode thread goes: Stop returns.
StopReturns == pc.render = "notify" ~> pc.render = "stopped"
=============================================================================
