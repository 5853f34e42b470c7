------------------------------ MODULE VideoEncoder ------------------------------
(***************************************************************************)
(* The video encoder and who keeps it alive (VideoEncoder.mm): its buffer  *)
(* slots, the frames in flight through the GPU and VideoToolbox, and the   *)
(* references to it that the server (encoder_), the encode thread and the  *)
(* callbacks of those frames hold, while clients connect, leave and the    *)
(* server stops.  With it the adaptive bitrate (HandleLatencyReport), which *)
(* counts the keyframe requests that the same callbacks reset.             *)
(*                                                                         *)
(* One transport: connect, disconnect and the reports come from one        *)
(* control thread.  What the frames hold and which are keyframes is left   *)
(* out, and so is a bitrate that VideoToolbox refuses to take.             *)
(***************************************************************************)
EXTENDS Integers, FiniteSets

CONSTANTS
    MaxEncoders,        \* bound: encoders alive at a time
    MaxFrames,          \* bound: frames in flight, and being deleted, at a time
    SlotCount,          \* VideoEncoder::SlotCount
    Bitrates,           \* what a connect may settle on, in Mbps
    Wrap                \* 2^32 in the code: where requestKeyframeCount_ wraps

ASSUME VideoEncoderAssumption ==
    /\ MaxEncoders \in Nat \ {0} /\ MaxFrames \in Nat \ {0} /\ SlotCount \in Nat \ {0}
    /\ Bitrates \subseteq Nat \ {0} /\ Bitrates # {}
    /\ Wrap \in Nat \ {0}

VARIABLES
    running,
    encoder,            \* encoder_; None when it holds nothing
    alive,              \* the encoders that have not been destroyed
    used,               \* of each encoder, its slots with inUse
    frames,             \* the EncodeFrameContexts; NoFrame where there is none
    encode,             \* the encode thread: where it is, its encoder and slot
    requestKeyframeCount, lastKeyframeRequestCountForAbr,
    currentBitrateMbps, configMaxBitrateMbps,
    asked               \* history: a keyframe request came since the last report

encoderVars == <<encoder, alive, used>>
abrVars == <<requestKeyframeCount, lastKeyframeRequestCountForAbr, currentBitrateMbps,
             configMaxBitrateMbps, asked>>
vars == <<running, encoderVars, frames, encode, abrVars>>

Encoders == 1..MaxEncoders
Frames == 1..MaxFrames
Slots == 1..SlotCount
None == 0
NoFrame == [encoder |-> None, slot |-> None, at |-> "none"]
AtRest == [at |-> "idle", encoder |-> None, slot |-> None]

Minimum(a, b) == IF a < b THEN a ELSE b
Maximum(a, b) == IF a < b THEN b ELSE a

Init ==
    /\ running = TRUE
    /\ encoder = None /\ alive = {} /\ used = [e \in Encoders |-> {}]
    /\ frames = [f \in Frames |-> NoFrame]
    /\ encode = AtRest
    /\ requestKeyframeCount = 0 /\ lastKeyframeRequestCountForAbr = 0
    /\ currentBitrateMbps \in Bitrates /\ configMaxBitrateMbps = currentBitrateMbps
    /\ asked = FALSE

-----------------------------------------------------------------------------
(* The shared pointers to an encoder. *)

\* A frame's callback captures the encode thread's shared pointer.
\* CapturesNothing, and the forms below that stand before what they vary, are
\* slips the code might have made: Spec uses none.
CapturesNothing(e) == FALSE
Captures(e) == \E f \in Frames : frames[f].encoder = e

Referenced(e) == encoder = e \/ encode.encoder = e \/ Captures(e)

\* Whoever drops the last reference runs ~VideoEncoder: Shutdown and DestroySlots.
\* No frame is left then for Shutdown to wait for.
Destructs(living) == alive' = {e \in living : Referenced(e)'}

\* used', when the living encoders' slots become slots.
Keeping(slots) == used' = [e \in Encoders |-> IF e \in alive' THEN slots[e] ELSE {}]

-----------------------------------------------------------------------------
(* The control thread. *)

\* lastBitrateIncreaseTimeNs_ is in LatencyReport's choice of "due".
SettleBitrate ==
    /\ configMaxBitrateMbps' \in Bitrates
    /\ currentBitrateMbps' = configMaxBitrateMbps'
    /\ lastKeyframeRequestCountForAbr' = 0
    /\ UNCHANGED <<requestKeyframeCount, asked>>

\* HandleClientConnect's encoder: the old one is dropped first; one that does
\* not initialise is dropped at once.  A server without a Metal device has none.
ClientConnects ==
    /\ running /\ alive # Encoders
    /\ SettleBitrate
    /\ UNCHANGED <<running, frames, encode>>
    /\ LET new == CHOOSE e \in Encoders : e \notin alive
       IN \E initialized \in BOOLEAN :
             /\ encoder' = IF initialized THEN new ELSE None
             /\ Destructs(alive \cup {new})
             /\ Keeping(used)

ClientConnectsWithoutDevice ==
    /\ running
    /\ encoder' = None
    /\ UNCHANGED <<running, frames, encode, abrVars>>
    /\ Destructs(alive) /\ Keeping(used)

ClientLeaves ==
    /\ running
    /\ encoder' = None
    /\ UNCHANGED <<running, frames, encode, abrVars>>
    /\ Destructs(alive) /\ Keeping(used)

HandleKeyframeRequest ==
    /\ running
    /\ requestKeyframeCount' = (requestKeyframeCount + 1) % Wrap
    /\ asked' = TRUE
    /\ UNCHANGED <<running, encoderVars, frames, encode, lastKeyframeRequestCountForAbr,
                   currentBitrateMbps, configMaxBitrateMbps>>

Latencies == {"low", "middle", "high"}      \* under 30 ms, between, over 45 ms
KMinBitrateMbps == 10

LoweredUnbounded(bitrate) == (bitrate * 9) \div 10
Lowered(bitrate) == Maximum((bitrate * 9) \div 10, KMinBitrateMbps)

Raised(bitrate) == Minimum(bitrate + bitrate \div 20, configMaxBitrateMbps)

NewKeyframeRequests == (requestKeyframeCount - lastKeyframeRequestCountForAbr) % Wrap

\* The smoothed latency, and whether five seconds have passed since the last
\* increase, are anything the clock and the client make them.
HandleLatencyReport(latency, due) ==
    LET shouldDecrease == latency = "high" \/ NewKeyframeRequests > 0
        canIncrease == /\ latency = "low" /\ NewKeyframeRequests = 0 /\ due
                       /\ currentBitrateMbps < configMaxBitrateMbps
    IN /\ running
       /\ currentBitrateMbps' =
             CASE shouldDecrease /\ currentBitrateMbps > KMinBitrateMbps -> Lowered(currentBitrateMbps)
               [] canIncrease -> Raised(currentBitrateMbps)
               [] OTHER -> currentBitrateMbps
       /\ lastKeyframeRequestCountForAbr' = requestKeyframeCount
       /\ asked' = FALSE
       /\ UNCHANGED <<running, encoderVars, frames, encode, requestKeyframeCount,
                      configMaxBitrateMbps>>

\* Stop joins the encode thread before it drops encoder_.
Stop ==
    /\ running /\ encode = AtRest
    /\ running' = FALSE
    /\ encoder' = None
    /\ UNCHANGED <<frames, encode, abrVars>>
    /\ Destructs(alive) /\ Keeping(used)

-----------------------------------------------------------------------------
(* The encode thread: EncodeThread and EncodeInternal. *)

\* A frame is there; encoder_ is copied under encoderMutex_.
EncodeCopiesEncoder ==
    /\ running /\ encode = AtRest
    /\ encoder # None
    /\ encode' = [AtRest EXCEPT !.at = "copied", !.encoder = encoder]
    /\ UNCHANGED <<running, encoderVars, frames, abrVars>>

\* The first slot that is free; without one the frame is answered as dropped.
AcquireSlot ==
    /\ encode.at = "copied"
    /\ LET free == Slots \ used[encode.encoder]
       IN \/ /\ free = {}
             /\ encode' = [encode EXCEPT !.at = "dropped"]
             /\ UNCHANGED used
          \/ \E slot \in free :
                /\ \A other \in free : slot <= other
                /\ encode' = [encode EXCEPT !.at = "acquired", !.slot = slot]
                /\ used' = [used EXCEPT ![encode.encoder] = @ \cup {slot}]
    /\ UNCHANGED <<running, encoder, alive, frames, abrVars>>

\* The command buffer is committed, with a context for its handler.
Commit ==
    /\ encode.at = "acquired"
    /\ \E f \in Frames :
          /\ frames[f] = NoFrame /\ \A g \in 1..(f - 1) : frames[g] # NoFrame
          /\ frames' = [frames EXCEPT ![f] = [encoder |-> encode.encoder, slot |-> encode.slot,
                                              at |-> "gpu"]]
    /\ encode' = [encode EXCEPT !.at = "done", !.slot = None]
    /\ UNCHANGED <<running, encoderVars, abrVars>>

\* The slots of an encoder after an error that ends before the commit.
AfterErrorKept(slots, slot) == slots
AfterError(slots, slot) == slots \ {slot}

\* A pixel buffer, texture or command buffer is missing.
CommitFails ==
    /\ encode.at = "acquired"
    /\ used' = [used EXCEPT ![encode.encoder] = AfterError(@, encode.slot)]
    /\ encode' = [encode EXCEPT !.at = "done", !.slot = None]
    /\ UNCHANGED <<running, encoder, alive, frames, abrVars>>

\* The metrics callback: once a second it publishes, and resets, the counters.
Publishes ==
    /\ requestKeyframeCount' \in {requestKeyframeCount, 0}
    /\ UNCHANGED <<lastKeyframeRequestCountForAbr, currentBitrateMbps, configMaxBitrateMbps, asked>>

EncodeAnswersDropped ==
    /\ encode.at = "dropped"
    /\ Publishes
    /\ encode' = [encode EXCEPT !.at = "done"]
    /\ UNCHANGED <<running, encoderVars, frames>>

\* The encode thread's shared pointer goes with its iteration.
EncodeDropsEncoder ==
    /\ encode.at = "done"
    /\ encode' = AtRest
    /\ UNCHANGED <<running, encoder, frames, abrVars>>
    /\ Destructs(alive) /\ Keeping(used)

-----------------------------------------------------------------------------
(* A frame in flight: the command buffer's handler and VideoToolbox's output *)
(* callback, on threads of theirs; frames may pass each other here.          *)

Goes(f, from, to) == frames[f].at = from /\ frames' = [frames EXCEPT ![f].at = to]

\* Where a frame goes that VideoToolbox does not take.
AfterRefusalNowhere == "lost"
AfterRefusal == "answer"

\* The GPU is done: the frame is submitted, or finalised as dropped when the GPU
\* or VideoToolbox reports an error.
CompletedHandler(f) ==
    /\ \/ Goes(f, "gpu", "videoToolbox")
       \/ Goes(f, "gpu", AfterRefusal)
    /\ UNCHANGED <<running, encoderVars, encode, abrVars>>

CompressionOutputCallback(f) ==
    /\ Goes(f, "videoToolbox", "answer")
    /\ UNCHANGED <<running, encoderVars, encode, abrVars>>

\* FinalizeEncodeFrame: the callback, the slot, and the context with its references.
FinalizeAnswers(f) ==
    /\ Goes(f, "answer", "releaseSlot")
    /\ Publishes
    /\ UNCHANGED <<running, encoderVars, encode>>

\* The slots that ReleaseSlot leaves in use.
StillUsed(slots, slot) == slots \ {slot}

FinalizeReleasesSlot(f) ==
    /\ Goes(f, "releaseSlot", "delete")
    /\ used' = [used EXCEPT ![frames[f].encoder] = StillUsed(@, frames[f].slot)]
    /\ UNCHANGED <<running, encoder, alive, encode, abrVars>>

FinalizeDeletes(f) ==
    /\ frames[f].at = "delete"
    /\ frames' = [frames EXCEPT ![f] = NoFrame]
    /\ UNCHANGED <<running, encoder, encode, abrVars>>
    /\ Destructs(alive) /\ Keeping(used)

-----------------------------------------------------------------------------

Control ==
    \/ ClientConnects \/ ClientConnectsWithoutDevice \/ ClientLeaves \/ Stop
    \/ HandleKeyframeRequest
    \/ \E latency \in Latencies, due \in BOOLEAN : HandleLatencyReport(latency, due)

EncodeGoesOn == AcquireSlot \/ Commit \/ CommitFails \/ EncodeAnswersDropped \/ EncodeDropsEncoder

FrameGoesOn(f) ==
    CompletedHandler(f) \/ CompressionOutputCallback(f)
    \/ FinalizeAnswers(f) \/ FinalizeReleasesSlot(f) \/ FinalizeDeletes(f)

Next == Control \/ EncodeCopiesEncoder \/ EncodeGoesOn \/ \E f \in Frames : FrameGoesOn(f)

Spec == Init /\ [][Next]_vars

\* The encode thread ends what it has begun; the GPU and VideoToolbox answer
\* every frame in the end.
FairSpec == Spec /\ WF_vars(EncodeGoesOn) /\ \A f \in Frames : WF_vars(FrameGoesOn(f))

-----------------------------------------------------------------------------
(* Properties. *)

Stages == {"gpu", "videoToolbox", "answer", "releaseSlot", "delete"}

\* Each variable keeps its type.
TypeOK ==
    /\ running \in BOOLEAN /\ asked \in BOOLEAN
    /\ encoder \in alive \cup {None} /\ alive \subseteq Encoders
    /\ used \in [Encoders -> SUBSET Slots]
    /\ frames \in [Frames -> {NoFrame} \cup [encoder : Encoders, slot : Slots, at : Stages]]
    /\ encode \in [at : {"idle", "copied", "acquired", "dropped", "done"},
                   encoder : Encoders \cup {None}, slot : Slots \cup {None}]
    /\ requestKeyframeCount \in 0..(Wrap - 1)
    /\ lastKeyframeRequestCountForAbr \in 0..(Wrap - 1)
    /\ currentBitrateMbps \in Nat /\ configMaxBitrateMbps \in Bitrates

\* The bitrate never exceeds what the connect settled on and, when that is above
\* it, never goes below the minimum, whatever reports, requests and reconnects
\* come in between (StreamingServer.cpp:1270-1277).
BitrateInRange ==
    currentBitrateMbps \in Minimum(KMinBitrateMbps, configMaxBitrateMbps)..configMaxBitrateMbps

InFlight == {f \in Frames : frames[f] # NoFrame}

\* f will release slot s of e; so will the encode thread, until it commits.
Owes(f, e, s) == frames[f].encoder = e /\ frames[f].slot = s /\ frames[f].at # "delete"
EncodeOwes(e, s) == encode.encoder = e /\ encode.slot = s

\* An encoder is not destroyed before its last frame is, whichever of the client,
\* the server and the frames goes first: the callbacks of VideoToolbox and of the
\* GPU release slots of it (VideoEncoder.mm:54-60, 578-580).
EncoderOutlivesItsFrames ==
    /\ \A f \in InFlight : frames[f].encoder \in alive
    /\ encode.encoder \in alive \cup {None}

\* A slot in use will be released by exactly one frame, or by the encode thread:
\* two frames never write one pixel buffer, and no slot is lost
\* (VideoEncoder.mm:658-692).
SlotsAreOwedOnce ==
    \A e \in Encoders, s \in Slots :
       /\ s \in used[e] <=> EncodeOwes(e, s) \/ \E f \in Frames : Owes(f, e, s)
       /\ \A f \in Frames : Owes(f, e, s) =>
             ~EncodeOwes(e, s) /\ \A g \in Frames \ {f} : ~Owes(g, e, s)

\* An encoder the server has dropped is destroyed in the end, by the thread that
\* drops the last reference to it, also when the server has stopped meanwhile
\* (StreamingServer.cpp:470, 1042, 1213).
DroppedEncoderIsDestroyed ==
    \A e \in Encoders : (e \in alive /\ encoder # e) ~> (e \notin alive \/ encoder = e)

\* A frame reports to a server that still runs: its callback reads the server's counters
\* and its tracking receiver (StreamingServer.cpp:904-948), which Stop has reset (465)
\* before it drops encoder_ (470).  Stop does not wait for the frames in flight.
ReportsReachTheServer == [][\A f \in Frames : FinalizeAnswers(f) => running]_vars

\* StreamingServer.cpp:1249, "adjust based on latency trends and keyframe request
\* frequency": a report does not lower the bitrate unless the latency is high or
\* the client has asked for a keyframe since the last one.
DecreaseHasACause ==
    [][\A latency \in {"low", "middle"}, due \in BOOLEAN :
          HandleLatencyReport(latency, due) /\ ~asked => currentBitrateMbps' >= currentBitrateMbps]_vars
=============================================================================
