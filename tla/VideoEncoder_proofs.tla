-------------------------- MODULE VideoEncoder_proofs --------------------------
(***************************************************************************)
(* Proofs about VideoEncoder, for any number of encoders, frames and slots *)
(* and any bitrates: an encoder outlives its frames, a slot in use is owed *)
(* once, and the adapted bitrate stays in its range.                       *)
(***************************************************************************)
EXTENDS VideoEncoder, TLAPS

\* The encode thread has an encoder from the copy to the end of the iteration,
\* and a slot from AcquireSlot to the commit.
EncodeHolds ==
    /\ encode.encoder = None <=> encode.at = "idle"
    /\ encode.slot = None <=> encode.at # "acquired"

IInv == TypeOK /\ EncodeHolds /\ EncoderOutlivesItsFrames /\ SlotsAreOwedOnce

USE VideoEncoderAssumption

\* The inductive invariant holds at the start.
LEMMA InitIInv == Init => IInv
<1> SUFFICES ASSUME Init PROVE IInv
  OBVIOUS
<1>1. TypeOK
  <2>1. encode \in [at : {"idle", "copied", "acquired", "dropped", "done"},
                    encoder : Encoders \cup {None}, slot : Slots \cup {None}]
    BY DEF Init, AtRest
  <2>2. /\ requestKeyframeCount \in 0..(Wrap - 1) /\ lastKeyframeRequestCountForAbr \in 0..(Wrap - 1)
        /\ currentBitrateMbps \in Nat /\ configMaxBitrateMbps \in Bitrates
    BY VideoEncoderAssumption DEF Init
  <2> QED BY <2>1, <2>2 DEF Init, TypeOK
<1>2. EncodeHolds
  BY DEF Init, EncodeHolds, AtRest
<1>3. EncoderOutlivesItsFrames
  BY DEF Init, EncoderOutlivesItsFrames, InFlight, AtRest
<1>4. SlotsAreOwedOnce
  BY DEF Init, SlotsAreOwedOnce, EncodeOwes, Owes, AtRest, NoFrame, Encoders, None
<1> QED BY <1>1, <1>2, <1>3, <1>4 DEF IInv

-----------------------------------------------------------------------------
(* Dropping references. *)

\* Whatever drops references keeps the invariant, if what is still referred to
\* was alive, and the slots in use are those owed afterwards.
LEMMA DropPreserves ==
  ASSUME TypeOK,
         NEW living \in SUBSET Encoders,
         Destructs(living), Keeping(used),
         encoder' \in Encoders \cup {None},
         encode' \in [at : {"idle", "copied", "acquired", "dropped", "done"},
                      encoder : Encoders \cup {None}, slot : Slots \cup {None}],
         frames' \in [Frames -> {NoFrame} \cup [encoder : Encoders, slot : Slots, at : Stages]],
         \A e \in Encoders : Referenced(e)' => e \in living,
         \A e \in Encoders, s \in Slots :
            /\ s \in used[e] <=> EncodeOwes(e, s)' \/ \E f \in Frames : Owes(f, e, s)'
            /\ \A f \in Frames : Owes(f, e, s)' =>
                 ~EncodeOwes(e, s)' /\ \A g \in Frames \ {f} : ~Owes(g, e, s)'
  PROVE  /\ alive' \subseteq Encoders /\ encoder' \in alive' \cup {None}
         /\ used' \in [Encoders -> SUBSET Slots]
         /\ EncoderOutlivesItsFrames'
         /\ SlotsAreOwedOnce'
<1>1. \A e \in Encoders : Referenced(e)' => e \in alive'
  BY DEF Destructs
<1>2. alive' \subseteq Encoders
  BY DEF Destructs
<1>3. encoder' \in alive' \cup {None}
  BY <1>1 DEF Referenced
<1>4. used' \in [Encoders -> SUBSET Slots]
  BY DEF Keeping, TypeOK
<1>5. EncoderOutlivesItsFrames'
  <2>1. \A f \in InFlight' : frames'[f].encoder \in alive'
    <3>1. TAKE f \in InFlight'
    <3>2. PICK e \in Encoders : f \in Frames /\ frames'[f].encoder = e
      BY <3>1 DEF InFlight, NoFrame
    <3>3. Referenced(e)'
      BY <3>2 DEF Referenced, Captures
    <3> QED BY <1>1, <3>2, <3>3
  <2>2. encode'.encoder \in alive' \cup {None}
    BY <1>1 DEF Referenced
  <2> QED BY <2>1, <2>2 DEF EncoderOutlivesItsFrames
<1>6. SlotsAreOwedOnce'
  <2>1. ASSUME NEW e \in Encoders, NEW s \in Slots
        PROVE  s \in used'[e] <=> EncodeOwes(e, s)' \/ \E f \in Frames : Owes(f, e, s)'
    <3>1. CASE e \in alive'
      BY <3>1 DEF Keeping
    <3>2. CASE e \notin alive'
      <4>1. ~Referenced(e)'
        BY <1>1, <3>2
      <4>2. ~EncodeOwes(e, s)' /\ \A f \in Frames : ~Owes(f, e, s)'
        BY <4>1 DEF Referenced, Captures, EncodeOwes, Owes
      <4> QED BY <3>2, <4>2 DEF Keeping
    <3> QED BY <3>1, <3>2
  <2> QED BY <2>1 DEF SlotsAreOwedOnce
<1> QED BY <1>2, <1>3, <1>4, <1>5, <1>6

-----------------------------------------------------------------------------
(* The steps. *)

\* The counters and the bitrate are of their types whatever the callbacks,
\* connects and reports make them.
AbrTypeOK ==
    /\ requestKeyframeCount \in 0..(Wrap - 1)
    /\ lastKeyframeRequestCountForAbr \in 0..(Wrap - 1)
    /\ currentBitrateMbps \in Nat /\ configMaxBitrateMbps \in Bitrates
    /\ asked \in BOOLEAN

\* A connect settles the bitrate: its variables keep their types.
LEMMA SettlePreserves == ASSUME TypeOK, SettleBitrate PROVE AbrTypeOK'
  BY DEF TypeOK, SettleBitrate, AbrTypeOK

\* A metrics report resets counters: the bitrate's variables keep their types.
LEMMA PublishPreserves == ASSUME TypeOK, Publishes PROVE AbrTypeOK'
  BY DEF TypeOK, Publishes, AbrTypeOK

\* What leaves the bitrate's variables alone keeps their types.
LEMMA StillAbr == ASSUME TypeOK, UNCHANGED abrVars PROVE AbrTypeOK'
  BY DEF TypeOK, abrVars, AbrTypeOK

\* A latency report lowers or raises the bitrate to a natural number.
LEMMA ReportPreserves ==
  ASSUME TypeOK, NEW latency, NEW due, HandleLatencyReport(latency, due)
  PROVE  AbrTypeOK'
<1>1. Lowered(currentBitrateMbps) \in Nat
  BY DEF TypeOK, Lowered, Maximum, KMinBitrateMbps
<1>2. Raised(currentBitrateMbps) \in Nat
  BY DEF TypeOK, Raised, Minimum
<1> QED BY <1>1, <1>2 DEF HandleLatencyReport, TypeOK, AbrTypeOK

\* Nothing of the encoders, the frames and the encode thread changes.
LEMMA AbrStep ==
  ASSUME IInv, AbrTypeOK', running' = running, UNCHANGED <<encoderVars, frames, encode>>
  PROVE  IInv'
  BY DEF IInv, TypeOK, AbrTypeOK, encoderVars, EncodeHolds, EncoderOutlivesItsFrames,
         SlotsAreOwedOnce, InFlight, EncodeOwes, Owes

\* A client connects or leaves, or the server stops: encoder_ changes.
LEMMA EncoderChanges ==
  ASSUME IInv, AbrTypeOK', running' \in BOOLEAN, UNCHANGED <<frames, encode>>,
         NEW living \in SUBSET Encoders, alive \subseteq living,
         encoder' \in living \cup {None},
         Destructs(living), Keeping(used)
  PROVE  IInv'
<1>1. \A e \in Encoders : Referenced(e)' => e \in living
  BY DEF IInv, EncoderOutlivesItsFrames, Referenced, Captures, InFlight, NoFrame, None, Encoders
<1>2. \A e \in Encoders, s \in Slots :
         /\ s \in used[e] <=> EncodeOwes(e, s)' \/ \E f \in Frames : Owes(f, e, s)'
         /\ \A f \in Frames : Owes(f, e, s)' =>
              ~EncodeOwes(e, s)' /\ \A g \in Frames \ {f} : ~Owes(g, e, s)'
  BY DEF IInv, SlotsAreOwedOnce, EncodeOwes, Owes
<1>3. /\ alive' \subseteq Encoders /\ encoder' \in alive' \cup {None}
      /\ used' \in [Encoders -> SUBSET Slots]
      /\ EncoderOutlivesItsFrames'
      /\ SlotsAreOwedOnce'
  BY <1>1, <1>2, DropPreserves DEF IInv, TypeOK
<1> QED BY <1>3 DEF IInv, TypeOK, AbrTypeOK, EncodeHolds

\* The control thread and the clients: connect, disconnect, stop, keyframe
\* requests and latency reports.
LEMMA ControlPreserves == ASSUME IInv, Control PROVE IInv'
<1>1. CASE ClientConnects
  <2>1. PICK new \in Encoders : new \notin alive /\ Destructs(alive \cup {new})
                               /\ encoder' \in {new, None} /\ Keeping(used)
    BY <1>1 DEF ClientConnects, IInv, TypeOK
  <2>2. AbrTypeOK' /\ running' \in BOOLEAN /\ UNCHANGED <<frames, encode>>
    BY <1>1, SettlePreserves DEF ClientConnects, IInv, TypeOK
  <2> QED BY <2>1, <2>2, EncoderChanges DEF IInv, TypeOK
<1>2. CASE ClientConnectsWithoutDevice \/ ClientLeaves \/ Stop
  <2>1. AbrTypeOK' /\ running' \in BOOLEAN /\ UNCHANGED <<frames, encode>> /\ encoder' = None
    BY <1>2, StillAbr DEF ClientConnectsWithoutDevice, ClientLeaves, Stop, IInv, TypeOK
  <2>2. Destructs(alive) /\ Keeping(used)
    BY <1>2 DEF ClientConnectsWithoutDevice, ClientLeaves, Stop
  <2> QED BY <2>1, <2>2, EncoderChanges DEF IInv, TypeOK
<1>3. CASE HandleKeyframeRequest
  <2>1. AbrTypeOK'
    BY <1>3 DEF HandleKeyframeRequest, IInv, TypeOK, AbrTypeOK
  <2> QED BY <1>3, <2>1, AbrStep DEF HandleKeyframeRequest
<1>4. ASSUME NEW latency \in Latencies, NEW due \in BOOLEAN, HandleLatencyReport(latency, due)
      PROVE  IInv'
  <2>1. AbrTypeOK'
    BY <1>4, ReportPreserves DEF IInv
  <2> QED BY <1>4, <2>1, AbrStep DEF HandleLatencyReport
<1> QED BY <1>1, <1>2, <1>3, <1>4 DEF Control

-----------------------------------------------------------------------------
(* The encode thread and the frames. *)

\* A step that keeps the references and the slots of every encoder.
LEMMA StillPreserves ==
  ASSUME IInv, AbrTypeOK', UNCHANGED <<running, encoderVars>>,
         encode' \in [at : {"idle", "copied", "acquired", "dropped", "done"},
                      encoder : Encoders \cup {None}, slot : Slots \cup {None}],
         encode'.encoder \in alive \cup {None}, EncodeHolds',
         encode'.slot = encode.slot,
         encode.slot # None => encode'.encoder = encode.encoder,
         NEW f \in Frames, NEW at \in Stages,
         \/ frames' = frames
         \/ /\ frames' = [frames EXCEPT ![f].at = at] /\ frames[f] # NoFrame
            /\ frames[f].at # "delete" /\ at # "delete"
  PROVE  IInv'
<1>1. frames' \in [Frames -> {NoFrame} \cup [encoder : Encoders, slot : Slots, at : Stages]]
  BY DEF IInv, TypeOK, NoFrame
<1>2. \A g \in Frames : /\ frames'[g].encoder = frames[g].encoder
                        /\ frames'[g].slot = frames[g].slot
                        /\ frames'[g].at = "delete" <=> frames[g].at = "delete"
  <2>1. CASE frames' = frames
    BY <2>1
  <2>2. CASE /\ frames' = [frames EXCEPT ![f].at = at] /\ frames[f] # NoFrame
             /\ frames[f].at # "delete" /\ at # "delete"
    <3>1. TAKE g \in Frames
    <3>2. CASE g # f
      BY <2>2, <3>2 DEF IInv, TypeOK
    <3>3. CASE g = f
      <4>1. frames[f] \in [encoder : Encoders, slot : Slots, at : Stages]
        BY <2>2 DEF IInv, TypeOK
      <4>2. frames'[f] = [frames[f] EXCEPT !.at = at]
        BY <2>2 DEF IInv, TypeOK
      <4> QED BY <2>2, <3>3, <4>1, <4>2
    <3> QED BY <3>2, <3>3
  <2> QED BY <2>1, <2>2
<1>3. \A g \in Frames : frames'[g] # NoFrame => frames[g] # NoFrame
  <2>1. \A g \in Frames : frames[g] = NoFrame => frames'[g].encoder \notin Encoders
    BY <1>2 DEF NoFrame, None, Encoders
  <2> QED BY <1>1, <2>1
<1>4. EncoderOutlivesItsFrames'
  BY <1>2, <1>3 DEF IInv, EncoderOutlivesItsFrames, InFlight, encoderVars
<1>5. SlotsAreOwedOnce'
  <2>1. \A e \in Encoders, s \in Slots : EncodeOwes(e, s)' <=> EncodeOwes(e, s)
    BY DEF EncodeOwes, Slots, None
  <2>2. \A e \in Encoders, s \in Slots, g \in Frames : Owes(g, e, s)' <=> Owes(g, e, s)
    BY <1>2 DEF Owes
  <2> QED BY <2>1, <2>2 DEF IInv, SlotsAreOwedOnce, encoderVars
<1> QED BY <1>1, <1>4, <1>5 DEF IInv, TypeOK, AbrTypeOK, encoderVars

\* A context that is deleted, and the encode thread's iteration that ends,
\* give up a reference but no slot.
LEMMA DroppingPreserves ==
  ASSUME IInv, AbrTypeOK', UNCHANGED <<running, encoder>>, Destructs(alive), Keeping(used),
         \/ encode.at = "done" /\ encode' = AtRest /\ frames' = frames
         \/ /\ encode' = encode
            /\ \E f \in Frames : frames[f].at = "delete" /\ frames' = [frames EXCEPT ![f] = NoFrame]
  PROVE  IInv'
<1>1. /\ encode' \in [at : {"idle", "copied", "acquired", "dropped", "done"},
                       encoder : Encoders \cup {None}, slot : Slots \cup {None}]
      /\ EncodeHolds'
      /\ encode'.encoder \in {encode.encoder, None}
      /\ encode'.slot = encode.slot
      /\ encode.slot # None => encode'.encoder = encode.encoder
  BY DEF IInv, TypeOK, EncodeHolds, AtRest
<1>2. /\ frames' \in [Frames -> {NoFrame} \cup [encoder : Encoders, slot : Slots, at : Stages]]
      /\ \A g \in Frames : frames'[g] = frames[g] \/ (frames'[g] = NoFrame /\ frames[g].at = "delete")
  <2>1. frames \in [Frames -> {NoFrame} \cup [encoder : Encoders, slot : Slots, at : Stages]]
    BY DEF IInv, TypeOK
  <2>2. CASE frames' = frames
    BY <2>1, <2>2
  <2>3. CASE \E f \in Frames : frames[f].at = "delete" /\ frames' = [frames EXCEPT ![f] = NoFrame]
    BY <2>1, <2>3
  <2> QED BY <2>2, <2>3
<1>3. \A e \in Encoders : Referenced(e)' => e \in alive
  <2>1. \A e \in Encoders : Referenced(e)' => Referenced(e)
    BY <1>1, <1>2 DEF Referenced, Captures, NoFrame, None, Encoders
  <2>2. \A e \in Encoders : Referenced(e) => e \in alive
    BY
    DEF IInv, TypeOK, EncoderOutlivesItsFrames, Referenced, Captures, InFlight, NoFrame, None,
        Encoders
  <2> QED BY <2>1, <2>2
<1>4. \A e \in Encoders, s \in Slots : EncodeOwes(e, s)' <=> EncodeOwes(e, s)
  BY <1>1 DEF EncodeOwes, Slots, None
<1>5. \A e \in Encoders, s \in Slots, g \in Frames : Owes(g, e, s)' <=> Owes(g, e, s)
  BY <1>2 DEF Owes, NoFrame, None, Encoders
<1>6. \A e \in Encoders, s \in Slots :
         /\ s \in used[e] <=> EncodeOwes(e, s)' \/ \E f \in Frames : Owes(f, e, s)'
         /\ \A f \in Frames : Owes(f, e, s)' =>
              ~EncodeOwes(e, s)' /\ \A g \in Frames \ {f} : ~Owes(g, e, s)'
  BY <1>4, <1>5 DEF IInv, SlotsAreOwedOnce
<1>7. /\ alive' \subseteq Encoders /\ encoder' \in alive' \cup {None}
      /\ used' \in [Encoders -> SUBSET Slots]
      /\ EncoderOutlivesItsFrames'
      /\ SlotsAreOwedOnce'
  <2>1. encoder' \in Encoders \cup {None} /\ alive \in SUBSET Encoders
    BY DEF IInv, TypeOK
  <2> QED BY <1>1, <1>2, <1>3, <1>6, <2>1, DropPreserves DEF IInv
<1> QED BY <1>1, <1>2, <1>7 DEF IInv, TypeOK, AbrTypeOK

\* AcquireSlot takes a slot that nobody uses, or none and the frame is dropped.
LEMMA AcquirePreserves == ASSUME IInv, AcquireSlot PROVE IInv'
<1>1. AbrTypeOK'
  BY StillAbr DEF IInv, AcquireSlot
<1>2. encode.encoder \in alive /\ encode.encoder \in Encoders /\ encode.slot = None
  BY DEF IInv, TypeOK, EncodeHolds, EncoderOutlivesItsFrames, AcquireSlot
<1>3. CASE encode' = [encode EXCEPT !.at = "dropped"] /\ UNCHANGED used
  <2>1. /\ encode'.encoder = encode.encoder /\ encode'.slot = encode.slot
        /\ encode' \in [at : {"idle", "copied", "acquired", "dropped", "done"},
                         encoder : Encoders \cup {None}, slot : Slots \cup {None}]
        /\ EncodeHolds'
    BY <1>2, <1>3, SMTT(20) DEF IInv, TypeOK, EncodeHolds, None, Encoders
  <2>2. 1 \in Frames /\ "gpu" \in Stages
    BY VideoEncoderAssumption DEF Frames, Stages
  <2>3. UNCHANGED <<running, encoderVars>> /\ frames' = frames
    BY <1>3 DEF AcquireSlot, encoderVars
  <2> QED BY <1>1, <1>2, <2>1, <2>2, <2>3, StillPreserves
<1>4. ASSUME NEW slot \in Slots \ used[encode.encoder],
             encode' = [encode EXCEPT !.at = "acquired", !.slot = slot],
             used' = [used EXCEPT ![encode.encoder] = @ \cup {slot}]
      PROVE  IInv'
  <2>1. UNCHANGED <<running, encoder, alive, frames>>
    BY DEF AcquireSlot
  <2>2. /\ encode' \in [at : {"idle", "copied", "acquired", "dropped", "done"},
                         encoder : Encoders \cup {None}, slot : Slots \cup {None}]
        /\ encode'.encoder = encode.encoder /\ encode'.slot = slot /\ encode'.at = "acquired"
        /\ EncodeHolds'
    <3>1. slot \in Slots /\ slot # None /\ encode.encoder # None
      BY <1>2 DEF None, Encoders, Slots
    <3>2. encode' = [at |-> "acquired", encoder |-> encode.encoder, slot |-> slot]
      BY <1>4 DEF IInv, TypeOK
    <3> QED BY <1>2, <3>1, <3>2 DEF EncodeHolds
  <2>3. \A e \in Encoders, s \in Slots :
           s \in used'[e] <=> s \in used[e] \/ (e = encode.encoder /\ s = slot)
    BY <1>2, <1>4 DEF IInv, TypeOK
  <2>4. \A e \in Encoders, s \in Slots :
           ~EncodeOwes(e, s) /\ (EncodeOwes(e, s)' <=> (e = encode.encoder /\ s = slot))
    BY <1>2, <2>2 DEF EncodeOwes, Slots, None
  <2>5. \A e \in Encoders, s \in Slots, g \in Frames : Owes(g, e, s)' <=> Owes(g, e, s)
    BY <2>1 DEF Owes
  <2>6. SlotsAreOwedOnce'
    BY <1>2, <1>4, <2>3, <2>4, <2>5 DEF IInv, SlotsAreOwedOnce
  <2>7. used' \in [Encoders -> SUBSET Slots]
    BY <1>4 DEF IInv, TypeOK
  <2> QED BY <1>1, <2>1, <2>2, <2>6, <2>7
          DEF IInv, TypeOK, AbrTypeOK, EncoderOutlivesItsFrames, InFlight
<1> QED BY <1>3, <1>4 DEF AcquireSlot

\* The command buffer is committed: the slot is handed to the frame's context.
LEMMA CommitPreserves == ASSUME IInv, Commit PROVE IInv'
<1>1. AbrTypeOK'
  BY StillAbr DEF IInv, Commit
<1>2. /\ encode.encoder \in alive /\ encode.encoder \in Encoders /\ encode.slot \in Slots
      /\ UNCHANGED <<running, encoder, alive, used>>
  BY DEF IInv, TypeOK, EncodeHolds, EncoderOutlivesItsFrames, Commit, encoderVars
<1>3. PICK f \in Frames :
         /\ frames[f] = NoFrame
         /\ frames' = [frames EXCEPT ![f] = [encoder |-> encode.encoder, slot |-> encode.slot,
                                             at |-> "gpu"]]
  BY DEF Commit
<1>4. /\ encode' \in [at : {"idle", "copied", "acquired", "dropped", "done"},
                       encoder : Encoders \cup {None}, slot : Slots \cup {None}]
      /\ encode'.encoder = encode.encoder /\ encode'.slot = None
      /\ EncodeHolds'
  BY <1>2 DEF Commit, IInv, TypeOK, EncodeHolds, None, Encoders
<1>5. /\ frames' \in [Frames -> {NoFrame} \cup [encoder : Encoders, slot : Slots, at : Stages]]
      /\ frames'[f] = [encoder |-> encode.encoder, slot |-> encode.slot, at |-> "gpu"]
      /\ \A g \in Frames \ {f} : frames'[g] = frames[g]
  BY <1>2, <1>3 DEF IInv, TypeOK, Stages
<1>6. EncoderOutlivesItsFrames'
  BY <1>2, <1>4, <1>5 DEF IInv, EncoderOutlivesItsFrames, InFlight
<1>7. SlotsAreOwedOnce'
  <2>1. \A e \in Encoders, s \in Slots :
           ~EncodeOwes(e, s)' /\ (Owes(f, e, s)' <=> EncodeOwes(e, s)) /\ ~Owes(f, e, s)
    BY <1>3, <1>4, <1>5 DEF EncodeOwes, Owes, NoFrame, Slots, Encoders, None
  <2>2. \A e \in Encoders, s \in Slots, g \in Frames \ {f} : Owes(g, e, s)' <=> Owes(g, e, s)
    BY <1>5 DEF Owes
  <2> QED BY <1>2, <2>1, <2>2 DEF IInv, SlotsAreOwedOnce
<1> QED BY <1>1, <1>2, <1>4, <1>5, <1>6, <1>7 DEF IInv, TypeOK, AbrTypeOK

\* A texture or command buffer is missing: the slot is given back.
LEMMA CommitFailsPreserves == ASSUME IInv, CommitFails PROVE IInv'
<1>1. AbrTypeOK'
  BY StillAbr DEF IInv, CommitFails
<1>2. /\ encode.encoder \in alive /\ encode.encoder \in Encoders /\ encode.slot \in Slots
      /\ UNCHANGED <<running, encoder, alive, frames>>
  BY DEF IInv, TypeOK, EncodeHolds, EncoderOutlivesItsFrames, CommitFails
<1>3. /\ encode' \in [at : {"idle", "copied", "acquired", "dropped", "done"},
                       encoder : Encoders \cup {None}, slot : Slots \cup {None}]
      /\ encode'.encoder = encode.encoder /\ encode'.slot = None
      /\ EncodeHolds'
  BY <1>2 DEF CommitFails, IInv, TypeOK, EncodeHolds, None, Encoders
<1>4. /\ used' \in [Encoders -> SUBSET Slots]
      /\ \A e \in Encoders, s \in Slots :
           s \in used'[e] <=> s \in used[e] /\ ~EncodeOwes(e, s)
  BY <1>2 DEF CommitFails, IInv, TypeOK, AfterError, EncodeOwes
<1>5. \A e \in Encoders, s \in Slots : ~EncodeOwes(e, s)'
  BY <1>3 DEF EncodeOwes, Slots, None
<1>6. \A e \in Encoders, s \in Slots, g \in Frames : Owes(g, e, s)' <=> Owes(g, e, s)
  BY <1>2 DEF Owes
<1>7. SlotsAreOwedOnce'
  BY <1>4, <1>5, <1>6 DEF IInv, SlotsAreOwedOnce
<1> QED BY <1>1, <1>2, <1>3, <1>4, <1>7
        DEF IInv, TypeOK, AbrTypeOK, EncoderOutlivesItsFrames, InFlight

\* FinalizeEncodeFrame releases the slot of its frame.
LEMMA ReleasesSlotPreserves ==
  ASSUME IInv, NEW f \in Frames, FinalizeReleasesSlot(f)
  PROVE  IInv'
<1>1. AbrTypeOK' /\ UNCHANGED <<running, encoder, alive, encode>>
  BY StillAbr DEF IInv, FinalizeReleasesSlot
<1>2. frames[f] \in [encoder : Encoders, slot : Slots, at : Stages] /\ frames[f].at = "releaseSlot"
  BY DEF FinalizeReleasesSlot, Goes, IInv, TypeOK, NoFrame
<1>3. /\ frames' \in [Frames -> {NoFrame} \cup [encoder : Encoders, slot : Slots, at : Stages]]
      /\ frames'[f] = [frames[f] EXCEPT !.at = "delete"]
      /\ \A g \in Frames \ {f} : frames'[g] = frames[g]
  <2>1. "delete" \in Stages /\ frames' = [frames EXCEPT ![f].at = "delete"]
    BY DEF FinalizeReleasesSlot, Goes, Stages
  <2> QED BY <1>2, <2>1 DEF IInv, TypeOK
<1>4. /\ used' \in [Encoders -> SUBSET Slots]
      /\ \A e \in Encoders, s \in Slots :
           s \in used'[e] <=> s \in used[e] /\ ~Owes(f, e, s)
  BY <1>2 DEF FinalizeReleasesSlot, IInv, TypeOK, StillUsed, Owes
<1>5. EncoderOutlivesItsFrames'
  <2>1. frames'[f].encoder = frames[f].encoder /\ frames[f] # NoFrame
    BY <1>2, <1>3 DEF NoFrame, None, Encoders
  <2> QED BY <1>1, <1>3, <2>1 DEF IInv, EncoderOutlivesItsFrames, InFlight
<1>6. SlotsAreOwedOnce'
  <2>1. \A e \in Encoders, s \in Slots : ~Owes(f, e, s)' /\ (EncodeOwes(e, s)' <=> EncodeOwes(e, s))
    BY <1>1, <1>2, <1>3 DEF Owes, EncodeOwes
  <2>2. \A e \in Encoders, s \in Slots, g \in Frames \ {f} : Owes(g, e, s)' <=> Owes(g, e, s)
    BY <1>3 DEF Owes
  <2> QED BY <1>4, <2>1, <2>2 DEF IInv, SlotsAreOwedOnce
<1> QED BY <1>1, <1>3, <1>4, <1>5, <1>6 DEF IInv, TypeOK, AbrTypeOK, EncodeHolds

\* The other steps of the encode thread.
LEMMA EncodePreserves == ASSUME IInv, EncodeCopiesEncoder \/ EncodeGoesOn PROVE IInv'
<1>1. CASE EncodeCopiesEncoder \/ EncodeAnswersDropped
  <2>1. AbrTypeOK' /\ UNCHANGED <<running, encoderVars>> /\ frames' = frames
    BY <1>1, StillAbr, PublishPreserves DEF IInv, EncodeCopiesEncoder, EncodeAnswersDropped
  <2>2. /\ encode' \in [at : {"idle", "copied", "acquired", "dropped", "done"},
                         encoder : Encoders \cup {None}, slot : Slots \cup {None}]
        /\ encode'.encoder \in alive \cup {None} /\ EncodeHolds'
        /\ encode'.slot = encode.slot
        /\ encode.slot # None => encode'.encoder = encode.encoder
    <3>1. CASE EncodeCopiesEncoder
      BY <3>1 DEF EncodeCopiesEncoder, AtRest, IInv, TypeOK, EncodeHolds, None
    <3>2. CASE EncodeAnswersDropped
      BY <3>2 DEF EncodeAnswersDropped, IInv, TypeOK, EncodeHolds, EncoderOutlivesItsFrames
    <3> QED BY <1>1, <3>1, <3>2
  <2>3. 1 \in Frames /\ "gpu" \in Stages
    BY VideoEncoderAssumption DEF Frames, Stages
  <2> QED BY <2>1, <2>2, <2>3, StillPreserves
<1>2. CASE EncodeDropsEncoder
  BY <1>2, StillAbr, DroppingPreserves DEF EncodeDropsEncoder, IInv
<1> QED BY <1>1, <1>2, AcquirePreserves, CommitPreserves, CommitFailsPreserves DEF EncodeGoesOn

\* The steps of a frame in flight.
LEMMA FramePreserves == ASSUME IInv, NEW f \in Frames, FrameGoesOn(f) PROVE IInv'
<1>1. CASE CompletedHandler(f) \/ CompressionOutputCallback(f) \/ FinalizeAnswers(f)
  <2>1. AbrTypeOK' /\ UNCHANGED <<running, encoderVars>> /\ encode' = encode
    BY <1>1, StillAbr, PublishPreserves
       DEF IInv, CompletedHandler, CompressionOutputCallback, FinalizeAnswers
  <2>2. PICK at \in Stages \ {"delete"} :
           frames' = [frames EXCEPT ![f].at = at] /\ frames[f].at \in {"gpu", "videoToolbox", "answer"}
    BY <1>1
    DEF CompletedHandler, CompressionOutputCallback, FinalizeAnswers, Goes, AfterRefusal, Stages
  <2>3. frames[f] # NoFrame /\ frames[f].at # "delete"
    BY <2>2 DEF NoFrame
  <2>4. encode'.encoder \in alive \cup {None} /\ EncodeHolds'
    BY <2>1 DEF IInv, EncoderOutlivesItsFrames, EncodeHolds
  <2> QED BY <2>1, <2>2, <2>3, <2>4, StillPreserves DEF IInv, TypeOK
<1>2. CASE FinalizeDeletes(f)
  BY <1>2, StillAbr, DroppingPreserves DEF FinalizeDeletes, IInv
<1> QED BY <1>1, <1>2, ReleasesSlotPreserves DEF FrameGoesOn

\* A step that changes nothing.
LEMMA StutterPreserves == ASSUME IInv, UNCHANGED vars PROVE IInv'
  BY StillAbr, AbrStep DEF vars, IInv, encoderVars

-----------------------------------------------------------------------------
(* Theorems. *)

\* The inductive invariant holds in every state.
THEOREM IInvHolds == Spec => []IInv
<1>1. IInv /\ [Next]_vars => IInv'
  BY ControlPreserves, EncodePreserves, FramePreserves, StutterPreserves DEF Next
<1> QED BY InitIInv, <1>1, PTL DEF Spec

\* Every variable keeps its type.
THEOREM TypeOKHolds == Spec => []TypeOK
<1>1. IInv => TypeOK
  BY DEF IInv
<1> QED BY IInvHolds, <1>1, PTL

\* No encoder is destroyed while a frame's callbacks, or the encode thread, may
\* still use it, however many clients connect and leave (VideoEncoder.mm:54-60).
THEOREM EncoderOutlivesItsFramesHolds == Spec => []EncoderOutlivesItsFrames
<1>1. IInv => EncoderOutlivesItsFrames
  BY DEF IInv
<1> QED BY IInvHolds, <1>1, PTL

\* A slot in use is released by exactly one frame or by the encode thread
\* (VideoEncoder.mm:658-692).
THEOREM SlotsAreOwedOnceHolds == Spec => []SlotsAreOwedOnce
<1>1. IInv => SlotsAreOwedOnce
  BY DEF IInv
<1> QED BY IInvHolds, <1>1, PTL

\* The adapted bitrate stays between the minimum and what the client allows, for
\* every bitrate a connect may settle on (StreamingServer.cpp:1270-1277).
THEOREM BitrateInRangeHolds == Spec => []BitrateInRange
<1>1. Init => BitrateInRange
  BY VideoEncoderAssumption DEF Init, BitrateInRange, Minimum, KMinBitrateMbps
<1>2. TypeOK /\ BitrateInRange /\ [Next]_vars => BitrateInRange'
  <2> SUFFICES ASSUME TypeOK, BitrateInRange, [Next]_vars PROVE BitrateInRange'
    OBVIOUS
  <2>1. CASE SettleBitrate
    BY <2>1, VideoEncoderAssumption DEF SettleBitrate, BitrateInRange, Minimum, KMinBitrateMbps
  <2>2. ASSUME NEW latency \in Latencies, NEW due \in BOOLEAN, HandleLatencyReport(latency, due)
        PROVE  BitrateInRange'
    <3>1. configMaxBitrateMbps' = configMaxBitrateMbps /\ configMaxBitrateMbps \in Nat
      BY <2>2, VideoEncoderAssumption DEF HandleLatencyReport, TypeOK
    <3>2. CASE currentBitrateMbps > KMinBitrateMbps /\ currentBitrateMbps' = Lowered(currentBitrateMbps)
      BY <3>1, <3>2 DEF TypeOK, BitrateInRange, Lowered, Minimum, Maximum, KMinBitrateMbps
    <3>3. CASE currentBitrateMbps' = Raised(currentBitrateMbps)
      BY <3>1, <3>3 DEF TypeOK, BitrateInRange, Raised, Minimum, KMinBitrateMbps
    <3>4. CASE currentBitrateMbps' = currentBitrateMbps
      BY <3>1, <3>4 DEF BitrateInRange, Minimum, KMinBitrateMbps
    <3> QED BY <2>2, <3>2, <3>3, <3>4 DEF HandleLatencyReport
  <2>3. CASE UNCHANGED <<currentBitrateMbps, configMaxBitrateMbps>>
    BY <2>3 DEF BitrateInRange
  <2>4. SettleBitrate \/ UNCHANGED <<currentBitrateMbps, configMaxBitrateMbps>>
        \/ \E latency \in Latencies, due \in BOOLEAN : HandleLatencyReport(latency, due)
    BY DEF Next, Control, EncodeGoesOn, FrameGoesOn, ClientConnects, ClientConnectsWithoutDevice,
           ClientLeaves, Stop, HandleKeyframeRequest, EncodeCopiesEncoder, AcquireSlot, Commit,
           CommitFails, EncodeAnswersDropped, EncodeDropsEncoder, CompletedHandler,
           CompressionOutputCallback, FinalizeAnswers, FinalizeReleasesSlot, FinalizeDeletes,
           Publishes, vars, abrVars
  <2> QED BY <2>1, <2>2, <2>3, <2>4
<1> QED BY <1>1, <1>2, TypeOKHolds, PTL DEF Spec
=============================================================================
