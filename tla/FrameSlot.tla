------------------------------- MODULE FrameSlot -------------------------------
(***************************************************************************)
(* What the frame queue promises those who fill it and the one who empties *)
(* it: a place for one frame.  A frame is two texture slices, each         *)
(* retained once; the queue owns those of the frame in its place, the      *)
(* encoder those of the frame it took, and nobody else releases them.  A   *)
(* frame put in takes the place of the one that was there.  There are no   *)
(* threads, locks or steps between: FramePath.tla has them, as the code    *)
(* does, and is shown to implement this module.                            *)
(***************************************************************************)
EXTENDS Naturals

VARIABLES
    slot,       \* the frame in its place, or NoFrame
    taken,      \* the frame the encoder reads, or NoFrame
    retained    \* the references retained and not yet released

vars == <<slot, taken, retained>>

Null == 0
NoFrame == [left |-> Null, right |-> Null]
References(frame) == {frame.left, frame.right} \ {Null}

\* References that are neither in the queue nor with the encoder.
Loose == retained \ (References(slot) \cup References(taken))

Init == slot = NoFrame /\ taken = NoFrame /\ retained = {}

\* A frame is made; or one that never came into the queue, or was put out of it,
\* is given up.
Retain ==
    /\ retained \subseteq retained'
    /\ UNCHANGED <<slot, taken>>

GiveUp ==
    /\ retained' \subseteq retained
    /\ retained \ retained' \subseteq Loose
    /\ UNCHANGED <<slot, taken>>

\* Only a whole frame of loose references goes in; what it replaces becomes loose.
Put ==
    /\ \E left, right \in Loose : left # right /\ slot' = [left |-> left, right |-> right]
    /\ UNCHANGED <<taken, retained>>

Take ==
    /\ taken = NoFrame
    /\ slot # NoFrame
    /\ taken' = slot
    /\ slot' = NoFrame
    /\ UNCHANGED retained

\* The encoder is done with its frame.
Finish ==
    /\ taken' = NoFrame
    /\ retained' = retained \ References(taken)
    /\ UNCHANGED slot

\* The queue is emptied: its client has left, or the server stops.
Drop ==
    /\ slot' = NoFrame
    /\ retained' = retained \ References(slot)
    /\ UNCHANGED taken

Next ==
    \/ Retain
    \/ GiveUp
    \/ Put
    \/ Take
    \/ Finish
    \/ Drop

Spec == Init /\ [][Next]_vars
================================================================================
