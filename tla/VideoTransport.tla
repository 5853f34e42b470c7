---------------------------- MODULE VideoTransport ----------------------------
(***************************************************************************)
(* Encoded video over UDP: the encoder's callback cuts each NAL unit into  *)
(* packets with XOR parity and caches them (StreamingServer::SendNalUnit,  *)
(* HandleNackRequest), the headset reassembles them (NetworkReceiver::     *)
(* ReassembleFrame, TryFecRecovery, SendNack).  A keyframe is several NAL  *)
(* units with one frameIndex: its parameter sets, then its slice.          *)
(*                                                                         *)
(* A payload is the number of the NAL unit it was cut from; what parity    *)
(* restores is that number when parity and data come from one NAL unit,    *)
(* and Mixed when they do not.                                             *)
(***************************************************************************)
EXTENDS Integers, Sequences, SequencesExt, FiniteSets, FiniteSetsExt

CONSTANTS
    FecGroupSize,       \* FEC_GROUP_SIZE
    MaxCachedFrames,    \* slots of the server's packet cache
    ParameterSets,      \* one-packet NAL units before the slice of a keyframe
    SliceSizes,         \* packets a slice may take
    MaxFrames,          \* bound: frames encoded
    MaxLost,            \* bound: packets the network loses
    MaxNacks            \* bound: NACKs that reach the server (others are lost)

ASSUME TransportAssumption ==
    /\ {FecGroupSize, MaxCachedFrames, MaxFrames} \subseteq Nat \ {0}
    /\ SliceSizes \subseteq Nat \ {0}
    /\ {ParameterSets, MaxLost, MaxNacks} \subseteq Nat

VARIABLES
    \* the server
    frameIndex,         \* of the frame being emitted; 0 before the first
    toEmit,             \* packets of the NAL units the frame still has, in order
    nals,               \* every NAL unit sent so far: [frame, total]
    sent,               \* packets sent of the last of them
    cachedFrames, cacheWriteIndex,
    \* the network, both ways first in first out
    wire, nackWire, lost,
    served,             \* the NACKs the server has answered
    \* the headset
    pendingFrame,
    delivered           \* NAL units given to nalCallback_: their payloads in order

serverVars == <<frameIndex, toEmit, nals, sent, cachedFrames, cacheWriteIndex>>
networkVars == <<wire, nackWire, lost, served>>
clientVars == <<pendingFrame, delivered>>
vars == <<serverVars, networkVars, clientVars>>

Missing == 0
Mixed == -1

GroupOf(i) == i \div FecGroupSize

\* The packets of a NAL unit of `total` packets that parity packet g covers.
GroupRange(g, total) == {i \in 0..(total - 1) : GroupOf(i) = g}
Groups(total) == {GroupOf(i) : i \in 0..(total - 1)}

Packet(kind, n, i) ==
    [kind |-> kind, nal |-> n, frame |-> nals[n].frame, index |-> i, total |-> nals[n].total]

NoFrame == [frame |-> 0, total |-> 0, packets |-> <<>>, parity |-> <<>>]

Init ==
    /\ frameIndex = 0 /\ toEmit = <<>> /\ nals = <<>> /\ sent = 0
    /\ cachedFrames = [s \in 0..(MaxCachedFrames - 1) |->
                          [frame |-> 0, nal |-> 0, total |-> 0, filled |-> {}]]
    /\ cacheWriteIndex = 0
    /\ wire = <<>> /\ nackWire = <<>> /\ lost = {} /\ served = <<>>
    /\ pendingFrame = NoFrame
    /\ delivered = <<>>

-----------------------------------------------------------------------------
(* The server. *)

\* NalDoneLate, and the forms below that stand before what they vary, are slips
\* the code might have made: Spec uses none.
NalDoneLate == nals # <<>> => sent > Last(nals).total
NalDone == nals # <<>> => sent = Last(nals).total

\* The encoder outputs a frame: EmitSampleNalUnits calls back once per NAL
\* unit.  The first frame of a stream is a keyframe.
EncodeFrame ==
    /\ NalDone /\ toEmit = <<>> /\ frameIndex < MaxFrames
    /\ frameIndex' = frameIndex + 1
    /\ \E size \in SliceSizes, isKeyframe \in BOOLEAN :
          /\ frameIndex = 0 => isKeyframe
          /\ toEmit' = (IF isKeyframe THEN [k \in 1..ParameterSets |-> 1] ELSE <<>>) \o <<size>>
    /\ UNCHANGED <<nals, sent, cachedFrames, cacheWriteIndex, networkVars, clientVars>>

\* SendNalUnit takes a cache slot, under the dispatch state's mutex.
StartNalUnit ==
    /\ NalDone /\ toEmit # <<>>
    /\ LET nal == [frame |-> frameIndex, total |-> Head(toEmit)] IN
          /\ nals' = Append(nals, nal)
          /\ cachedFrames' = [cachedFrames EXCEPT ![cacheWriteIndex % MaxCachedFrames] =
                 [frame |-> nal.frame, nal |-> Len(nals) + 1, total |-> nal.total, filled |-> {}]]
    /\ toEmit' = Tail(toEmit)
    /\ sent' = 0
    /\ cacheWriteIndex' = cacheWriteIndex + 1
    /\ UNCHANGED <<frameIndex, networkVars, clientVars>>

\* One round of SendNalUnit's loop, without the mutex: a packet, its copy in
\* the cache and, at the end of a group, the group's parity.
SendPacket ==
    /\ ~NalDone
    /\ LET n == Len(nals)
           endsGroup == sent + 1 = nals[n].total \/ (sent + 1) % FecGroupSize = 0
           slot == CHOOSE s \in DOMAIN cachedFrames : cachedFrames[s].nal = n
       IN /\ wire' = wire \o <<Packet("data", n, sent)>>
                          \o (IF endsGroup THEN <<Packet("parity", n, GroupOf(sent))>> ELSE <<>>)
          /\ cachedFrames' = [cachedFrames EXCEPT ![slot].filled = @ \cup {sent}]
    /\ sent' = sent + 1
    /\ UNCHANGED <<frameIndex, toEmit, nals, cacheWriteIndex, nackWire, lost, served,
                   clientVars>>

\* The first slot that holds packets of this frame, whichever NAL unit it is.
CachedSlots(f) == {s \in DOMAIN cachedFrames :
                      cachedFrames[s].frame = f /\ cachedFrames[s].total > 0}

\* What is cached of the request.
Requested(nack, cached) == nack.missing \cap cached.filled

\* HandleNackRequest: it is sent again, by rising index.
Resent(nack, cached) ==
    LET Nth(k) == CHOOSE i \in Requested(nack, cached) :
                      Cardinality({j \in Requested(nack, cached) : j <= i}) = k
    IN  [k \in 1..Cardinality(Requested(nack, cached)) |-> Packet("data", cached.nal, Nth(k))]

HandleNackRequest ==
    /\ nackWire # <<>> /\ Len(served) < MaxNacks
    /\ LET nack == Head(nackWire)
           cached == cachedFrames[Min(CachedSlots(nack.frame))]
       IN wire' = IF CachedSlots(nack.frame) = {} THEN wire ELSE wire \o Resent(nack, cached)
    /\ nackWire' = Tail(nackWire)
    /\ served' = Append(served, Head(nackWire))
    /\ UNCHANGED <<serverVars, lost, clientVars>>

-----------------------------------------------------------------------------
(* The network. *)

LosePacket ==
    /\ wire # <<>> /\ Cardinality(lost) < MaxLost
    /\ wire' = Tail(wire)
    /\ lost' = lost \cup {Head(wire)}
    /\ UNCHANGED <<serverVars, nackWire, served, clientVars>>

LoseNack ==
    /\ nackWire # <<>>
    /\ nackWire' = Tail(nackWire)
    /\ UNCHANGED <<serverVars, wire, lost, served, clientVars>>

-----------------------------------------------------------------------------
(* The headset. *)

MissingOf(r) == {i \in DOMAIN r.packets : r.packets[i] = Missing}
Complete(r) == r.total > 0 /\ MissingOf(r) = {}
Partial(r) == r.total > 0 /\ MissingOf(r) # {} /\ MissingOf(r) # DOMAIN r.packets

\* TryFecRecovery: parity restores the one packet its group misses.
\* (The length of a restored last packet is not known, so that it ends in zeros,
\* NetworkReceiver.cpp:546-557: payloads have no length here.)
Gap(r, g) == Cardinality(GroupRange(g, r.total) \cap MissingOf(r))
RepairableFirstGroup(r, g) == g = 0 /\ r.parity[g] # Missing /\ Gap(r, g) = 1
Repairable(r, g) == r.parity[g] # Missing /\ Gap(r, g) = 1

Repaired(r) ==
    [r EXCEPT !.packets = [i \in DOMAIN r.packets |->
        LET g == GroupOf(i)
            mixedFrom == {r.parity[g]} \cup ({r.packets[k] : k \in GroupRange(g, r.total)} \ {Missing})
        IN IF r.packets[i] # Missing \/ ~Repairable(r, g) THEN r.packets[i]
           ELSE IF Cardinality(mixedFrom) = 1 THEN r.parity[g] ELSE Mixed]]

\* The buffer for the NAL unit that packet p starts.
FreshFrameKeepsParity(p, r) ==
    [frame |-> p.frame, total |-> p.total,
     packets |-> [i \in 0..(p.total - 1) |-> Missing],
     parity |-> [g \in Groups(p.total) |-> IF g \in DOMAIN r.parity THEN r.parity[g] ELSE Missing]]
FreshFrame(p, r) ==
    [frame |-> p.frame, total |-> p.total,
     packets |-> [i \in 0..(p.total - 1) |-> Missing],
     parity |-> [g \in Groups(p.total) |-> Missing]]

\* p starts a NAL unit: another frame's, or the last one is consumed.
StartsFrame(p, r) == p.frame # r.frame \/ r.total = 0

\* deliver: the callback gets the payloads in order, the buffer is consumed.
Consumed(r) == [r EXCEPT !.total = 0]

Finish(r) ==
    IF Complete(r)
      THEN /\ pendingFrame' = Consumed(r)
           /\ delivered' = Append(delivered, [k \in 1..r.total |-> r.packets[k - 1]])
      ELSE /\ pendingFrame' = r
           /\ UNCHANGED delivered

\* Parity is tried at once when at most one packet is missing.
AlmostCompleteStrict(r) == MissingOf(r) = {}
AlmostComplete(r) == Cardinality(MissingOf(r)) <= 1

ReceiveParity(p) ==
    /\ p.kind = "parity"
    /\ IF /\ p.frame = pendingFrame.frame /\ pendingFrame.total > 0
          /\ p.index \in DOMAIN pendingFrame.parity /\ pendingFrame.parity[p.index] = Missing
         THEN LET r == [pendingFrame EXCEPT !.parity[p.index] = p.nal] IN
                 Finish(IF AlmostComplete(r) THEN Repaired(r) ELSE r)
         ELSE UNCHANGED clientVars
    /\ UNCHANGED nackWire

\* The packet goes into its place, unless that is taken.  (A place outside the
\* buffer is memory the code must not write: StoresInBounds.)
Store(p, r) ==
    IF p.index \in DOMAIN r.packets /\ r.packets[p.index] = Missing
      THEN Finish([r EXCEPT !.packets[p.index] = p.nal])
      ELSE pendingFrame' = r /\ UNCHANGED delivered

ReceiveOfPendingFrame(p) ==
    /\ p.kind = "data" /\ ~StartsFrame(p, pendingFrame)
    /\ Store(p, pendingFrame)
    /\ UNCHANGED nackWire

\* A NAL unit begins.  One that is incomplete is repaired now if it can be, and
\* delivered in place of the new packet, which is not kept; or else it is
\* dropped and a NACK names what it misses.
ReceiveOfNextFrame(p) ==
    /\ p.kind = "data" /\ StartsFrame(p, pendingFrame)
    /\ LET repaired == Repaired(pendingFrame) IN
          \/ /\ ~Partial(pendingFrame)
             /\ Store(p, FreshFrame(p, pendingFrame))
             /\ UNCHANGED nackWire
          \/ /\ Partial(pendingFrame) /\ Complete(repaired)
             /\ Finish(repaired)
             /\ UNCHANGED nackWire
          \/ /\ Partial(pendingFrame) /\ ~Complete(repaired)
             /\ nackWire' = Append(nackWire,
                   [frame |-> pendingFrame.frame, missing |-> MissingOf(repaired)])
             /\ Store(p, FreshFrame(p, pendingFrame))

ReassembleFrame ==
    /\ wire # <<>>
    /\ wire' = Tail(wire)
    /\ LET p == Head(wire) IN
          ReceiveParity(p) \/ ReceiveOfPendingFrame(p) \/ ReceiveOfNextFrame(p)
    /\ UNCHANGED <<serverVars, lost, served>>

Next ==
    \/ EncodeFrame \/ StartNalUnit \/ SendPacket \/ HandleNackRequest
    \/ LosePacket \/ LoseNack
    \/ ReassembleFrame

Spec == Init /\ [][Next]_vars

-----------------------------------------------------------------------------
(* Properties. *)

Packets == [kind : {"data", "parity"}, nal : 1..Len(nals), frame : 1..MaxFrames,
            index : Nat, total : Nat \ {0}]

\* Each variable keeps its type: every packet on the wire has an index its NAL
\* unit has, and so has every packet of the cache (StreamingServer.cpp:1423-1573).
TypeOK ==
    /\ frameIndex \in 0..MaxFrames
    /\ nals \in Seq([frame : 1..MaxFrames, total : Nat \ {0}])
    /\ \A i \in DOMAIN wire :
          /\ wire[i] \in Packets
          /\ wire[i].kind = "data" => wire[i].index < wire[i].total
          /\ wire[i].kind = "parity" => wire[i].index \in Groups(wire[i].total)
    /\ \A s \in DOMAIN cachedFrames : cachedFrames[s].filled \subseteq 0..(cachedFrames[s].total - 1)
    /\ pendingFrame.packets \in [DOMAIN pendingFrame.packets -> (1..Len(nals)) \cup {Missing, Mixed}]

StoresInBounds ==
    wire # <<>> /\ Head(wire).kind = "data" /\ ~StartsFrame(Head(wire), pendingFrame)
        => Head(wire).index \in DOMAIN pendingFrame.packets

IsWhole(d, n) == delivered[d] = [k \in 1..nals[n].total |-> n]
FirstPayload(d) == delivered[d][1]
\* n is all of its frame: it is no keyframe, or one without parameter sets.
Alone(n) == \A m \in DOMAIN nals : nals[m].frame = nals[n].frame => m = n

\* What the decoder is given is one NAL unit, whole, even when parity restored part
\* of it; until a packet is retransmitted they come in the order they were encoded
\* and each at most once.  After a retransmission that still holds for the NAL unit
\* of a frame that is one; the parameter sets of a keyframe may be taken for its
\* slice's (RestoresWhatWasLost).  Whatever is sent again, each packet of the pending
\* frame has a place in the buffer sized for the frame's first packet
\* (NetworkReceiver.cpp:372-570, StreamingServer.cpp:1606-1616).
DeliveredIntact ==
    /\ StoresInBounds
    /\ \A d \in DOMAIN delivered : \E n \in Range(delivered[d]) \cap DOMAIN nals :
          IsWhole(d, n) \/ (served # <<>> /\ ~Alone(n))
    /\ served = <<>> =>
          \A d, e \in DOMAIN delivered : d < e => FirstPayload(d) < FirstPayload(e)

\* What FecCodec.h:9-11 says parity does: the packet it restores is the one that
\* was lost.
RestoresWhatWasLost == \A d \in DOMAIN delivered : Mixed \notin Range(delivered[d])

\* Packets that, with parity for each group that misses one, are all there.
HasEnough(r) ==
    \A g \in Groups(r.total) :
        Gap(r, g) = 0 \/ (Gap(r, g) = 1 /\ r.parity[g] # Missing)

\* A frame is given up only if parity could not complete it: a NACK is not sent
\* for what the headset could have repaired (NetworkReceiver.cpp:376-397).
DropsOnlyUnrepairable ==
    [][pendingFrame.frame # pendingFrame'.frame /\ Partial(pendingFrame)
          => ~HasEnough(pendingFrame)]_vars

Passed(n) == /\ \/ n < Len(nals)
                \/ n = Len(nals) /\ NalDone
             /\ \A i \in DOMAIN wire : wire[i].nal # n
WasDelivered(n) == \E d \in DOMAIN delivered : FirstPayload(d) = n

\* One loss costs nothing but a NAL unit of one packet, parameter set or slice, when it
\* is that packet: parity repairs any other before the next frame needs the buffer
\* (NetworkReceiver.cpp:346-369, FecCodec.h).
OneLossIsRepaired ==
    Cardinality(lost) = 1
        => \A n \in DOMAIN nals : Passed(n) =>
              WasDelivered(n) \/ (nals[n].total = 1 /\ Packet("data", n, 0) \in lost)

\* What docs/protocol.md:78 says of parity, that it "can recover one lost data packet"
\* of its group.  The parity of a NAL unit of one packet finds no buffer and is dropped
\* (NetworkReceiver.cpp:346-348).
OneLossIsRecovered ==
    Cardinality(lost) = 1 => \A n \in DOMAIN nals : Passed(n) => WasDelivered(n)

Quiet == wire = <<>> /\ nackWire = <<>> /\ NalDone /\ toEmit = <<>>

\* What docs/protocol.md:107 says NackRequest is for, "a short-window recovery
\* mechanism": once a NACK is answered and everything sent has been received,
\* the frame it asked for has been delivered.
NackRecovers ==
    Quiet => \A k \in DOMAIN served : \A n \in DOMAIN nals :
                nals[n].frame = served[k].frame => WasDelivered(n)
=============================================================================
