------------------------- MODULE VideoTransport_proofs -------------------------
(***************************************************************************)
(* Proofs about VideoTransport, for every group size, number of cached     *)
(* frames, size of slices, number of frames, losses and retransmissions.   *)
(***************************************************************************)
EXTENDS VideoTransport, FiniteSetTheorems, TLAPS

USE DEF Missing, Mixed

-----------------------------------------------------------------------------
(* The inductive invariant. *)

Payloads == (1..Len(nals)) \cup {Missing, Mixed}
Nacks == [frame : Nat, missing : SUBSET Nat]

\* Types of the server's variables.
ServerType ==
    /\ frameIndex \in 0..MaxFrames
    /\ toEmit \in Seq(Nat \ {0})
    /\ nals \in Seq([frame : 1..MaxFrames, total : Nat \ {0}])
    /\ sent \in Nat
    /\ cacheWriteIndex \in Nat
    /\ nackWire \in Seq(Nacks) /\ served \in Seq(Nacks)

\* Of the NAL units of a frame only the last has several packets.
OneSlice ==
    /\ \A n \in DOMAIN nals : nals[n].frame <= frameIndex
    /\ \A m, n \in DOMAIN nals :
          m < n /\ nals[m].frame = nals[n].frame => nals[m].total = 1
    /\ toEmit # <<>> =>
          /\ frameIndex > 0
          /\ \A n \in DOMAIN nals : nals[n].frame = frameIndex => nals[n].total = 1
    /\ \A k \in DOMAIN toEmit : k < Len(toEmit) => toEmit[k] = 1
    /\ nals # <<>> => sent <= nals[Len(nals)].total

\* A slot of the cache is empty or holds packets of one NAL unit.
SlotOK(c) ==
    /\ c \in [frame : Nat, nal : Nat, total : Nat, filled : SUBSET Nat]
    /\ c.filled \subseteq 0..(c.total - 1)
    /\ c.total > 0 \/ c.nal > 0 =>
          /\ c.nal \in DOMAIN nals
          /\ c.frame = nals[c.nal].frame /\ c.total = nals[c.nal].total

CacheOK ==
    /\ DOMAIN cachedFrames = 0..(MaxCachedFrames - 1)
    /\ \A s \in DOMAIN cachedFrames : SlotOK(cachedFrames[s])
    /\ nals # <<>> => \E s \in DOMAIN cachedFrames : cachedFrames[s].nal = Len(nals)

\* A packet that could have been cut from its NAL unit.
PacketOK(p) ==
    /\ p.kind \in {"data", "parity"}
    /\ p.nal \in DOMAIN nals
    /\ p = Packet(p.kind, p.nal, p.index)
    /\ p.kind = "data" => p.index \in 0..(p.total - 1)
    /\ p.kind = "parity" => p.index \in Groups(p.total)

AnyPacket == [kind : {"data", "parity"}, nal : Nat, frame : Nat, index : Nat, total : Nat]

WireOK(w) == w \in Seq(AnyPacket) /\ \A k \in DOMAIN w : PacketOK(w[k])

\* A retransmission may have put a parameter set in n's place.
Loose(n) == served # <<>> /\ ~Alone(n)

\* x may be stored in a buffer for NAL unit c.
MayHold(x, c) ==
    \/ x = c
    \/ Loose(c) /\ x \in DOMAIN nals /\ nals[x].frame = nals[c].frame

\* The buffer r collects NAL unit c.
Collects(r, c) ==
    /\ c \in DOMAIN nals
    /\ r.frame = nals[c].frame /\ r.total = nals[c].total
    /\ DOMAIN r.packets = 0..(r.total - 1) /\ DOMAIN r.parity = Groups(r.total)
    /\ \A i \in DOMAIN r.packets :
          \/ r.packets[i] = Missing
          \/ MayHold(r.packets[i], c)
          \/ Loose(c) /\ r.packets[i] = Mixed
    /\ \A g \in DOMAIN r.parity : r.parity[g] = Missing \/ MayHold(r.parity[g], c)

BufferType(r) ==
    /\ r = [frame |-> r.frame, total |-> r.total, packets |-> r.packets, parity |-> r.parity]
    /\ r.frame \in Nat /\ r.total \in Nat
    /\ r.packets = [i \in DOMAIN r.packets |-> r.packets[i]]
    /\ r.parity = [g \in DOMAIN r.parity |-> r.parity[g]]
    /\ \A i \in DOMAIN r.packets : r.packets[i] \in Payloads

\* A buffer in use lacks a packet and has one.
Begun(r) ==
    /\ \E i \in DOMAIN r.packets : r.packets[i] = Missing
    /\ \E i \in DOMAIN r.packets : r.packets[i] \in DOMAIN nals

\* p is sent before packet i of NAL unit n, and before the parity of its group.
Before(p, n, i) ==
    /\ p.nal <= n
    /\ p.nal = n /\ p.kind = "data" => p.index # i
    /\ p.nal = n /\ p.kind = "parity" => p.index < GroupOf(i)

\* Packet i of NAL unit n is on the wire w or to be sent.
Coming(w, n, i) ==
    \/ \E k \in DOMAIN w : w[k].kind = "data" /\ w[k].nal = n /\ w[k].index = i
    \/ nals # <<>> /\ n = Len(nals) /\ i \in sent..(nals[n].total - 1)

\* While nothing is retransmitted packets come in the order they were cut.
InOrder(w) ==
    /\ \A j, k \in DOMAIN w : j < k => w[j].nal <= w[k].nal
    /\ \A j, k \in DOMAIN w :
          j < k /\ w[k].kind = "data" => Before(w[j], w[k].nal, w[k].index)
    /\ \A j \in DOMAIN w : \A i \in Nat :
          nals # <<>> /\ i \in sent..(nals[Len(nals)].total - 1) => Before(w[j], Len(nals), i)

\* What is still to come is of NAL unit c or a later one, and not in the buffer r.
Ahead(w, r, c) ==
    /\ \A k \in DOMAIN w : c <= w[k].nal
    /\ \A i \in DOMAIN r.packets :
          Coming(w, c, i) => r.packets[i] = Missing /\ r.parity[GroupOf(i)] = Missing

\* Of the NAL units q that were delivered none is c or later.
Undelivered(q, c) == \A d \in DOMAIN q : q[d][1] < c

BufferOK(w, r, q) ==
    /\ BufferType(r)
    /\ r.total > 0 =>
          /\ Begun(r)
          /\ \E c \in DOMAIN nals :
                /\ Collects(r, c)
                /\ served = <<>> => Ahead(w, r, c) /\ Undelivered(q, c)

\* What was delivered is one NAL unit, or a keyframe's slice that a retransmission
\* may have spoiled.
IsFine(s) ==
    \E n \in DOMAIN nals :
        /\ \E k \in DOMAIN s : s[k] = n
        /\ s = [k \in 1..nals[n].total |-> n] \/ Loose(n)

DeliveredOK(q) == q \in Seq(Seq(Int)) /\ \A d \in DOMAIN q : IsFine(q[d])

NothingTwice(w, q) == \A n \in DOMAIN nals : \A i \in Nat : Coming(w, n, i) => Undelivered(q, n)

Ordered(q) ==
    \A d, e \in DOMAIN q : d < e => q[d][1] < q[e][1]

\* The wire, the buffer and what was delivered, between them.
StreamOK(w, r, q) ==
    /\ WireOK(w) /\ BufferOK(w, r, q) /\ DeliveredOK(q)
    /\ served = <<>> => InOrder(w) /\ NothingTwice(w, q) /\ Ordered(q)

IInv == ServerType /\ OneSlice /\ CacheOK /\ StreamOK(wire, pendingFrame, delivered)

-----------------------------------------------------------------------------
(* Lemmas about groups and buffers. *)

\* A packet after the last of a group is of another group.
LEMMA GroupsEnd ==
    ASSUME NEW s \in Nat, NEW i \in Nat, s < i, (s + 1) % FecGroupSize = 0
    PROVE  GroupOf(s) < GroupOf(i)
  <1>1. FecGroupSize \in Nat /\ FecGroupSize > 0
    BY TransportAssumption
  <1>2. s \div FecGroupSize < i \div FecGroupSize
    BY <1>1
  <1>3. s \div FecGroupSize \in Nat /\ i \div FecGroupSize \in Nat
    BY <1>1
  <1> QED
    BY <1>2, <1>3 DEF GroupOf

\* Groups are numbered from zero.
LEMMA GroupType ==
    ASSUME NEW i \in Nat
    PROVE  GroupOf(i) \in Nat
  <1>1. FecGroupSize \in Nat /\ FecGroupSize > 0
    BY TransportAssumption
  <1> QED
    BY <1>1 DEF GroupOf

\* The k-th smallest of a finite set of numbers.
LEMMA RankExists ==
    ASSUME NEW S \in SUBSET Nat, IsFiniteSet(S), NEW k \in 1..Cardinality(S)
    PROVE  \E i \in S : Cardinality({j \in S : j <= i}) = k
  <1> DEFINE below(i) == {j \in S : j <= i}
             rank == [i \in S |-> Cardinality(below(i))]
             T == 1..Cardinality(S)
  <1>1. Cardinality(S) \in Nat
    BY FS_CardinalityType
  <1>2. \A i \in S : IsFiniteSet(below(i)) /\ Cardinality(below(i)) \in Nat
                  /\ Cardinality(below(i)) <= Cardinality(S)
    BY FS_Subset, FS_CardinalityType, <1>1
  <1>3. \A i \in S : Cardinality(below(i)) # 0
    BY <1>2, FS_EmptySet
  <1>4. rank \in [S -> T]
    BY <1>1, <1>2, <1>3
  <1>5. ASSUME NEW i \in S, NEW j \in S, i < j
        PROVE  rank[i] # rank[j]
    <2>1. ASSUME NEW x \in S, x <= i PROVE x <= j
      <3>1. x \in Nat /\ i \in Nat /\ j \in Nat
        OBVIOUS
      <3> QED
        BY <3>1, <2>1, <1>5
    <2>2. i \in Nat /\ j \in Nat
      OBVIOUS
    <2>3. j \in below(j) /\ j \notin below(i)
      BY <2>2, <1>5
    <2>4. below(i) \subseteq below(j)
      BY <2>1
    <2>5. Cardinality(below(i)) < Cardinality(below(j))
      BY <2>3, <2>4, <1>2, FS_Subset, SMTT(20)
    <2> QED
      BY <2>5, <1>2
  <1>6. \A i, j \in S : rank[i] = rank[j] => i = j
    <2> SUFFICES ASSUME NEW i \in S, NEW j \in S, i # j PROVE rank[i] # rank[j]
      OBVIOUS
    <2>1. i < j \/ j < i
      OBVIOUS
    <2> QED
      BY <2>1, <1>5
  <1>7. rank \in Injection(S, T)
    BY <1>4, <1>6 DEF Injection, IsInjective
  <1>8. IsFiniteSet(T) /\ Cardinality(T) = Cardinality(S)
    BY <1>1, FS_Interval
  <1>9. rank \in Surjection(S, T)
    BY <1>7, <1>8, FS_Injection
  <1>10. \E i \in S : rank[i] = k
    BY <1>9 DEF Surjection
  <1> QED
    BY <1>10

\* What the NAL units sent so far look like.
LEMMA NalType ==
    ASSUME ServerType
    PROVE  /\ Len(nals) \in Nat /\ DOMAIN nals = 1..Len(nals)
           /\ \A n \in DOMAIN nals : /\ n \in Nat /\ n > 0
                                    /\ nals[n] \in [frame : 1..MaxFrames, total : Nat \ {0}]
                                    /\ nals[n].frame \in Nat /\ nals[n].frame > 0
                                    /\ nals[n].total \in Nat /\ nals[n].total > 0
  <1> DEFINE R == [frame : 1..MaxFrames, total : Nat \ {0}]
  <1>0. nals \in Seq(R)
    BY DEF ServerType
  <1>1. Len(nals) \in Nat /\ DOMAIN nals = 1..Len(nals)
    BY <1>0
  <1> HIDE DEF R
  <1>2. \A n \in DOMAIN nals : nals[n] \in R
    BY <1>0
  <1> USE DEF R
  <1>3. MaxFrames \in Nat
    BY TransportAssumption
  <1> QED
    BY <1>1, <1>2, <1>3

\* The group of a packet is one of its NAL unit.
LEMMA GroupIsOne ==
    ASSUME NEW total, NEW i \in 0..(total - 1)
    PROVE  GroupOf(i) \in Groups(total)
  BY DEF Groups

\* What Repaired does to a packet: it fills a gap, from the parity of its group.
LEMMA RepairedPacket ==
    ASSUME NEW r, BufferType(r), NEW i \in DOMAIN r.packets
    PROVE  /\ Repaired(r) = [frame |-> r.frame, total |-> r.total,
                             packets |-> Repaired(r).packets, parity |-> r.parity]
           /\ DOMAIN Repaired(r).packets = DOMAIN r.packets
           /\ Repaired(r).packets = [j \in DOMAIN r.packets |-> Repaired(r).packets[j]]
           /\ \/ Repaired(r).packets[i] = r.packets[i]
              \/ /\ r.packets[i] = Missing /\ r.parity[GroupOf(i)] # Missing
                 /\ \/ Repaired(r).packets[i] = r.parity[GroupOf(i)]
                    \/ Repaired(r).packets[i] = Mixed
           /\ r.packets[i] = Missing /\ Repairable(r, GroupOf(i))
                 => Repaired(r).packets[i] \in {r.parity[GroupOf(i)], Mixed}
  <1> DEFINE mixedFrom(g) ==
                {r.parity[g]} \cup ({r.packets[k] : k \in GroupRange(g, r.total)} \ {Missing})
             filled(j) == IF r.packets[j] # Missing \/ ~Repairable(r, GroupOf(j)) THEN r.packets[j]
                          ELSE IF Cardinality(mixedFrom(GroupOf(j))) = 1
                               THEN r.parity[GroupOf(j)] ELSE Mixed
             P == [j \in DOMAIN r.packets |-> filled(j)]
  <1>1. Repaired(r) = [r EXCEPT !.packets = P]
    BY DEF Repaired
  <1>2. Repaired(r) = [frame |-> r.frame, total |-> r.total, packets |-> P, parity |-> r.parity]
    BY <1>1 DEF BufferType
  <1>3. Repaired(r).packets = P
    BY <1>2
  <1>4. P[i] = filled(i)
    OBVIOUS
  <1>5. /\ \/ filled(i) = r.packets[i]
           \/ /\ r.packets[i] = Missing /\ r.parity[GroupOf(i)] # Missing
              /\ filled(i) = r.parity[GroupOf(i)] \/ filled(i) = Mixed
        /\ r.packets[i] = Missing /\ Repairable(r, GroupOf(i))
              => filled(i) \in {r.parity[GroupOf(i)], Mixed}
    BY DEF Repairable
  <1> HIDE DEF filled
  <1> QED
    BY <1>2, <1>3, <1>4, <1>5

\* Parity of a NAL unit restores its own packets, unless a retransmission put
\* another's among them.
LEMMA RepairedIsPure ==
    ASSUME NEW r, NEW c, BufferType(r), Collects(r, c), ~Loose(c), c # Missing,
           NEW i \in DOMAIN r.packets, r.packets[i] = Missing,
           Repaired(r).packets[i] # Missing
    PROVE  Repaired(r).packets[i] = c
  <1> DEFINE g == GroupOf(i)
             others == {r.packets[k] : k \in GroupRange(g, r.total)} \ {Missing}
             mixedFrom == {r.parity[g]} \cup others
  <1>1. Repaired(r).packets[i] = IF Repairable(r, g)
             THEN IF Cardinality(mixedFrom) = 1 THEN r.parity[g] ELSE Mixed
             ELSE Missing
    BY DEF Repaired, BufferType
  <1>2. Repairable(r, g)
    BY <1>1
  <1>3. r.parity[g] # Missing
    BY <1>2 DEF Repairable
  <1>4. g \in DOMAIN r.parity
    BY GroupIsOne DEF Collects
  <1>5. r.parity[g] = c
    BY <1>3, <1>4 DEF Collects, MayHold
  <1>6. others \subseteq {c}
    BY DEF Collects, MayHold, GroupRange
  <1>7. mixedFrom = {c}
    BY <1>5, <1>6
  <1>8. Cardinality(mixedFrom) = 1
    BY <1>7, FS_Singleton
  <1> HIDE DEF mixedFrom, g
  <1> QED
    BY <1>1, <1>2, <1>5, <1>8

\* Repairing a buffer leaves it a buffer of the same NAL unit.
LEMMA RepairedCollects ==
    ASSUME NEW r, NEW c, BufferType(r), Collects(r, c), ServerType
    PROVE  BufferType(Repaired(r)) /\ Collects(Repaired(r), c)
  <1> DEFINE s == Repaired(r)
  <1>1. c \in DOMAIN nals /\ DOMAIN nals = 1..Len(nals) /\ Len(nals) \in Nat
    BY DEF Collects, ServerType
  <1>2. r.total > 0 /\ 0 \in DOMAIN r.packets
    BY <1>1, NalType DEF Collects
  <1>3. /\ s = [frame |-> r.frame, total |-> r.total, packets |-> s.packets, parity |-> r.parity]
        /\ DOMAIN s.packets = DOMAIN r.packets
        /\ s.packets = [j \in DOMAIN r.packets |-> s.packets[j]]
    BY <1>2, RepairedPacket
  <1>4. s.frame = r.frame /\ s.total = r.total /\ s.parity = r.parity
    BY <1>3
  <1>5. ASSUME NEW i \in DOMAIN s.packets
        PROVE  /\ s.packets[i] = Missing \/ MayHold(s.packets[i], c)
                    \/ (Loose(c) /\ s.packets[i] = Mixed)
               /\ s.packets[i] \in Payloads
    <2>1. i \in DOMAIN r.packets
      BY <1>3
    <2>2. r.packets[i] \in Payloads
      BY <2>1 DEF BufferType
    <2>3. CASE s.packets[i] = r.packets[i]
      BY <2>1, <2>2, <2>3 DEF Collects
    <2>4. CASE s.packets[i] # r.packets[i]
      <3>1. /\ r.packets[i] = Missing /\ r.parity[GroupOf(i)] # Missing
            /\ s.packets[i] = r.parity[GroupOf(i)] \/ s.packets[i] = Mixed
        BY <2>1, <2>4, RepairedPacket
      <3>2. GroupOf(i) \in DOMAIN r.parity
        BY <2>1, GroupIsOne DEF Collects
      <3>3. MayHold(r.parity[GroupOf(i)], c)
        BY <3>1, <3>2 DEF Collects
      <3>4. CASE Loose(c)
        <4>1. r.parity[GroupOf(i)] \in DOMAIN nals
          BY <3>3, <1>1 DEF MayHold
        <4> QED
          BY <4>1, <3>1, <3>3, <3>4, <1>1 DEF Payloads
      <3>5. CASE ~Loose(c)
        <4>1. c # Missing /\ s.packets[i] # Missing
          BY <1>1, <3>1
        <4>2. s.packets[i] = c
          BY <4>1, <3>5, <3>1, <2>1, RepairedIsPure
        <4> QED
          BY <4>2, <1>1 DEF MayHold, Payloads
      <3> QED
        BY <3>4, <3>5
    <2> QED
      BY <2>3, <2>4
  <1>6. BufferType(s)
    BY <1>3, <1>4, <1>5 DEF BufferType
  <1>7. Collects(s, c)
    <2> HIDE DEF s
    <2> QED
      BY <1>3, <1>4, <1>5 DEF Collects
  <1> QED
    BY <1>6, <1>7

\* A packet of the frame whose slice is being collected is of that slice, unless it
\* was retransmitted, and has a place in the buffer.
LEMMA PacketFits ==
    ASSUME ServerType, OneSlice, NEW p, PacketOK(p), NEW r, NEW c, Collects(r, c), Begun(r),
           p.frame = r.frame, served = <<>> => c <= p.nal
    PROVE  /\ MayHold(p.nal, c)
           /\ p.kind = "data" => p.index \in DOMAIN r.packets
           /\ p.kind = "parity" => p.nal = c \/ Loose(c)
  <1>1. /\ p.nal \in DOMAIN nals /\ c \in DOMAIN nals
        /\ p.nal \in Nat /\ c \in Nat
        /\ nals[c].total \in Nat /\ nals[p.nal].total \in Nat /\ nals[p.nal].total > 0
    BY NalType DEF PacketOK, Collects
  <1>2. p.frame = nals[p.nal].frame /\ p.total = nals[p.nal].total
    BY DEF PacketOK, Packet
  <1>3. DOMAIN r.packets = 0..(nals[c].total - 1) /\ r.frame = nals[c].frame
    BY DEF Collects
  <1>4. nals[c].total > 1
    <2>1. PICK i \in DOMAIN r.packets, j \in DOMAIN r.packets :
             r.packets[i] = Missing /\ r.packets[j] \in DOMAIN nals
      BY DEF Begun
    <2>2. i # j
      BY <2>1, NalType
    <2> QED
      BY <1>1, <1>3, <2>2
  <1>5. nals[p.nal].frame = nals[c].frame
    BY <1>2, <1>3
  <1>6. ~(c < p.nal)
    BY <1>1, <1>4, <1>5 DEF OneSlice
  <1>7. CASE p.nal = c
    BY <1>1, <1>2, <1>3, <1>7 DEF MayHold, PacketOK
  <1>8. CASE p.nal # c
    <2>1. p.nal < c
      BY <1>1, <1>6, <1>8
    <2>2. Loose(c)
      BY <2>1, <1>1, <1>5, <1>8 DEF Loose, Alone
    <2>3. nals[p.nal].total = 1
      BY <2>1, <1>1, <1>5 DEF OneSlice
    <2>4. p.kind = "data" => p.index = 0
      BY <2>3, <1>2 DEF PacketOK
    <2> QED
      BY <2>2, <2>4, <1>1, <1>3, <1>4, <1>5 DEF MayHold
  <1> QED
    BY <1>7, <1>8

\* What comes after the first packet on the wire.
LEMMA TailOfWire ==
    ASSUME NEW w, WireOK(w), w # <<>>
    PROVE  /\ WireOK(Tail(w)) /\ PacketOK(Head(w))
           /\ \A n, i : Coming(Tail(w), n, i) => Coming(w, n, i)
           /\ \A k \in DOMAIN Tail(w) : k + 1 \in DOMAIN w /\ Tail(w)[k] = w[k + 1]
           /\ InOrder(w) =>
                 /\ InOrder(Tail(w))
                 /\ \A k \in DOMAIN Tail(w) : Head(w).nal <= Tail(w)[k].nal
                 /\ \A n \in DOMAIN nals : \A i \in Nat :
                       Coming(Tail(w), n, i) => Before(Head(w), n, i)
           /\ \A r, c : Ahead(w, r, c) => Ahead(Tail(w), r, c)
           /\ \A q : NothingTwice(w, q) => NothingTwice(Tail(w), q)
  <1> DEFINE v == Tail(w)
  <1>0. w \in Seq(AnyPacket)
    BY DEF WireOK
  <1>1. /\ v \in Seq(AnyPacket) /\ Len(w) \in Nat /\ Len(w) > 0 /\ DOMAIN w = 1..Len(w)
        /\ Len(v) = Len(w) - 1 /\ DOMAIN v = 1..Len(v) /\ Head(w) = w[1] /\ 1 \in DOMAIN w
    BY <1>0
  <1>2. \A k \in DOMAIN v : k \in Nat /\ k + 1 \in DOMAIN w /\ k > 0 /\ v[k] = w[k + 1]
    BY <1>0, <1>1
  <1> HIDE DEF v
  <1>3. WireOK(v) /\ PacketOK(Head(w))
    BY <1>1, <1>2 DEF WireOK
  <1>4. \A n, i : Coming(v, n, i) => Coming(w, n, i)
    BY <1>2 DEF Coming
  <1>5. ASSUME InOrder(w) PROVE InOrder(v)
    <2>1. \A j, k \in DOMAIN v : j < k => j + 1 < k + 1
      BY <1>2
    <2> QED
      BY <1>2, <1>5, <2>1 DEF InOrder
  <1>6. ASSUME InOrder(w) PROVE \A k \in DOMAIN v : Head(w).nal <= v[k].nal
    <2>1. \A k \in DOMAIN v : 1 < k + 1
      BY <1>2
    <2> QED
      BY <1>1, <1>2, <1>6, <2>1 DEF InOrder
  <1>7. ASSUME InOrder(w), NEW n \in DOMAIN nals, NEW i \in Nat, Coming(v, n, i)
        PROVE  Before(Head(w), n, i)
    <2>1. CASE nals # <<>> /\ n = Len(nals) /\ i \in sent..(nals[n].total - 1)
      BY <1>1, <1>7, <2>1 DEF InOrder
    <2>2. CASE \E k \in DOMAIN v : v[k].kind = "data" /\ v[k].nal = n /\ v[k].index = i
      <3>1. PICK k \in DOMAIN v : v[k].kind = "data" /\ v[k].nal = n /\ v[k].index = i
        BY <2>2
      <3>2. k + 1 \in DOMAIN w /\ 1 < k + 1 /\ w[k + 1] = v[k]
        BY <1>2
      <3> QED
        BY <1>1, <1>7, <3>1, <3>2 DEF InOrder
    <2> QED
      BY <1>7, <2>1, <2>2 DEF Coming
  <1>8. \A r, c : Ahead(w, r, c) => Ahead(v, r, c)
    BY <1>2, <1>4 DEF Ahead
  <1>9. \A q : NothingTwice(w, q) => NothingTwice(v, q)
    BY <1>4 DEF NothingTwice
  <1> QED
    BY <1>2, <1>3, <1>4, <1>5, <1>6, <1>7, <1>8, <1>9 DEF v

\* A buffer that has every packet leaves none of its NAL unit to come.
LEMMA CompleteIsPast ==
    ASSUME ServerType, NEW w, WireOK(w), NEW r, NEW c, Collects(r, c), Ahead(w, r, c),
           MissingOf(r) = {}, NEW n \in DOMAIN nals, NEW i \in Nat, Coming(w, n, i)
    PROVE  c < n
  <1>1. /\ c \in DOMAIN nals /\ c \in Nat /\ n \in Nat /\ n <= Len(nals) /\ c <= Len(nals)
        /\ Len(nals) \in Nat /\ nals[c].total \in Nat /\ sent \in Nat
    BY NalType DEF Collects, ServerType
  <1>2. DOMAIN r.packets = 0..(nals[c].total - 1)
    BY DEF Collects
  <1>3. c <= n /\ i \in 0..(nals[n].total - 1)
    <2>1. CASE \E k \in DOMAIN w : w[k].kind = "data" /\ w[k].nal = n /\ w[k].index = i
      <3>1. PICK k \in DOMAIN w : w[k].kind = "data" /\ w[k].nal = n /\ w[k].index = i
        BY <2>1
      <3>2. PacketOK(w[k]) /\ c <= w[k].nal
        BY DEF WireOK, Ahead
      <3> QED
        BY <3>1, <3>2 DEF PacketOK, Packet
    <2>2. CASE n = Len(nals) /\ i \in sent..(nals[n].total - 1)
      <3>1. nals[n].total \in Nat
        BY NalType
      <3> QED
        BY <1>1, <2>2, <3>1
    <2> QED
      BY <2>1, <2>2 DEF Coming
  <1>4. n # c
    <2> SUFFICES ASSUME n = c PROVE FALSE
      OBVIOUS
    <2>1. i \in DOMAIN r.packets
      BY <1>2, <1>3
    <2>2. r.packets[i] = Missing
      BY <2>1 DEF Ahead
    <2> QED
      BY <2>1, <2>2 DEF MissingOf
  <1> QED
    BY <1>1, <1>3, <1>4

\* Finish hands over a buffer that is complete and keeps one that is not.
LEMMA FinishKeeps ==
    ASSUME ServerType, NEW w, WireOK(w), DeliveredOK(delivered),
           NEW r, NEW c, BufferType(r), Collects(r, c),
           \E i \in DOMAIN r.packets : r.packets[i] \in DOMAIN nals,
           served = <<>> => /\ NothingTwice(w, delivered) /\ Ordered(delivered)
                            /\ Ahead(w, r, c) /\ Undelivered(delivered, c),
           Finish(r)
    PROVE  /\ BufferOK(w, pendingFrame', delivered') /\ DeliveredOK(delivered')
           /\ served = <<>> => NothingTwice(w, delivered') /\ Ordered(delivered')
  <1>1. /\ c \in DOMAIN nals /\ c \in Nat /\ c > 0 /\ Len(nals) \in Nat
        /\ nals[c].total \in Nat /\ nals[c].total > 0 /\ r.total = nals[c].total
        /\ DOMAIN r.packets = 0..(nals[c].total - 1) /\ r.frame = nals[c].frame
        /\ DOMAIN nals = 1..Len(nals)
    BY NalType DEF Collects
  <1>2. CASE ~Complete(r)
    <2>1. pendingFrame' = r /\ delivered' = delivered
      BY <1>2 DEF Finish
    <2>2. Begun(r)
      BY <1>1, <1>2 DEF Begun, Complete, MissingOf
    <2>3. BufferOK(w, r, delivered)
      BY <1>1, <2>2 DEF BufferOK
    <2> QED
      BY <2>1, <2>3
  <1>3. CASE Complete(r)
    <2> DEFINE s == [k \in 1..r.total |-> r.packets[k - 1]]
    <2>1. pendingFrame' = [r EXCEPT !.total = 0] /\ delivered' = Append(delivered, s)
      BY <1>3 DEF Finish, Consumed
    <2>2. MissingOf(r) = {}
      BY <1>3 DEF Complete
    <2>3. pendingFrame' = [frame |-> r.frame, total |-> 0, packets |-> r.packets,
                           parity |-> r.parity]
      BY <2>1 DEF BufferType
    <2>4. BufferOK(w, pendingFrame', delivered')
      BY <2>3 DEF BufferOK, BufferType
    <2>5. \A k \in 1..r.total : /\ k - 1 \in DOMAIN r.packets
                                /\ s[k] = r.packets[k - 1] /\ s[k] # Missing
      BY <1>1, <2>2 DEF MissingOf
    <2>6. \A i \in DOMAIN r.packets : r.packets[i] \in Int
      BY <1>1 DEF BufferType, Payloads
    <2>7. s \in [1..r.total -> Int]
      BY <2>5, <2>6
    <2>8. s \in Seq(Int) /\ Len(s) = r.total
      <3>1. r.total \in Nat
        BY <1>1
      <3> HIDE DEF s
      <3> QED
        BY <2>7, <3>1
    <2>9. ~Loose(c) => s = [k \in 1..nals[c].total |-> c]
      <3> SUFFICES ASSUME ~Loose(c) PROVE s = [k \in 1..nals[c].total |-> c]
        OBVIOUS
      <3>1. \A k \in 1..r.total : s[k] = c
        BY <2>5 DEF Collects, MayHold
      <3>2. s = [k \in 1..nals[c].total |-> s[k]]
        BY <1>1
      <3> HIDE DEF s
      <3> QED
        BY <1>1, <3>1, <3>2
    <2>10. IsFine(s)
      <3>1. PICK i \in DOMAIN r.packets : r.packets[i] \in DOMAIN nals
        OBVIOUS
      <3>2. i + 1 \in 1..r.total /\ s[i + 1] = r.packets[i] /\ DOMAIN s = 1..r.total
        BY <1>1, SMTT(20)
      <3> HIDE DEF s
      <3>3. CASE ~Loose(c)
        <4>1. r.packets[i] = c
          BY <3>1, <3>3, <1>1, SMTT(20) DEF Collects, MayHold
        <4> QED
          BY <1>1, <2>9, <3>2, <3>3, <4>1 DEF IsFine
      <3>4. CASE Loose(c)
        <4>1. nals[r.packets[i]].frame = nals[c].frame
          BY <3>1, <1>1 DEF Collects, MayHold
        <4>2. Loose(r.packets[i])
          BY <3>1, <3>4, <4>1, <1>1 DEF Loose, Alone
        <4> QED
          BY <3>1, <3>2, <4>2 DEF IsFine
      <3> QED
        BY <3>3, <3>4
    <2> HIDE DEF s
    <2>11. /\ delivered \in Seq(Seq(Int)) /\ Len(delivered) \in Nat
           /\ DOMAIN delivered = 1..Len(delivered)
      BY DEF DeliveredOK
    <2>12. /\ delivered' \in Seq(Seq(Int))
           /\ DOMAIN delivered' = 1..(Len(delivered) + 1)
           /\ \A d \in DOMAIN delivered : d \in DOMAIN delivered' /\ delivered'[d] = delivered[d]
           /\ delivered'[Len(delivered) + 1] = s
           /\ \A d \in DOMAIN delivered' : d \in DOMAIN delivered \/ d = Len(delivered) + 1
      BY <2>1, <2>8, <2>11
    <2>13. DeliveredOK(delivered')
      BY <2>10, <2>12 DEF DeliveredOK
    <2>14. ASSUME served = <<>> PROVE NothingTwice(w, delivered') /\ Ordered(delivered')
      <3>1. s[1] = c
        BY <1>1, <2>9, <2>14 DEF Loose
      <3>2. NothingTwice(w, delivered')
        <4> SUFFICES ASSUME NEW n \in DOMAIN nals, NEW i \in Nat, Coming(w, n, i),
                            NEW d \in DOMAIN delivered'
                     PROVE  delivered'[d][1] < n
          BY DEF NothingTwice, Undelivered
        <4>1. CASE d \in DOMAIN delivered
          BY <2>12, <2>14, <4>1 DEF NothingTwice, Undelivered
        <4>2. CASE d = Len(delivered) + 1
          BY <2>2, <2>12, <2>14, <3>1, <4>2, CompleteIsPast
        <4> QED
          BY <4>1, <4>2, <2>12
      <3>3. Ordered(delivered')
        <4> SUFFICES ASSUME NEW d \in DOMAIN delivered', NEW e \in DOMAIN delivered', d < e
                     PROVE  delivered'[d][1] < delivered'[e][1]
          BY DEF Ordered
        <4>1. d \in DOMAIN delivered
          BY <2>11, <2>12
        <4>2. CASE e \in DOMAIN delivered
          BY <2>12, <2>14, <4>1, <4>2 DEF Ordered
        <4>3. CASE e = Len(delivered) + 1
          BY <2>12, <2>14, <3>1, <4>1, <4>3 DEF Undelivered
        <4> QED
          BY <4>2, <4>3, <2>12
      <3> QED
        BY <3>2, <3>3
    <2> QED
      BY <2>4, <2>13, <2>14
  <1> QED
    BY <1>2, <1>3

\* The first packet on the wire, a data packet, goes into its place.
LEMMA StoredPacket ==
    ASSUME ServerType, NEW w, WireOK(w), w # <<>>, Head(w).kind = "data",
           NEW r, NEW c, BufferType(r), Collects(r, c),
           MayHold(Head(w).nal, c), Head(w).index \in DOMAIN r.packets,
           served = <<>> => InOrder(w) /\ Ahead(w, r, c)
    PROVE  LET s == [r EXCEPT !.packets[Head(w).index] = Head(w).nal] IN
             /\ BufferType(s) /\ Collects(s, c)
             /\ \E i \in DOMAIN s.packets : s.packets[i] \in DOMAIN nals
             /\ served = <<>> => Ahead(Tail(w), s, c)
  <1> DEFINE p == Head(w)
             P == [r.packets EXCEPT ![p.index] = p.nal]
             s == [r EXCEPT !.packets[p.index] = p.nal]
  <1>1. PacketOK(p) /\ p.nal \in DOMAIN nals /\ p.nal \in Payloads
    BY TailOfWire, NalType DEF PacketOK, Payloads
  <1>2. s = [frame |-> r.frame, total |-> r.total, packets |-> P, parity |-> r.parity]
    BY DEF BufferType
  <1>3. /\ DOMAIN P = DOMAIN r.packets /\ P[p.index] = p.nal
        /\ \A i \in DOMAIN P : i # p.index => P[i] = r.packets[i]
        /\ P = [i \in DOMAIN P |-> P[i]]
    BY DEF BufferType
  <1>4. s.frame = r.frame /\ s.total = r.total /\ s.packets = P /\ s.parity = r.parity
    BY <1>2
  <1> HIDE DEF P, s, p
  <1>5. \A i \in DOMAIN P : P[i] \in Payloads
    BY <1>1, <1>3 DEF BufferType
  <1>6. BufferType(s)
    BY <1>2, <1>3, <1>4, <1>5 DEF BufferType
  <1>7. MayHold(p.nal, c)
    BY DEF p
  <1>8. Collects(s, c)
    BY <1>3, <1>4, <1>7 DEF Collects
  <1>9. \E i \in DOMAIN s.packets : s.packets[i] \in DOMAIN nals
    BY <1>1, <1>3, <1>4 DEF p
  <1>10. ASSUME served = <<>> PROVE Ahead(Tail(w), s, c)
    <2>1. Ahead(Tail(w), r, c)
      BY <1>10, TailOfWire
    <2>2. p.nal = c
      BY <1>7, <1>10 DEF MayHold, Loose
    <2>3. c \in DOMAIN nals /\ DOMAIN r.packets \subseteq Nat
      BY NalType DEF Collects
    <2>4. ASSUME NEW i \in DOMAIN r.packets, Coming(Tail(w), c, i) PROVE i # p.index
      <3>1. Before(p, c, i)
        BY <1>10, <2>3, <2>4, TailOfWire DEF p
      <3> QED
        BY <2>2, <3>1 DEF Before, p
    <2> QED
      BY <1>3, <1>4, <2>1, <2>4 DEF Ahead
  <1> QED
    BY <1>6, <1>8, <1>9, <1>10 DEF s, p

\* So does a parity packet.
LEMMA StoredParity ==
    ASSUME ServerType, NEW w, WireOK(w), w # <<>>, Head(w).kind = "parity",
           NEW r, NEW c, BufferType(r), Collects(r, c), MayHold(Head(w).nal, c),
           Head(w).index \in DOMAIN r.parity,
           served = <<>> => InOrder(w) /\ Ahead(w, r, c)
    PROVE  LET s == [r EXCEPT !.parity[Head(w).index] = Head(w).nal] IN
             /\ BufferType(s) /\ Collects(s, c) /\ s.packets = r.packets
             /\ served = <<>> => Ahead(Tail(w), s, c)
  <1> DEFINE p == Head(w)
             P == [r.parity EXCEPT ![p.index] = p.nal]
             s == [r EXCEPT !.parity[p.index] = p.nal]
  <1>1. s = [frame |-> r.frame, total |-> r.total, packets |-> r.packets, parity |-> P]
    BY DEF BufferType
  <1>2. /\ DOMAIN P = DOMAIN r.parity /\ P[p.index] = p.nal
        /\ \A g \in DOMAIN P : g # p.index => P[g] = r.parity[g]
        /\ P = [g \in DOMAIN P |-> P[g]]
    BY DEF BufferType
  <1>3. s.frame = r.frame /\ s.total = r.total /\ s.packets = r.packets /\ s.parity = P
    BY <1>1
  <1>4. MayHold(p.nal, c)
    OBVIOUS
  <1> HIDE DEF P, s, p
  <1>5. BufferType(s)
    BY <1>1, <1>2, <1>3 DEF BufferType
  <1>6. Collects(s, c)
    BY <1>2, <1>3, <1>4 DEF Collects
  <1>7. ASSUME served = <<>> PROVE Ahead(Tail(w), s, c)
    <2>1. Ahead(Tail(w), r, c)
      BY <1>7, TailOfWire
    <2>2. p.nal = c
      BY <1>4, <1>7 DEF MayHold, Loose
    <2>3. c \in DOMAIN nals /\ DOMAIN r.packets \subseteq Nat
      BY NalType DEF Collects
    <2>4. ASSUME NEW i \in DOMAIN r.packets, Coming(Tail(w), c, i)
          PROVE  GroupOf(i) # p.index /\ GroupOf(i) \in DOMAIN P
      <3>1. Before(p, c, i)
        BY <1>7, <2>3, <2>4, TailOfWire DEF p
      <3>2. GroupOf(i) \in DOMAIN r.parity
        BY <2>4, GroupIsOne DEF Collects
      <3>3. GroupOf(i) \in Nat
        BY <2>3, <2>4, GroupType
      <3>4. p.kind = "parity"
        BY DEF p
      <3>5. p.index < GroupOf(i)
        BY <2>2, <3>1, <3>4 DEF Before
      <3>6. GroupOf(i) # p.index
        BY <3>3, <3>5
      <3> QED
        BY <1>2, <3>2, <3>6
    <2> QED
      BY <1>2, <1>3, <2>1, <2>4 DEF Ahead
  <1> QED
    BY <1>3, <1>5, <1>6, <1>7 DEF s, p

\* Repairing keeps what a buffer has, and restores nothing that is still to come.
LEMMA RepairedAhead ==
    ASSUME ServerType, NEW w, NEW r, NEW c, BufferType(r), Collects(r, c)
    PROVE  /\ (\E i \in DOMAIN r.packets : r.packets[i] \in DOMAIN nals)
                 => \E i \in DOMAIN Repaired(r).packets : Repaired(r).packets[i] \in DOMAIN nals
           /\ Ahead(w, r, c) => Ahead(w, Repaired(r), c)
  <1> DEFINE s == Repaired(r)
  <1>1. 0 \in DOMAIN r.packets
    BY NalType DEF Collects
  <1>2. s.parity = r.parity /\ DOMAIN s.packets = DOMAIN r.packets
    <2>1. s = [frame |-> r.frame, total |-> r.total, packets |-> s.packets, parity |-> r.parity]
      BY <1>1, RepairedPacket
    <2>2. DOMAIN s.packets = DOMAIN r.packets
      BY <1>1, RepairedPacket
    <2> HIDE DEF s
    <2> QED
      BY <2>1, <2>2
  <1>3. \A i \in DOMAIN r.packets :
           r.packets[i] # Missing \/ r.parity[GroupOf(i)] = Missing
               => s.packets[i] = r.packets[i]
    BY RepairedPacket
  <1>4. \A n \in DOMAIN nals : n # Missing
    BY NalType
  <1> HIDE DEF s
  <1>5. (\E i \in DOMAIN r.packets : r.packets[i] \in DOMAIN nals)
            => \E i \in DOMAIN s.packets : s.packets[i] \in DOMAIN nals
    BY <1>2, <1>3, <1>4
  <1>6. Ahead(w, r, c) => Ahead(w, s, c)
    BY <1>2, <1>3 DEF Ahead
  <1> QED
    BY <1>5, <1>6 DEF s

\* The buffer made for the NAL unit that the first packet on the wire is from.
LEMMA FreshCollects ==
    ASSUME ServerType, NEW w, WireOK(w), w # <<>>, NEW old
    PROVE  LET p == Head(w)
               r == FreshFrame(p, old) IN
             /\ BufferType(r) /\ Collects(r, p.nal) /\ MayHold(p.nal, p.nal)
             /\ p.kind = "data" => p.index \in DOMAIN r.packets /\ r.packets[p.index] = Missing
             /\ InOrder(w) => Ahead(w, r, p.nal)
  <1> DEFINE p == Head(w)
             r == FreshFrame(p, old)
  <1>1. PacketOK(p)
    BY TailOfWire
  <1>2. /\ p.nal \in DOMAIN nals /\ p.nal \in Nat
        /\ p.frame = nals[p.nal].frame /\ p.total = nals[p.nal].total
        /\ p.frame \in Nat /\ p.total \in Nat
    BY <1>1, NalType DEF PacketOK, Packet
  <1>3. p.kind = "data" => p.index \in 0..(p.total - 1)
    BY <1>1 DEF PacketOK
  <1>4. \A i \in 0..(p.total - 1) : GroupOf(i) \in Groups(p.total)
    BY GroupIsOne
  <1>5. \A k \in DOMAIN w : InOrder(w) => p.nal <= w[k].nal
    <2>1. w \in Seq(AnyPacket) /\ p = w[1] /\ 1 \in DOMAIN w /\ DOMAIN w = 1..Len(w)
      BY DEF WireOK
    <2>2. \A k \in DOMAIN w : k = 1 \/ 1 < k
      BY <2>1
    <2> QED
      BY <1>2, <2>1, <2>2 DEF InOrder
  <1> HIDE DEF p
  <1>6. r = [frame |-> p.frame, total |-> p.total,
             packets |-> [i \in 0..(p.total - 1) |-> Missing],
             parity |-> [g \in Groups(p.total) |-> Missing]]
    BY DEF FreshFrame
  <1>7. /\ r.frame = p.frame /\ r.total = p.total
        /\ r.packets = [i \in 0..(p.total - 1) |-> Missing]
        /\ r.parity = [g \in Groups(p.total) |-> Missing]
    BY <1>6
  <1> HIDE DEF r
  <1>8. BufferType(r)
    BY <1>2, <1>6, <1>7 DEF BufferType, Payloads
  <1>9. Collects(r, p.nal)
    BY <1>2, <1>7 DEF Collects
  <1>10. InOrder(w) => Ahead(w, r, p.nal)
    BY <1>4, <1>5, <1>7 DEF Ahead
  <1> QED
    BY <1>3, <1>7, <1>8, <1>9, <1>10 DEF r, p, MayHold

\* One packet is received: what the headset has agrees with what is left to come.
LEMMA ReceiveKeeps ==
    ASSUME IInv, ReassembleFrame
    PROVE  StreamOK(wire', pendingFrame', delivered') /\ ServerType'
  <1> DEFINE p == Head(wire)
             v == Tail(wire)
  <1>1. wire # <<>> /\ wire' = v
    BY DEF ReassembleFrame
  <1>2. /\ ServerType /\ OneSlice /\ WireOK(wire) /\ BufferOK(wire, pendingFrame, delivered)
        /\ DeliveredOK(delivered)
        /\ served = <<>> => InOrder(wire) /\ NothingTwice(wire, delivered) /\ Ordered(delivered)
    BY DEF IInv, StreamOK
  <1>3. /\ WireOK(v) /\ PacketOK(p)
        /\ served = <<>> => InOrder(v) /\ NothingTwice(v, delivered)
    BY <1>1, <1>2, TailOfWire
  <1>4. BufferType(pendingFrame) /\ pendingFrame.total \in Nat
    BY <1>2 DEF BufferOK, BufferType
  <1>5. ASSUME NEW c, Collects(pendingFrame, c), Begun(pendingFrame), p.frame = pendingFrame.frame,
               served = <<>> => Ahead(wire, pendingFrame, c)
        PROVE  /\ MayHold(p.nal, c)
               /\ p.kind = "data" => p.index \in DOMAIN pendingFrame.packets
    <2>1. served = <<>> => c <= p.nal
      <3>1. wire \in Seq(AnyPacket)
        BY <1>2 DEF WireOK
      <3>2. 1 \in DOMAIN wire /\ p = wire[1]
        BY <1>1, <3>1
      <3> QED
        BY <1>5, <3>2 DEF Ahead
    <2> QED
      BY <1>2, <1>3, <1>5, <2>1, PacketFits
  <1> DEFINE Goal == /\ BufferOK(v, pendingFrame', delivered') /\ DeliveredOK(delivered')
                     /\ served = <<>> => NothingTwice(v, delivered') /\ Ordered(delivered')
  <1>6. ASSUME pendingFrame' = pendingFrame, delivered' = delivered PROVE Goal
    <2>1. BufferOK(v, pendingFrame, delivered)
      <3>1. \A r, c : Ahead(wire, r, c) => Ahead(v, r, c)
        BY <1>1, <1>2, TailOfWire
      <3> QED
        BY <1>2, <3>1 DEF BufferOK
    <2> QED
      BY <1>2, <1>3, <1>6, <2>1
  <1>7. ASSUME ReceiveOfPendingFrame(p) PROVE Goal
    <2>1. /\ p.kind = "data" /\ p.frame = pendingFrame.frame /\ pendingFrame.total > 0
          /\ Store(p, pendingFrame)
      BY <1>4, <1>7 DEF ReceiveOfPendingFrame, StartsFrame
    <2>2. PICK c \in DOMAIN nals :
             /\ Collects(pendingFrame, c)
             /\ served = <<>> => Ahead(wire, pendingFrame, c) /\ Undelivered(delivered, c)
      BY <1>2, <2>1 DEF BufferOK
    <2>3. Begun(pendingFrame)
      BY <1>2, <2>1 DEF BufferOK
    <2>4. MayHold(p.nal, c) /\ p.index \in DOMAIN pendingFrame.packets
      BY <1>5, <2>1, <2>2, <2>3
    <2>5. CASE pendingFrame.packets[p.index] = Missing
      <3> DEFINE s == [pendingFrame EXCEPT !.packets[p.index] = p.nal]
      <3>1. Finish(s)
        BY <2>1, <2>4, <2>5 DEF Store
      <3>2. /\ BufferType(s) /\ Collects(s, c)
            /\ \E i \in DOMAIN s.packets : s.packets[i] \in DOMAIN nals
            /\ served = <<>> => Ahead(v, s, c)
        BY <1>1, <1>2, <1>4, <2>1, <2>2, <2>4, StoredPacket
      <3> HIDE DEF s, v, p
      <3> QED
        BY <1>2, <1>3, <2>2, <3>1, <3>2, FinishKeeps
    <2>6. CASE pendingFrame.packets[p.index] # Missing
      BY <1>6, <2>1, <2>6 DEF Store
    <2> QED
      BY <2>5, <2>6
  <1>8. ASSUME ReceiveParity(p) PROVE Goal
    <2>1. p.kind = "parity"
      BY <1>8 DEF ReceiveParity
    <2> DEFINE s == [pendingFrame EXCEPT !.parity[p.index] = p.nal]
               kept == /\ p.frame = pendingFrame.frame /\ pendingFrame.total > 0
                       /\ p.index \in DOMAIN pendingFrame.parity
                       /\ pendingFrame.parity[p.index] = Missing
    <2>2. CASE ~kept
      BY <1>6, <1>8, <2>2 DEF ReceiveParity, clientVars
    <2>3. CASE kept
      <3>1. PICK c \in DOMAIN nals :
               /\ Collects(pendingFrame, c)
               /\ served = <<>> => Ahead(wire, pendingFrame, c) /\ Undelivered(delivered, c)
        BY <1>2, <2>3 DEF BufferOK
      <3>2. Begun(pendingFrame)
        BY <1>2, <2>3 DEF BufferOK
      <3>3. MayHold(p.nal, c)
        BY <1>5, <2>3, <3>1, <3>2
      <3>4. /\ BufferType(s) /\ Collects(s, c) /\ s.packets = pendingFrame.packets
            /\ served = <<>> => Ahead(v, s, c)
        BY <1>1, <1>2, <1>4, <2>1, <2>3, <3>1, <3>3, StoredParity
      <3>5. Finish(s) \/ Finish(Repaired(s))
        BY <1>8, <2>3 DEF ReceiveParity
      <3> HIDE DEF s, v, p, kept
      <3>6. \E i \in DOMAIN s.packets : s.packets[i] \in DOMAIN nals
        BY <3>2, <3>4 DEF Begun
      <3>7. CASE Finish(s)
        BY <1>2, <1>3, <3>1, <3>4, <3>6, <3>7, FinishKeeps
      <3>8. CASE Finish(Repaired(s))
        <4>1. BufferType(Repaired(s)) /\ Collects(Repaired(s), c)
          BY <1>2, <3>4, RepairedCollects
        <4>2. \E i \in DOMAIN Repaired(s).packets : Repaired(s).packets[i] \in DOMAIN nals
          BY <1>2, <3>4, <3>6, RepairedAhead
        <4>3. served = <<>> => Ahead(v, Repaired(s), c)
          BY <1>2, <3>4, RepairedAhead
        <4> QED
          BY <1>2, <1>3, <3>1, <3>8, <4>1, <4>2, <4>3, FinishKeeps
      <3> QED
        BY <3>5, <3>7, <3>8
    <2> QED
      BY <2>2, <2>3
  <1>9. ASSUME p.kind = "data", Store(p, FreshFrame(p, pendingFrame)) PROVE Goal
    <2> DEFINE r == FreshFrame(p, pendingFrame)
               s == [r EXCEPT !.packets[p.index] = p.nal]
    <2>1. /\ BufferType(r) /\ Collects(r, p.nal) /\ MayHold(p.nal, p.nal)
          /\ p.index \in DOMAIN r.packets /\ r.packets[p.index] = Missing
          /\ served = <<>> => Ahead(wire, r, p.nal)
      BY <1>1, <1>2, <1>9, FreshCollects
    <2>2. Finish(s)
      BY <1>9, <2>1 DEF Store
    <2>3. served = <<>> => Undelivered(delivered, p.nal)
      <3>1. wire \in Seq(AnyPacket) /\ p.nal \in DOMAIN nals /\ p.index \in Nat
        BY <1>2, <1>3, <1>9, NalType DEF WireOK, PacketOK, Packet
      <3>2. 1 \in DOMAIN wire /\ p = wire[1]
        BY <1>1, <3>1
      <3>3. Coming(wire, p.nal, p.index)
        BY <1>9, <3>2 DEF Coming
      <3> QED
        BY <1>2, <3>1, <3>3 DEF NothingTwice
    <2> HIDE DEF r
    <2>4. /\ BufferType(s) /\ Collects(s, p.nal)
          /\ \E i \in DOMAIN s.packets : s.packets[i] \in DOMAIN nals
          /\ served = <<>> => Ahead(v, s, p.nal)
      BY <1>1, <1>2, <1>9, <2>1, StoredPacket
    <2> HIDE DEF s, v, p
    <2> QED
      BY <1>2, <1>3, <2>2, <2>3, <2>4, FinishKeeps
  <1>10. ASSUME p.kind = "data", StartsFrame(p, pendingFrame), Partial(pendingFrame),
                Finish(Repaired(pendingFrame))
         PROVE  Goal
    <2>1. pendingFrame.total > 0 /\ p.frame # pendingFrame.frame
      BY <1>4, <1>10 DEF Partial, StartsFrame
    <2>2. PICK c \in DOMAIN nals :
             /\ Collects(pendingFrame, c)
             /\ served = <<>> => Ahead(wire, pendingFrame, c) /\ Undelivered(delivered, c)
      BY <1>2, <2>1 DEF BufferOK
    <2>3. \E i \in DOMAIN pendingFrame.packets : pendingFrame.packets[i] \in DOMAIN nals
      BY <1>2, <2>1 DEF BufferOK, Begun
    <2>4. BufferType(Repaired(pendingFrame)) /\ Collects(Repaired(pendingFrame), c)
      BY <1>2, <1>4, <2>2, RepairedCollects
    <2>5. \E i \in DOMAIN Repaired(pendingFrame).packets :
             Repaired(pendingFrame).packets[i] \in DOMAIN nals
      BY <1>2, <1>4, <2>2, <2>3, RepairedAhead
    <2>6. served = <<>> => Ahead(v, Repaired(pendingFrame), c)
      <3>1. \A r : Ahead(wire, r, c) => Ahead(v, r, c)
        BY <1>1, <1>2, TailOfWire
      <3> HIDE DEF v
      <3> QED
        BY <1>2, <1>4, <2>2, <3>1, RepairedAhead
    <2> HIDE DEF v, p
    <2> QED
      BY <1>2, <1>3, <1>10, <2>2, <2>4, <2>5, <2>6, FinishKeeps
  <1>11. Goal
    <2>1. ReceiveParity(p) \/ ReceiveOfPendingFrame(p) \/ ReceiveOfNextFrame(p)
      BY DEF ReassembleFrame
    <2>2. CASE ReceiveOfNextFrame(p)
      <3> HIDE DEF Goal, p, v
      <3> QED
        BY <1>9, <1>10, <2>2 DEF ReceiveOfNextFrame
    <2> HIDE DEF Goal, p, v
    <2> QED
      BY <1>7, <1>8, <2>1, <2>2
  <1>12. ServerType'
    <2>1. nackWire' \in Seq(Nacks)
      <3>1. nackWire \in Seq(Nacks)
        BY <1>2 DEF ServerType
      <3>2. CASE ReceiveParity(p) \/ ReceiveOfPendingFrame(p)
        BY <3>1, <3>2 DEF ReceiveParity, ReceiveOfPendingFrame
      <3>3. CASE ReceiveOfNextFrame(p)
        <4> DEFINE nack == [frame |-> pendingFrame.frame,
                            missing |-> MissingOf(Repaired(pendingFrame))]
        <4>1. nackWire' = nackWire \/ (Partial(pendingFrame) /\ nackWire' = Append(nackWire, nack))
          BY <3>3 DEF ReceiveOfNextFrame
        <4>2. ASSUME Partial(pendingFrame) PROVE nack \in Nacks
          <5>1. PICK c \in DOMAIN nals : Collects(pendingFrame, c)
            BY <1>2, <1>4, <4>2 DEF BufferOK, Partial
          <5>2. BufferType(Repaired(pendingFrame)) /\ Collects(Repaired(pendingFrame), c)
            BY <1>2, <1>4, <5>1, RepairedCollects
          <5>3. Repaired(pendingFrame).total \in Nat
            BY <5>2 DEF BufferType
          <5>4. MissingOf(Repaired(pendingFrame)) \in SUBSET Nat
            BY <5>2, <5>3 DEF Collects, MissingOf
          <5>5. pendingFrame.frame \in Nat
            BY <1>4 DEF BufferType
          <5> QED
            BY <5>4, <5>5 DEF Nacks
        <4> HIDE DEF nack
        <4> QED
          BY <3>1, <4>1, <4>2
      <3> QED
        BY <3>2, <3>3 DEF ReassembleFrame
    <2> QED
      BY <1>2, <2>1 DEF ServerType, Nacks, ReassembleFrame, serverVars
  <1> HIDE DEF v
  <1> QED
    BY <1>1, <1>3, <1>11, <1>12 DEF StreamOK

\* What stays true when a NAL unit is added, or a packet retransmitted.
LEMMA Grown ==
    ASSUME ServerType, ServerType', served # <<>> => served' # <<>>,
           DOMAIN nals \subseteq DOMAIN nals', \A n \in DOMAIN nals : nals'[n] = nals[n]
    PROVE  /\ \A p : PacketOK(p) => PacketOK(p)'
           /\ \A n \in DOMAIN nals : Loose(n) => Loose(n)'
           /\ \A r : BufferType(r) => BufferType(r)'
           /\ \A r : Begun(r) => Begun(r)'
           /\ \A r, c : Collects(r, c) => Collects(r, c)'
           /\ \A s : IsFine(s) => IsFine(s)'
           /\ \A c : SlotOK(c) => SlotOK(c)'
  <1>1. /\ Len(nals) \in Nat /\ DOMAIN nals = 1..Len(nals)
        /\ Len(nals') \in Nat /\ DOMAIN nals' = 1..Len(nals')
        /\ Len(nals) <= Len(nals')
    <2>1. Len(nals) \in Nat /\ DOMAIN nals = 1..Len(nals)
      BY DEF ServerType
    <2>2. Len(nals') \in Nat /\ DOMAIN nals' = 1..Len(nals')
      BY DEF ServerType
    <2>3. Len(nals) = 0 \/ Len(nals) \in DOMAIN nals
      BY <2>1
    <2> QED
      BY <2>1, <2>2, <2>3
  <1>2. \A p : PacketOK(p) => PacketOK(p)'
    BY DEF PacketOK, Packet
  <1>3. \A n \in DOMAIN nals : Loose(n) => Loose(n)'
    BY DEF Loose, Alone
  <1>4. \A r : BufferType(r) => BufferType(r)'
    BY <1>1 DEF BufferType, Payloads
  <1>5. \A r : Begun(r) => Begun(r)'
    BY DEF Begun
  <1>6. \A x : \A c \in DOMAIN nals : MayHold(x, c) => MayHold(x, c)'
    BY <1>3 DEF MayHold
  <1>7. \A r, c : Collects(r, c) => Collects(r, c)'
    BY <1>3, <1>6 DEF Collects
  <1>8. \A s : IsFine(s) => IsFine(s)'
    BY <1>3 DEF IsFine
  <1>9. \A c : SlotOK(c) => SlotOK(c)'
    BY DEF SlotOK
  <1> QED
    BY <1>2, <1>3, <1>4, <1>5, <1>7, <1>8, <1>9

\* Put together: the stream after a step that adds to what the server sent.
LEMMA StreamGrown ==
    ASSUME StreamOK(wire, pendingFrame, delivered), ServerType, ServerType',
           DOMAIN nals \subseteq DOMAIN nals', \A n \in DOMAIN nals : nals'[n] = nals[n],
           served # <<>> => served' # <<>>, UNCHANGED clientVars,
           WireOK(wire)',
           served' = <<>> => /\ \A c \in DOMAIN nals : Ahead(wire, pendingFrame, c)
                                                  => Ahead(wire, pendingFrame, c)'
                             /\ InOrder(wire)' /\ NothingTwice(wire, delivered)'
    PROVE  StreamOK(wire, pendingFrame, delivered)'
  <1>1. /\ BufferType(pendingFrame)' /\ DeliveredOK(delivered)'
        /\ Begun(pendingFrame) => Begun(pendingFrame)'
        /\ \A c : Collects(pendingFrame, c) => Collects(pendingFrame, c)'
    BY Grown DEF StreamOK, BufferOK, DeliveredOK, clientVars
  <1>2. \A c : Undelivered(delivered, c) => Undelivered(delivered, c)'
    BY DEF Undelivered, clientVars
  <1>3. BufferOK(wire, pendingFrame, delivered)'
    BY <1>1, <1>2 DEF StreamOK, BufferOK, clientVars
  <1>4. Ordered(delivered) => Ordered(delivered)'
    BY DEF Ordered, clientVars
  <1> QED
    BY <1>1, <1>3, <1>4 DEF StreamOK

\* The encoder outputs a frame.
LEMMA EncodeKeeps ==
    ASSUME IInv, EncodeFrame
    PROVE  IInv'
  <1>1. ServerType /\ OneSlice /\ CacheOK /\ StreamOK(wire, pendingFrame, delivered)
    BY DEF IInv
  <1>2. /\ UNCHANGED <<nals, sent, cachedFrames, cacheWriteIndex, wire, nackWire, served>>
        /\ UNCHANGED clientVars
        /\ toEmit = <<>> /\ frameIndex' = frameIndex + 1 /\ frameIndex < MaxFrames
    BY DEF EncodeFrame, networkVars
  <1>3. PICK size \in SliceSizes, isKeyframe \in BOOLEAN :
           toEmit' = (IF isKeyframe THEN [k \in 1..ParameterSets |-> 1] ELSE <<>>) \o <<size>>
    BY DEF EncodeFrame
  <1>4. toEmit' \in Seq(Nat \ {0}) /\ \A k \in DOMAIN toEmit' : k < Len(toEmit') => toEmit'[k] = 1
    <2> DEFINE sets == IF isKeyframe THEN [k \in 1..ParameterSets |-> 1] ELSE <<>>
    <2>1. ParameterSets \in Nat /\ size \in Nat \ {0}
      BY TransportAssumption
    <2>2. sets \in Seq(Nat \ {0}) /\ \A k \in DOMAIN sets : sets[k] = 1
      <3>1. CASE isKeyframe
        BY <2>1, <3>1
      <3>2. CASE ~isKeyframe
        BY <3>2
      <3> QED
        BY <3>1, <3>2
    <2> HIDE DEF sets
    <2>3. toEmit' = sets \o <<size>>
      BY <1>3 DEF sets
    <2>4. toEmit' \in Seq(Nat \ {0})
      BY <2>1, <2>2, <2>3
    <2>5. /\ Len(sets) \in Nat /\ DOMAIN sets = 1..Len(sets) /\ Len(toEmit') = Len(sets) + 1
          /\ \A k \in 1..Len(sets) : toEmit'[k] = sets[k]
          /\ DOMAIN toEmit' = 1..(Len(sets) + 1)
      BY <2>1, <2>2, <2>3
    <2> QED
      BY <2>2, <2>4, <2>5
  <1>5. frameIndex \in Nat /\ MaxFrames \in Nat
    BY <1>1, TransportAssumption DEF ServerType
  <1>6. ServerType'
    BY <1>1, <1>2, <1>4, <1>5 DEF ServerType, Nacks
  <1>7. OneSlice'
    <2>1. \A n \in DOMAIN nals : nals[n].frame \in Nat /\ nals[n].frame <= frameIndex
      BY <1>1, NalType DEF OneSlice
    <2>2. \A n \in DOMAIN nals' : nals'[n].frame <= frameIndex' /\ nals'[n].frame # frameIndex'
      BY <1>2, <1>5, <2>1
    <2>3. /\ \A m, n \in DOMAIN nals' :
                m < n /\ nals'[m].frame = nals'[n].frame => nals'[m].total = 1
          /\ nals' # <<>> => sent' <= nals'[Len(nals')].total
      BY <1>1, <1>2 DEF OneSlice
    <2> QED
      BY <1>2, <1>4, <1>5, <2>2, <2>3 DEF OneSlice
  <1>8. CacheOK'
    BY <1>1, <1>2 DEF CacheOK, SlotOK
  <1>9. StreamOK(wire, pendingFrame, delivered)'
    <2>1. \A w, n, i : Coming(w, n, i)' <=> Coming(w, n, i)
      BY <1>2 DEF Coming
    <2>2. \A c : Ahead(wire, pendingFrame, c) => Ahead(wire, pendingFrame, c)'
      BY <1>2, <2>1 DEF Ahead, clientVars
    <2>3. \A q, c : Undelivered(q, c)' <=> Undelivered(q, c)
      BY DEF Undelivered
    <2>4. NothingTwice(wire, delivered) => NothingTwice(wire, delivered)'
      BY <1>2, <2>1, <2>3 DEF NothingTwice, clientVars
    <2>5. InOrder(wire) => InOrder(wire)'
      BY <1>2 DEF InOrder, Before
    <2>6. WireOK(wire)'
      BY <1>1, <1>2 DEF StreamOK, WireOK, PacketOK, Packet
    <2>7. served' = <<>> => InOrder(wire) /\ NothingTwice(wire, delivered)
      BY <1>1, <1>2 DEF StreamOK
    <2> QED
      BY <1>1, <1>2, <1>6, <2>2, <2>4, <2>5, <2>6, <2>7, StreamGrown
  <1> QED
    BY <1>6, <1>7, <1>8, <1>9 DEF IInv

\* A NAL unit takes its slot of the cache.
LEMMA StartKeeps ==
    ASSUME IInv, StartNalUnit
    PROVE  IInv'
  <1> DEFINE nal == [frame |-> frameIndex, total |-> Head(toEmit)]
             new == Len(nals) + 1
             at == cacheWriteIndex % MaxCachedFrames
             slot == [frame |-> frameIndex, nal |-> new, total |-> Head(toEmit), filled |-> {}]
  <1>1. ServerType /\ OneSlice /\ CacheOK /\ StreamOK(wire, pendingFrame, delivered)
    BY DEF IInv
  <1>2. /\ nals' = Append(nals, nal) /\ toEmit # <<>> /\ toEmit' = Tail(toEmit) /\ sent' = 0
        /\ cachedFrames' = [cachedFrames EXCEPT ![at] = slot]
        /\ cacheWriteIndex' = cacheWriteIndex + 1
        /\ UNCHANGED <<frameIndex, wire, nackWire, served>> /\ UNCHANGED clientVars
    BY DEF StartNalUnit, networkVars
  <1>3. /\ toEmit \in Seq(Nat \ {0}) /\ Len(toEmit) \in Nat /\ Len(toEmit) > 0
        /\ DOMAIN toEmit = 1..Len(toEmit)
        /\ Head(toEmit) = toEmit[1] /\ toEmit[1] \in Nat /\ toEmit[1] > 0
        /\ Len(toEmit') = Len(toEmit) - 1 /\ toEmit' \in Seq(Nat \ {0})
        /\ DOMAIN toEmit' = 1..Len(toEmit')
        /\ \A k \in DOMAIN toEmit' : k + 1 \in DOMAIN toEmit /\ toEmit'[k] = toEmit[k + 1]
    BY <1>1, <1>2 DEF ServerType
  <1>4. /\ frameIndex \in 0..MaxFrames /\ MaxFrames \in Nat
        /\ nals \in Seq([frame : 1..MaxFrames, total : Nat \ {0}])
        /\ Len(nals) \in Nat /\ DOMAIN nals = 1..Len(nals)
    BY <1>1, TransportAssumption DEF ServerType
  <1>5. frameIndex > 0
    BY <1>1, <1>2 DEF OneSlice
  <1> HIDE DEF nal, slot, at
  <1>6. nal.frame = frameIndex /\ nal.total = toEmit[1] /\ nal \in [frame : 1..MaxFrames, total : Nat \ {0}]
    BY <1>3, <1>4, <1>5 DEF nal
  <1>7. /\ nals' \in Seq([frame : 1..MaxFrames, total : Nat \ {0}])
        /\ Len(nals') = new /\ DOMAIN nals' = 1..new
        /\ nals'[new] = nal /\ \A n \in DOMAIN nals : nals'[n] = nals[n]
        /\ nals' # <<>>
    BY <1>2, <1>4, <1>6
  <1>8. ServerType'
    BY <1>1, <1>2, <1>3, <1>7 DEF ServerType, Nacks
  <1>9. DOMAIN nals \subseteq DOMAIN nals' /\ new \in DOMAIN nals'
        /\ \A n \in DOMAIN nals' : n \in DOMAIN nals \/ n = new
    BY <1>4, <1>7
  <1>10. OneSlice'
    <2>1. \A n \in DOMAIN nals' : nals'[n].frame <= frameIndex'
      BY <1>1, <1>2, <1>4, <1>6, <1>7, <1>9 DEF OneSlice
    <2>2. ASSUME NEW m \in DOMAIN nals', NEW n \in DOMAIN nals', m < n,
                 nals'[m].frame = nals'[n].frame
          PROVE  nals'[m].total = 1
      <3>1. m \in DOMAIN nals
        BY <1>4, <1>7, <2>2
      <3>2. CASE n \in DOMAIN nals
        BY <1>1, <1>7, <2>2, <3>1, <3>2 DEF OneSlice
      <3>3. CASE n = new
        BY <1>1, <1>2, <1>6, <1>7, <2>2, <3>1, <3>3 DEF OneSlice
      <3> QED
        BY <1>9, <3>2, <3>3
    <2>3. ASSUME toEmit' # <<>>
          PROVE  \A n \in DOMAIN nals' : nals'[n].frame = frameIndex' => nals'[n].total = 1
      <3>1. Len(toEmit') > 0
        BY <1>3, <2>3
      <3>2. 1 < Len(toEmit) /\ 1 \in DOMAIN toEmit
        BY <1>3, <3>1
      <3>3. toEmit[1] = 1
        BY <1>1, <3>2 DEF OneSlice
      <3> QED
        BY <1>1, <1>2, <1>6, <1>7, <1>9, <3>3 DEF OneSlice
    <2>4. \A k \in DOMAIN toEmit' : k < Len(toEmit') => toEmit'[k] = 1
      <3>1. \A k \in DOMAIN toEmit' : k < Len(toEmit') => k + 1 < Len(toEmit)
        BY <1>3
      <3> QED
        BY <1>1, <1>3, <3>1 DEF OneSlice
    <2>5. sent' <= nals'[Len(nals')].total
      BY <1>2, <1>3, <1>6, <1>7
    <2> QED
      BY <1>2, <1>5, <2>1, <2>2, <2>3, <2>4, <2>5 DEF OneSlice
  <1>11. at \in 0..(MaxCachedFrames - 1)
    <2>1. MaxCachedFrames \in Nat /\ MaxCachedFrames > 0 /\ cacheWriteIndex \in Nat
      BY <1>1, TransportAssumption DEF ServerType
    <2> QED
      BY <2>1 DEF at
  <1>12. CacheOK'
    <2>1. /\ DOMAIN cachedFrames = 0..(MaxCachedFrames - 1)
          /\ \A s \in DOMAIN cachedFrames : SlotOK(cachedFrames[s])
      BY <1>1 DEF CacheOK
    <2>2. /\ DOMAIN cachedFrames' = DOMAIN cachedFrames /\ cachedFrames'[at] = slot
          /\ \A s \in DOMAIN cachedFrames : s # at => cachedFrames'[s] = cachedFrames[s]
      BY <1>2, <1>11, <2>1
    <2>3. ASSUME NEW c, c = slot PROVE SlotOK(c)'
      <3>1. c \in [frame : Nat, nal : Nat, total : Nat, filled : SUBSET Nat]
        BY <1>3, <1>4, <2>3 DEF slot
      <3>2. c.nal = new /\ c.frame = frameIndex /\ c.total = toEmit[1] /\ c.filled = {}
        BY <1>3, <2>3 DEF slot
      <3> QED
        BY <1>6, <1>7, <1>9, <3>1, <3>2 DEF SlotOK
    <2>4. \A c : SlotOK(c) => SlotOK(c)'
      BY <1>1, <1>2, <1>7, <1>8, <1>9, Grown
    <2>5. \A s \in DOMAIN cachedFrames' : SlotOK(cachedFrames[s])'
      <3> SUFFICES ASSUME NEW s \in DOMAIN cachedFrames' PROVE SlotOK(cachedFrames[s])'
        OBVIOUS
      <3>1. CASE s = at
        BY <2>2, <2>3, <3>1
      <3>2. CASE s # at
        <4>1. SlotOK(cachedFrames[s]) /\ cachedFrames'[s] = cachedFrames[s]
          BY <2>1, <2>2, <3>2
        <4> QED
          BY <2>4, <4>1
      <3> QED
        BY <3>1, <3>2
    <2>6. cachedFrames'[at].nal = Len(nals')
      BY <1>7, <2>2 DEF slot
    <2> QED
      BY <1>11, <2>1, <2>2, <2>5, <2>6 DEF CacheOK
  <1>13. StreamOK(wire, pendingFrame, delivered)'
    <2> USE DEF new
    <2>1. WireOK(wire)'
      <3>1. \A p : PacketOK(p) => PacketOK(p)'
        BY <1>1, <1>2, <1>7, <1>8, <1>9, Grown
      <3> QED
        BY <1>1, <1>2, <3>1 DEF StreamOK, WireOK
    <2> HIDE DEF new
    <2>2. \A n \in DOMAIN nals : \A i : Coming(wire, n, i)' => Coming(wire, n, i)
      <3>1. \A n \in DOMAIN nals : n # new
        BY <1>4 DEF new
      <3> QED
        BY <1>2, <1>7, <3>1 DEF Coming
    <2>3. \A c \in DOMAIN nals : Ahead(wire, pendingFrame, c) => Ahead(wire, pendingFrame, c)'
      BY <1>2, <2>2 DEF Ahead, clientVars
    <2>4. \A k \in DOMAIN wire : wire[k].nal \in DOMAIN nals
      BY <1>1 DEF StreamOK, WireOK, PacketOK
    <2>5. ASSUME InOrder(wire) PROVE InOrder(wire)'
      <3>1. \A j \in DOMAIN wire : \A i : Before(wire[j], new, i)
        BY <1>4, <2>4 DEF Before, new
      <3>2. \A p, n, i : Before(p, n, i)' <=> Before(p, n, i)
        BY DEF Before
      <3> QED
        BY <1>2, <1>7, <2>5, <3>1, <3>2 DEF InOrder
    <2>6. \A q, c : Undelivered(q, c)' <=> Undelivered(q, c)
      BY DEF Undelivered
    <2>7. ASSUME served = <<>>, NothingTwice(wire, delivered)
          PROVE  NothingTwice(wire, delivered)'
      <3>1. Undelivered(delivered, new)
        <4> SUFFICES ASSUME NEW d \in DOMAIN delivered
                     PROVE  delivered[d][1] < new
          BY DEF Undelivered
        <4>1. PICK n \in DOMAIN nals : delivered[d] = [k \in 1..nals[n].total |-> n]
          BY <1>1, <2>7 DEF StreamOK, DeliveredOK, IsFine, Loose
        <4>2. nals[n].total \in Nat /\ nals[n].total > 0 /\ n \in Nat
          BY <1>1, NalType
        <4>3. delivered[d][1] = n
          BY <4>1, <4>2
        <4> QED
          BY <1>4, <4>3 DEF new
      <3> QED
        BY <1>2, <1>9, <2>2, <2>6, <2>7, <3>1 DEF NothingTwice, clientVars
    <2>8. served = <<>> => InOrder(wire) /\ NothingTwice(wire, delivered)
      BY <1>1 DEF StreamOK
    <2> QED
      BY <1>1, <1>2, <1>7, <1>8, <1>9, <2>1, <2>3, <2>5, <2>7, <2>8, StreamGrown
  <1> QED
    BY <1>8, <1>10, <1>12, <1>13 DEF IInv

\* A packet is sent, and the parity of its group at the end of it.
LEMMA SendKeeps ==
    ASSUME IInv, SendPacket
    PROVE  IInv'
  <1> DEFINE n == Len(nals)
             endsGroup == sent + 1 = nals[n].total \/ (sent + 1) % FecGroupSize = 0
             at == CHOOSE s \in DOMAIN cachedFrames : cachedFrames[s].nal = n
             data == Packet("data", n, sent)
             parity == Packet("parity", n, GroupOf(sent))
             more == IF endsGroup THEN <<parity>> ELSE <<>>
  <1>1. ServerType /\ OneSlice /\ CacheOK /\ StreamOK(wire, pendingFrame, delivered)
    BY DEF IInv
  <1>2. /\ wire' = wire \o <<data>> \o more
        /\ cachedFrames' = [cachedFrames EXCEPT ![at].filled = @ \cup {sent}]
        /\ sent' = sent + 1
        /\ UNCHANGED <<frameIndex, toEmit, nals, cacheWriteIndex, nackWire, lost, served>>
        /\ UNCHANGED clientVars
    BY DEF SendPacket
  <1>3. nals # <<>> /\ sent # nals[n].total
    BY DEF SendPacket, NalDone, Last
  <1>4. /\ nals \in Seq([frame : 1..MaxFrames, total : Nat \ {0}])
        /\ n \in Nat /\ n > 0 /\ n \in DOMAIN nals /\ DOMAIN nals = 1..n
        /\ nals[n].total \in Nat /\ sent \in Nat
        /\ nals[n].frame \in Nat
    <2>1. nals \in Seq([frame : 1..MaxFrames, total : Nat \ {0}]) /\ sent \in Nat
      BY <1>1 DEF ServerType
    <2>2. n \in Nat /\ DOMAIN nals = 1..n /\ n > 0
      BY <1>3, <2>1
    <2>3. n \in DOMAIN nals
      BY <2>2
    <2> HIDE DEF n
    <2> QED
      BY <1>1, <2>1, <2>2, <2>3, NalType
  <1>5. sent < nals[n].total
    BY <1>1, <1>3, <1>4 DEF OneSlice
  <1>6. /\ data = [kind |-> "data", nal |-> n, frame |-> nals[n].frame, index |-> sent,
                   total |-> nals[n].total]
        /\ parity = [kind |-> "parity", nal |-> n, frame |-> nals[n].frame,
                     index |-> GroupOf(sent), total |-> nals[n].total]
    BY DEF Packet
  <1>7. GroupOf(sent) \in Nat /\ GroupOf(sent) \in Groups(nals[n].total)
    <2>2. GroupOf(sent) \in Nat
      BY <1>4, GroupType
    <2>3. sent \in 0..(nals[n].total - 1)
      BY <1>4, <1>5
    <2> QED
      BY <2>2, <2>3, GroupIsOne
  <1>8. ServerType'
    BY <1>1, <1>2, <1>4 DEF ServerType, Nacks
  <1>9. OneSlice'
    BY <1>1, <1>2, <1>4, <1>5 DEF OneSlice
  <1> HIDE DEF at, data, parity, more, endsGroup
  <1>10. \E s \in DOMAIN cachedFrames : cachedFrames[s].nal = n
    BY <1>1, <1>3 DEF CacheOK
  <1>11. at \in DOMAIN cachedFrames /\ cachedFrames[at].nal = n
    BY <1>10 DEF at
  <1>12. CacheOK'
    <2>1. /\ DOMAIN cachedFrames = 0..(MaxCachedFrames - 1)
          /\ \A s \in DOMAIN cachedFrames : SlotOK(cachedFrames[s])
      BY <1>1 DEF CacheOK
    <2> DEFINE slot == [cachedFrames[at] EXCEPT !.filled = @ \cup {sent}]
    <2>2. /\ DOMAIN cachedFrames' = DOMAIN cachedFrames /\ cachedFrames'[at] = slot
          /\ \A s \in DOMAIN cachedFrames : s # at => cachedFrames'[s] = cachedFrames[s]
      BY <1>2, <1>11, <2>1
    <2>3. /\ cachedFrames[at] \in [frame : Nat, nal : Nat, total : Nat, filled : SUBSET Nat]
          /\ cachedFrames[at].filled \subseteq 0..(cachedFrames[at].total - 1)
          /\ cachedFrames[at].frame = nals[n].frame /\ cachedFrames[at].total = nals[n].total
      BY <1>4, <1>11, <2>1 DEF SlotOK
    <2>4. /\ slot.nal = n /\ slot.frame = nals[n].frame /\ slot.total = nals[n].total
          /\ slot.filled = cachedFrames[at].filled \cup {sent}
          /\ slot \in [frame : Nat, nal : Nat, total : Nat, filled : SUBSET Nat]
      BY <1>4, <1>11, <2>3
    <2> HIDE DEF slot
    <2>5. slot.filled \subseteq 0..(slot.total - 1)
      BY <1>4, <1>5, <2>3, <2>4
    <2>6. SlotOK(slot)
      BY <1>4, <2>4, <2>5 DEF SlotOK
    <2>7. \A c : SlotOK(c) => SlotOK(c)'
      BY <1>2 DEF SlotOK
    <2>8. \A s \in DOMAIN cachedFrames' : SlotOK(cachedFrames[s])'
      <3> SUFFICES ASSUME NEW s \in DOMAIN cachedFrames' PROVE SlotOK(cachedFrames[s])'
        OBVIOUS
      <3>1. SlotOK(cachedFrames'[s])
        BY <2>1, <2>2, <2>6
      <3> QED
        BY <2>7, <3>1
    <2>9. cachedFrames'[at].nal = Len(nals')
      BY <1>2, <2>2, <2>4
    <2> QED
      BY <1>11, <2>1, <2>2, <2>8, <2>9 DEF CacheOK
  <1>13. /\ wire \in Seq(AnyPacket) /\ Len(wire) \in Nat /\ DOMAIN wire = 1..Len(wire)
         /\ data \in AnyPacket /\ parity \in AnyPacket
    BY <1>1, <1>4, <1>6, <1>7 DEF StreamOK, WireOK, AnyPacket
  <1>14. /\ wire' \in Seq(AnyPacket)
         /\ \A k \in DOMAIN wire : k \in DOMAIN wire' /\ wire'[k] = wire[k]
         /\ \A k \in DOMAIN wire' : \/ k \in DOMAIN wire /\ wire'[k] = wire[k]
                                    \/ k = Len(wire) + 1 /\ wire'[k] = data
                                    \/ k = Len(wire) + 2 /\ wire'[k] = parity /\ endsGroup
    <2> DEFINE v == wire \o <<data>>
    <2>3. /\ v \in Seq(AnyPacket) /\ Len(v) = Len(wire) + 1 /\ DOMAIN v = 1..Len(v)
          /\ v[Len(wire) + 1] = data /\ \A k \in DOMAIN wire : v[k] = wire[k]
      BY <1>13
    <2> HIDE DEF v
    <2>1. CASE endsGroup
      <3>1. wire' = v \o <<parity>>
        BY <1>2, <2>1 DEF more, v
      <3>2. /\ wire' \in Seq(AnyPacket) /\ Len(wire') = Len(v) + 1 /\ DOMAIN wire' = 1..Len(wire')
            /\ wire'[Len(v) + 1] = parity /\ \A k \in DOMAIN v : wire'[k] = v[k]
        BY <1>13, <2>3, <3>1
      <3> QED
        BY <1>13, <2>1, <2>3, <3>2
    <2>2. CASE ~endsGroup
      BY <1>2, <1>13, <2>2 DEF more
    <2> QED
      BY <2>1, <2>2
  <1>15. PacketOK(data) /\ PacketOK(parity)
    BY <1>4, <1>5, <1>6, <1>7 DEF PacketOK, Packet
  <1>16. StreamOK(wire, pendingFrame, delivered)'
    <2>1. WireOK(wire)'
      <3>1. \A k \in DOMAIN wire' : PacketOK(wire'[k])
        BY <1>1, <1>14, <1>15 DEF StreamOK, WireOK
      <3>2. \A p : PacketOK(p) => PacketOK(p)'
        BY <1>2 DEF PacketOK, Packet
      <3> QED
        BY <1>14, <3>1, <3>2 DEF WireOK
    <2>2. \A m, i : Coming(wire, m, i)' => Coming(wire, m, i)
      <3> SUFFICES ASSUME NEW m, NEW i, Coming(wire, m, i)' PROVE Coming(wire, m, i)
        OBVIOUS
      <3>1. CASE m = Len(nals') /\ i \in sent'..(nals'[m].total - 1)
        <4>1. m = n /\ i \in sent..(nals[n].total - 1)
          BY <1>2, <1>4, <3>1
        <4> QED
          BY <1>3, <4>1 DEF Coming
      <3>2. CASE \E k \in DOMAIN wire' :
                    wire'[k].kind = "data" /\ wire'[k].nal = m /\ wire'[k].index = i
        <4>1. PICK k \in DOMAIN wire' :
                      wire'[k].kind = "data" /\ wire'[k].nal = m /\ wire'[k].index = i
          BY <3>2
        <4>2. CASE k \in DOMAIN wire
          BY <1>14, <4>1, <4>2 DEF Coming
        <4>3. CASE wire'[k] = data
          BY <1>3, <1>4, <1>5, <1>6, <4>1, <4>3 DEF Coming
        <4> QED
          BY <1>6, <1>14, <4>1, <4>2, <4>3
      <3> QED
        BY <3>1, <3>2 DEF Coming
    <2>3. \A c \in DOMAIN nals : Ahead(wire, pendingFrame, c) => Ahead(wire, pendingFrame, c)'
      <3> SUFFICES ASSUME NEW c \in DOMAIN nals, Ahead(wire, pendingFrame, c)
                   PROVE  Ahead(wire, pendingFrame, c)'
        OBVIOUS
      <3>1. c <= n
        BY <1>4
      <3>2. data.nal = n /\ parity.nal = n
        BY <1>6
      <3> HIDE DEF n
      <3>3. \A k \in DOMAIN wire' : c <= wire'[k].nal
        BY <1>14, <3>1, <3>2 DEF Ahead
      <3> QED
        BY <1>2, <2>2, <3>3 DEF Ahead, clientVars
    <2>4. \A q, c : Undelivered(q, c)' <=> Undelivered(q, c)
      BY DEF Undelivered
    <2>5. NothingTwice(wire, delivered) => NothingTwice(wire, delivered)'
      BY <1>2, <2>2, <2>4 DEF NothingTwice, clientVars
    <2>6. ASSUME InOrder(wire) PROVE InOrder(wire)'
      <3>1. \A k \in DOMAIN wire : /\ wire[k].nal \in Nat /\ wire[k].nal <= n
                                   /\ Before(wire[k], n, sent)
        <4>1. \A k \in DOMAIN wire : wire[k].nal \in DOMAIN nals
          BY <1>1 DEF StreamOK, WireOK, PacketOK
        <4>2. sent \in sent..(nals[n].total - 1)
          BY <1>4, <1>5
        <4> QED
          BY <1>3, <1>4, <2>6, <4>1, <4>2 DEF InOrder
      <3>2. /\ data.nal = n /\ data.kind = "data" /\ data.index = sent
            /\ parity.nal = n /\ parity.kind = "parity" /\ parity.index = GroupOf(sent)
        BY <1>6
      <3>3. ASSUME endsGroup, NEW i \in Nat, i \in (sent + 1)..(nals[n].total - 1)
            PROVE  GroupOf(sent) < GroupOf(i)
        <4>1. (sent + 1) % FecGroupSize = 0 /\ sent < i
          BY <1>4, <3>3 DEF endsGroup
        <4> QED
          BY <1>4, <4>1, GroupsEnd
      <3>4. ASSUME NEW j \in DOMAIN wire', NEW k \in DOMAIN wire', j < k
            PROVE  /\ wire'[j].nal <= wire'[k].nal
                   /\ wire'[k].kind = "data" => Before(wire'[j], wire'[k].nal, wire'[k].index)
        <4>1. CASE k \in DOMAIN wire
          <5>1. j \in DOMAIN wire
            BY <1>13, <1>14, <3>4, <4>1
          <5> QED
            BY <1>14, <2>6, <3>4, <4>1, <5>1 DEF InOrder
        <4>2. CASE k = Len(wire) + 1 /\ wire'[k] = data
          <5>1. j \in DOMAIN wire
            BY <1>13, <1>14, <3>4, <4>2
          <5> QED
            BY <1>14, <3>1, <3>2, <4>2, <5>1
        <4>3. CASE wire'[k] = parity
          <5>1. wire'[j].nal <= n
            BY <1>4, <1>14, <3>1, <3>2, SMTT(20)
          <5> QED
            BY <3>2, <4>3, <5>1
        <4> QED
          BY <1>14, <4>1, <4>2, <4>3
      <3>5. ASSUME NEW j \in DOMAIN wire', NEW i \in Nat, i \in (sent + 1)..(nals[n].total - 1)
            PROVE  Before(wire'[j], n, i)
        <4>1. CASE j \in DOMAIN wire
          <5>1. i \in sent..(nals[n].total - 1)
            BY <1>4, <3>5
          <5> QED
            BY <1>3, <1>14, <2>6, <4>1, <5>1 DEF InOrder
        <4>2. CASE wire'[j] = data
          <5>1. i # sent
            BY <1>4, <3>5
          <5> QED
            BY <1>4, <3>2, <4>2, <5>1 DEF Before
        <4>3. CASE wire'[j] = parity /\ endsGroup
          BY <1>4, <3>2, <3>3, <3>5, <4>3 DEF Before
        <4> QED
          BY <1>14, <4>1, <4>2, <4>3
      <3>6. \A p, m, i : Before(p, m, i)' <=> Before(p, m, i)
        BY DEF Before
      <3> QED
        BY <1>2, <3>4, <3>5, <3>6 DEF InOrder
    <2>7. served = <<>> => InOrder(wire) /\ NothingTwice(wire, delivered)
      BY <1>1 DEF StreamOK
    <2> QED
      BY <1>1, <1>2, <1>8, <2>1, <2>3, <2>5, <2>6, <2>7, StreamGrown
  <1> QED
    BY <1>8, <1>9, <1>12, <1>16 DEF IInv

\* What is sent again was cut from a NAL unit.
LEMMA ResentOK ==
    ASSUME ServerType, CacheOK, NEW nack, CachedSlots(nack.frame) # {}
    PROVE  LET again == Resent(nack, cachedFrames[Min(CachedSlots(nack.frame))]) IN
             again \in Seq(AnyPacket) /\ \A k \in DOMAIN again : PacketOK(again[k])
  <1> DEFINE slots == CachedSlots(nack.frame)
             cached == cachedFrames[Min(slots)]
             S == Requested(nack, cached)
             Nth(k) == CHOOSE i \in S : Cardinality({j \in S : j <= i}) = k
             again == [k \in 1..Cardinality(S) |-> Packet("data", cached.nal, Nth(k))]
  <1>1. Resent(nack, cached) = again
    BY DEF Resent
  <1>2. slots \subseteq 0..(MaxCachedFrames - 1) /\ slots \subseteq DOMAIN cachedFrames
    BY DEF CachedSlots, CacheOK
  <1>3. Min(slots) \in slots
    <2>1. MaxCachedFrames \in Nat
      BY TransportAssumption
    <2>2. IsFiniteSet(0..(MaxCachedFrames - 1)) /\ slots \in SUBSET Nat
      BY <1>2, <2>1, FS_Interval
    <2>3. IsFiniteSet(slots)
      BY <1>2, <2>2, FS_Subset
    <2>4. Cardinality(slots) \in Nat /\ Cardinality(slots) # 0
      BY <2>3, FS_CardinalityType, FS_EmptySet
    <2> HIDE DEF slots
    <2>5. PICK x \in slots : Cardinality({j \in slots : j <= x}) = 1
      BY <2>2, <2>3, <2>4, RankExists
    <2>6. \A y \in slots : x <= y
      <3> SUFFICES ASSUME NEW y \in slots, y < x PROVE FALSE
        BY <2>2
      <3> DEFINE T == {j \in slots : j <= x}
      <3>1. IsFiniteSet(T)
        BY <2>3, FS_Subset
      <3>2. x \in T /\ y \in T /\ x # y
        BY <2>2
      <3>3. Cardinality({x, y}) = 2 /\ {x, y} \in SUBSET T
        <4>1. IsFiniteSet({x}) /\ Cardinality({x}) = 1
          BY FS_Singleton
        <4>2. Cardinality({x} \cup {y}) = 2
          BY <3>2, <4>1, FS_AddElement, SMTT(20)
        <4>3. {x} \cup {y} = {x, y}
          OBVIOUS
        <4> HIDE DEF T
        <4> QED
          BY <3>2, <4>2, <4>3
      <3>4. Cardinality(T) = 1
        BY <2>5
      <3> HIDE DEF T
      <3>5. Cardinality({x, y}) <= Cardinality(T)
        BY <3>1, <3>3, FS_Subset
      <3> QED
        BY <3>3, <3>4, <3>5
    <2> QED
      BY <2>5, <2>6 DEF Min
  <1>4. Min(slots) \in DOMAIN cachedFrames /\ cached.total > 0
    BY <1>3 DEF CachedSlots
  <1> HIDE DEF slots
  <1>5. SlotOK(cached)
    BY <1>4 DEF CacheOK
  <1> HIDE DEF cached
  <1>6. /\ cached.nal \in DOMAIN nals /\ cached.total = nals[cached.nal].total
        /\ cached.filled \subseteq 0..(cached.total - 1) /\ cached.total \in Nat
    BY <1>4, <1>5 DEF SlotOK
  <1>7. S \in SUBSET (0..(cached.total - 1)) /\ S \in SUBSET Nat
    BY <1>6 DEF Requested
  <1>8. IsFiniteSet(S)
    <2>1. 0 \in Int /\ cached.total - 1 \in Int
      BY <1>6
    <2>2. IsFiniteSet(0..(cached.total - 1))
      BY <2>1, FS_Interval
    <2> QED
      BY <1>7, <2>2, FS_Subset
  <1>9. Cardinality(S) \in Nat
    BY <1>8, FS_CardinalityType
  <1> HIDE DEF S
  <1>10. \A k \in 1..Cardinality(S) : Nth(k) \in S
    BY <1>7, <1>8, RankExists
  <1> HIDE DEF Nth
  <1>11. ASSUME NEW i \in S
         PROVE  Packet("data", cached.nal, i) \in AnyPacket /\ PacketOK(Packet("data", cached.nal, i))
    <2>1. i \in 0..(nals[cached.nal].total - 1) /\ i \in Nat
      BY <1>6, <1>7
    <2>2. cached.nal \in Nat /\ nals[cached.nal].frame \in Nat /\ nals[cached.nal].total \in Nat
      BY <1>6, NalType
    <2> QED
      BY <1>6, <2>1, <2>2 DEF Packet, PacketOK, AnyPacket
  <1>12. \A k \in 1..Cardinality(S) : again[k] \in AnyPacket /\ PacketOK(again[k])
    BY <1>10, <1>11
  <1>13. DOMAIN again = 1..Cardinality(S) /\ again = [k \in 1..Cardinality(S) |-> again[k]]
    OBVIOUS
  <1> HIDE DEF again
  <1>14. again \in Seq(AnyPacket)
    BY <1>9, <1>12, <1>13
  <1> QED
    BY <1>1, <1>12, <1>13, <1>14 DEF cached, slots

\* A NACK is answered.
LEMMA ResendKeeps ==
    ASSUME IInv, HandleNackRequest
    PROVE  IInv'
  <1> DEFINE nack == Head(nackWire)
             cached == cachedFrames[Min(CachedSlots(nack.frame))]
  <1>1. ServerType /\ OneSlice /\ CacheOK /\ StreamOK(wire, pendingFrame, delivered)
    BY DEF IInv
  <1>2. /\ nackWire # <<>> /\ nackWire' = Tail(nackWire) /\ served' = Append(served, nack)
        /\ wire' = IF CachedSlots(nack.frame) = {} THEN wire ELSE wire \o Resent(nack, cached)
        /\ UNCHANGED <<frameIndex, toEmit, nals, sent, cachedFrames, cacheWriteIndex>>
        /\ UNCHANGED clientVars
    BY DEF HandleNackRequest, serverVars
  <1>3. /\ nackWire' \in Seq(Nacks) /\ served' \in Seq(Nacks) /\ served' # <<>>
    <2>1. nackWire \in Seq(Nacks) /\ served \in Seq(Nacks)
      BY <1>1 DEF ServerType
    <2>2. nack \in Nacks
      BY <1>2, <2>1
    <2> HIDE DEF nack
    <2> QED
      BY <1>2, <2>1, <2>2
  <1> HIDE DEF nack, cached
  <1>4. ServerType'
    BY <1>1, <1>2, <1>3 DEF ServerType, Nacks
  <1>5. OneSlice' /\ CacheOK'
    BY <1>1, <1>2 DEF OneSlice, CacheOK, SlotOK
  <1>6. WireOK(wire)'
    <2>1. wire' \in Seq(AnyPacket) /\ \A k \in DOMAIN wire' : PacketOK(wire'[k])
      <3>1. wire \in Seq(AnyPacket) /\ \A k \in DOMAIN wire : PacketOK(wire[k])
        BY <1>1 DEF StreamOK, WireOK
      <3>2. CASE CachedSlots(nack.frame) = {}
        BY <1>2, <3>1, <3>2
      <3>3. CASE CachedSlots(nack.frame) # {}
        <4> DEFINE again == Resent(nack, cached)
        <4>1. again \in Seq(AnyPacket) /\ \A k \in DOMAIN again : PacketOK(again[k])
          BY <1>1, <3>3, ResentOK DEF cached
        <4>2. wire' = wire \o again
          BY <1>2, <3>3
        <4> HIDE DEF again
        <4>3. /\ wire' \in Seq(AnyPacket)
              /\ \A k \in DOMAIN wire' : \/ k \in DOMAIN wire /\ wire'[k] = wire[k]
                                         \/ /\ k - Len(wire) \in DOMAIN again
                                            /\ wire'[k] = again[k - Len(wire)]
          BY <3>1, <4>1, <4>2
        <4> QED
          BY <3>1, <4>1, <4>3
      <3> QED
        BY <3>2, <3>3
    <2>2. \A p : PacketOK(p) => PacketOK(p)'
      BY <1>2 DEF PacketOK, Packet
    <2> QED
      BY <2>1, <2>2 DEF WireOK
  <1>7. StreamOK(wire, pendingFrame, delivered)'
    BY <1>1, <1>2, <1>3, <1>4, <1>6, StreamGrown
  <1> QED
    BY <1>4, <1>5, <1>7 DEF IInv

\* Steps that leave the server alone and take packets from the wire.
LEMMA ClientKeeps ==
    ASSUME OneSlice, CacheOK, ServerType',
           StreamOK(wire', pendingFrame', delivered'), UNCHANGED <<serverVars, served>>
    PROVE  IInv'
  <1>1. UNCHANGED <<frameIndex, toEmit, nals, sent, cachedFrames, cacheWriteIndex, served>>
    BY DEF serverVars
  <1>2. OneSlice' /\ CacheOK'
    BY <1>1 DEF OneSlice, CacheOK, SlotOK
  <1>3. /\ \A p : PacketOK(p)' <=> PacketOK(p)
        /\ \A n : Loose(n)' <=> Loose(n)
        /\ \A r : BufferType(r)' <=> BufferType(r)
        /\ \A r : Begun(r)' <=> Begun(r)
        /\ \A w, n, i : Coming(w, n, i)' <=> Coming(w, n, i)
        /\ \A p, n, i : Before(p, n, i)' <=> Before(p, n, i)
        /\ \A q, c : Undelivered(q, c)' <=> Undelivered(q, c)
        /\ \A q : Ordered(q)' <=> Ordered(q)
    <2>1. \A p : PacketOK(p)' <=> PacketOK(p)
      BY <1>1 DEF PacketOK, Packet
    <2>2. \A n : Loose(n)' <=> Loose(n)
      BY <1>1 DEF Loose, Alone
    <2>3. \A r : BufferType(r)' <=> BufferType(r)
      BY <1>1 DEF BufferType, Payloads
    <2>4. \A r : Begun(r)' <=> Begun(r)
      BY <1>1 DEF Begun
    <2>5. \A w, n, i : Coming(w, n, i)' <=> Coming(w, n, i)
      BY <1>1 DEF Coming
    <2>6. \A p, n, i : Before(p, n, i)' <=> Before(p, n, i)
      BY DEF Before
    <2>7. (\A q, c : Undelivered(q, c)' <=> Undelivered(q, c)) /\ (\A q : Ordered(q)' <=> Ordered(q))
      BY DEF Undelivered, Ordered
    <2> QED
      BY <2>1, <2>2, <2>3, <2>4, <2>5, <2>6, <2>7
  <1>4. \A x, c : MayHold(x, c)' <=> MayHold(x, c)
    BY <1>1, <1>3 DEF MayHold
  <1>5. /\ \A r, c : Collects(r, c)' <=> Collects(r, c)
        /\ \A w, r, c : Ahead(w, r, c)' <=> Ahead(w, r, c)
        /\ \A s : IsFine(s)' <=> IsFine(s)
        /\ \A w : InOrder(w)' <=> InOrder(w)
        /\ \A w, q : NothingTwice(w, q)' <=> NothingTwice(w, q)
        /\ \A w : WireOK(w)' <=> WireOK(w)
    <2>1. \A r, c : Collects(r, c)' <=> Collects(r, c)
      BY <1>1, <1>3, <1>4 DEF Collects
    <2>2. \A w, r, c : Ahead(w, r, c)' <=> Ahead(w, r, c)
      BY <1>3 DEF Ahead
    <2>3. \A s : IsFine(s)' <=> IsFine(s)
      BY <1>1, <1>3 DEF IsFine
    <2>4. \A w : InOrder(w)' <=> InOrder(w)
      BY <1>1, <1>3 DEF InOrder
    <2>5. \A w, q : NothingTwice(w, q)' <=> NothingTwice(w, q)
      BY <1>1, <1>3 DEF NothingTwice
    <2>6. \A w : WireOK(w)' <=> WireOK(w)
      BY <1>3 DEF WireOK
    <2> QED
      BY <2>1, <2>2, <2>3, <2>4, <2>5, <2>6
  <1>6. /\ \A w, r, q : BufferOK(w, r, q)' <=> BufferOK(w, r, q)
        /\ \A q : DeliveredOK(q)' <=> DeliveredOK(q)
    BY <1>1, <1>3, <1>5 DEF BufferOK, DeliveredOK
  <1>7. StreamOK(wire, pendingFrame, delivered)'
    BY <1>1, <1>3, <1>5, <1>6 DEF StreamOK
  <1> QED
    BY <1>2, <1>7 DEF IInv

\* A packet is lost.
LEMMA LosePacketKeeps ==
    ASSUME IInv, LosePacket
    PROVE  IInv'
  <1>1. ServerType /\ OneSlice /\ CacheOK /\ StreamOK(wire, pendingFrame, delivered)
    BY DEF IInv
  <1>2. /\ wire # <<>> /\ wire' = Tail(wire)
        /\ UNCHANGED <<serverVars, nackWire, served, pendingFrame, delivered>>
    BY DEF LosePacket, clientVars
  <1>3. ServerType'
    BY <1>1, <1>2 DEF ServerType, Nacks, serverVars
  <1>4. /\ WireOK(Tail(wire))
        /\ InOrder(wire) => InOrder(Tail(wire))
        /\ \A r, c : Ahead(wire, r, c) => Ahead(Tail(wire), r, c)
        /\ \A q : NothingTwice(wire, q) => NothingTwice(Tail(wire), q)
    BY <1>1, <1>2, TailOfWire DEF StreamOK
  <1>5. StreamOK(Tail(wire), pendingFrame, delivered)
    BY <1>1, <1>4 DEF StreamOK, BufferOK
  <1>6. StreamOK(wire', pendingFrame', delivered')
    BY <1>2, <1>5
  <1> QED
    BY <1>1, <1>2, <1>3, <1>6, ClientKeeps

\* A NACK is lost.
LEMMA LoseNackKeeps ==
    ASSUME IInv, LoseNack
    PROVE  IInv'
  <1>1. ServerType /\ OneSlice /\ CacheOK /\ StreamOK(wire, pendingFrame, delivered)
    BY DEF IInv
  <1>2. /\ nackWire # <<>> /\ nackWire' = Tail(nackWire)
        /\ UNCHANGED <<serverVars, wire, served, pendingFrame, delivered>>
    BY DEF LoseNack, clientVars
  <1>3. nackWire' \in Seq(Nacks)
    <2>1. nackWire \in Seq(Nacks)
      BY <1>1 DEF ServerType
    <2> QED
      BY <1>2, <2>1
  <1>4. ServerType'
    BY <1>1, <1>2, <1>3 DEF ServerType, Nacks, serverVars
  <1>5. StreamOK(wire', pendingFrame', delivered')
    BY <1>1, <1>2
  <1> QED
    BY <1>1, <1>2, <1>4, <1>5, ClientKeeps

\* Nothing was encoded, sent or delivered yet.
LEMMA InitHolds == Init => IInv
  <1> SUFFICES ASSUME Init PROVE IInv
    OBVIOUS
  <1>1. MaxCachedFrames \in Nat /\ MaxFrames \in Nat /\ MaxCachedFrames > 0
    BY TransportAssumption
  <1>2. ServerType
    BY <1>1 DEF Init, ServerType
  <1>3. OneSlice
    BY DEF Init, OneSlice
  <1>4. CacheOK
    BY <1>1 DEF Init, CacheOK, SlotOK
  <1>5. WireOK(wire) /\ InOrder(wire)
    BY DEF Init, WireOK, InOrder
  <1>6. BufferOK(wire, pendingFrame, delivered)
    BY DEF Init, NoFrame, BufferOK, BufferType
  <1>7. DeliveredOK(delivered) /\ NothingTwice(wire, delivered) /\ Ordered(delivered)
    BY DEF Init, DeliveredOK, NothingTwice, Undelivered, Ordered
  <1> QED
    BY <1>2, <1>3, <1>4, <1>5, <1>6, <1>7 DEF IInv, StreamOK

\* Every step preserves the inductive invariant.
LEMMA NextKeeps == IInv /\ [Next]_vars => IInv'
  <1> SUFFICES ASSUME IInv, [Next]_vars PROVE IInv'
    OBVIOUS
  <1>1. CASE EncodeFrame
    BY <1>1, EncodeKeeps
  <1>2. CASE StartNalUnit
    BY <1>2, StartKeeps
  <1>3. CASE SendPacket
    BY <1>3, SendKeeps
  <1>4. CASE HandleNackRequest
    BY <1>4, ResendKeeps
  <1>5. CASE LosePacket
    BY <1>5, LosePacketKeeps
  <1>6. CASE LoseNack
    BY <1>6, LoseNackKeeps
  <1>7. CASE ReassembleFrame
    <2>1. OneSlice /\ CacheOK /\ UNCHANGED <<serverVars, served>>
      BY <1>7 DEF IInv, ReassembleFrame
    <2> QED
      BY <1>7, <2>1, ReceiveKeeps, ClientKeeps
  <1>8. CASE UNCHANGED vars
    <2>1. /\ UNCHANGED <<serverVars, nackWire, served, wire, pendingFrame, delivered>>
          /\ ServerType /\ OneSlice /\ CacheOK /\ StreamOK(wire, pendingFrame, delivered)
      BY <1>8 DEF IInv, vars, networkVars, clientVars
    <2>2. ServerType'
      BY <2>1 DEF ServerType, Nacks, serverVars
    <2>3. StreamOK(wire', pendingFrame', delivered')
      BY <2>1
    <2> QED
      BY <2>1, <2>2, <2>3, ClientKeeps
  <1> QED
    BY <1>1, <1>2, <1>3, <1>4, <1>5, <1>6, <1>7, <1>8 DEF Next

\* IInv holds in every state, for any number of frames, packets and losses.
THEOREM IInvHolds == Spec => []IInv
  BY InitHolds, NextKeeps, PTL DEF Spec

\* Every packet on the wire and in the cache is one its NAL unit has
\* (SendNalUnit, HandleNackRequest).
THEOREM TypeOKHolds == Spec => []TypeOK
  <1>1. IInv => TypeOK
    <2> SUFFICES ASSUME IInv PROVE TypeOK
      OBVIOUS
    <2>1. ServerType /\ CacheOK /\ WireOK(wire) /\ BufferType(pendingFrame)
      BY DEF IInv, StreamOK, BufferOK
    <2>2. ASSUME NEW i \in DOMAIN wire
          PROVE  /\ wire[i] \in Packets
                 /\ wire[i].kind = "data" => wire[i].index < wire[i].total
                 /\ wire[i].kind = "parity" => wire[i].index \in Groups(wire[i].total)
      <3> DEFINE p == wire[i]
      <3>1. PacketOK(p) /\ p \in AnyPacket
        BY <2>1 DEF WireOK
      <3> HIDE DEF p
      <3>2. /\ p.nal \in 1..Len(nals) /\ nals[p.nal].frame \in 1..MaxFrames
            /\ nals[p.nal].total \in Nat \ {0}
            /\ p.frame = nals[p.nal].frame /\ p.total = nals[p.nal].total
        BY <2>1, <3>1, NalType DEF PacketOK, Packet
      <3>3. p \in Packets
        BY <3>1, <3>2 DEF Packets, AnyPacket
      <3> QED
        BY <3>1, <3>2, <3>3 DEF PacketOK, p
    <2>3. \A s \in DOMAIN cachedFrames :
             cachedFrames[s].filled \subseteq 0..(cachedFrames[s].total - 1)
      BY <2>1 DEF CacheOK, SlotOK
    <2>4. pendingFrame.packets
             \in [DOMAIN pendingFrame.packets -> (1..Len(nals)) \cup {Missing, Mixed}]
      BY <2>1 DEF BufferType, Payloads
    <2> QED
      BY <2>1, <2>2, <2>3, <2>4 DEF TypeOK, ServerType
  <1> QED
    BY <1>1, IInvHolds, PTL

\* The decoder is given whole NAL units, in order and once, as long as nothing is
\* retransmitted; the NAL unit of a frame that is one stays whole even then; and every
\* packet has a place in the buffer (ReassembleFrame, TryFecRecovery).
THEOREM DeliveredIntactHolds == Spec => []DeliveredIntact
  <1>1. IInv => DeliveredIntact
    <2> SUFFICES ASSUME IInv PROVE DeliveredIntact
      OBVIOUS
    <2>1. /\ ServerType /\ OneSlice /\ WireOK(wire)
          /\ BufferOK(wire, pendingFrame, delivered) /\ DeliveredOK(delivered)
          /\ served = <<>> => Ordered(delivered)
      BY DEF IInv, StreamOK
    <2>2. StoresInBounds
      <3> DEFINE p == Head(wire)
      <3> SUFFICES ASSUME wire # <<>>, p.kind = "data", ~StartsFrame(p, pendingFrame)
                   PROVE  p.index \in DOMAIN pendingFrame.packets
        BY DEF StoresInBounds
      <3>1. pendingFrame.total > 0 /\ p.frame = pendingFrame.frame
        BY <2>1 DEF StartsFrame, BufferOK, BufferType
      <3>2. PICK c \in DOMAIN nals :
               /\ Collects(pendingFrame, c) /\ Begun(pendingFrame)
               /\ served = <<>> => Ahead(wire, pendingFrame, c)
        BY <2>1, <3>1 DEF BufferOK
      <3>3. PacketOK(p)
        BY <2>1, TailOfWire
      <3>4. served = <<>> => c <= p.nal
        <4>1. wire \in Seq(AnyPacket)
          BY <2>1 DEF WireOK
        <4>2. 1 \in DOMAIN wire /\ p = wire[1]
          BY <4>1
        <4> QED
          BY <3>2, <4>2 DEF Ahead
      <3> HIDE DEF p
      <3> QED
        BY <2>1, <3>1, <3>2, <3>3, <3>4, PacketFits
    <2>3. ASSUME NEW d \in DOMAIN delivered
          PROVE  \E n \in Range(delivered[d]) \cap DOMAIN nals :
                    IsWhole(d, n) \/ (served # <<>> /\ ~Alone(n))
      BY <2>1 DEF DeliveredOK, IsFine, Loose, IsWhole, Range
    <2> QED
      BY <2>1, <2>2, <2>3 DEF DeliveredIntact, Ordered, FirstPayload
  <1> QED
    BY <1>1, IInvHolds, PTL

\* The headset gives a NAL unit up, and asks for what it lacks, only when parity could
\* not complete it (ReassembleFrame).
THEOREM DropsOnlyUnrepairableHolds == Spec => DropsOnlyUnrepairable
  <1>1. ASSUME IInv, [Next]_vars, pendingFrame.frame # pendingFrame'.frame, Partial(pendingFrame)
        PROVE  ~HasEnough(pendingFrame)
    <2> SUFFICES ASSUME HasEnough(pendingFrame) PROVE FALSE
      OBVIOUS
    <2> DEFINE r == pendingFrame
               p == Head(wire)
    <2>1. /\ ServerType /\ BufferOK(wire, r, delivered) /\ BufferType(r)
      BY <1>1 DEF IInv, StreamOK, BufferOK
    <2>2. PICK c \in DOMAIN nals : Collects(r, c)
      BY <1>1, <2>1 DEF BufferOK, Partial
    <2>3. ASSUME NEW i \in MissingOf(r) PROVE Repaired(r).packets[i] # Missing
      <3>1. i \in DOMAIN r.packets /\ r.packets[i] = Missing /\ i \in 0..(r.total - 1)
        BY <2>2, <2>3 DEF MissingOf, Collects
      <3> DEFINE g == GroupOf(i)
                 gap == GroupRange(g, r.total) \cap MissingOf(r)
      <3>2. g \in Groups(r.total)
        BY <3>1, GroupIsOne
      <3>3. i \in gap
        BY <2>3, <3>1 DEF GroupRange
      <3>4. IsFiniteSet(gap)
        <4>1. r.total \in Nat
          BY <2>1 DEF BufferType
        <4>2. IsFiniteSet(0..(r.total - 1))
          BY <4>1, FS_Interval
        <4>3. gap \in SUBSET (0..(r.total - 1))
          BY DEF GroupRange
        <4> QED
          BY <4>2, <4>3, FS_Subset
      <3>5. Gap(r, g) # 0
        BY <3>3, <3>4, FS_EmptySet DEF Gap
      <3>6. Repairable(r, g)
        BY <3>2, <3>5 DEF HasEnough, Repairable
      <3> QED
        <4>1. r.parity[g] # Missing
          BY <3>6 DEF Repairable
        <4>2. Repaired(r).packets[i] \in {r.parity[g], Mixed}
          BY <2>1, <3>1, <3>6, RepairedPacket
        <4> QED
          BY <4>1, <4>2
    <2>4. Complete(Repaired(r))
      <3>1. DOMAIN Repaired(r).packets = DOMAIN r.packets /\ Repaired(r).total = r.total
        <4>1. BufferType(Repaired(r)) /\ Collects(Repaired(r), c)
          BY <2>1, <2>2, RepairedCollects
        <4> QED
          BY <2>2, <4>1 DEF Collects
      <3>2. \A i \in DOMAIN r.packets : r.packets[i] # Missing
                                            => Repaired(r).packets[i] = r.packets[i]
        BY <2>1, RepairedPacket
      <3> QED
        BY <1>1, <2>3, <3>1, <3>2 DEF Complete, MissingOf, Partial
    <2>5. ReassembleFrame
      BY <1>1 DEF Next, vars, clientVars, EncodeFrame, StartNalUnit, SendPacket,
                  HandleNackRequest, LosePacket, LoseNack
    <2> DEFINE IsBuffer(s) ==
                  s = [frame |-> s.frame, total |-> s.total, packets |-> s.packets,
                       parity |-> s.parity]
    <2>6. ASSUME NEW s, IsBuffer(s), Finish(s) PROVE pendingFrame'.frame = s.frame
      <3>1. pendingFrame' = s \/ pendingFrame' = [s EXCEPT !.total = 0]
        BY <2>6 DEF Finish, Consumed
      <3> QED
        BY <2>6, <3>1
    <2>7. ASSUME NEW s, IsBuffer(s)
          PROVE  IsBuffer(Repaired(s)) /\ Repaired(s).frame = s.frame
      <3>1. PICK P : Repaired(s) = [s EXCEPT !.packets = P]
        BY DEF Repaired
      <3>2. Repaired(s) = [frame |-> s.frame, total |-> s.total, packets |-> P,
                           parity |-> s.parity]
        BY <2>7, <3>1
      <3> QED
        BY <3>2
    <2>8. IsBuffer(r)
      BY <2>1 DEF BufferType
    <2>9. ~ReceiveParity(p)
      <3> SUFFICES ASSUME ReceiveParity(p) PROVE FALSE
        OBVIOUS
      <3> DEFINE s == [pendingFrame EXCEPT !.parity[p.index] = p.nal]
      <3>1. s = [frame |-> r.frame, total |-> r.total, packets |-> r.packets,
                 parity |-> [r.parity EXCEPT ![p.index] = p.nal]]
        BY <2>8
      <3>2. IsBuffer(s) /\ s.frame = r.frame
        BY <3>1
      <3>3. Finish(s) \/ Finish(Repaired(s)) \/ pendingFrame' = pendingFrame
        BY DEF ReceiveParity, clientVars
      <3> HIDE DEF s, IsBuffer
      <3>4. pendingFrame'.frame = r.frame
        BY <2>6, <2>7, <3>2, <3>3
      <3> QED
        BY <1>1, <3>4
    <2>10. ~ReceiveOfPendingFrame(p)
      <3> SUFFICES ASSUME ReceiveOfPendingFrame(p) PROVE FALSE
        OBVIOUS
      <3> DEFINE s == [pendingFrame EXCEPT !.packets[p.index] = p.nal]
      <3>1. s = [frame |-> r.frame, total |-> r.total,
                 packets |-> [r.packets EXCEPT ![p.index] = p.nal], parity |-> r.parity]
        BY <2>8
      <3>2. IsBuffer(s) /\ s.frame = r.frame
        BY <3>1
      <3>3. Finish(s) \/ pendingFrame' = pendingFrame
        BY DEF ReceiveOfPendingFrame, Store
      <3> HIDE DEF s, IsBuffer
      <3> QED
        BY <1>1, <2>6, <3>2, <3>3
    <2>11. ~ReceiveOfNextFrame(p)
      <3> SUFFICES ASSUME ReceiveOfNextFrame(p) PROVE FALSE
        OBVIOUS
      <3>1. Finish(Repaired(r))
        BY <1>1, <2>4 DEF ReceiveOfNextFrame
      <3> HIDE DEF IsBuffer
      <3> QED
        BY <1>1, <2>6, <2>7, <2>8, <3>1
    <2> QED
      BY <2>5, <2>9, <2>10, <2>11 DEF ReassembleFrame
  <1>2. ASSUME IInv, [Next]_vars
        PROVE  [pendingFrame.frame # pendingFrame'.frame /\ Partial(pendingFrame)
                   => ~HasEnough(pendingFrame)]_vars
    BY <1>1, <1>2
  <1> QED
    BY <1>2, IInvHolds, PTL DEF Spec, DropsOnlyUnrepairable

-----------------------------------------------------------------------------
(* What one lost packet leaves. *)

AtMostOne(l) == \A p, q \in l : p = q

\* NAL unit n is cut into several packets.
IsSplit(n) == nals[n].total > 1

\* Parity g of NAL unit n is on the wire w or to be sent.
ParityComing(w, n, g) ==
    \/ \E k \in DOMAIN w : w[k].kind = "parity" /\ w[k].nal = n /\ w[k].index = g
    \/ nals # <<>> /\ n = Len(nals) /\ \E i \in sent..(nals[n].total - 1) : GroupOf(i) = g

Kept(r, n) == r.total > 0 /\ Collects(r, n)
Given(q, n) == \E d \in DOMAIN q : q[d][1] = n

\* Each packet of NAL unit n is to come, or one of the lost l, or in the buffer r.
Accounted(w, r, n, l) ==
    /\ \A i \in 0..(nals[n].total - 1) :
          Coming(w, n, i) \/ Packet("data", n, i) \in l \/ (Kept(r, n) /\ r.packets[i] = n)
    /\ \A g \in Groups(nals[n].total) :
          ParityComing(w, n, g) \/ Packet("parity", n, g) \in l \/ (Kept(r, n) /\ r.parity[g] = n)

\* A packet the buffer r lacks is to come.
Awaits(w, r, n) ==
    \/ \E i \in DOMAIN r.packets : Coming(w, n, i)
    \/ \E g \in DOMAIN r.parity : ParityComing(w, n, g) /\ r.parity[g] = Missing

\* The first packet of NAL unit n is to come, or one of the lost l.
Pending(w, n, l) == Coming(w, n, 0) \/ Packet("data", n, 0) \in l

OneLossOK(w, r, q, l) ==
    /\ \A n \in DOMAIN nals : IsSplit(n) /\ ~Given(q, n) => Accounted(w, r, n, l)
    /\ \A n \in DOMAIN nals : Kept(r, n) => Awaits(w, r, n)
    /\ \A n \in DOMAIN nals : ~IsSplit(n) /\ ~Given(q, n) => Pending(w, n, l)

\* Until a second packet is lost nothing is asked for again, and a NAL unit that is not
\* delivered waits for a packet that is still to come, or was the lost packet.
LossInv ==
    /\ IsFiniteSet(lost)
    /\ AtMostOne(lost) => /\ nackWire = <<>> /\ served = <<>>
                          /\ OneLossOK(wire, pendingFrame, delivered, lost)

\* Nothing retransmitted: a buffer that has a packet is one NAL unit's.
LEMMA CollectsOne ==
    ASSUME ServerType, served = <<>>, NEW r, NEW c, NEW n, Collects(r, c), Collects(r, n),
           \E i \in DOMAIN r.packets : r.packets[i] \in DOMAIN nals
    PROVE  n = c
  <1>1. PICK i \in DOMAIN r.packets : r.packets[i] \in DOMAIN nals
    OBVIOUS
  <1>2. r.packets[i] # Missing
    BY <1>1, NalType
  <1> QED
    BY <1>1, <1>2 DEF Collects, MayHold, Loose

\* A buffer that lacks a packet and awaits none lacks the one that was lost.
LEMMA LastPacket ==
    ASSUME ServerType, served = <<>>, NEW l, AtMostOne(l), NEW w, NEW r, NEW n, Collects(r, n),
           Accounted(w, r, n, l), ~Awaits(w, r, n), NEW i \in MissingOf(r)
    PROVE  /\ Packet("data", n, i) \in l
           /\ MissingOf(r) = {i}
           /\ \A g \in DOMAIN r.parity : r.parity[g] = n
  <1>1. /\ DOMAIN r.packets = 0..(nals[n].total - 1) /\ DOMAIN r.parity = Groups(nals[n].total)
        /\ n # Missing
    BY NalType DEF Collects
  <1>2. \A j \in DOMAIN r.packets : Packet("data", n, j) \in l \/ r.packets[j] = n
    BY <1>1 DEF Accounted, Awaits
  <1>3. \A g \in DOMAIN r.parity : Packet("parity", n, g) \in l \/ r.parity[g] = n
    <2>1. \A g \in DOMAIN r.parity : r.parity[g] = Missing \/ r.parity[g] = n
      BY DEF Collects, MayHold, Loose
    <2> QED
      BY <1>1, <2>1 DEF Accounted, Awaits
  <1>4. i \in DOMAIN r.packets /\ r.packets[i] = Missing
    BY DEF MissingOf
  <1>5. Packet("data", n, i) \in l
    BY <1>1, <1>2, <1>4
  <1>6. ASSUME NEW j \in DOMAIN r.packets, r.packets[j] = Missing PROVE j = i
    <2>1. Packet("data", n, j) \in l
      BY <1>1, <1>2, <1>6
    <2>2. Packet("data", n, j) = Packet("data", n, i)
      BY <1>5, <2>1 DEF AtMostOne
    <2> QED
      BY <2>2 DEF Packet
  <1>7. ASSUME NEW g \in DOMAIN r.parity PROVE r.parity[g] = n
    <2>1. Packet("parity", n, g) # Packet("data", n, i)
      BY DEF Packet
    <2> QED
      BY <1>3, <1>5, <2>1 DEF AtMostOne
  <1> QED
    BY <1>4, <1>5, <1>6, <1>7 DEF MissingOf

\* What was to come is still to come, but for the packet taken from the wire.
LEMMA HeadGone ==
    ASSUME NEW w, WireOK(w), w # <<>>
    PROVE  /\ \A n, i : Coming(w, n, i)
                 => \/ Coming(Tail(w), n, i)
                    \/ Head(w).kind = "data" /\ Head(w).nal = n /\ Head(w).index = i
           /\ \A n, g : ParityComing(w, n, g)
                 => \/ ParityComing(Tail(w), n, g)
                    \/ Head(w).kind = "parity" /\ Head(w).nal = n /\ Head(w).index = g
  <1> DEFINE v == Tail(w)
             p == Head(w)
  <1>1. w \in Seq(AnyPacket)
    BY DEF WireOK
  <1>2. ASSUME NEW k \in DOMAIN w PROVE w[k] = p \/ \E j \in DOMAIN v : v[j] = w[k]
    <2>1. /\ Len(w) \in Nat /\ DOMAIN w = 1..Len(w) /\ p = w[1]
          /\ v \in Seq(AnyPacket) /\ Len(v) = Len(w) - 1 /\ DOMAIN v = 1..Len(v)
          /\ \A j \in DOMAIN v : v[j] = w[j + 1]
      BY <1>1
    <2> HIDE DEF v, p
    <2>2. CASE k = 1
      BY <2>1, <2>2
    <2>3. CASE k # 1
      <3>1. k - 1 \in DOMAIN v /\ (k - 1) + 1 = k
        BY <2>1, <2>3
      <3> QED
        BY <2>1, <3>1
    <2> QED
      BY <2>2, <2>3
  <1> HIDE DEF v, p
  <1>3. \A n, i : Coming(w, n, i)
            => Coming(v, n, i) \/ (p.kind = "data" /\ p.nal = n /\ p.index = i)
    BY <1>2 DEF Coming
  <1>4. \A n, g : ParityComing(w, n, g)
            => ParityComing(v, n, g) \/ (p.kind = "parity" /\ p.nal = n /\ p.index = g)
    BY <1>2 DEF ParityComing
  <1> QED
    BY <1>3, <1>4 DEF v, p

\* A NAL unit that is being collected has several packets and was not delivered.
LEMMA KeptIsNotGiven ==
    ASSUME ServerType, served = <<>>, NEW q, DeliveredOK(q), NEW r, NEW c, Collects(r, c),
           Begun(r), Undelivered(q, c)
    PROVE  IsSplit(c) /\ ~Given(q, c)
  <1>1. /\ c \in DOMAIN nals /\ nals[c].total \in Nat /\ c \in Nat
        /\ DOMAIN r.packets = 0..(nals[c].total - 1)
    BY NalType DEF Collects
  <1>2. IsSplit(c)
    <2>1. PICK i \in DOMAIN r.packets, j \in DOMAIN r.packets :
             r.packets[i] = Missing /\ r.packets[j] \in DOMAIN nals
      BY DEF Begun
    <2>2. i # j
      BY <2>1, NalType
    <2> QED
      BY <1>1, <2>2 DEF IsSplit
  <1>3. ASSUME NEW d \in DOMAIN q, q[d][1] = c PROVE FALSE
    BY <1>1, <1>3 DEF Undelivered
  <1> QED
    BY <1>2, <1>3 DEF Given

\* Finish leaves a buffer that awaits a packet, or delivers it.
LEMMA FinishAwaits ==
    ASSUME ServerType, served = <<>>, DeliveredOK(delivered), NEW v, NEW l, NEW t, NEW c,
           BufferType(t), Collects(t, c), \E i \in DOMAIN t.packets : t.packets[i] \in DOMAIN nals,
           \A n \in DOMAIN nals : IsSplit(n) /\ ~Given(delivered, n) => Accounted(v, t, n, l),
           ~Complete(t) => Awaits(v, t, c) /\ IsSplit(c),
           \A n \in DOMAIN nals : ~IsSplit(n) /\ ~Given(delivered, n) /\ n # c => Pending(v, n, l),
           Finish(t)
    PROVE  OneLossOK(v, pendingFrame', delivered', l)
  <1>1. \A n : Kept(t, n) => n = c
    BY CollectsOne DEF Kept
  <1>2. CASE ~Complete(t)
    <2>1. pendingFrame' = t /\ delivered' = delivered
      BY <1>2 DEF Finish
    <2> QED
      BY <1>1, <1>2, <2>1 DEF OneLossOK
  <1>3. CASE Complete(t)
    <2> DEFINE s == [k \in 1..t.total |-> t.packets[k - 1]]
    <2>1. pendingFrame' = [t EXCEPT !.total = 0] /\ delivered' = Append(delivered, s)
      BY <1>3 DEF Finish, Consumed
    <2>2. pendingFrame' = [frame |-> t.frame, total |-> 0, packets |-> t.packets,
                           parity |-> t.parity]
      BY <2>1 DEF BufferType
    <2>3. \A n : ~Kept(pendingFrame', n)
      BY <2>2 DEF Kept
    <2>4. s[1] = c
      <3>1. t.total \in Nat /\ t.total > 0 /\ 0 \in DOMAIN t.packets
        BY NalType DEF Collects
      <3>2. t.packets[0] # Missing
        BY <1>3, <3>1 DEF Complete, MissingOf
      <3>3. t.packets[0] = c
        BY <3>1, <3>2 DEF Collects, MayHold, Loose
      <3> QED
        BY <3>1, <3>3
    <2> HIDE DEF s
    <2>5. /\ delivered \in Seq(Seq(Int)) /\ Len(delivered) \in Nat
          /\ DOMAIN delivered = 1..Len(delivered)
      BY DEF DeliveredOK
    <2>6. /\ \A d \in DOMAIN delivered : d \in DOMAIN delivered' /\ delivered'[d] = delivered[d]
          /\ Len(delivered) + 1 \in DOMAIN delivered' /\ delivered'[Len(delivered) + 1] = s
      BY <2>1, <2>5
    <2>7. Given(delivered', c) /\ \A n : Given(delivered, n) => Given(delivered', n)
      BY <2>4, <2>6 DEF Given
    <2>8. ASSUME NEW n \in DOMAIN nals, IsSplit(n), ~Given(delivered', n)
          PROVE  Accounted(v, pendingFrame', n, l)
      <3>1. n # c /\ Accounted(v, t, n, l)
        BY <2>7, <2>8
      <3>2. ~Kept(t, n)
        BY <1>1, <3>1
      <3> QED
        BY <3>1, <3>2 DEF Accounted
    <2>9. \A n \in DOMAIN nals : ~IsSplit(n) /\ ~Given(delivered', n) => Pending(v, n, l)
      BY <2>7
    <2> QED
      BY <2>3, <2>8, <2>9 DEF OneLossOK
  <1> QED
    BY <1>2, <1>3

\* What is known of the packet that is taken from the wire.
LEMMA HeadComing ==
    ASSUME WireOK(wire), wire # <<>>
    PROVE  LET p == Head(wire) IN
             /\ PacketOK(p) /\ p = Packet(p.kind, p.nal, p.index)
             /\ p.kind = "data" => Coming(wire, p.nal, p.index)
             /\ \A r, c : Ahead(wire, r, c) => c <= p.nal
  <1>1. wire \in Seq(AnyPacket)
    BY DEF WireOK
  <1>2. 1 \in DOMAIN wire /\ Head(wire) = wire[1]
    BY <1>1
  <1> DEFINE p == Head(wire)
  <1> HIDE DEF p
  <1>3. PacketOK(p) /\ p = wire[1]
    BY <1>2 DEF WireOK, p
  <1> QED
    BY <1>2, <1>3 DEF PacketOK, Coming, Ahead, p

\* A packet is lost: it is the only one, so the buffer waits for another.
LEMMA LoseWaits ==
    ASSUME IInv, LosePacket, AtMostOne(lost'), served = <<>>,
           OneLossOK(wire, pendingFrame, delivered, lost)
    PROVE  OneLossOK(wire', pendingFrame, delivered, lost')
  <1> DEFINE p == Head(wire)
             v == Tail(wire)
             r == pendingFrame
  <1>1. wire # <<>> /\ wire' = v /\ lost' = lost \cup {p}
    BY DEF LosePacket
  <1>2. /\ ServerType /\ WireOK(wire) /\ BufferOK(wire, r, delivered) /\ DeliveredOK(delivered)
    BY DEF IInv, StreamOK
  <1>3. /\ p = Packet(p.kind, p.nal, p.index)
        /\ p.kind = "data" => Coming(wire, p.nal, p.index)
    BY <1>1, <1>2, HeadComing
  <1>4. /\ \A n, i : Coming(wire, n, i)
              => Coming(v, n, i) \/ (p.kind = "data" /\ p.nal = n /\ p.index = i)
        /\ \A n, g : ParityComing(wire, n, g)
              => ParityComing(v, n, g) \/ (p.kind = "parity" /\ p.nal = n /\ p.index = g)
    BY <1>1, <1>2, HeadGone
  <1> HIDE DEF p, v
  <1>5. ASSUME NEW n \in DOMAIN nals, IsSplit(n), ~Given(delivered, n)
        PROVE  Accounted(v, r, n, lost')
    <2>1. Accounted(wire, r, n, lost)
      BY <1>5 DEF OneLossOK
    <2> QED
      BY <1>1, <1>3, <1>4, <2>1 DEF Accounted
  <1>6. ASSUME NEW n \in DOMAIN nals, Kept(r, n), ~Awaits(v, r, n) PROVE FALSE
    <2>1. Begun(r) /\ Collects(r, n)
      BY <1>2, <1>6 DEF BufferOK, Kept
    <2>2. PICK c \in DOMAIN nals :
             Collects(r, c) /\ Ahead(wire, r, c) /\ Undelivered(delivered, c)
      BY <1>2, <1>6 DEF BufferOK, Kept
    <2>3. n = c
      BY <1>2, <2>1, <2>2, CollectsOne DEF Begun
    <2>4. IsSplit(n) /\ ~Given(delivered, n)
      BY <1>2, <2>1, <2>2, <2>3, KeptIsNotGiven
    <2>5. PICK i \in DOMAIN r.packets : i \in MissingOf(r)
      BY <2>1 DEF Begun, MissingOf
    <2>6. Packet("data", n, i) \in lost' /\ \A g \in DOMAIN r.parity : r.parity[g] = n
      BY <1>2, <1>5, <1>6, <2>1, <2>4, <2>5, LastPacket
    <2>7. p = Packet("data", n, i)
      BY <1>1, <2>6 DEF AtMostOne
    <2>8. Coming(wire, n, i)
      BY <1>3, <2>7 DEF Packet
    <2>9. r.parity[GroupOf(i)] = Missing
      BY <2>2, <2>3, <2>5, <2>8 DEF Ahead
    <2>10. GroupOf(i) \in DOMAIN r.parity /\ n # Missing
      BY <1>2, <2>1, GroupIsOne, NalType DEF Collects
    <2> QED
      BY <2>6, <2>9, <2>10
  <1>7. ASSUME NEW n \in DOMAIN nals, ~IsSplit(n), ~Given(delivered, n) PROVE Pending(v, n, lost')
    <2>1. Pending(wire, n, lost)
      BY <1>7 DEF OneLossOK
    <2> QED
      BY <1>1, <1>3, <1>4, <2>1 DEF Pending
  <1> QED
    BY <1>1, <1>5, <1>6, <1>7 DEF OneLossOK

\* Parity of a NAL unit of several packets that was not delivered finds its buffer: with
\* two packets or more in its group, one loss cannot have taken all that came before it.
LEMMA ParityFindsBuffer ==
    ASSUME IInv, served = <<>>, AtMostOne(lost), FecGroupSize >= 2, wire # <<>>,
           NEW p, p = Head(wire), p.kind = "parity",
           IsSplit(p.nal), Accounted(wire, pendingFrame, p.nal, lost)
    PROVE  Kept(pendingFrame, p.nal)
  <1> SUFFICES ASSUME ~Kept(pendingFrame, p.nal) PROVE FALSE
    OBVIOUS
  <1> DEFINE n == p.nal
  <1>1. ServerType /\ WireOK(wire) /\ InOrder(wire)
    BY DEF IInv, StreamOK
  <1>2. PacketOK(p) /\ n \in DOMAIN nals /\ nals[n].total \in Nat /\ p.total = nals[n].total
    BY <1>1, HeadComing, NalType DEF PacketOK, Packet
  <1>3. p.index \in Nat
    <2>1. PICK i \in 0..(p.total - 1) : p.index = GroupOf(i)
      BY <1>2 DEF PacketOK, Groups
    <2> QED
      BY <1>2, <2>1, GroupType
  <1>4. 0 \in 0..(nals[n].total - 1) /\ 1 \in 0..(nals[n].total - 1)
    BY <1>2 DEF IsSplit
  <1>5. GroupOf(0) = 0 /\ GroupOf(1) = 0
    <2>1. FecGroupSize \in Nat
      BY TransportAssumption
    <2> QED
      BY <2>1 DEF GroupOf
  <1>6. ASSUME NEW i \in {0, 1} PROVE Packet("data", n, i) \in lost
    <2>1. ~Coming(Tail(wire), n, i)
      <3>1. Coming(Tail(wire), n, i) => Before(p, n, i)
        BY <1>1, <1>2, TailOfWire
      <3> QED
        BY <1>3, <1>5, <3>1 DEF Before
    <2>2. ~Coming(wire, n, i)
      BY <1>1, <2>1, HeadGone
    <2> QED
      BY <1>4, <2>2 DEF Accounted
  <1>7. Packet("data", n, 0) = Packet("data", n, 1)
    BY <1>6 DEF AtMostOne
  <1> QED
    BY <1>7 DEF Packet

\* A packet is received: what is not delivered still waits for a packet to come.
LEMMA ReceiveWaits ==
    ASSUME IInv, ReassembleFrame, AtMostOne(lost), FecGroupSize >= 2, served = <<>>,
           OneLossOK(wire, pendingFrame, delivered, lost)
    PROVE  OneLossOK(wire', pendingFrame', delivered', lost) /\ nackWire' = nackWire
  <1> DEFINE p == Head(wire)
             v == Tail(wire)
             r == pendingFrame
  <1>1. wire # <<>> /\ wire' = v
    BY DEF ReassembleFrame
  <1>2. /\ ServerType /\ OneSlice /\ WireOK(wire) /\ BufferOK(wire, r, delivered)
        /\ DeliveredOK(delivered) /\ InOrder(wire) /\ BufferType(r)
    BY DEF IInv, StreamOK, BufferOK
  <1>3. /\ PacketOK(p) /\ p = Packet(p.kind, p.nal, p.index)
        /\ p.kind = "data" => Coming(wire, p.nal, p.index)
        /\ p.nal \in DOMAIN nals /\ p.frame = nals[p.nal].frame
    BY <1>1, <1>2, HeadComing DEF PacketOK, Packet
  <1>4. /\ \A n, i : Coming(wire, n, i)
              => Coming(v, n, i) \/ (p.kind = "data" /\ p.nal = n /\ p.index = i)
        /\ \A n, g : ParityComing(wire, n, g)
              => ParityComing(v, n, g) \/ (p.kind = "parity" /\ p.nal = n /\ p.index = g)
    BY <1>1, <1>2, HeadGone
  <1>5. \A n \in DOMAIN nals : IsSplit(n) /\ ~Given(delivered, n) => Accounted(wire, r, n, lost)
    BY DEF OneLossOK
  <1>6. \A n \in DOMAIN nals : n # Missing
    BY <1>2, NalType
  <1>7. ASSUME r.total > 0
        PROVE  \E c \in DOMAIN nals :
                  /\ Collects(r, c) /\ Begun(r) /\ Ahead(wire, r, c) /\ Awaits(wire, r, c)
                  /\ IsSplit(c) /\ ~Given(delivered, c)
                  /\ c <= p.nal /\ (p.frame = r.frame => p.nal = c)
                  /\ \A n \in DOMAIN nals : Kept(r, n) => n = c
    <2>1. PICK c \in DOMAIN nals :
             Collects(r, c) /\ Ahead(wire, r, c) /\ Undelivered(delivered, c)
      BY <1>2, <1>7 DEF BufferOK
    <2>2. Begun(r)
      BY <1>2, <1>7 DEF BufferOK
    <2>3. Awaits(wire, r, c)
      BY <1>7, <2>1 DEF OneLossOK, Kept
    <2>4. IsSplit(c) /\ ~Given(delivered, c)
      BY <1>2, <2>1, <2>2, KeptIsNotGiven
    <2>5. c <= p.nal
      BY <1>1, <1>2, <2>1, HeadComing
    <2>6. p.frame = r.frame => p.nal = c
      <3> HIDE DEF p
      <3> QED
        BY <1>2, <1>3, <2>1, <2>2, <2>5, PacketFits DEF MayHold, Loose
    <2>7. \A n \in DOMAIN nals : Kept(r, n) => n = c
      BY <1>2, <2>1, <2>2, CollectsOne DEF Kept, Begun
    <2> QED
      BY <2>1, <2>2, <2>3, <2>4, <2>5, <2>6, <2>7
  <1>12. \A n \in DOMAIN nals : ~IsSplit(n) /\ ~Given(delivered, n) => Pending(wire, n, lost)
    BY DEF OneLossOK
  <1> DEFINE Goal == OneLossOK(v, pendingFrame', delivered', lost)
  <1> HIDE DEF p, v
  <1>8. ASSUME ReceiveParity(p) PROVE Goal /\ nackWire' = nackWire
    <2>1. p.kind = "parity" /\ nackWire' = nackWire
      BY <1>8 DEF ReceiveParity
    <2> DEFINE s == [pendingFrame EXCEPT !.parity[p.index] = p.nal]
               kept == /\ p.frame = pendingFrame.frame /\ pendingFrame.total > 0
                       /\ p.index \in DOMAIN pendingFrame.parity
                       /\ pendingFrame.parity[p.index] = Missing
    <2>2. CASE ~kept
      <3>1. pendingFrame' = r /\ delivered' = delivered
        BY <1>8, <2>2 DEF ReceiveParity, clientVars
      <3>2. ASSUME Kept(r, p.nal) PROVE r.parity[p.index] = p.nal
        <4>1. p.frame = r.frame /\ p.index \in DOMAIN r.parity
          BY <1>3, <2>1, <3>2 DEF Kept, Collects, PacketOK, Packet
        <4> QED
          BY <2>2, <3>2, <4>1 DEF Kept, Collects, MayHold, Loose
      <3>3. ASSUME NEW n \in DOMAIN nals, IsSplit(n), ~Given(delivered, n)
            PROVE  Accounted(v, r, n, lost)
        <4>1. Accounted(wire, r, n, lost)
          BY <1>5, <3>3
        <4>2. p.nal = n => Kept(r, n)
          BY <1>1, <2>1, <3>3, <4>1, ParityFindsBuffer DEF p
        <4>3. p.nal = n => r.parity[p.index] = n
          BY <3>2, <4>2
        <4> QED
          BY <1>4, <2>1, <4>1, <4>2, <4>3 DEF Accounted
      <3>4. ASSUME NEW n \in DOMAIN nals, Kept(r, n) PROVE Awaits(v, r, n)
        <4>1. Awaits(wire, r, n)
          BY <3>4 DEF OneLossOK
        <4>2. p.nal = n => r.parity[p.index] # Missing
          BY <1>6, <3>2, <3>4
        <4> QED
          BY <1>4, <2>1, <4>1, <4>2 DEF Awaits
      <3>5. \A n \in DOMAIN nals : ~IsSplit(n) /\ ~Given(delivered, n) => Pending(v, n, lost)
        BY <1>4, <1>12, <2>1 DEF Pending
      <3> QED
        BY <2>1, <3>1, <3>3, <3>4, <3>5 DEF OneLossOK
    <2>3. CASE kept
      <3>1. PICK c \in DOMAIN nals :
               /\ Collects(r, c) /\ Begun(r) /\ Ahead(wire, r, c) /\ p.nal = c
               /\ IsSplit(c) /\ ~Given(delivered, c)
               /\ \A n \in DOMAIN nals : Kept(r, n) => n = c
        BY <1>7, <2>3
      <3>2. BufferType(s) /\ Collects(s, c) /\ s.packets = r.packets
        BY <1>1, <1>2, <2>1, <2>3, <3>1, StoredParity DEF MayHold, p
      <3>3. s = [frame |-> r.frame, total |-> r.total, packets |-> r.packets,
                 parity |-> [r.parity EXCEPT ![p.index] = p.nal]]
        BY <1>2 DEF BufferType
      <3>4. /\ s.total = r.total /\ s.parity[p.index] = c
            /\ \A g \in DOMAIN r.parity : g # p.index => s.parity[g] = r.parity[g]
        BY <2>3, <3>1, <3>3
      <3> DEFINE t == IF AlmostComplete(s) THEN Repaired(s) ELSE s
      <3>5. Finish(t)
        BY <1>8, <2>3 DEF ReceiveParity
      <3> HIDE DEF s, kept
      <3>6. BufferType(Repaired(s)) /\ Collects(Repaired(s), c)
        BY <1>2, <3>2, RepairedCollects
      <3>7. /\ t.total = r.total /\ t.parity = s.parity /\ t.total > 0
            /\ \A i \in DOMAIN r.packets : r.packets[i] = c => t.packets[i] = c
            /\ BufferType(t) /\ Collects(t, c)
        <4>1. \A i \in DOMAIN s.packets : s.packets[i] = c => Repaired(s).packets[i] = c
          BY <1>6, <3>2, RepairedPacket
        <4>2. Repaired(s).total = s.total /\ Repaired(s).parity = s.parity
          <5>1. 0 \in DOMAIN s.packets
            BY <1>2, <3>2, NalType DEF Collects
          <5>2. Repaired(s) = [frame |-> s.frame, total |-> s.total,
                               packets |-> Repaired(s).packets, parity |-> s.parity]
            BY <3>2, <5>1, RepairedPacket
          <5> DEFINE u == Repaired(s)
          <5> HIDE DEF u
          <5>3. u.total = s.total /\ u.parity = s.parity
            BY <5>2 DEF u
          <5> QED
            BY <5>3 DEF u
        <4>3. r.total > 0
          BY <2>3 DEF kept
        <4> QED
          BY <3>2, <3>4, <3>6, <4>1, <4>2, <4>3
      <3>8. \E i \in DOMAIN t.packets : t.packets[i] \in DOMAIN nals
        BY <1>2, <3>1, <3>2, RepairedAhead DEF Begun
      <3>9. ASSUME NEW n \in DOMAIN nals, IsSplit(n), ~Given(delivered, n)
            PROVE  Accounted(v, t, n, lost)
        <4>1. Accounted(wire, r, n, lost)
          BY <1>5, <3>9
        <4> HIDE DEF t
        <4>2. CASE n = c
          <5>1. Kept(t, c)
            BY <3>7 DEF Kept
          <5>2. /\ 0..(nals[n].total - 1) = DOMAIN r.packets
                /\ Groups(nals[n].total) = DOMAIN r.parity
            BY <3>1, <4>2 DEF Collects
          <5>3. \A i \in DOMAIN r.packets :
                   Coming(v, n, i) \/ Packet("data", n, i) \in lost \/ t.packets[i] = n
            BY <1>4, <2>1, <3>7, <4>1, <4>2, <5>2 DEF Accounted
          <5>4. \A g \in DOMAIN r.parity :
                   ParityComing(v, n, g) \/ Packet("parity", n, g) \in lost \/ t.parity[g] = n
            BY <1>4, <3>1, <3>4, <3>7, <4>1, <4>2, <5>2 DEF Accounted
          <5> QED
            BY <4>2, <5>1, <5>2, <5>3, <5>4 DEF Accounted
        <4>3. CASE n # c
          BY <1>4, <3>1, <4>1, <4>3 DEF Accounted
        <4> QED
          BY <4>2, <4>3
      <3>10. ASSUME ~Complete(t), ~Awaits(v, t, c) PROVE FALSE
        <4>1. PICK i : i \in MissingOf(t)
          BY <3>7, <3>10 DEF Complete
        <4>2. MissingOf(t) = {i} /\ \A g \in DOMAIN t.parity : t.parity[g] = c
          <5> HIDE DEF t
          <5> QED
            BY <1>2, <3>1, <3>7, <3>9, <3>10, <4>1, LastPacket
        <4>3. i \in DOMAIN s.packets /\ s.packets[i] = Missing
          <5>1. DOMAIN t.packets = DOMAIN s.packets /\ i \in DOMAIN t.packets /\ t.packets[i] = Missing
            BY <3>2, <3>6, <4>1 DEF Collects, MissingOf
          <5> QED
            BY <1>6, <3>2, <5>1, RepairedPacket
        <4> DEFINE g == GroupOf(i)
        <4>4. g \in DOMAIN s.parity
          BY <3>2, <4>3, GroupIsOne DEF Collects
        <4>5. MissingOf(s) = {i}
          <5>1. CASE t = s
            BY <4>2, <5>1
          <5>2. CASE AlmostComplete(s)
            <6>1. IsFiniteSet(MissingOf(s))
              <7>1. s.total \in Nat
                BY <3>2 DEF BufferType
              <7>2. IsFiniteSet(0..(s.total - 1))
                BY <7>1, FS_Interval
              <7>3. MissingOf(s) \subseteq 0..(s.total - 1)
                BY <3>2 DEF Collects, MissingOf
              <7> QED
                BY <7>2, <7>3, FS_Subset
            <6>2. Cardinality(MissingOf(s)) \in Nat /\ Cardinality(MissingOf(s)) # 0
              BY <4>3, <6>1, FS_CardinalityType, FS_EmptySet DEF MissingOf
            <6>3. Cardinality(MissingOf(s)) = 1
              BY <5>2, <6>2 DEF AlmostComplete
            <6> QED
              BY <4>3, <6>1, <6>3, FS_Singleton DEF MissingOf
          <5> QED
            BY <5>1, <5>2
        <4>6. t = Repaired(s)
          <5>1. AlmostComplete(s)
            <6>1. Cardinality(MissingOf(s)) = 1
              BY <4>5, FS_Singleton
            <6> QED
              BY <6>1 DEF AlmostComplete
          <5> QED
            BY <5>1
        <4>7. Repairable(s, g)
          <5>1. s.parity[g] # Missing
            BY <1>6, <3>7, <4>2, <4>4
          <5>2. GroupRange(g, s.total) \cap MissingOf(s) = {i}
            BY <3>2, <4>3, <4>5 DEF GroupRange, Collects
          <5>3. Gap(s, g) = 1
            BY <5>2, FS_Singleton DEF Gap
          <5> QED
            BY <5>1, <5>3 DEF Repairable
        <4>8. Repaired(s).packets[i] \in {s.parity[g], Mixed}
          BY <3>2, <4>3, <4>7, RepairedPacket
        <4>9. s.parity[g] # Missing
          BY <4>7 DEF Repairable
        <4> QED
          BY <4>1, <4>6, <4>8, <4>9 DEF MissingOf
      <3>11. \A n \in DOMAIN nals : ~IsSplit(n) /\ ~Given(delivered, n) => Pending(v, n, lost)
        BY <1>4, <1>12, <2>1 DEF Pending
      <3> HIDE DEF t
      <3> QED
        BY <1>2, <2>1, <3>1, <3>5, <3>7, <3>8, <3>9, <3>10, <3>11, FinishAwaits
    <2> QED
      BY <2>2, <2>3
  <1>9. ASSUME p.kind = "data", NEW o, NEW c \in DOMAIN nals, BufferType(o), Collects(o, c),
               p.nal = c, p.index \in DOMAIN o.packets, Store(p, o), Ahead(wire, o, c),
               Undelivered(delivered, c), Kept(r, c) => o = r,
               \A n \in DOMAIN nals : Kept(r, n) => n = c
        PROVE  Goal
    <2> DEFINE s == [o EXCEPT !.packets[p.index] = p.nal]
    <2>0. o.packets[p.index] = Missing /\ o.parity[GroupOf(p.index)] = Missing
      BY <1>3, <1>9 DEF Ahead
    <2>1. Finish(s)
      BY <1>9, <2>0 DEF Store
    <2>2. s = [frame |-> o.frame, total |-> o.total,
               packets |-> [o.packets EXCEPT ![p.index] = p.nal], parity |-> o.parity]
      BY <1>9 DEF BufferType
    <2>3. /\ s.total = o.total /\ s.parity = o.parity /\ s.packets[p.index] = c
          /\ \A i \in DOMAIN o.packets : i # p.index => s.packets[i] = o.packets[i]
      BY <1>9, <2>2
    <2>4. /\ BufferType(s) /\ Collects(s, c)
          /\ \E i \in DOMAIN s.packets : s.packets[i] \in DOMAIN nals
      BY <1>1, <1>2, <1>9, StoredPacket DEF MayHold, p
    <2> HIDE DEF s
    <2>5. /\ o.total = nals[c].total /\ o.total > 0
          /\ 0..(nals[c].total - 1) = DOMAIN o.packets /\ Groups(nals[c].total) = DOMAIN o.parity
      BY <1>2, <1>9, NalType DEF Collects
    <2>6. Kept(s, c)
      BY <2>3, <2>4, <2>5 DEF Kept
    <2>7. ASSUME NEW n \in DOMAIN nals, IsSplit(n), ~Given(delivered, n)
          PROVE  Accounted(v, s, n, lost)
      <3>1. Accounted(wire, r, n, lost)
        BY <1>5, <2>7
      <3>2. CASE n = c
        <4>1. ASSUME NEW i \in DOMAIN o.packets
              PROVE  Coming(v, n, i) \/ Packet("data", n, i) \in lost \/ s.packets[i] = n
          <5>1. CASE i = p.index
            BY <2>3, <3>2, <5>1
          <5>2. CASE i # p.index
            <6>1. \/ Coming(wire, n, i) \/ Packet("data", n, i) \in lost
                  \/ Kept(r, n) /\ r.packets[i] = n
              BY <2>5, <3>1, <3>2 DEF Accounted
            <6>2. Coming(wire, n, i) => Coming(v, n, i)
              BY <1>4, <5>2
            <6>3. s.packets[i] = o.packets[i]
              BY <2>3, <5>2
            <6> QED
              BY <1>9, <3>2, <6>1, <6>2, <6>3
          <5> QED
            BY <5>1, <5>2
        <4>2. \A g \in DOMAIN o.parity :
                 ParityComing(v, n, g) \/ Packet("parity", n, g) \in lost \/ s.parity[g] = n
          BY <1>4, <1>9, <2>3, <2>5, <3>1, <3>2 DEF Accounted
        <4> QED
          BY <2>5, <2>6, <3>2, <4>1, <4>2 DEF Accounted
      <3>3. CASE n # c
        BY <1>4, <1>9, <3>1, <3>3 DEF Accounted
      <3> QED
        BY <3>2, <3>3
    <2>8. ASSUME ~Complete(s), ~Awaits(v, s, c) PROVE FALSE
      <3>1. PICK i : i \in MissingOf(s)
        BY <2>3, <2>5, <2>8 DEF Complete
      <3>4. IsSplit(c) /\ ~Given(delivered, c)
        <4>1. Begun(s)
          BY <2>4, <3>1 DEF Begun, MissingOf
        <4> QED
          BY <1>2, <1>9, <2>4, <4>1, KeptIsNotGiven
      <3>2. \A g \in DOMAIN s.parity : s.parity[g] = c
        BY <1>2, <2>4, <2>7, <2>8, <3>1, <3>4, LastPacket
      <3>3. GroupOf(p.index) \in DOMAIN s.parity
        BY <1>9, <2>3, <2>5, GroupIsOne
      <3> QED
        BY <1>6, <2>0, <2>3, <3>2, <3>3
    <2>9. ASSUME ~IsSplit(c) PROVE Complete(s)
      <3>1. nals[c].total = 1
        BY <1>2, <1>9, <2>9, NalType DEF IsSplit
      <3>2. \A i \in DOMAIN s.packets : i = p.index
        BY <1>9, <2>3, <2>4, <2>5, <3>1 DEF Collects
      <3> QED
        BY <1>6, <1>9, <2>3, <2>5, <3>2 DEF Complete, MissingOf
    <2>10. ASSUME NEW n \in DOMAIN nals, ~IsSplit(n), ~Given(delivered, n), n # c
           PROVE  Pending(v, n, lost)
      <3>1. Pending(wire, n, lost)
        BY <1>12, <2>10
      <3> QED
        BY <1>4, <1>9, <2>10, <3>1 DEF Pending
    <2> QED
      BY <1>2, <1>9, <2>1, <2>4, <2>7, <2>8, <2>9, <2>10, FinishAwaits
  <1>10. ASSUME ReceiveOfPendingFrame(p) PROVE Goal /\ nackWire' = nackWire
    <2>1. /\ p.kind = "data" /\ p.frame = r.frame /\ r.total > 0
          /\ Store(p, r) /\ nackWire' = nackWire
      BY <1>2, <1>10 DEF ReceiveOfPendingFrame, StartsFrame, BufferType
    <2>2. PICK c \in DOMAIN nals :
             /\ Collects(r, c) /\ Begun(r) /\ Ahead(wire, r, c) /\ p.nal = c
             /\ \A n \in DOMAIN nals : Kept(r, n) => n = c
      BY <1>7, <2>1
    <2>3. Undelivered(delivered, c)
      <3>1. p.index \in Nat
        BY <1>2, <1>3, <2>1, NalType DEF PacketOK, Packet
      <3>2. NothingTwice(wire, delivered)
        BY DEF IInv, StreamOK
      <3> QED
        BY <1>3, <2>1, <2>2, <3>1, <3>2 DEF NothingTwice
    <2>4. p.index \in DOMAIN r.packets
      BY <1>3, <2>1, <2>2 DEF PacketOK, Packet, Collects
    <2> HIDE DEF Goal
    <2> QED
      BY <1>2, <1>9, <2>1, <2>2, <2>3, <2>4
  <1>11. ASSUME ReceiveOfNextFrame(p) PROVE Goal /\ nackWire' = nackWire
    <2>1. p.kind = "data" /\ (p.frame # r.frame \/ r.total = 0)
      BY <1>11 DEF ReceiveOfNextFrame, StartsFrame
    <2>2. ASSUME r.total > 0 PROVE FALSE
      <3>1. PICK c \in DOMAIN nals :
               Collects(r, c) /\ Awaits(wire, r, c) /\ c <= p.nal
        BY <1>7, <2>2
      <3>2. c \in Nat /\ p.nal \in Nat /\ p.nal <= Len(nals) /\ Len(nals) \in Nat
        BY <1>2, <1>3, NalType
      <3>3. c # p.nal
        BY <1>3, <2>1, <2>2, <3>1 DEF Collects
      <3>4. c < p.nal /\ c # Len(nals)
        BY <3>1, <3>2, <3>3
      <3>5. PICK k \in DOMAIN wire : wire[k].nal = c
        BY <3>1, <3>4 DEF Awaits, Coming, ParityComing
      <3>6. p.nal <= wire[k].nal
        <4>1. wire \in Seq(AnyPacket)
          BY <1>2 DEF WireOK
        <4>2. p = wire[1] /\ DOMAIN wire = 1..Len(wire) /\ 1 \in DOMAIN wire
          BY <1>1, <4>1 DEF p
        <4>3. k = 1 \/ 1 < k
          BY <4>2
        <4> QED
          BY <1>2, <3>2, <4>2, <4>3 DEF InOrder
      <3> QED
        BY <3>2, <3>4, <3>5, <3>6
    <2>3. r.total = 0
      BY <1>2, <2>2 DEF BufferType
    <2> DEFINE o == FreshFrame(p, r)
    <2>4. Store(p, o) /\ nackWire' = nackWire
      BY <1>11, <2>3 DEF ReceiveOfNextFrame, Partial
    <2>5. /\ BufferType(o) /\ Collects(o, p.nal)
          /\ p.index \in DOMAIN o.packets /\ Ahead(wire, o, p.nal)
      BY <1>1, <1>2, <2>1, FreshCollects DEF p
    <2>6. Undelivered(delivered, p.nal)
      <3>1. p.index \in Nat
        BY <1>2, <1>3, <2>1, NalType DEF PacketOK, Packet
      <3>2. NothingTwice(wire, delivered)
        BY DEF IInv, StreamOK
      <3> QED
        BY <1>3, <2>1, <3>1, <3>2 DEF NothingTwice
    <2>7. \A n : ~Kept(r, n)
      BY <2>3 DEF Kept
    <2> HIDE DEF o, Goal
    <2> QED
      BY <1>3, <1>9, <2>1, <2>4, <2>5, <2>6, <2>7
  <1> QED
    BY <1>1, <1>8, <1>10, <1>11 DEF ReassembleFrame, p

\* What depends on the NAL units alone does not change when they do not.
LEMMA WaitsUnchanged ==
    ASSUME UNCHANGED <<nals, sent, served>>
    PROVE  \A w, r, q, l : OneLossOK(w, r, q, l) => OneLossOK(w, r, q, l)'
  <1>1. \A r, n : Collects(r, n)' <=> Collects(r, n)
    <2>1. \A n : Loose(n)' <=> Loose(n)
      BY DEF Loose, Alone
    <2>2. \A x, n : MayHold(x, n)' <=> MayHold(x, n)
      BY <2>1 DEF MayHold
    <2> QED
      BY <2>1, <2>2 DEF Collects
  <1>2. \A w, n, i : Coming(w, n, i)' <=> Coming(w, n, i)
    BY DEF Coming
  <1>3. \A w, n, g : ParityComing(w, n, g)' <=> ParityComing(w, n, g)
    BY DEF ParityComing
  <1>4. \A q, n : Given(q, n)' <=> Given(q, n)
    BY DEF Given
  <1>5. \A r, n : Kept(r, n)' <=> Kept(r, n)
    BY <1>1 DEF Kept
  <1>6. \A kind, n, i : Packet(kind, n, i)' = Packet(kind, n, i)
    BY DEF Packet
  <1>7. \A w, r, n : Awaits(w, r, n)' <=> Awaits(w, r, n)
    BY <1>2, <1>3 DEF Awaits
  <1>8. \A w, r, n, l : Accounted(w, r, n, l)' <=> Accounted(w, r, n, l)
    BY <1>2, <1>3, <1>5, <1>6 DEF Accounted
  <1>9. \A w, n, l : Pending(w, n, l)' <=> Pending(w, n, l)
    BY <1>2, <1>6 DEF Pending
  <1> QED
    BY <1>4, <1>5, <1>7, <1>8, <1>9 DEF OneLossOK, IsSplit

\* A NAL unit is to come as a whole when it is started.
LEMMA StartWaits ==
    ASSUME IInv, IInv', StartNalUnit, served = <<>>,
           OneLossOK(wire, pendingFrame, delivered, lost)
    PROVE  OneLossOK(wire, pendingFrame, delivered, lost)'
  <1> DEFINE new == Len(nals) + 1
  <1>1. /\ UNCHANGED <<wire, lost, served, pendingFrame, delivered>>
        /\ NalDone /\ sent' = 0
        /\ nals' = Append(nals, [frame |-> frameIndex, total |-> Head(toEmit)])
    BY DEF StartNalUnit, networkVars, clientVars
  <1>2. /\ ServerType /\ ServerType' /\ WireOK(wire)
        /\ Len(nals) \in Nat /\ DOMAIN nals = 1..Len(nals)
        /\ \A n \in DOMAIN nals' : nals'[n].total \in Nat /\ nals'[n].total > 0
    <2>1. ServerType /\ ServerType' /\ WireOK(wire)
      BY DEF IInv, StreamOK
    <2>2. Len(nals) \in Nat /\ DOMAIN nals = 1..Len(nals)
      BY <2>1, NalType
    <2> DEFINE R == [frame : 1..MaxFrames, total : Nat \ {0}]
    <2>3. \A n \in DOMAIN nals' : nals'[n] \in R
      <3>1. nals' \in Seq(R)
        BY <2>1 DEF ServerType
      <3> HIDE DEF R
      <3> QED
        BY <3>1
    <2> QED
      BY <2>1, <2>2, <2>3
  <1>3. /\ Len(nals') = new /\ DOMAIN nals' = 1..new /\ nals' # <<>>
        /\ \A n \in DOMAIN nals : nals'[n] = nals[n] /\ n # new
    BY <1>1, <1>2
  <1>4. nals # <<>> => sent = nals[Len(nals)].total /\ sent \in Nat
    BY <1>1, <1>2 DEF NalDone, Last, ServerType
  <1>5. ASSUME NEW n \in DOMAIN nals
        PROVE  /\ \A i : Coming(wire, n, i) => Coming(wire, n, i)'
               /\ \A g : ParityComing(wire, n, g) => ParityComing(wire, n, g)'
    BY <1>1, <1>4 DEF Coming, ParityComing
  <1>6. \A n \in DOMAIN nals : Kept(pendingFrame, n)' <=> Kept(pendingFrame, n)
    BY <1>1, <1>3 DEF Kept, Collects, MayHold, Loose
  <1>7. ASSUME NEW n, n = new
        PROVE  /\ \A i \in 0..(nals'[n].total - 1) : Coming(wire, n, i)'
               /\ \A g \in Groups(nals'[n].total) : ParityComing(wire, n, g)'
    <2> HIDE DEF new
    <2> QED
      BY <1>1, <1>3, <1>7 DEF Coming, ParityComing, Groups
  <1>8. \A n : Given(delivered, n)' <=> Given(delivered, n)
    BY <1>1 DEF Given
  <1>9. \A n \in DOMAIN nals' : n \in DOMAIN nals \/ n = new
    BY <1>2, <1>3
  <1> HIDE DEF new
  <1>10. ASSUME NEW n \in DOMAIN nals', IsSplit(n)', ~Given(delivered, n)'
         PROVE  Accounted(wire, pendingFrame, n, lost)'
    <2>1. CASE n \in DOMAIN nals
      <3>1. Accounted(wire, pendingFrame, n, lost)
        BY <1>3, <1>8, <1>10, <2>1 DEF OneLossOK, IsSplit
      <3> QED
        BY <1>1, <1>3, <1>5, <1>6, <2>1, <3>1 DEF Accounted, Packet
    <2>2. CASE n = new
      BY <1>7, <2>2 DEF Accounted
    <2> QED
      BY <1>9, <2>1, <2>2
  <1>11. ASSUME NEW n \in DOMAIN nals', Kept(pendingFrame, n)'
         PROVE  Awaits(wire, pendingFrame, n)'
    <2>1. CASE n \in DOMAIN nals
      BY <1>1, <1>5, <1>6, <1>11, <2>1 DEF OneLossOK, Awaits
    <2>2. CASE n = new
      <3>1. 0 \in 0..(nals'[n].total - 1)
        BY <1>2
      <3>2. DOMAIN pendingFrame'.packets = 0..(nals'[n].total - 1)
        BY <1>11 DEF Kept, Collects
      <3> QED
        BY <1>7, <2>2, <3>1, <3>2 DEF Awaits
    <2> QED
      BY <1>9, <2>1, <2>2
  <1>12. ASSUME NEW n \in DOMAIN nals', ~IsSplit(n)', ~Given(delivered, n)'
         PROVE  Pending(wire, n, lost)'
    <2>1. CASE n \in DOMAIN nals
      <3>1. Pending(wire, n, lost)
        BY <1>3, <1>8, <1>12, <2>1 DEF OneLossOK, IsSplit
      <3> QED
        BY <1>1, <1>3, <1>5, <2>1, <3>1 DEF Pending, Packet
    <2>2. CASE n = new
      <3>1. 0 \in 0..(nals'[n].total - 1)
        BY <1>2
      <3> QED
        BY <1>7, <2>2, <3>1 DEF Pending
    <2> QED
      BY <1>9, <2>1, <2>2
  <1> QED
    BY <1>10, <1>11, <1>12 DEF OneLossOK

\* Parity to be sent is sent at the end of its group.
LEMMA SendWaits ==
    ASSUME IInv, SendPacket, OneLossOK(wire, pendingFrame, delivered, lost)
    PROVE  OneLossOK(wire, pendingFrame, delivered, lost)'
  <1> DEFINE n == Len(nals)
             endsGroup == sent + 1 = nals[n].total \/ (sent + 1) % FecGroupSize = 0
             data == Packet("data", n, sent)
             parity == Packet("parity", n, GroupOf(sent))
             more == IF endsGroup THEN <<parity>> ELSE <<>>
  <1>1. /\ wire' = wire \o <<data>> \o more /\ sent' = sent + 1
        /\ UNCHANGED <<nals, served, lost, pendingFrame, delivered>>
    BY DEF SendPacket, clientVars
  <1>2. /\ ServerType /\ wire \in Seq(AnyPacket) /\ nals # <<>> /\ sent # nals[n].total
        /\ sent <= nals[n].total /\ sent \in Nat /\ Len(wire) \in Nat /\ DOMAIN wire = 1..Len(wire)
    BY DEF IInv, StreamOK, WireOK, OneSlice, ServerType, SendPacket, NalDone, Last
  <1>3. nals[n].total \in Nat
    <2>1. n \in DOMAIN nals
      BY <1>2 DEF ServerType
    <2> QED
      BY <1>2, <2>1, NalType
  <1>4. /\ data.kind = "data" /\ data.nal = n /\ data.index = sent
        /\ parity.kind = "parity" /\ parity.nal = n /\ parity.index = GroupOf(sent)
    BY DEF Packet
  <1> HIDE DEF data, parity, more, endsGroup
  <1>5. /\ \A k \in DOMAIN wire : k \in DOMAIN wire' /\ wire'[k] = wire[k]
        /\ Len(wire) + 1 \in DOMAIN wire' /\ wire'[Len(wire) + 1] = data
        /\ endsGroup => Len(wire) + 2 \in DOMAIN wire' /\ wire'[Len(wire) + 2] = parity
    BY <1>1, <1>2 DEF more
  <1>6. ASSUME NEW m, NEW i, Coming(wire, m, i) PROVE Coming(wire, m, i)'
    <2>1. CASE m = n /\ i \in sent..(nals[n].total - 1)
      <3>1. i = sent \/ i \in (sent + 1)..(nals[n].total - 1)
        BY <1>2, <1>3, <2>1
      <3> QED
        BY <1>1, <1>2, <1>4, <1>5, <2>1, <3>1 DEF Coming
    <2>2. CASE \E k \in DOMAIN wire : wire[k].kind = "data" /\ wire[k].nal = m /\ wire[k].index = i
      BY <1>5, <2>2 DEF Coming
    <2> QED
      BY <1>6, <2>1, <2>2 DEF Coming
  <1>7. ASSUME ~endsGroup
        PROVE  sent + 1 \in (sent + 1)..(nals[n].total - 1) /\ GroupOf(sent + 1) = GroupOf(sent)
    <2>1. sent + 1 # nals[n].total /\ (sent + 1) % FecGroupSize # 0
      BY <1>7 DEF endsGroup
    <2>2. sent + 1 \in (sent + 1)..(nals[n].total - 1)
      BY <1>2, <1>3, <2>1
    <2>3. FecGroupSize \in Nat /\ FecGroupSize > 0
      BY TransportAssumption
    <2>4. (sent + 1) \div FecGroupSize = sent \div FecGroupSize
      BY <1>2, <2>1, <2>3
    <2> QED
      BY <2>2, <2>4 DEF GroupOf
  <1>8. ASSUME NEW m, NEW g, ParityComing(wire, m, g) PROVE ParityComing(wire, m, g)'
    <2>1. ASSUME m = n, NEW i \in sent..(nals[n].total - 1), GroupOf(i) = g
          PROVE  ParityComing(wire, m, g)'
      <3>1. CASE i \in (sent + 1)..(nals[n].total - 1)
        BY <1>1, <1>2, <2>1, <3>1 DEF ParityComing
      <3>2. CASE i = sent /\ endsGroup
        BY <1>4, <1>5, <2>1, <3>2 DEF ParityComing
      <3>3. CASE i = sent /\ ~endsGroup
        BY <1>1, <1>2, <1>7, <2>1, <3>3 DEF ParityComing
      <3> QED
        BY <1>2, <1>3, <2>1, <3>1, <3>2, <3>3
    <2>2. CASE \E k \in DOMAIN wire :
                  wire[k].kind = "parity" /\ wire[k].nal = m /\ wire[k].index = g
      BY <1>5, <2>2 DEF ParityComing
    <2> QED
      BY <1>8, <2>1, <2>2 DEF ParityComing
  <1>9. /\ \A m : Kept(pendingFrame, m)' <=> Kept(pendingFrame, m)
        /\ \A m : Given(delivered, m)' <=> Given(delivered, m)
        /\ \A m : IsSplit(m)' <=> IsSplit(m)
        /\ \A kind, m, i : Packet(kind, m, i)' = Packet(kind, m, i)
    <2>1. \A m : Kept(pendingFrame, m)' <=> Kept(pendingFrame, m)
      BY <1>1 DEF Kept, Collects, MayHold, Loose, Alone
    <2>2. \A m : Given(delivered, m)' <=> Given(delivered, m)
      BY <1>1 DEF Given
    <2> QED
      BY <1>1, <2>1, <2>2 DEF IsSplit, Packet
  <1>10. \A m : Accounted(wire, pendingFrame, m, lost) => Accounted(wire, pendingFrame, m, lost)'
    BY <1>1, <1>6, <1>8, <1>9 DEF Accounted
  <1>11. \A m : Awaits(wire, pendingFrame, m) => Awaits(wire, pendingFrame, m)'
    BY <1>1, <1>6, <1>8 DEF Awaits
  <1>12. \A m : Pending(wire, m, lost) => Pending(wire, m, lost)'
    BY <1>1, <1>6, <1>9 DEF Pending
  <1> QED
    BY <1>1, <1>9, <1>10, <1>11, <1>12 DEF OneLossOK

\* Every step preserves LossInv.
LEMMA LossKeeps ==
    ASSUME FecGroupSize >= 2, IInv, IInv', LossInv, [Next]_vars
    PROVE  LossInv'
  <1>1. IsFiniteSet(lost')
    <2>1. lost' = lost \/ lost' = lost \cup {Head(wire)}
      BY DEF Next, vars, networkVars, EncodeFrame, StartNalUnit, SendPacket, HandleNackRequest,
             LosePacket, LoseNack, ReassembleFrame
    <2> QED
      BY <2>1, FS_AddElement DEF LossInv
  <1>2. lost \subseteq lost'
    BY DEF Next, vars, networkVars, EncodeFrame, StartNalUnit, SendPacket, HandleNackRequest,
           LosePacket, LoseNack, ReassembleFrame
  <1>3. ASSUME AtMostOne(lost')
        PROVE  /\ nackWire' = <<>> /\ served' = <<>>
               /\ OneLossOK(wire, pendingFrame, delivered, lost)'
    <2>1. AtMostOne(lost)
      BY <1>2, <1>3 DEF AtMostOne
    <2>2. nackWire = <<>> /\ served = <<>> /\ OneLossOK(wire, pendingFrame, delivered, lost)
      BY <2>1 DEF LossInv
    <2>3. CASE EncodeFrame
      <3>1. UNCHANGED <<nals, sent, served, nackWire, wire, pendingFrame, delivered, lost>>
        BY <2>3 DEF EncodeFrame, networkVars, clientVars
      <3> QED
        BY <2>2, <3>1, WaitsUnchanged
    <2>4. CASE StartNalUnit
      <3>1. UNCHANGED <<served, nackWire>>
        BY <2>4 DEF StartNalUnit, networkVars
      <3> QED
        BY <2>2, <2>4, <3>1, StartWaits
    <2>5. CASE SendPacket
      <3>1. UNCHANGED <<served, nackWire>>
        BY <2>5 DEF SendPacket
      <3> QED
        BY <2>2, <2>5, <3>1, SendWaits
    <2>6. CASE HandleNackRequest
      BY <2>2, <2>6 DEF HandleNackRequest
    <2>7. CASE LosePacket
      <3>1. UNCHANGED <<nals, sent, served, nackWire, pendingFrame, delivered>>
        BY <2>7 DEF LosePacket, serverVars, clientVars
      <3>2. OneLossOK(wire', pendingFrame, delivered, lost')
        BY <1>3, <2>2, <2>7, LoseWaits
      <3> QED
        BY <2>2, <3>1, <3>2, WaitsUnchanged
    <2>8. CASE LoseNack
      BY <2>2, <2>8 DEF LoseNack
    <2>9. CASE ReassembleFrame
      <3>1. UNCHANGED <<nals, sent, served, lost>>
        BY <2>9 DEF ReassembleFrame, serverVars
      <3>2. OneLossOK(wire', pendingFrame', delivered', lost) /\ nackWire' = nackWire
        BY <2>1, <2>2, <2>9, ReceiveWaits
      <3> QED
        BY <2>2, <3>1, <3>2, WaitsUnchanged
    <2>10. CASE UNCHANGED vars
      <3>1. UNCHANGED <<nals, sent, served, nackWire, wire, pendingFrame, delivered, lost>>
        BY <2>10 DEF vars, serverVars, networkVars, clientVars
      <3> QED
        BY <2>2, <3>1, WaitsUnchanged
    <2> QED
      BY <2>3, <2>4, <2>5, <2>6, <2>7, <2>8, <2>9, <2>10 DEF Next
  <1> QED
    BY <1>1, <1>3 DEF LossInv

\* One loss costs at most a NAL unit of one packet, the one that was lost, for groups of
\* two packets or more: parity repairs any other before the next frame needs the buffer,
\* and nothing is asked for again (ReassembleFrame, TryFecRecovery).  A group of one has
\* parity that comes when the packet's buffer may not be open, and is then ignored.
THEOREM OneLossIsRepairedHolds ==
    ASSUME FecGroupSize >= 2
    PROVE  Spec => []OneLossIsRepaired
  <1>1. Init => LossInv
    <2> SUFFICES ASSUME Init PROVE LossInv
      OBVIOUS
    <2>1. /\ nals = <<>> /\ lost = {} /\ nackWire = <<>> /\ served = <<>>
      BY DEF Init
    <2> QED
      BY <2>1, FS_EmptySet DEF LossInv, OneLossOK
  <1>2. IInv /\ IInv' /\ LossInv /\ [Next]_vars => LossInv'
    BY LossKeeps
  <1>3. IInv /\ LossInv => OneLossIsRepaired
    <2> SUFFICES ASSUME IInv, LossInv, Cardinality(lost) = 1, NEW n \in DOMAIN nals,
                        Passed(n), ~WasDelivered(n),
                        ~(nals[n].total = 1 /\ Packet("data", n, 0) \in lost)
                 PROVE  FALSE
      BY DEF OneLossIsRepaired
    <2>1. AtMostOne(lost)
      <3>1. PICK x : lost = {x}
        BY FS_Singleton DEF LossInv
      <3> QED
        BY <3>1 DEF AtMostOne
    <2>2. OneLossOK(wire, pendingFrame, delivered, lost)
      BY <2>1 DEF LossInv
    <2>3. ServerType /\ n \in Nat /\ Len(nals) \in Nat /\ nals[n].total \in Nat /\ nals # <<>>
      BY NalType DEF IInv
    <2>4. n = Len(nals) => sent = nals[n].total /\ sent \in Nat
      BY <2>3 DEF Passed, NalDone, Last, ServerType
    <2>5. ~Given(delivered, n) /\ ~Coming(wire, n, 0)
      BY <2>3, <2>4 DEF Passed, Coming, WasDelivered, FirstPayload, Given
    <2>6. CASE IsSplit(n)
      <3>1. Accounted(wire, pendingFrame, n, lost)
        BY <2>2, <2>5, <2>6 DEF OneLossOK
      <3>2. ~Coming(wire, n, 1) /\ ~Awaits(wire, pendingFrame, n)
        BY <2>3, <2>4 DEF Passed, Coming, ParityComing, Awaits
      <3>3. 0 \in 0..(nals[n].total - 1) /\ 1 \in 0..(nals[n].total - 1)
        BY <2>3, <2>6 DEF IsSplit
      <3>4. Packet("data", n, 0) # Packet("data", n, 1)
        BY DEF Packet
      <3>5. ~(Packet("data", n, 0) \in lost /\ Packet("data", n, 1) \in lost)
        BY <2>1, <3>4 DEF AtMostOne
      <3>6. Kept(pendingFrame, n)
        BY <2>5, <3>1, <3>2, <3>3, <3>5 DEF Accounted
      <3> QED
        BY <2>2, <3>2, <3>6 DEF OneLossOK
    <2>7. CASE ~IsSplit(n)
      <3>1. nals[n].total = 1
        BY <2>3, <2>7, NalType DEF IsSplit
      <3> QED
        BY <2>2, <2>5, <2>7, <3>1 DEF OneLossOK, Pending
    <2> QED
      BY <2>6, <2>7
  <1>4. Spec => []LossInv
    BY <1>1, <1>2, IInvHolds, PTL DEF Spec
  <1> QED
    BY <1>3, <1>4, IInvHolds, PTL
=============================================================================
