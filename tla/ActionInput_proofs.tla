--------------------------- MODULE ActionInput_proofs ---------------------------
(***************************************************************************)
(* Proofs about ActionInput.tla, for every list of suggested bindings,     *)
(* every tracking packet and every use of the automation extension.        *)
(*                                                                         *)
(* What a sync gathers is a recursive function over a list of bindings of  *)
(* any length.  The first part proves what that takes: induction up to a   *)
(* number, for a set, and that a recursion has a solution.                 *)
(***************************************************************************)
EXTENDS ActionInput, FiniteSetTheorems, TLAPS

-----------------------------------------------------------------------------
(* Induction and recursion. *)

\* A set of naturals with a bound has a least element: one that has no other at or
\* below it.  Ranks in a finite set are one to one, so one element has rank one.
LEMMA LeastExists ==
  ASSUME NEW N \in Nat, NEW S \in SUBSET (0..N), S # {}
  PROVE  \E i \in S : \A j \in S : i <= j
  <1> DEFINE below(i) == {j \in S : j <= i}
             rank == [i \in S |-> Cardinality(below(i))]
             T == 1..Cardinality(S)
  <1>0. IsFiniteSet(S) /\ S \subseteq Nat
    <2>1. IsFiniteSet(0..N)
      BY FS_Interval
    <2>2. IsFiniteSet(S)
      BY <2>1, FS_Subset
    <2> QED
      BY <2>2
  <1>1. Cardinality(S) \in Nat /\ Cardinality(S) # 0
    BY <1>0, FS_CardinalityType, FS_EmptySet
  <1>2. \A i \in S : IsFiniteSet(below(i)) /\ Cardinality(below(i)) \in Nat
                  /\ Cardinality(below(i)) <= Cardinality(S)
    BY FS_Subset, FS_CardinalityType, <1>0, <1>1
  <1>3. \A i \in S : Cardinality(below(i)) # 0
    BY <1>0, <1>2, FS_EmptySet
  <1>4. rank \in [S -> T]
    BY <1>1, <1>2, <1>3
  <1>5. ASSUME NEW i \in S, NEW j \in S, i < j
        PROVE  rank[i] < rank[j]
    <2>1. i \in Nat /\ j \in Nat
      BY <1>0
    <2>2. j \in below(j) /\ j \notin below(i)
      BY <2>1, <1>5
    <2>3. ASSUME NEW x \in S, x <= i PROVE x <= j
      <3>1. x \in Nat
        BY <1>0
      <3> QED
        BY <3>1, <2>1, <2>3, <1>5
    <2>4. below(i) \subseteq below(j)
      BY <2>3
    <2>5. Cardinality(below(i)) < Cardinality(below(j))
      BY <2>2, <2>4, <1>2, FS_Subset, SMTT(20)
    <2> QED
      BY <2>5
  <1>6. rank \in Injection(S, T)
    <2>1. \A i, j \in S : rank[i] = rank[j] => i = j
      <3> SUFFICES ASSUME NEW i \in S, NEW j \in S, i # j PROVE rank[i] # rank[j]
        OBVIOUS
      <3>1. i < j \/ j < i
        BY <1>0
      <3>2. rank[i] \in Nat /\ rank[j] \in Nat
        BY <1>2
      <3> QED
        BY <3>1, <3>2, <1>5
    <2> QED
      BY <2>1, <1>4 DEF Injection, IsInjective
  <1>7. IsFiniteSet(T) /\ Cardinality(T) = Cardinality(S)
    BY <1>1, FS_Interval
  <1>8. rank \in Surjection(S, T)
    BY <1>0, <1>6, <1>7, FS_Injection
  <1>9. PICK i \in S : rank[i] = 1
    <2>1. 1 \in T
      BY <1>1
    <2> HIDE DEF rank, T
    <2> QED
      BY <2>1, <1>8 DEF Surjection
  <1>10. \A j \in S : ~(j < i)
    <2> SUFFICES ASSUME NEW j \in S, j < i PROVE FALSE
      OBVIOUS
    <2>1. rank[j] < rank[i] /\ rank[j] \in T
      BY <1>4, <1>5
    <2> QED
      BY <2>1, <1>9, <1>1
  <1> QED
    BY <1>0, <1>10

\* What holds of 0, and of n + 1 where it holds of n, holds of each number up to N.
LEMMA InductionUpTo ==
  ASSUME NEW N \in Nat, NEW S, 0 \in S,
         \A n \in 0..N : n < N /\ n \in S => n + 1 \in S
  PROVE  \A n \in 0..N : n \in S
  <1> SUFFICES ASSUME (0..N) \ S # {} PROVE FALSE
    OBVIOUS
  <1>1. PICK i \in (0..N) \ S : \A j \in (0..N) \ S : i <= j
    BY LeastExists
  <1>2. i \in Nat /\ i # 0 /\ i <= N
    BY <1>1
  <1>3. i - 1 \in 0..N /\ i - 1 < N /\ ~(i <= i - 1)
    BY <1>2
  <1>4. i - 1 \in S
    BY <1>1, <1>3
  <1>5. (i - 1) + 1 \in S
    BY <1>3, <1>4
  <1> QED
    BY <1>1, <1>2, <1>5

\* A function that begins with a start and goes on by steps.
HasSolution(D, N, start, step) ==
    \E f \in [0..N -> D] : f[0] = start /\ \A n \in 1..N : f[n] = step[n][f[n - 1]]

\* A recursion over 0..N has a solution.
LEMMA RecursionExists ==
  ASSUME NEW D, NEW N \in Nat, NEW start \in D, NEW step \in [1..N -> [D -> D]]
  PROVE  HasSolution(D, N, start, step)
  <1> DEFINE Solves(f, n) == f[0] = start /\ \A k \in 1..n : f[k] = step[k][f[k - 1]]
             S == {n \in 0..N : \E f \in [0..n -> D] : Solves(f, n)}
  <1>1. 0 \in S
    <2> DEFINE g == [k \in 0..0 |-> start]
    <2>1. g \in [0..0 -> D] /\ Solves(g, 0)
      OBVIOUS
    <2>2. 0 \in 0..N
      OBVIOUS
    <2> HIDE DEF g, Solves
    <2> QED
      BY <2>1, <2>2
  <1>2. ASSUME NEW n \in 0..N, n < N, n \in S
        PROVE  n + 1 \in S
    <2>1. PICK f \in [0..n -> D] : Solves(f, n)
      BY <1>2
    <2> DEFINE g == [k \in 0..(n + 1) |-> IF k = n + 1 THEN step[n + 1][f[n]] ELSE f[k]]
    <2>2. n \in Nat /\ n + 1 \in 1..N /\ n \in 0..n /\ f[n] \in D
      BY <1>2
    <2>3. step[n + 1] \in [D -> D]
      BY <2>2
    <2>4. step[n + 1][f[n]] \in D
      BY <2>2, <2>3
    <2>5. \A k \in 0..n : k \in 0..(n + 1) /\ k # n + 1 /\ g[k] = f[k]
      BY <2>2
    <2>6. g \in [0..(n + 1) -> D]
      <3> SUFFICES ASSUME NEW k \in 0..(n + 1) PROVE g[k] \in D
        OBVIOUS
      <3>1. CASE k = n + 1
        BY <3>1, <2>4
      <3>2. CASE k # n + 1
        <4>1. k \in 0..n
          BY <3>2, <2>2
        <4> QED
          BY <4>1, <2>5
      <3> QED
        BY <3>1, <3>2
    <2>7. g[0] = start
      BY <2>1, <2>2, <2>5
    <2>8. ASSUME NEW k \in 1..(n + 1) PROVE g[k] = step[k][g[k - 1]]
      <3>1. k - 1 \in 0..n /\ g[k - 1] = f[k - 1]
        BY <2>2, <2>5
      <3>2. CASE k = n + 1
        BY <3>1, <3>2, <2>2
      <3>3. CASE k # n + 1
        <4>1. k \in 1..n /\ k \in 0..n
          BY <3>3, <2>2
        <4>2. f[k] = step[k][f[k - 1]]
          BY <4>1, <2>1
        <4> QED
          BY <4>1, <4>2, <3>1, <2>5
      <3> QED
        BY <3>2, <3>3
    <2>9. Solves(g, n + 1)
      BY <2>7, <2>8
    <2>10. n + 1 \in 0..N
      BY <2>2
    <2> HIDE DEF g
    <2> QED
      BY <2>6, <2>9, <2>10
  <1>3. N \in S
    <2> HIDE DEF S
    <2>1. \A n \in 0..N : n \in S
      BY <1>1, <1>2, InductionUpTo
    <2> QED
      BY <2>1
  <1>4. \E f \in [0..N -> D] : Solves(f, N)
    <2> HIDE DEF Solves
    <2> QED
      BY <1>3
  <1> QED
    BY <1>4, Zenon DEF HasSolution

-----------------------------------------------------------------------------
(* Readings and values. *)

\* What a source may read; a value gathered from such readings is in Values.
Readings == IF type = "float" THEN -Scale..Scale ELSE Values

LEMMA TypeCases ==
  ASSUME TypeOK
  PROVE  type \in {"boolean", "float", "vector", "pose"}
  BY ActionInputAssumption DEF TypeOK

\* The values of each type.
LEMMA ValuesOfType ==
  ASSUME TypeOK
  PROVE  /\ Scale \in Nat /\ Tolerance \in Nat
         /\ type = "boolean" => Values = 0..1 /\ Readings = 0..1 /\ Zero = 0
         /\ type = "float" => Values = 0..Scale /\ Readings = -Scale..Scale /\ Zero = 0
         /\ type = "vector" => Values = Vector /\ Readings = Vector /\ Zero = <<0, 0>>
         /\ type = "pose" => Values = {0} /\ Readings = {0} /\ Zero = 0
  BY ActionInputAssumption DEF Values, Readings, Zero

LEMMA ZeroType ==
  ASSUME TypeOK
  PROVE  Zero \in Values /\ Zero \in Readings
  BY ValuesOfType, TypeCases DEF Vector

LEMMA RestType == Rest \in Packet
  BY ActionInputAssumption DEF Rest, Packet, Vector, Hands

LEMMA InputType ==
  ASSUME TypeOK
  PROVE  input \in Packet
  BY ActionInputAssumption, RestType DEF TypeOK

LEMMA AsReadType ==
  ASSUME TypeOK, NEW v \in Vector
  PROVE  AsRead(v) \in Readings
  <1>1. v[1] \in -Scale..Scale /\ v[2] \in -Scale..Scale
    BY DEF Vector
  <1> QED
    BY <1>1, ValuesOfType, TypeCases DEF AsRead

LEMMA ReadingType ==
  ASSUME TypeOK, NEW h \in Hands, NEW component \in Components
  PROVE  Reading(h, component) \in Readings
  <1>1. CASE <<h, component>> \in DOMAIN overridden
    <2>1. overridden[<<h, component>>] \in Vector
      BY <1>1, ActionInputAssumption DEF TypeOK
    <2> QED
      BY <1>1, <2>1, AsReadType DEF Reading
  <1>2. CASE <<h, component>> \notin DOMAIN overridden
    <2>1. input.stick[h] \in Vector /\ input.menu \in 0..1 /\ input.pinch[h] \in 0..Scale
      BY InputType DEF Packet
    <2>2. AsRead(input.stick[h]) \in Readings
      BY <2>1, AsReadType
    <2>3. PinchReady(h) \in 0..1 /\ PinchValue(h) \in 0..Scale
      BY <2>1, ValuesOfType DEF PinchReady, PinchValue
    <2>4. /\ type = "boolean" => 0..1 \subseteq Readings
          /\ type = "float" => 0..Scale \subseteq Readings /\ 0 \in 0..Scale /\ Scale \in 0..Scale
      BY ValuesOfType
    <2>5. Reading(h, component) \in
             {AsRead(input.stick[h]), Zero}
             \cup (IF type = "boolean" THEN {input.menu, PinchReady(h)} ELSE {})
             \cup (IF type = "float" THEN {Scale, 0, PinchValue(h)} ELSE {})
      <3>1. component \in {"stick", "menu", "pinch"}
        BY DEF Components
      <3> QED
        BY <1>2, <3>1 DEF Reading
    <2> QED
      BY <2>1, <2>2, <2>3, <2>4, <2>5, ZeroType
  <1> QED
    BY <1>1, <1>2

\* A combined value is a value, and one of the two.
LEMMA CombinedType ==
  ASSUME TypeOK, NEW sofar \in Values, NEW v \in Readings
  PROVE  Combined(sofar, v) \in Values /\ Combined(sofar, v) \in {sofar, v}
  BY ValuesOfType, TypeCases DEF Combined

\* Zero is what there is before anything is combined.
LEMMA CombinedWithZero ==
  ASSUME TypeOK, NEW v \in Values
  PROVE  Combined(Zero, v) = v
  <1>1. CASE type = "vector"
    <2>1. v = <<v[1], v[2]>> /\ v[1] \in Int /\ v[2] \in Int
      BY <1>1, ValuesOfType DEF Vector
    <2>2. <<0, 0>>[1] = 0 /\ <<0, 0>>[2] = 0
      OBVIOUS
    <2> QED
      BY <1>1, <2>1, <2>2, ValuesOfType DEF Combined, Longer, Magnitude
  <1>2. CASE type # "vector"
    BY <1>2, ValuesOfType, TypeCases DEF Combined
  <1> QED
    BY <1>1, <1>2

-----------------------------------------------------------------------------
(* What the loop over a hand's bindings gathers. *)

LEMMA BindingsType ==
  ASSUME TypeOK, NEW h \in Hands
  PROVE  /\ Bindings(h) \in Seq(Binding) /\ Len(Bindings(h)) \in Nat
         /\ DOMAIN Bindings(h) = 1..Len(Bindings(h))
         /\ \A n \in 1..Len(Bindings(h)) : Bindings(h)[n] \in Binding
  <1> DEFINE profile == CurrentInteractionProfile(h)
  <1>1. ASSUME profile \in DOMAIN suggested PROVE suggested[profile] \in Seq(Binding)
    <2>1. profile \in Profiles /\ suggested[profile] \in Suggestions[profile]
      BY <1>1 DEF TypeOK
    <2> QED
      BY <2>1, ActionInputAssumption
  <1>2. Bindings(h) \in Seq(Binding)
    <2> HIDE DEF profile
    <2>1. Bindings(h) = IF profile \in DOMAIN suggested THEN suggested[profile] ELSE <<>>
      BY DEF Bindings, profile
    <2> HIDE DEF Binding
    <2> QED
      BY <1>1, <2>1
  <1>3. \A s \in Seq(Binding) : /\ Len(s) \in Nat /\ DOMAIN s = 1..Len(s)
                                /\ \A n \in 1..Len(s) : s[n] \in Binding
    <2> HIDE DEF Binding
    <2> QED
      OBVIOUS
  <1> QED
    BY <1>2, <1>3

LEMMA IdleType ==
  ASSUME TypeOK
  PROVE  Idle \in SubactionData
  BY ZeroType DEF Idle, SubactionData, Source

LEMMA AccumulatedType ==
  ASSUME TypeOK, NEW x \in SubactionData, NEW b \in Binding, b.hand \in Hands
  PROVE  Accumulated(x, b) \in SubactionData
  <1>1. b.component \in Components
    BY DEF Binding
  <1>2. Combined(x.value, Reading(b.hand, b.component)) \in Values
    BY <1>1, ReadingType, CombinedType DEF SubactionData
  <1>3. FirstSource(x.poseSource, b) \in Source
    BY DEF FirstSource, Source, SubactionData
  <1>4. /\ x.active \in BOOLEAN /\ x.value \in Values /\ x.changed \in BOOLEAN
        /\ x.poseSource \in Source /\ x.sources \in SUBSET Binding
        /\ x = [active |-> x.active, value |-> x.value, changed |-> x.changed,
                poseSource |-> x.poseSource, sources |-> x.sources]
    BY DEF SubactionData
  <1> HIDE DEF Binding, Source, Values
  <1> DEFINE v == Combined(x.value, Reading(b.hand, b.component))
             s == x.sources \cup {b}
             p == IF type = "pose" THEN FirstSource(x.poseSource, b) ELSE x.poseSource
  <1>5. v \in Values /\ s \in SUBSET Binding /\ p \in Source
    BY <1>2, <1>3, <1>4
  <1>6. [x EXCEPT !.active = TRUE, !.sources = s, !.value = v, !.poseSource = p] \in SubactionData
    <2> HIDE DEF v, s, p
    <2> QED
      BY <1>5 DEF SubactionData
  <1> QED
    BY <1>6 DEF Accumulated

LEMMA TakenType ==
  ASSUME TypeOK, NEW h \in Hands, NEW x \in SubactionData, NEW b \in Binding
  PROVE  Taken(h, x, b) \in SubactionData
  BY AccumulatedType DEF Taken

\* The loop is what its recursion says: it goes through the bindings one after the
\* other, and what it has gathered stays an aggregate.
LEMMA LoopUnfolds ==
  ASSUME TypeOK, NEW h \in Hands, NEW aggregate \in SubactionData
  PROVE  \E f \in [0..Len(Bindings(h)) -> SubactionData] :
            /\ f[0] = aggregate
            /\ \A n \in 1..Len(Bindings(h)) : f[n] = Taken(h, f[n - 1], Bindings(h)[n])
            /\ AccumulatedFor(h, aggregate) = f[Len(Bindings(h))]
  <1> DEFINE N == Len(Bindings(h))
             B(n) == Bindings(h)[n]
             Solves(f) == f = [n \in 0..N |-> IF n = 0 THEN aggregate ELSE Taken(h, f[n - 1], B(n))]
             upTo == CHOOSE f : Solves(f)
             step == [n \in 1..N |-> [x \in SubactionData |-> Taken(h, x, B(n))]]
  <1>0. N \in Nat /\ \A n \in 1..N : B(n) \in Binding
    BY BindingsType
  <1>1. step \in [1..N -> [SubactionData -> SubactionData]]
    <2> HIDE DEF N, B
    <2> QED
      BY <1>0, TakenType
  <1>2. PICK g \in [0..N -> SubactionData] :
           g[0] = aggregate /\ \A n \in 1..N : g[n] = step[n][g[n - 1]]
    <2>1. N \in Nat
      BY <1>0
    <2> HIDE DEF N, step
    <2>2. HasSolution(SubactionData, N, aggregate, step)
      BY <1>1, <2>1, RecursionExists
    <2> QED
      BY <2>2 DEF HasSolution
  <1>3. \A n \in 1..N : n - 1 \in 0..N /\ g[n] = Taken(h, g[n - 1], B(n))
    <2> HIDE DEF N, B
    <2>1. \A n \in 1..N : n - 1 \in 0..N
      BY <1>0
    <2> QED
      BY <1>2, <2>1
  <1>4. Solves(g)
    <2> HIDE DEF N, B, step
    <2>1. \A n \in 0..N : n = 0 \/ n \in 1..N
      BY <1>0
    <2> QED
      BY <1>2, <1>3, <2>1
  <1>5. Solves(upTo)
    <2> HIDE DEF Solves
    <2> QED
      BY <1>4
  <1>6. AccumulatedFor(h, aggregate) = upTo[N]
    BY DEF AccumulatedFor
  <1> HIDE DEF upTo
  <1>7. upTo[0] = aggregate /\ \A n \in 1..N : upTo[n] = Taken(h, upTo[n - 1], B(n))
    <2> HIDE DEF N, B
    <2> QED
      BY <1>0, <1>5
  <1>8. \A n \in 0..N : n \in {k \in 0..N : upTo[k] \in SubactionData}
    <2> DEFINE S == {k \in 0..N : upTo[k] \in SubactionData}
    <2> HIDE DEF N, B
    <2>1. 0 \in S
      BY <1>0, <1>7
    <2>2. \A n \in 0..N : n < N /\ n \in S => n + 1 \in S
      <3> SUFFICES ASSUME NEW n \in 0..N, n < N, n \in S PROVE n + 1 \in S
        OBVIOUS
      <3>1. n + 1 \in 1..N /\ n + 1 \in 0..N /\ (n + 1) - 1 = n
        BY <1>0
      <3>2. upTo[n + 1] = Taken(h, upTo[n], B(n + 1))
        BY <3>1, <1>7
      <3> QED
        BY <3>1, <3>2, <1>0, TakenType
    <2> HIDE DEF S
    <2>3. \A n \in 0..N : n \in S
      BY <1>0, <2>1, <2>2, InductionUpTo
    <2> QED
      BY <2>3 DEF S
  <1>9. upTo \in [0..N -> SubactionData]
    <2>1. upTo = [n \in 0..N |-> upTo[n]]
      <3> DEFINE e(n) == IF n = 0 THEN aggregate ELSE Taken(h, upTo[n - 1], B(n))
      <3>1. upTo = [n \in 0..N |-> e(n)]
        BY <1>5
      <3> HIDE DEF e, N
      <3> QED
        BY <3>1
    <2> HIDE DEF N
    <2> QED
      BY <1>8, <2>1
  <1> QED
    BY <1>6, <1>7, <1>9

\* What is combined is no less than either, and of vectors at rest only if both are.
LEMMA CombinedBounds ==
  ASSUME TypeOK, NEW sofar \in Values, NEW v \in Readings
  PROVE  /\ type # "vector" => sofar <= Combined(sofar, v) /\ v <= Combined(sofar, v)
         /\ type = "vector" /\ Combined(sofar, v) = Zero => sofar = Zero /\ v = Zero
  <1>1. CASE type = "vector"
    <2>1. /\ v = <<v[1], v[2]>> /\ v[1] \in Int /\ v[2] \in Int
          /\ sofar = <<sofar[1], sofar[2]>> /\ sofar[1] \in Int /\ sofar[2] \in Int
      BY <1>1, ValuesOfType DEF Vector
    <2>2. Zero = <<0, 0>> /\ Zero[1] = 0 /\ Zero[2] = 0
      BY <1>1, ValuesOfType
    <2>3. Combined(sofar, v) = IF Longer(v, sofar) THEN v ELSE sofar
      BY <1>1 DEF Combined
    <2>4. CASE Longer(v, sofar)
      <3>1. v # Zero
        BY <2>1, <2>2, <2>4 DEF Longer, Magnitude
      <3> QED
        BY <1>1, <2>3, <2>4, <3>1
    <2>5. CASE ~Longer(v, sofar)
      <3>1. sofar = Zero => v = Zero
        BY <2>1, <2>2, <2>5 DEF Longer, Magnitude
      <3> QED
        BY <1>1, <2>3, <2>5, <3>1
    <2> QED
      BY <2>4, <2>5
  <1>2. CASE type # "vector"
    BY <1>2, ValuesOfType, TypeCases DEF Combined
  <1> QED
    BY <1>1, <1>2

\* The fields of an aggregate that has taken one more binding.
LEMMA AccumulatedFields ==
  ASSUME TypeOK, NEW x \in SubactionData, NEW b \in Binding, IsInputDeviceActive(b.hand)
  PROVE  LET y == Accumulated(x, b)
         IN  /\ y.active = TRUE
             /\ y.sources = x.sources \cup {b}
             /\ y.value = Combined(x.value, Reading(b.hand, b.component))
             /\ y.poseSource = IF type = "pose" THEN FirstSource(x.poseSource, b) ELSE x.poseSource
  <1> DEFINE v == Combined(x.value, Reading(b.hand, b.component))
             s == x.sources \cup {b}
             p == IF type = "pose" THEN FirstSource(x.poseSource, b) ELSE x.poseSource
             y == [x EXCEPT !.active = TRUE, !.sources = s, !.value = v, !.poseSource = p]
  <1>1. y.active = TRUE /\ y.sources = s /\ y.value = v /\ y.poseSource = p
    <2> HIDE DEF v, s, p
    <2> QED
      BY DEF SubactionData
  <1>2. Accumulated(x, b) = y
    BY DEF Accumulated
  <1> HIDE DEF y
  <1> QED
    BY <1>1, <1>2

\* Sources a hand has.
OfHands == {b \in Binding : b.hand \in Hands}

\* A binding more is one more source to tell of.
LEMMA AccumulatedTells ==
  ASSUME TypeOK, NEW x \in SubactionData, NEW driving \in SUBSET OfHands, Tells(x, driving),
         NEW b \in OfHands, IsInputDeviceActive(b.hand)
  PROVE  Tells(Accumulated(x, b), driving \cup {b})
  <1> DEFINE y == Accumulated(x, b)
             r == Reading(b.hand, b.component)
             readings(S) == {Reading(c.hand, c.component) : c \in S} \cup {Zero}
  <1>1. /\ y.active = TRUE /\ y.sources = x.sources \cup {b} /\ y.value = Combined(x.value, r)
        /\ y.poseSource = IF type = "pose" THEN FirstSource(x.poseSource, b) ELSE x.poseSource
    BY AccumulatedFields DEF OfHands
  <1>2. /\ x.sources = driving /\ x.value \in readings(driving)
        /\ type = "vector" => (x.value = Zero => readings(driving) = {Zero})
        /\ type # "vector" => \A v \in readings(driving) : v <= x.value
        /\ type = "pose" /\ driving # {} => x.poseSource \in driving
        /\ ~(type = "pose" /\ driving # {}) => x.poseSource = NoSource
    BY DEF Tells
  <1>3. x.value \in Values /\ r \in Readings
    <2>1. b.component \in Components /\ b.hand \in Hands
      BY DEF Binding, OfHands
    <2> QED
      BY <2>1, ReadingType DEF SubactionData
  <1>4. readings(driving \cup {b}) = readings(driving) \cup {r}
    OBVIOUS
  <1> HIDE DEF y, r, readings
  <1>5. y.value \in readings(driving) \cup {r}
    BY <1>1, <1>2, <1>3, CombinedType
  <1>6. ASSUME type = "vector", y.value = Zero PROVE readings(driving) \cup {r} = {Zero}
    <2>1. x.value = Zero /\ r = Zero
      BY <1>1, <1>3, <1>6, CombinedBounds
    <2> QED
      BY <1>2, <1>6, <2>1
  <1>7. ASSUME type # "vector", NEW v \in readings(driving) \cup {r} PROVE v <= y.value
    <2>1. x.value \in Int /\ y.value \in Int /\ r \in Int /\ x.value <= y.value /\ r <= y.value
      BY <1>1, <1>3, <1>7, CombinedType, CombinedBounds, ValuesOfType, TypeCases
    <2>2. CASE v = r
      BY <2>1, <2>2
    <2>3. CASE v \in readings(driving)
      <3>1. v <= x.value
        BY <1>2, <1>7, <2>3
      <3>2. v \in Int
        <4>1. CASE v = Zero
          BY <4>1, <1>7, ValuesOfType, TypeCases
        <4>2. CASE v # Zero
          <5>1. PICK c \in driving : v = Reading(c.hand, c.component)
            BY <2>3, <4>2 DEF readings
          <5>2. v \in Readings
            BY <5>1, ReadingType DEF OfHands, Binding
          <5> QED
            BY <5>2, <1>7, ValuesOfType, TypeCases
        <4> QED
          BY <4>1, <4>2
      <3> QED
        BY <2>1, <3>1, <3>2
    <2> QED
      BY <1>7, <2>2, <2>3
  <1>8. IF type = "pose" THEN y.poseSource \in driving \cup {b} ELSE y.poseSource = NoSource
    BY <1>1, <1>2 DEF FirstSource
  <1> QED
    BY <1>1, <1>2, <1>4, <1>5, <1>6, <1>7, <1>8 DEF Tells, y, readings

\* The bindings in force for a hand that drive it.
DrivingOf(h) == {b \in Elements(Bindings(h)) : b.hand = h /\ IsInputDeviceActive(h)}

LEMMA DrivingOfType ==
  ASSUME TypeOK, NEW h \in Hands
  PROVE  DrivingOf(h) \in SUBSET OfHands /\ \A b \in DrivingOf(h) : b.hand = h
  BY BindingsType DEF DrivingOf, OfHands, Elements

\* The loop tells of all of them, beside what it started with.
LEMMA LoopTells ==
  ASSUME TypeOK, NEW h \in Hands, NEW aggregate \in SubactionData,
         NEW driving \in SUBSET OfHands, Tells(aggregate, driving)
  PROVE  /\ AccumulatedFor(h, aggregate) \in SubactionData
         /\ Tells(AccumulatedFor(h, aggregate), driving \cup DrivingOf(h))
  <1> DEFINE N == Len(Bindings(h))
             B(n) == Bindings(h)[n]
             Counts(n) == B(n).hand = h /\ IsInputDeviceActive(h)
             U(n) == {b \in OfHands : \E k \in 1..n : b = B(k) /\ Counts(k)}
  <1>1. PICK f \in [0..N -> SubactionData] :
           /\ f[0] = aggregate
           /\ \A n \in 1..N : f[n] = Taken(h, f[n - 1], B(n))
           /\ AccumulatedFor(h, aggregate) = f[N]
    BY LoopUnfolds
  <1>2. N \in Nat /\ \A n \in 1..N : B(n) \in Binding
    BY BindingsType
  <1>3. \A n \in 1..N : Counts(n) => B(n) \in OfHands
    BY <1>2 DEF OfHands
  <1>4. ASSUME NEW n \in 0..N, n < N, Tells(f[n], driving \cup U(n))
        PROVE  Tells(f[n + 1], driving \cup U(n + 1))
    <2>1. n \in Nat /\ n + 1 \in 1..N /\ (n + 1) - 1 = n /\ f[n] \in SubactionData
      BY <1>2, <1>4
    <2>2. f[n + 1] = Taken(h, f[n], B(n + 1))
      BY <1>1, <2>1
    <2>3. \A k : k \in 1..(n + 1) <=> k \in 1..n \/ k = n + 1
      BY <2>1
    <2>4. CASE Counts(n + 1)
      <3>1. f[n + 1] = Accumulated(f[n], B(n + 1))
        BY <2>2, <2>4 DEF Taken
      <3>2. B(n + 1) \in OfHands /\ IsInputDeviceActive(B(n + 1).hand)
        BY <1>3, <2>1, <2>4
      <3>3. driving \cup U(n + 1) = (driving \cup U(n)) \cup {B(n + 1)}
        <4> HIDE DEF B, Counts
        <4> QED
          BY <2>3, <2>4, <3>2
      <3>4. driving \cup U(n) \in SUBSET OfHands
        OBVIOUS
      <3> HIDE DEF B, U, Counts
      <3>5. Tells(Accumulated(f[n], B(n + 1)), (driving \cup U(n)) \cup {B(n + 1)})
        BY <1>4, <2>1, <3>2, <3>4, AccumulatedTells
      <3> QED
        BY <3>1, <3>3, <3>5
    <2>5. CASE ~Counts(n + 1)
      <3>1. f[n + 1] = f[n]
        BY <2>2, <2>5 DEF Taken, Accumulated
      <3>2. U(n + 1) = U(n)
        <4> HIDE DEF B, Counts
        <4> QED
          BY <2>3, <2>5
      <3> HIDE DEF U
      <3> QED
        BY <1>4, <3>1, <3>2
    <2> QED
      BY <2>4, <2>5
  <1>5. U(0) = {}
    OBVIOUS
  <1>6. U(N) = DrivingOf(h)
    <2>1. DOMAIN Bindings(h) = 1..N
      BY BindingsType
    <2> QED
      BY <1>3, <2>1 DEF DrivingOf, Elements
  <1>7. Tells(f[N], driving \cup U(N))
    <2> DEFINE P(n) == Tells(f[n], driving \cup U(n))
               S == {n \in 0..N : P(n)}
    <2>1. P(0)
      <3>1. driving \cup U(0) = driving
        BY <1>5
      <3> HIDE DEF U
      <3> QED
        BY <1>1, <3>1
    <2>2. \A n \in 0..N : n < N /\ P(n) => P(n + 1)
      <3> HIDE DEF N, U
      <3> QED
        BY <1>4
    <2> HIDE DEF N, P
    <2>3. 0 \in S /\ \A n \in 0..N : n < N /\ n \in S => n + 1 \in S
      BY <1>2, <2>1, <2>2
    <2> HIDE DEF S
    <2>4. \A n \in 0..N : n \in S
      BY <1>2, <2>3, InductionUpTo
    <2>5. N \in S
      BY <1>2, <2>4
    <2> QED
      BY <2>5 DEF S, P
  <1>8. f[N] \in SubactionData
    <2> HIDE DEF N
    <2> QED
      BY <1>2
  <1> QED
    BY <1>1, <1>6, <1>7, <1>8

\* So does what is gathered for a path.
LEMMA IdleTells ==
  ASSUME TypeOK
  PROVE  Tells(Idle, {})
  <1>1. Zero \in Int \/ type = "vector"
    BY ValuesOfType, TypeCases
  <1> QED
    BY <1>1 DEF Tells, Idle

\* The hands whose bindings go to a path of an action.
HandsOf(a, p) == IF SubactionPaths(a) = <<>> THEN Hands ELSE {p}

LEMMA AggregateTells ==
  ASSUME TypeOK, NEW a \in Actions, NEW p \in Elements(Resolved(a))
  PROVE  /\ Aggregate(a, p) \in SubactionData
         /\ Tells(Aggregate(a, p), UNION {DrivingOf(h) : h \in HandsOf(a, p)})
  <1> DEFINE Of(h) == DrivingOf(h)
  <1>0. \A h \in Hands : DrivingOf(h) \in SUBSET OfHands
    BY DrivingOfType
  <1>1. CASE SubactionPaths(a) = <<>>
    <2> DEFINE l == AccumulatedFor("left", Idle)
    <2>1. "left" \in Hands /\ "right" \in Hands /\ HandsOf(a, p) = {"left", "right"}
      BY <1>1 DEF Hands, HandsOf
    <2>2. l \in SubactionData /\ Tells(l, {} \cup DrivingOf("left"))
      BY <2>1, IdleType, IdleTells, LoopTells
    <2>3. {} \cup DrivingOf("left") = DrivingOf("left")
      OBVIOUS
    <2> HIDE DEF l
    <2>4. /\ AccumulatedFor("right", l) \in SubactionData
          /\ Tells(AccumulatedFor("right", l), DrivingOf("left") \cup DrivingOf("right"))
      BY <1>0, <2>1, <2>2, <2>3, LoopTells
    <2>5. UNION {DrivingOf(h) : h \in HandsOf(a, p)} = DrivingOf("left") \cup DrivingOf("right")
      BY <2>1
    <2> QED
      BY <1>1, <2>4, <2>5 DEF Aggregate, l
  <1>2. CASE SubactionPaths(a) # <<>>
    <2>1. p \in Hands
      BY <1>2 DEF Resolved, Elements, SubactionPaths, Actions, Hands
    <2>2. /\ AccumulatedFor(p, Idle) \in SubactionData
          /\ Tells(AccumulatedFor(p, Idle), {} \cup DrivingOf(p))
      BY <2>1, IdleType, IdleTells, LoopTells
    <2>3. UNION {DrivingOf(h) : h \in HandsOf(a, p)} = {} \cup DrivingOf(p)
      BY <1>2 DEF HandsOf
    <2> QED
      BY <1>2, <2>2, <2>3 DEF Aggregate
  <1> QED
    BY <1>1, <1>2

-----------------------------------------------------------------------------
(* Gathering both hands at once is joining what is gathered for each. *)

\* Apart from what is said to have changed.
SaysBoth(d, x, y) ==
    /\ d.active = (x.active \/ y.active)
    /\ d.value = Combined(x.value, y.value)
    /\ d.poseSource = FirstSource(x.poseSource, y.poseSource)
    /\ d.sources = x.sources \cup y.sources

\* Combined is not associative: of three vectors the second may be longer somewhere than
\* the first, and the third than the second but not than the first.  It is where two of
\* them are one hand's.
LEMMA CombinedAssociates ==
  ASSUME TypeOK, NEW u, NEW v \in Values, NEW w \in Values, NEW r \in Readings,
         type = "vector" => u \in Vector /\ w \in {Zero, u} /\ r \in {Zero, u}
  PROVE  Combined(v, Combined(w, r)) = Combined(Combined(v, w), r)
  <1>1. CASE type = "vector"
    <2>1. Zero = <<0, 0>> /\ Zero[1] = 0 /\ Zero[2] = 0 /\ Zero \in Vector
      BY <1>1, ValuesOfType, ZeroType
    <2>2. ASSUME NEW x \in Vector, NEW y \in Vector
          PROVE  Combined(x, y) = IF Longer(y, x) THEN y ELSE x
      BY <1>1 DEF Combined
    <2>3. ASSUME NEW x \in Vector
          PROVE  /\ x[1] \in Int /\ x[2] \in Int /\ ~Longer(x, x) /\ ~Longer(Zero, x)
                 /\ Combined(x, x) = x /\ Combined(x, Zero) = x /\ Combined(Zero, x) = x
      <3>1. x[1] \in Int /\ x[2] \in Int
        BY DEF Vector
      <3>2. ~Longer(x, x) /\ ~Longer(Zero, x)
        BY <2>1, <3>1 DEF Longer, Magnitude
      <3>3. Combined(Zero, x) = x
        BY <1>1, CombinedWithZero, ValuesOfType
      <3> QED
        BY <2>1, <2>2, <3>1, <3>2, <3>3
    <2>4. v \in Vector /\ w \in {Zero, u} /\ r \in {Zero, u} /\ u \in Vector
      BY <1>1, ValuesOfType
    <2>5. Combined(v, u) \in {u, v}
      BY <2>2, <2>4
    <2>6. Combined(Combined(v, u), u) = Combined(v, u)
      BY <2>2, <2>3, <2>4
    <2>7. CASE w = Zero
      BY <2>1, <2>3, <2>4, <2>7
    <2>8. CASE w = u
      <3>1. Combined(w, r) = u
        BY <2>3, <2>4, <2>8
      <3>2. Combined(v, w) \in Vector
        BY <2>4, <2>5, <2>8
      <3> QED
        BY <2>3, <2>4, <2>6, <2>8, <3>1, <3>2
    <2> QED
      BY <2>4, <2>7, <2>8
  <1>2. CASE type # "vector"
    BY <1>2, ValuesOfType, TypeCases DEF Combined
  <1> QED
    BY <1>1, <1>2

\* Zero adds nothing.
LEMMA CombinedToZero ==
  ASSUME TypeOK, NEW v \in Values
  PROVE  Combined(v, Zero) = v
  <1>1. CASE type = "vector"
    <2>1. v[1] \in Int /\ v[2] \in Int /\ Zero[1] = 0 /\ Zero[2] = 0
      BY <1>1, ValuesOfType DEF Vector
    <2> QED
      BY <1>1, <2>1 DEF Combined, Longer, Magnitude
  <1>2. CASE type # "vector"
    BY <1>2, ValuesOfType, TypeCases DEF Combined
  <1> QED
    BY <1>1, <1>2

\* What a hand's sources read as a vector.
LEMMA OneVector ==
  ASSUME TypeOK, OneVectorPerHand, NEW h \in Hands, NEW component \in Components, type = "vector"
  PROVE  Reading(h, component) \in {Zero, Reading(h, "stick")}
  <1>1. type \in Types /\ DOMAIN overridden \subseteq Automated
    BY DEF TypeOK
  <1>2. ASSUME <<h, component>> \in DOMAIN overridden PROVE component = "stick"
    <2>1. <<h, component>>[2] = component
      OBVIOUS
    <2> QED
      BY <1>1, <1>2, <2>1 DEF OneVectorPerHand
  <1> QED
    BY <1>2 DEF Reading

\* The loop begun with what was gathered before joins to it what it gathers alone.
LEMMA LoopJoins ==
  ASSUME TypeOK, OneVectorPerHand, NEW h \in Hands, NEW aggregate \in SubactionData
  PROVE  SaysBoth(AccumulatedFor(h, aggregate), aggregate, AccumulatedFor(h, Idle))
  <1> DEFINE N == Len(Bindings(h))
             B(n) == Bindings(h)[n]
             u == Reading(h, "stick")
  <1>1. PICK f \in [0..N -> SubactionData] :
           /\ f[0] = aggregate
           /\ \A n \in 1..N : f[n] = Taken(h, f[n - 1], B(n))
           /\ AccumulatedFor(h, aggregate) = f[N]
    BY LoopUnfolds
  <1>2. PICK e \in [0..N -> SubactionData] :
           /\ e[0] = Idle
           /\ \A n \in 1..N : e[n] = Taken(h, e[n - 1], B(n))
           /\ AccumulatedFor(h, Idle) = e[N]
    BY LoopUnfolds, IdleType
  <1> DEFINE P(n) == /\ SaysBoth(f[n], aggregate, e[n])
                     /\ type = "vector" => e[n].value \in {Zero, u}
             S == {n \in 0..N : P(n)}
  <1>3. N \in Nat /\ \A n \in 1..N : B(n) \in Binding
    BY BindingsType
  <1>4. P(0)
    <2>1. /\ Idle.active = FALSE /\ Idle.value = Zero /\ Idle.poseSource = NoSource
          /\ Idle.sources = {}
      BY DEF Idle
    <2>2. aggregate.value \in Values /\ aggregate.active \in BOOLEAN
      BY DEF SubactionData
    <2>3. Combined(aggregate.value, Zero) = aggregate.value
      BY <2>2, CombinedToZero
    <2> QED
      BY <1>1, <1>2, <2>1, <2>2, <2>3 DEF SaysBoth, FirstSource
  <1>5. ASSUME NEW n \in 0..N, n < N, P(n)
        PROVE  P(n + 1)
    <2> DEFINE b == B(n + 1)
               r == Reading(b.hand, b.component)
    <2>1. /\ n \in Nat /\ n + 1 \in 1..N /\ (n + 1) - 1 = n
          /\ f[n] \in SubactionData /\ e[n] \in SubactionData /\ b \in Binding
      BY <1>3, <1>5
    <2>2. f[n + 1] = Taken(h, f[n], b) /\ e[n + 1] = Taken(h, e[n], b)
      BY <1>1, <1>2, <2>1
    <2>3. CASE b.hand = h /\ IsInputDeviceActive(h)
      <3>1. f[n + 1] = Accumulated(f[n], b) /\ e[n + 1] = Accumulated(e[n], b)
        BY <2>2, <2>3 DEF Taken
      <3>2. b.component \in Components
        BY <2>1 DEF Binding
      <3>3. /\ r \in Readings /\ u \in Readings /\ type = "vector" => r \in {Zero, u}
            /\ type = "vector" => u \in Vector
        <4>1. "stick" \in Components
          BY DEF Components
        <4> QED
          BY <2>3, <3>2, <4>1, ReadingType, OneVector, ValuesOfType
      <3>4. /\ f[n + 1].active = TRUE /\ f[n + 1].sources = f[n].sources \cup {b}
            /\ f[n + 1].value = Combined(f[n].value, r)
            /\ f[n + 1].poseSource = IF type = "pose" THEN FirstSource(f[n].poseSource, b)
                                                      ELSE f[n].poseSource
            /\ e[n + 1].active = TRUE /\ e[n + 1].sources = e[n].sources \cup {b}
            /\ e[n + 1].value = Combined(e[n].value, r)
            /\ e[n + 1].poseSource = IF type = "pose" THEN FirstSource(e[n].poseSource, b)
                                                      ELSE e[n].poseSource
        <4>1. b \in Binding /\ IsInputDeviceActive(b.hand)
          BY <2>1, <2>3
        <4> HIDE DEF b
        <4>2. ASSUME NEW x \in SubactionData
              PROVE  LET y == Accumulated(x, b)
                     IN  /\ y.active = TRUE /\ y.sources = x.sources \cup {b}
                         /\ y.value = Combined(x.value, r)
                         /\ y.poseSource = IF type = "pose" THEN FirstSource(x.poseSource, b)
                                                            ELSE x.poseSource
          BY <4>1, AccumulatedFields
        <4> QED
          BY <2>1, <3>1, <4>2
      <3>5. /\ f[n].value = Combined(aggregate.value, e[n].value)
            /\ f[n].poseSource = FirstSource(aggregate.poseSource, e[n].poseSource)
            /\ f[n].sources = aggregate.sources \cup e[n].sources
            /\ type = "vector" => e[n].value \in {Zero, u}
        BY <1>5 DEF SaysBoth
      <3>6. aggregate.value \in Values /\ e[n].value \in Values
        BY <2>1 DEF SubactionData
      <3> HIDE DEF r, u, b, B
      <3>7. Combined(aggregate.value, Combined(e[n].value, r))
            = Combined(Combined(aggregate.value, e[n].value), r)
        BY <3>3, <3>5, <3>6, CombinedAssociates
      <3>8. Combined(e[n].value, r) \in {e[n].value, r}
        BY <3>3, <3>6, CombinedType
      <3>9. f[n + 1].poseSource = FirstSource(aggregate.poseSource, e[n + 1].poseSource)
        BY <3>4, <3>5 DEF FirstSource
      <3> QED
        BY <3>3, <3>4, <3>5, <3>7, <3>8, <3>9 DEF SaysBoth
    <2>4. CASE ~(b.hand = h /\ IsInputDeviceActive(h))
      <3>1. f[n + 1] = f[n] /\ e[n + 1] = e[n]
        BY <2>2, <2>4 DEF Taken, Accumulated
      <3> QED
        BY <1>5, <3>1
    <2> QED
      BY <2>3, <2>4
  <1>6. P(N)
    <2> HIDE DEF N, P
    <2>1. 0 \in S /\ \A n \in 0..N : n < N /\ n \in S => n + 1 \in S
      BY <1>3, <1>4, <1>5
    <2> HIDE DEF S
    <2>2. \A n \in 0..N : n \in S
      BY <1>3, <2>1, InductionUpTo
    <2>3. N \in S
      BY <1>3, <2>2
    <2> QED
      BY <2>3 DEF S
  <1> QED
    BY <1>1, <1>2, <1>6

-----------------------------------------------------------------------------
(* What a query without a path answers. *)

LEMMA ResolvedPaths ==
  /\ Resolved("whole") = <<"null">> /\ Resolved("split") = <<"left", "right">>
  /\ Resolved("lefty") = <<"left">> /\ Resolved("crossed") = <<"right", "left">>
  /\ Elements(Resolved("crossed")) = {"left", "right"}
  /\ Elements(Resolved("whole")) = {"null"} /\ Elements(Resolved("split")) = {"left", "right"}
  /\ Elements(Resolved("lefty")) = {"left"}
  /\ SubactionPaths("whole") = <<>> /\ SubactionPaths("split") # <<>>
  /\ SubactionPaths("lefty") # <<>> /\ SubactionPaths("crossed") # <<>>
  <1>1. /\ Resolved("whole") = <<"null">> /\ Resolved("split") = <<"left", "right">>
        /\ Resolved("lefty") = <<"left">> /\ Resolved("crossed") = <<"right", "left">>
        /\ SubactionPaths("whole") = <<>> /\ SubactionPaths("split") # <<>>
        /\ SubactionPaths("lefty") # <<>> /\ SubactionPaths("crossed") # <<>>
    BY DEF Resolved, SubactionPaths
  <1>2. ASSUME NEW x PROVE Elements(<<x>>) = {x}
    BY DEF Elements
  <1>3. ASSUME NEW x, NEW y PROVE Elements(<<x, y>>) = {x, y}
    BY DEF Elements
  <1> QED
    BY <1>1, <1>2, <1>3

\* A loop over one path or two.
LEMMA AllOfOnePath ==
  ASSUME NEW a, NEW p, Resolved(a) = <<p>>
  PROVE  AllPaths(a) = Joined(Idle, data[a][p])
  <1> DEFINE J(x, n) == Joined(x, data[a][<<p>>[n]])
             Solves(f) == f = [n \in 0..1 |-> IF n = 0 THEN Idle ELSE J(f[n - 1], n)]
             upTo == CHOOSE f : Solves(f)
             g == [n \in 0..1 |-> IF n = 0 THEN Idle ELSE J(Idle, 1)]
  <1>1. Solves(g)
    <2> HIDE DEF J
    <2>1. \A n \in 0..1 : n = 0 \/ n = 1
      OBVIOUS
    <2>2. g[0] = Idle /\ g[1] = J(Idle, 1)
      OBVIOUS
    <2>3. g = [n \in 0..1 |-> IF n = 0 THEN Idle ELSE J(g[n - 1], n)]
      <3>1. \A n \in 0..1 : g[n] = IF n = 0 THEN Idle ELSE J(g[n - 1], n)
        BY <2>1, <2>2
      <3>2. g = [n \in 0..1 |-> g[n]]
        OBVIOUS
      <3> HIDE DEF g
      <3> QED
        BY <3>1, <3>2
    <2> QED
      BY <2>3
  <1>2. Solves(upTo)
    <2> HIDE DEF Solves
    <2> QED
      BY <1>1
  <1>3. Len(<<p>>) = 1 /\ AllPaths(a) = upTo[1]
    BY DEF AllPaths
  <1> HIDE DEF upTo
  <1>4. upTo[0] = Idle /\ upTo[1] = J(upTo[0], 1)
    <2> HIDE DEF J
    <2> QED
      BY <1>2
  <1> QED
    BY <1>3, <1>4

LEMMA AllOfTwoPaths ==
  ASSUME NEW a, NEW p, NEW q, Resolved(a) = <<p, q>>
  PROVE  AllPaths(a) = Joined(Joined(Idle, data[a][p]), data[a][q])
  <1> DEFINE J(x, n) == Joined(x, data[a][<<p, q>>[n]])
             Solves(f) == f = [n \in 0..2 |-> IF n = 0 THEN Idle ELSE J(f[n - 1], n)]
             upTo == CHOOSE f : Solves(f)
             g == [n \in 0..2 |-> IF n = 0 THEN Idle
                                  ELSE IF n = 1 THEN J(Idle, 1) ELSE J(J(Idle, 1), 2)]
  <1>1. Solves(g)
    <2> HIDE DEF J
    <2>1. \A n \in 0..2 : n = 0 \/ n = 1 \/ n = 2
      OBVIOUS
    <2>2. g[0] = Idle /\ g[1] = J(Idle, 1) /\ g[2] = J(J(Idle, 1), 2)
      OBVIOUS
    <2>3. g = [n \in 0..2 |-> IF n = 0 THEN Idle ELSE J(g[n - 1], n)]
      <3>1. \A n \in 0..2 : g[n] = IF n = 0 THEN Idle ELSE J(g[n - 1], n)
        BY <2>1, <2>2
      <3>2. g = [n \in 0..2 |-> g[n]]
        OBVIOUS
      <3> HIDE DEF g
      <3> QED
        BY <3>1, <3>2
    <2> QED
      BY <2>3
  <1>2. Solves(upTo)
    <2> HIDE DEF Solves
    <2> QED
      BY <1>1
  <1>3. Len(<<p, q>>) = 2 /\ AllPaths(a) = upTo[2]
    BY DEF AllPaths
  <1> HIDE DEF upTo
  <1>4. upTo[0] = Idle /\ upTo[1] = J(upTo[0], 1) /\ upTo[2] = J(upTo[1], 2)
    <2> HIDE DEF J
    <2> QED
      BY <1>2
  <1> QED
    BY <1>3, <1>4

-----------------------------------------------------------------------------
(* Types. *)

LEMMA InitTypeOK == ASSUME Init PROVE TypeOK
  <1>1. data \in [Actions -> [Paths -> SubactionData]]
    <2>1. Idle \in SubactionData
      <3>1. type \in {"boolean", "float", "vector", "pose"}
        BY ActionInputAssumption DEF Init
      <3> QED
        BY <3>1, ActionInputAssumption DEF Idle, SubactionData, Source, Values, Zero, Vector
    <2> QED
      BY <2>1 DEF Init
  <1>2. automation \in [Hands -> Profiles \cup {"inactive", Unset}]
    BY DEF Init
  <1> QED
    BY <1>1, <1>2 DEF Init, TypeOK

\* Only a sync changes the state of the actions.
LEMMA OtherStepsKeepData ==
  ASSUME [Next]_vars, ~(\E active \in SUBSET Sets : SyncActions(active))
  PROVE  data' = data
  BY DEF Next, vars, SuggestInteractionProfileBindings, AttachSessionActionSets, NewSession,
         PacketArrives, Update, EndSession, SetInputDeviceActive, SetInputDeviceState

LEMMA TypeKept ==
  ASSUME [Next]_vars
  PROVE  type' = type
  BY DEF Next, vars, SuggestInteractionProfileBindings, AttachSessionActionSets, NewSession,
         PacketArrives, Update, EndSession, SetInputDeviceActive, SetInputDeviceState,
         SyncActions

\* What a sync of their set makes of the paths of an action.
LEMMA SyncedState ==
  ASSUME TypeOK, NEW active, SyncActions(active), IsActionSetActive(active),
         NEW a \in Actions, NEW p \in Elements(Resolved(a))
  PROVE  LET old == data[a][p]
             d == data'[a][p]
             aggregate == Aggregate(a, p)
         IN  /\ d \in SubactionData
             /\ d.active = aggregate.active /\ d.value = aggregate.value
             /\ d.poseSource = aggregate.poseSource /\ d.sources = aggregate.sources
             /\ d.changed <=> Differs(d.value, old.value)
  <1>1. p \in Paths
    BY ResolvedPaths DEF Actions, Paths, Hands
  <1>2. data'[a][p] = SyncState(data[a][p], Aggregate(a, p))
    BY <1>1 DEF SyncActions
  <1> DEFINE x == Aggregate(a, p)
             c == Differs(x.value, data[a][p].value)
  <1>3. x \in SubactionData
    BY AggregateTells
  <1>4. c \in BOOLEAN
    <2> HIDE DEF x
    <2>1. CASE type = "float"
      BY <2>1 DEF Differs
    <2>2. CASE type # "float"
      BY <2>2, TypeCases DEF Differs
    <2> QED
      BY <2>1, <2>2
  <1>5. data'[a][p] = [x EXCEPT !.changed = c]
    BY <1>2 DEF SyncState
  <1> HIDE DEF x, c
  <1>6. /\ [x EXCEPT !.changed = c] \in SubactionData
        /\ [x EXCEPT !.changed = c].active = x.active
        /\ [x EXCEPT !.changed = c].value = x.value
        /\ [x EXCEPT !.changed = c].poseSource = x.poseSource
        /\ [x EXCEPT !.changed = c].sources = x.sources
        /\ [x EXCEPT !.changed = c].changed = c
    BY <1>3, <1>4 DEF SubactionData
  <1> QED
    BY <1>5, <1>6 DEF x, c

\* A path that is not synced keeps its state.
LEMMA UnsyncedState ==
  ASSUME NEW active, SyncActions(active), NEW a \in Actions, NEW p \in Paths,
         ~IsActionSetActive(active) \/ p \notin Elements(Resolved(a))
  PROVE  data'[a][p] = data[a][p]
  BY DEF SyncActions

LEMMA SyncTypes ==
  ASSUME TypeOK, NEW active, SyncActions(active)
  PROVE  data' \in [Actions -> [Paths -> SubactionData]]
  <1>1. data \in [Actions -> [Paths -> SubactionData]]
    BY DEF TypeOK
  <1>2. CASE ~IsActionSetActive(active)
    BY <1>1, <1>2 DEF SyncActions
  <1>3. CASE IsActionSetActive(active)
    <2>1. ASSUME NEW a \in Actions, NEW p \in Paths PROVE data'[a][p] \in SubactionData
      <3>1. CASE p \in Elements(Resolved(a))
        BY <1>3, <3>1, SyncedState
      <3>2. CASE p \notin Elements(Resolved(a))
        BY <1>1, <3>2, UnsyncedState
      <3> QED
        BY <3>1, <3>2
    <2> DEFINE new(a, p) == IF p \in Elements(Resolved(a))
                            THEN SyncState(data[a][p], Aggregate(a, p)) ELSE data[a][p]
    <2>2. data' = [a \in Actions |-> [p \in Paths |-> new(a, p)]]
      BY <1>3 DEF SyncActions
    <2> HIDE DEF new
    <2>3. \A a \in Actions, p \in Paths : new(a, p) \in SubactionData
      BY <2>1, <2>2
    <2> QED
      BY <2>2, <2>3
  <1> QED
    BY <1>2, <1>3

LEMMA NextTypeOK ==
  ASSUME TypeOK, [Next]_vars
  PROVE  TypeOK'
  <1> USE DEF TypeOK
  <1>0. type' = type /\ Values' = Values /\ SubactionData' = SubactionData
    BY TypeKept DEF Values, SubactionData
  <1>1. CASE \E active \in SUBSET Sets : SyncActions(active)
    <2>1. PICK active \in SUBSET Sets : SyncActions(active)
      BY <1>1
    <2>2. data' \in [Actions -> [Paths -> SubactionData]]
      BY <2>1, SyncTypes
    <2>3. UNCHANGED <<suggested, attached, receiving, input, automation, overridden>>
      BY <2>1 DEF SyncActions, inputVars
    <2> QED
      BY <1>0, <2>2, <2>3
  <1>2. CASE ~\E active \in SUBSET Sets : SyncActions(active)
    <2>1. data' \in [Actions -> [Paths -> SubactionData']]
      BY <1>0, <1>2, OtherStepsKeepData
    <2>2. CASE SuggestInteractionProfileBindings
      <3>1. PICK profile \in Profiles : \E list \in Suggestions[profile] :
               suggested' = [p \in DOMAIN suggested \cup {profile} |->
                                IF p = profile THEN list ELSE suggested[p]]
        BY <2>2 DEF SuggestInteractionProfileBindings
      <3>2. UNCHANGED <<attached, receiving, input, automation, overridden>>
        BY <2>2 DEF SuggestInteractionProfileBindings, inputVars
      <3>3. /\ DOMAIN suggested' = DOMAIN suggested \cup {profile}
            /\ \A p \in DOMAIN suggested' : suggested'[p] \in Suggestions[p]
        <4>1. PICK list \in Suggestions[profile] :
                 suggested' = [p \in DOMAIN suggested \cup {profile} |->
                                  IF p = profile THEN list ELSE suggested[p]]
          BY <3>1
        <4> QED
          BY <4>1
      <3> QED
        BY <1>0, <2>1, <3>2, <3>3
    <2>3. CASE AttachSessionActionSets
      BY <1>0, <2>1, <2>3 DEF AttachSessionActionSets, inputVars
    <2>4. CASE NewSession
      <3>1. automation' \in [Hands -> Profiles \cup {"inactive", Unset}]
        BY <2>4 DEF NewSession
      <3>2. DOMAIN overridden' = {}
        BY <2>4 DEF NewSession
      <3>3. UNCHANGED suggested /\ attached' = {} /\ receiving' = FALSE /\ input' = Rest
        BY <2>4 DEF NewSession
      <3> QED
        BY <1>0, <2>1, <3>1, <3>2, <3>3
    <2>5. CASE PacketArrives
      BY <1>0, <2>1, <2>5 DEF PacketArrives
    <2>6. CASE Update
      BY <1>0, <2>1, <2>6 DEF Update
    <2>7. CASE EndSession
      BY <1>0, <2>1, <2>7 DEF EndSession
    <2>8. CASE SetInputDeviceActive
      <3>1. PICK i \in Automated, profile \in AutomatedProfiles :
               automation' = [automation EXCEPT ![i[1]] = profile]
        BY <2>8 DEF SetInputDeviceActive
      <3>2. profile \in Profiles \cup {"inactive", Unset}
        BY ActionInputAssumption
      <3>3. automation' \in [Hands -> Profiles \cup {"inactive", Unset}]
        BY <3>1, <3>2
      <3>4. UNCHANGED <<suggested, attached, receiving, input, overridden>>
        BY <2>8 DEF SetInputDeviceActive
      <3> QED
        BY <1>0, <2>1, <3>3, <3>4
    <2>9. CASE SetInputDeviceState
      <3>1. PICK i \in Automated, v \in Overrides :
               overridden' = [k \in DOMAIN overridden \cup {i} |->
                                 IF k = i THEN v ELSE overridden[k]]
        BY <2>9 DEF SetInputDeviceState
      <3>2. /\ DOMAIN overridden' = DOMAIN overridden \cup {i}
            /\ \A k \in DOMAIN overridden' : overridden'[k] \in Overrides
        BY <3>1
      <3>3. UNCHANGED <<suggested, attached, receiving, input, automation>>
        BY <2>9 DEF SetInputDeviceState
      <3> QED
        BY <1>0, <2>1, <3>2, <3>3
    <2>10. CASE UNCHANGED vars
      BY <1>0, <2>1, <2>10 DEF vars, inputVars
    <2> QED
      BY <1>2, <2>2, <2>3, <2>4, <2>5, <2>6, <2>7, <2>8, <2>9, <2>10 DEF Next
  <1> QED
    BY <1>1, <1>2

\* Every variable has its type; a gathered value stays in the range of its type, however
\* many bindings are combined, and a float is never below zero.
THEOREM TypeOKHolds == Spec => []TypeOK
  <1>1. Init => TypeOK
    BY InitTypeOK
  <1>2. TypeOK /\ [Next]_vars => TypeOK'
    BY NextTypeOK
  <1> QED
    BY <1>1, <1>2, PTL DEF Spec

-----------------------------------------------------------------------------
(* What a sync tells. *)

LEMMA DrivingListed ==
  ASSUME TypeOK, NEW a \in Actions, NEW p \in Elements(Resolved(a))
  PROVE  Driving(a, p) = UNION {DrivingOf(h) : h \in HandsOf(a, p)}
  <1> DEFINE Now(h) == CurrentInteractionProfile(h)
  <1>1. \A h \in Hands : \A b : b \in DrivingOf(h) <=>
           /\ Now(h) \in DOMAIN suggested /\ b \in Elements(suggested[Now(h)])
           /\ b.hand = h /\ IsInputDeviceActive(h)
    <2> SUFFICES ASSUME NEW h \in Hands
                 PROVE  DrivingOf(h) = IF Now(h) \in DOMAIN suggested
                                       THEN {b \in Elements(suggested[Now(h)]) :
                                                b.hand = h /\ IsInputDeviceActive(h)}
                                       ELSE {}
      OBVIOUS
    <2> HIDE DEF Now
    <2>1. Bindings(h) = IF Now(h) \in DOMAIN suggested THEN suggested[Now(h)] ELSE <<>>
      BY DEF Bindings, Now
    <2>2. Elements(<<>>) = {}
      BY DEF Elements
    <2> QED
      BY <2>1, <2>2 DEF DrivingOf
  <1>2. /\ HandsOf(a, p) \subseteq Hands
        /\ \A h \in Hands : h \in HandsOf(a, p) <=> a = "whole" \/ h = p
    BY ResolvedPaths DEF HandsOf, Actions, Hands
  <1>3. \A b : b \in Driving(a, p) <=>
           /\ b.hand \in Hands /\ (a = "whole" \/ b.hand = p)
           /\ Now(b.hand) \in DOMAIN suggested /\ b \in Elements(suggested[Now(b.hand)])
           /\ IsInputDeviceActive(b.hand)
    <2> HIDE DEF Now
    <2> QED
      BY DEF Driving, Now
  <1> HIDE DEF Now
  <1>4. ASSUME NEW b PROVE b \in Driving(a, p) <=> \E h \in HandsOf(a, p) : b \in DrivingOf(h)
    BY <1>1, <1>2, <1>3
  <1> QED
    BY <1>4

\* After a sync of its set each path of an action tells the input of that moment, however
\* many bindings there are and whatever its state was.
THEOREM SyncTellsInputHolds == Spec => SyncTellsInput
  <1>1. ASSUME TypeOK, [Next]_vars
        PROVE  \A active \in SUBSET Sets :
                 SyncActions(active) /\ IsActionSetActive(active) =>
                    \A a \in Actions : \A p \in Elements(Resolved(a)) :
                       Tells(data'[a][p], Driving(a, p))
    <2> SUFFICES ASSUME NEW active \in SUBSET Sets, SyncActions(active), IsActionSetActive(active),
                        NEW a \in Actions, NEW p \in Elements(Resolved(a))
                 PROVE  Tells(data'[a][p], Driving(a, p))
      OBVIOUS
    <2>1. Tells(Aggregate(a, p), Driving(a, p))
      BY <1>1, AggregateTells, DrivingListed
    <2>2. /\ data'[a][p].active = Aggregate(a, p).active
          /\ data'[a][p].value = Aggregate(a, p).value
          /\ data'[a][p].poseSource = Aggregate(a, p).poseSource
          /\ data'[a][p].sources = Aggregate(a, p).sources
      BY <1>1, SyncedState
    <2> QED
      BY <2>1, <2>2 DEF Tells
  <1>2. Spec => []TypeOK
    BY TypeOKHolds
  <1> QED
    BY <1>1, <1>2, PTL DEF Spec, SyncTellsInput

-----------------------------------------------------------------------------
(* The hand a space follows. *)

\* Inductive: a path of a hand has a source of that hand or none, and an action with
\* paths has none for the null path, where GetWorldPose looks next.
SourcesOfTheirHand ==
    \A a \in Actions : SubactionPaths(a) # <<>> =>
        /\ \A p \in Hands : data[a][p].poseSource # NoSource => data[a][p].poseSource.hand = p
        /\ data[a]["null"].poseSource = NoSource

LEMMA SourcesStayOfTheirHand ==
  ASSUME TypeOK, SourcesOfTheirHand, [Next]_vars
  PROVE  SourcesOfTheirHand'
  <1>1. CASE \E active \in SUBSET Sets : SyncActions(active)
    <2>1. PICK active \in SUBSET Sets : SyncActions(active)
      BY <1>1
    <2>2. ASSUME NEW a \in Actions, SubactionPaths(a) # <<>>
          PROVE  data'[a]["null"].poseSource = NoSource
      <3>1. "null" \in Paths /\ "null" \notin Elements(Resolved(a))
        BY <2>2, ResolvedPaths DEF Actions, Paths
      <3>2. data'[a]["null"] = data[a]["null"]
        BY <2>1, <3>1, UnsyncedState
      <3> QED
        BY <2>2, <3>2 DEF SourcesOfTheirHand
    <2>3. ASSUME NEW a \in Actions, SubactionPaths(a) # <<>>, NEW p \in Hands,
                 data'[a][p].poseSource # NoSource
          PROVE  data'[a][p].poseSource.hand = p
      <3>1. CASE IsActionSetActive(active) /\ p \in Elements(Resolved(a))
        <4>1. data'[a][p].poseSource = Aggregate(a, p).poseSource
          BY <2>1, <3>1, SyncedState
        <4>2. Tells(Aggregate(a, p), DrivingOf(p))
          <5>1. UNION {DrivingOf(h) : h \in HandsOf(a, p)} = DrivingOf(p)
            BY <2>3 DEF HandsOf
          <5> QED
            BY <3>1, <5>1, AggregateTells
        <4>3. Aggregate(a, p).poseSource \in DrivingOf(p)
          BY <2>3, <4>1, <4>2 DEF Tells
        <4> QED
          BY <4>1, <4>3, DrivingOfType
      <3>2. CASE ~(IsActionSetActive(active) /\ p \in Elements(Resolved(a)))
        <4>1. data'[a][p] = data[a][p]
          BY <2>1, <3>2, UnsyncedState DEF Paths
        <4> QED
          BY <2>3, <4>1 DEF SourcesOfTheirHand
      <3> QED
        BY <3>1, <3>2
    <2> QED
      BY <2>2, <2>3 DEF SourcesOfTheirHand
  <1>2. CASE ~\E active \in SUBSET Sets : SyncActions(active)
    <2>1. data' = data
      BY <1>2, OtherStepsKeepData
    <2> QED
      BY <2>1 DEF SourcesOfTheirHand
  <1> QED
    BY <1>1, <1>2

\* A space made of a subaction path follows that hand, whatever was bound and synced.
THEOREM SpaceFollowsItsHandHolds == Spec => []SpaceFollowsItsHand
  <1>1. Init => SourcesOfTheirHand
    BY DEF Init, SourcesOfTheirHand, Idle, Paths
  <1>2. TypeOK /\ SourcesOfTheirHand /\ [Next]_vars => SourcesOfTheirHand'
    BY SourcesStayOfTheirHand
  <1>3. SourcesOfTheirHand => SpaceFollowsItsHand
    <2> SUFFICES ASSUME SourcesOfTheirHand, NEW a \in Actions, NEW p \in Paths,
                        SubactionPaths(a) # <<>>, Query(a, p) = "SUCCESS"
                 PROVE  SpaceHand(a, SpacePath(a, p)) = SpacePath(a, p)
      BY DEF SpaceFollowsItsHand
    <2>1. SpacePath(a, p) \in Hands
      <3>1. CASE p = "null"
        <4>1. SubactionPaths(a)[1] \in {"left", "right"}
          BY DEF SubactionPaths, Actions
        <4> QED
          BY <3>1, <4>1 DEF SpacePath, Hands
      <3>2. CASE p # "null"
        BY <3>2 DEF SpacePath, Paths
      <3> QED
        BY <3>1, <3>2
    <2>2. data[a]["null"].poseSource = NoSource
      BY DEF SourcesOfTheirHand
    <2>3. ASSUME NEW h \in Hands PROVE SpaceHand(a, h) = h
      <3>1. CASE data[a][h].poseSource # NoSource
        BY <3>1 DEF SpaceHand, SourcesOfTheirHand
      <3>2. CASE data[a][h].poseSource = NoSource
        BY <2>2, <3>2 DEF SpaceHand, FallbackPath, Hands
      <3> QED
        BY <3>1, <3>2
    <2> QED
      BY <2>1, <2>3
  <1>4. Spec => []TypeOK
    BY TypeOKHolds
  <1> QED
    BY <1>1, <1>2, <1>3, <1>4, PTL DEF Spec

-----------------------------------------------------------------------------
(* What a query says has changed. *)

\* No value differs from itself; where two are combined and do, one of them does.
LEMMA DiffersNot ==
  ASSUME TypeOK, NEW v \in Values
  PROVE  ~Differs(v, v)
  <1>1. CASE type = "vector"
    <2>1. v[1] \in Int /\ v[2] \in Int
      BY <1>1, ValuesOfType DEF Vector
    <2> QED
      BY <1>1, <2>1, ValuesOfType DEF Differs, Magnitude
  <1>2. CASE type = "boolean"
    BY <1>2 DEF Differs
  <1>3. CASE type = "float"
    <2>1. v \in Int /\ Tolerance \in Nat
      BY <1>3, ValuesOfType
    <2> QED
      BY <1>3, <2>1 DEF Differs, Magnitude
  <1>4. CASE type = "pose"
    BY <1>4 DEF Differs
  <1> QED
    BY <1>1, <1>2, <1>3, <1>4, TypeCases

LEMMA CombinedDiffers ==
  ASSUME TypeOK, type # "vector", NEW v \in Values, NEW w \in Values, NEW x \in Values,
         NEW y \in Values, Differs(Combined(v, w), Combined(x, y))
  PROVE  Differs(v, x) \/ Differs(w, y)
  <1>1. CASE type = "boolean"
    BY <1>1, ValuesOfType DEF Differs, Combined
  <1>2. CASE type = "float"
    <2>1. v \in Int /\ w \in Int /\ x \in Int /\ y \in Int /\ Tolerance \in Nat
      BY <1>2, ValuesOfType
    <2> QED
      BY <1>2, <2>1 DEF Differs, Combined, Magnitude
  <1>3. CASE type = "pose"
    BY <1>3 DEF Differs
  <1> QED
    BY <1>1, <1>2, <1>3, TypeCases

LEMMA SyncedChange ==
  ASSUME TypeOK, [Next]_vars, NEW a \in Actions, NEW p \in Elements(Resolved(a)),
         Differs(data'[a][p].value, data[a][p].value)
  PROVE  data'[a][p].changed = TRUE
  <1>1. p \in Paths
    BY ResolvedPaths DEF Actions, Paths, Hands
  <1>2. data[a][p].value \in Values
    BY <1>1 DEF TypeOK, SubactionData
  <1>3. data'[a][p] # data[a][p]
    BY <1>2, DiffersNot
  <1>4. PICK active \in SUBSET Sets : SyncActions(active)
    BY <1>3, OtherStepsKeepData
  <1>5. IsActionSetActive(active)
    BY <1>1, <1>3, <1>4, UnsyncedState
  <1>6. data'[a][p] \in SubactionData
    BY <1>4, <1>5, SyncedState
  <1>7. data'[a][p].changed <=> Differs(data'[a][p].value, data[a][p].value)
    BY <1>4, <1>5, SyncedState
  <1> QED
    BY <1>6, <1>7 DEF SubactionData

\* The queries without a path, with the loop over the paths written out.
Queried ==
  /\ GetActionState("whole", "null") = Joined(Idle, data["whole"]["null"])
  /\ GetActionState("split", "null")
     = Joined(Joined(Idle, data["split"]["left"]), data["split"]["right"])
  /\ GetActionState("crossed", "null")
     = Joined(Joined(Idle, data["crossed"]["right"]), data["crossed"]["left"])
  /\ GetActionState("lefty", "null") = Joined(Idle, data["lefty"]["left"])

LEMMA QueriedState == Queried
  BY ResolvedPaths, AllOfOnePath, AllOfTwoPaths DEF Queried, GetActionState

LEMMA QueriedStateNext == Queried'
  BY QueriedState, PTL

\* What is joined to nothing keeps its value, and says when a part has changed.
LEMMA JoinedFields ==
  ASSUME TypeOK, NEW d \in SubactionData, NEW e \in SubactionData
  PROVE  /\ Joined(Idle, d).value = d.value
         /\ Joined(Idle, d).changed <=> d.changed
         /\ Joined(Joined(Idle, d), e).value = Combined(d.value, e.value)
         /\ Joined(Joined(Idle, d), e).changed <=> d.changed \/ e.changed
  <1>1. d.value \in Values /\ Combined(Zero, d.value) = d.value
    BY CombinedWithZero DEF SubactionData
  <1>2. Idle.value = Zero /\ Idle.changed = FALSE
    BY DEF Idle
  <1>3. ASSUME NEW x, NEW y
        PROVE  /\ Joined(x, y).value = Combined(x.value, y.value)
               /\ Joined(x, y).changed <=> x.changed \/ y.changed
    BY DEF Joined
  <1> QED
    BY <1>1, <1>2, <1>3

\* A query of an action that differs from the last one says so, whether it asks for one
\* path or for all of them, unless that is the vectors of two hands.
THEOREM NoChangeUntoldHolds == Spec => NoChangeUntold
  <1>1. ASSUME TypeOK, TypeOK', [Next]_vars
        PROVE  \A a \in Actions, p \in Paths :
                 ChangesUntold(a, p) =>
                    type = "vector" /\ p = "null" /\ a \in {"split", "crossed"}
    <2> SUFFICES ASSUME NEW a \in Actions, NEW p \in Paths, Query(a, p) = "SUCCESS",
                        Differs(GetActionState(a, p)'.value, GetActionState(a, p).value),
                        type # "vector" \/ p # "null" \/ a \notin {"split", "crossed"}
                 PROVE  GetActionState(a, p)'.changed
      BY DEF ChangesUntold
    <2>0. type' = type /\ SubactionData' = SubactionData
      BY <1>1, TypeKept DEF SubactionData, Values
    <2>1. ASSUME NEW x, NEW y PROVE Joined(x, y)' = Joined(x, y)
      BY <2>0 DEF Joined, Combined
    <2>2. Idle' = Idle
      BY <2>0 DEF Idle, Zero
    <2>3. /\ data \in [Actions -> [Paths -> SubactionData]]
          /\ data' \in [Actions -> [Paths -> SubactionData]]
      <3>1. data' \in [Actions -> [Paths -> SubactionData']]
        BY <1>1 DEF TypeOK
      <3> QED
        BY <1>1, <2>0, <3>1 DEF TypeOK
    <2>4. ASSUME NEW q \in Elements(Resolved(a)),
                 Differs(data'[a][q].value, data[a][q].value)
          PROVE  data'[a][q].changed = TRUE
      BY <1>1, <2>4, SyncedChange
    <2>5. CASE p # "null"
      <3>1. p \in Elements(Resolved(a))
        BY <2>5 DEF Query
      <3> QED
        BY <2>4, <2>5, <3>1 DEF GetActionState
    <2>6. ASSUME NEW q \in Paths, p = "null", Elements(Resolved(a)) = {q},
                 GetActionState(a, p) = Joined(Idle, data[a][q]),
                 GetActionState(a, p)' = Joined(Idle, data'[a][q])
          PROVE  GetActionState(a, p)'.changed
      <3>1. /\ data[a][q] \in SubactionData /\ data'[a][q] \in SubactionData
        BY <2>3
      <3>2. /\ Joined(Idle, data[a][q]).value = data[a][q].value
            /\ Joined(Idle, data'[a][q]).value = data'[a][q].value
            /\ Joined(Idle, data'[a][q]).changed <=> data'[a][q].changed
        BY <1>1, <3>1, JoinedFields
      <3>3. data'[a][q].changed = TRUE
        BY <2>4, <2>6, <3>2
      <3> QED
        BY <2>6, <3>2, <3>3
    <2>7. ASSUME NEW q \in Paths, NEW s \in Paths, type # "vector",
                 Elements(Resolved(a)) = {q, s},
                 GetActionState(a, p) = Joined(Joined(Idle, data[a][q]), data[a][s]),
                 GetActionState(a, p)' = Joined(Joined(Idle, data'[a][q]), data'[a][s])
          PROVE  GetActionState(a, p)'.changed
      <3> DEFINE d == data[a][q]
                 e == data[a][s]
                 f == data'[a][q]
                 g == data'[a][s]
      <3>1. /\ d \in SubactionData /\ e \in SubactionData
            /\ f \in SubactionData /\ g \in SubactionData
        BY <2>3
      <3>2. /\ d.value \in Values /\ e.value \in Values /\ f.value \in Values
            /\ g.value \in Values
        BY <3>1 DEF SubactionData
      <3> HIDE DEF d, e, f, g
      <3>3. /\ Joined(Joined(Idle, d), e).value = Combined(d.value, e.value)
            /\ Joined(Joined(Idle, f), g).value = Combined(f.value, g.value)
            /\ Joined(Joined(Idle, f), g).changed <=> f.changed \/ g.changed
        BY <1>1, <3>1, JoinedFields
      <3>4. Differs(Combined(f.value, g.value), Combined(d.value, e.value))
        BY <2>7, <3>3 DEF d, e, f, g
      <3>5. Differs(f.value, d.value) \/ Differs(g.value, e.value)
        BY <1>1, <2>7, <3>2, <3>4, CombinedDiffers
      <3>6. f.changed = TRUE \/ g.changed = TRUE
        BY <2>4, <2>7, <3>5 DEF d, e, f, g
      <3> QED
        BY <2>7, <3>3, <3>6 DEF f, g
    <2>8. /\ "left" \in Paths /\ "right" \in Paths /\ "null" \in Paths
      BY DEF Paths, Hands
    <2>9. /\ GetActionState("whole", "null")' = Joined(Idle, data'["whole"]["null"])
          /\ GetActionState("split", "null")'
             = Joined(Joined(Idle, data'["split"]["left"]), data'["split"]["right"])
          /\ GetActionState("crossed", "null")'
             = Joined(Joined(Idle, data'["crossed"]["right"]), data'["crossed"]["left"])
          /\ GetActionState("lefty", "null")' = Joined(Idle, data'["lefty"]["left"])
      BY <2>1, <2>2, QueriedStateNext DEF Queried
    <2>10. CASE p = "null" /\ a = "whole"
      BY <2>6, <2>8, <2>9, <2>10, QueriedState, ResolvedPaths DEF Queried
    <2>11. CASE p = "null" /\ a = "lefty"
      BY <2>6, <2>8, <2>9, <2>11, QueriedState, ResolvedPaths DEF Queried
    <2>12. CASE p = "null" /\ a = "split"
      BY <2>7, <2>8, <2>9, <2>12, QueriedState, ResolvedPaths DEF Queried
    <2>13. CASE p = "null" /\ a = "crossed"
      <3>1. Elements(Resolved(a)) = {"right", "left"}
        BY <2>13, ResolvedPaths
      <3> QED
        BY <2>7, <2>8, <2>9, <2>13, <3>1, QueriedState DEF Queried
    <2> QED
      BY <2>5, <2>10, <2>11, <2>12, <2>13 DEF Actions
  <1>2. Spec => []TypeOK
    BY TypeOKHolds
  <1> QED
    BY <1>1, <1>2, PTL DEF Spec, NoChangeUntold

-----------------------------------------------------------------------------
(* The two places that combine the hands. *)

\* Inductive: what an action without paths has been given is what an action of both hands
\* has, hand by hand, in whatever order it was given them.
HandsTogether ==
    \A a \in {"split", "crossed"} :
        SaysBoth(data["whole"]["null"], data[a]["left"], data[a]["right"])

LEMMA HandsStayTogether ==
  ASSUME OneVectorPerHand, TypeOK, HandsTogether, [Next]_vars
  PROVE  HandsTogether'
  <1>0. type' = type
    BY TypeKept
  <1>1. ASSUME NEW d, NEW x, NEW y PROVE SaysBoth(d, x, y)' <=> SaysBoth(d, x, y)
    BY <1>0 DEF SaysBoth, Combined
  <1>2. CASE \E active \in SUBSET Sets : SyncActions(active) /\ IsActionSetActive(active)
    <2>1. PICK active \in SUBSET Sets : SyncActions(active) /\ IsActionSetActive(active)
      BY <1>2
    <2> DEFINE l == AccumulatedFor("left", Idle)
               r == AccumulatedFor("right", Idle)
    <2>2. "left" \in Hands /\ "right" \in Hands
      BY DEF Hands
    <2>3. \A a \in {"split", "crossed"} : Aggregate(a, "left") = l /\ Aggregate(a, "right") = r
      BY ResolvedPaths DEF Aggregate
    <2>4. Aggregate("whole", "null") = AccumulatedFor("right", l)
      BY ResolvedPaths DEF Aggregate
    <2>5. l \in SubactionData
      BY <2>2, <2>3, ResolvedPaths, AggregateTells DEF Actions
    <2> HIDE DEF l, r
    <2>6. \A a \in {"split", "crossed"} :
             SaysBoth(Aggregate("whole", "null"), Aggregate(a, "left"), Aggregate(a, "right"))
      BY <2>2, <2>3, <2>4, <2>5, LoopJoins DEF r
    <2>7. ASSUME NEW a \in Actions, NEW p \in Elements(Resolved(a))
          PROVE  /\ data'[a][p].active = Aggregate(a, p).active
                 /\ data'[a][p].value = Aggregate(a, p).value
                 /\ data'[a][p].poseSource = Aggregate(a, p).poseSource
                 /\ data'[a][p].sources = Aggregate(a, p).sources
      BY <2>1, SyncedState
    <2>8. ASSUME NEW a \in {"split", "crossed"}
          PROVE  SaysBoth(data'["whole"]["null"], data'[a]["left"], data'[a]["right"])
      <3>1. /\ "whole" \in Actions /\ "null" \in Elements(Resolved("whole"))
            /\ a \in Actions /\ "left" \in Elements(Resolved(a))
            /\ "right" \in Elements(Resolved(a))
        BY ResolvedPaths DEF Actions
      <3> QED
        BY <2>6, <2>7, <3>1 DEF SaysBoth
    <2> QED
      BY <1>0, <2>8 DEF HandsTogether, SaysBoth, Combined
  <1>3. CASE ~\E active \in SUBSET Sets : SyncActions(active) /\ IsActionSetActive(active)
    <2>1. data' = data
      BY <1>3, OtherStepsKeepData DEF SyncActions
    <2> QED
      BY <1>0, <2>1 DEF HandsTogether, SaysBoth, Combined
  <1> QED
    BY <1>2, <1>3

\* An action of both hands, asked without a path, says what an action without paths says, if
\* the automation extension does not make a second vector of a hand: its values whatever
\* order the application gave the hands in, its vectors and poses if the left came first.
THEOREM WaysToCombineAgreeHolds ==
  ASSUME OneVectorPerHand
  PROVE  Spec => []WaysToCombineAgree
  <1>1. Init => HandsTogether
    <2> SUFFICES ASSUME Init PROVE HandsTogether
      OBVIOUS
    <2>1. /\ data["whole"]["null"] = Idle
          /\ \A a \in {"split", "crossed"} : data[a]["left"] = Idle /\ data[a]["right"] = Idle
      BY DEF Init, Actions, Paths, Hands
    <2>2. Combined(Zero, Zero) = Zero
      BY InitTypeOK, ZeroType, CombinedToZero
    <2> QED
      <3>1. /\ Idle.active = FALSE /\ Idle.value = Zero /\ Idle.poseSource = NoSource
            /\ Idle.sources = {}
        BY DEF Idle
      <3>2. SaysBoth(Idle, Idle, Idle)
        BY <2>2, <3>1 DEF SaysBoth, FirstSource
      <3> QED
        BY <2>1, <3>2 DEF HandsTogether
  <1>2. TypeOK /\ HandsTogether /\ [Next]_vars => HandsTogether'
    BY HandsStayTogether
  <1>3. TypeOK /\ HandsTogether => WaysToCombineAgree
    <2> SUFFICES ASSUME TypeOK, HandsTogether PROVE WaysToCombineAgree
      OBVIOUS
    <2>1. ASSUME NEW a \in Actions, NEW p \in Paths
          PROVE  /\ data[a][p].active \in BOOLEAN /\ data[a][p].value \in Values
                 /\ Combined(Zero, data[a][p].value) = data[a][p].value
      <3>1. data[a][p] \in SubactionData
        BY DEF TypeOK
      <3>2. data[a][p].active \in BOOLEAN /\ data[a][p].value \in Values
        BY <3>1 DEF SubactionData
      <3> QED
        BY <3>2, CombinedWithZero
    <2>2. /\ Idle.active = FALSE /\ Idle.value = Zero /\ Idle.poseSource = NoSource
          /\ Idle.sources = {}
      BY DEF Idle
    <2>3. ASSUME NEW a \in Actions, NEW p \in Paths
          PROVE  /\ Joined(Idle, data[a][p]).active = data[a][p].active
                 /\ Joined(Idle, data[a][p]).value = data[a][p].value
                 /\ Joined(Idle, data[a][p]).poseSource = data[a][p].poseSource
                 /\ Joined(Idle, data[a][p]).sources = data[a][p].sources
      BY <2>1, <2>2 DEF Joined, FirstSource
    <2>4. ASSUME NEW x, NEW y
          PROVE  SaysBoth(Joined(x, y), x, y)
      BY DEF SaysBoth, Joined
    <2>5. /\ {"split", "crossed"} \subseteq Actions /\ "whole" \in Actions
          /\ "left" \in Paths /\ "right" \in Paths /\ "null" \in Paths
      BY DEF Actions, Paths, Hands
    <2> DEFINE W == GetActionState("whole", "null")
               B(a) == GetActionState(a, "null")
    <2>6. /\ W.active = data["whole"]["null"].active /\ W.value = data["whole"]["null"].value
          /\ W.poseSource = data["whole"]["null"].poseSource
          /\ W.sources = data["whole"]["null"].sources
      <3>1. W = Joined(Idle, data["whole"]["null"])
        BY QueriedState DEF Queried
      <3> HIDE DEF W
      <3> QED
        BY <2>3, <2>5, <3>1
    <2>7. \A a \in {"split", "crossed"} :
             /\ W.active = (data[a]["left"].active \/ data[a]["right"].active)
             /\ W.value = Combined(data[a]["left"].value, data[a]["right"].value)
             /\ W.poseSource = FirstSource(data[a]["left"].poseSource, data[a]["right"].poseSource)
             /\ W.sources = data[a]["left"].sources \cup data[a]["right"].sources
      <3> HIDE DEF W
      <3> QED
        BY <2>6 DEF HandsTogether, SaysBoth
    <2>8. /\ B("split").active = (data["split"]["left"].active \/ data["split"]["right"].active)
          /\ B("split").value
             = Combined(data["split"]["left"].value, data["split"]["right"].value)
          /\ B("split").poseSource
             = FirstSource(data["split"]["left"].poseSource, data["split"]["right"].poseSource)
          /\ B("split").sources = data["split"]["left"].sources \cup data["split"]["right"].sources
      <3> DEFINE j == Joined(Idle, data["split"]["left"])
      <3>1. SaysBoth(B("split"), j, data["split"]["right"])
        BY <2>4, QueriedState DEF Queried
      <3>2. /\ j.active = data["split"]["left"].active /\ j.value = data["split"]["left"].value
            /\ j.poseSource = data["split"]["left"].poseSource
            /\ j.sources = data["split"]["left"].sources
        BY <2>3, <2>5
      <3> HIDE DEF j, B
      <3> QED
        BY <3>1, <3>2 DEF SaysBoth
    <2>9. /\ B("crossed").active
             = (data["crossed"]["right"].active \/ data["crossed"]["left"].active)
          /\ B("crossed").value
             = Combined(data["crossed"]["right"].value, data["crossed"]["left"].value)
          /\ B("crossed").sources
             = data["crossed"]["right"].sources \cup data["crossed"]["left"].sources
      <3> DEFINE j == Joined(Idle, data["crossed"]["right"])
      <3>1. SaysBoth(B("crossed"), j, data["crossed"]["left"])
        BY <2>4, QueriedState DEF Queried
      <3>2. /\ j.active = data["crossed"]["right"].active
            /\ j.value = data["crossed"]["right"].value
            /\ j.sources = data["crossed"]["right"].sources
        BY <2>3, <2>5
      <3> HIDE DEF j, B
      <3> QED
        BY <3>1, <3>2 DEF SaysBoth
    <2>10. type # "vector" => \A v, x \in Values : Combined(v, x) = Combined(x, v)
      BY ValuesOfType, TypeCases DEF Combined
    <2>11. type # "vector" => W.value = B("crossed").value
      <3>1. data["crossed"]["left"].value \in Values /\ data["crossed"]["right"].value \in Values
        BY <2>1, <2>5
      <3> HIDE DEF W, B
      <3> QED
        BY <2>7, <2>9, <2>10, <3>1
    <2>12. \A a \in {"split", "crossed"} :
              /\ data[a]["left"].active \in BOOLEAN /\ data[a]["right"].active \in BOOLEAN
      BY <2>1, <2>5
    <2>13. /\ W.active = B("split").active /\ W.sources = B("split").sources
           /\ W.active = B("crossed").active /\ W.sources = B("crossed").sources
           /\ W.value = B("split").value /\ W.poseSource = B("split").poseSource
      <3> HIDE DEF W, B
      <3> QED
        BY <2>7, <2>8, <2>9, <2>12
    <2> QED
      BY <2>11, <2>13 DEF WaysToCombineAgree
  <1>4. Spec => []TypeOK
    BY TypeOKHolds
  <1> QED
    BY <1>1, <1>2, <1>3, <1>4, PTL DEF Spec
=============================================================================
