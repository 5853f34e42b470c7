------------------------------ MODULE ActionInput ------------------------------
(***************************************************************************)
(* What an application's actions read: the suggested bindings, the input   *)
(* of each hand (tracking packets, hand tracking, and the values the       *)
(* conformance automation extension overrides them with), xrSyncActions,   *)
(* which takes the input into the state of every action of an active set,  *)
(* and the queries, which combine the state of an action's subaction paths *)
(* and locate the spaces made of it.                                       *)
(*                                                                         *)
(* The application has four actions of one type, bound to the same         *)
(* sources, which differ in their subaction paths and the order they were  *)
(* given in, all in the action set "own"; another set, "other", stands for *)
(* all the others.  The life of handles is in EntryPoint.tla, which also   *)
(* tells the errors apart.                                                 *)
(*                                                                         *)
(* Floating-point values are in steps of which Scale are the whole range   *)
(* from rest; a difference of up to Tolerance of them is one the code's    *)
(* comparisons do not see (0.0001 for a change, 0.01 for a touch).         *)
(***************************************************************************)
EXTENDS Integers, Sequences, FiniteSets

CONSTANTS
    Types,          \* of the actions: "boolean", "float", "vector", "pose"
    Suggestions,    \* the lists of bindings an application suggests for each profile
    Packets,        \* what the tracking packets hold
    Automated,      \* inputs the automation extension is used on, <<hand, component>> ...
    Overrides,      \* ... the values it gives them, and the profiles ...
    AutomatedProfiles,  \* ... it gives their hands; "inactive": none
    Scale,          \* a value of 1.0
    Tolerance       \* the largest difference that is not one

Hands == {"left", "right"}
Profiles == {"simple", "touch", "hand"}
Components == {"stick", "menu", "pinch"}
Sets == {"own", "other"}
Vector == (-Scale..Scale) \X (-Scale..Scale)

Binding == [hand : Hands \cup {"gamepad"}, component : Components]
Packet == [tracked : SUBSET Hands, stick : [Hands -> Vector], menu : 0..1,
           pinch : [Hands -> 0..Scale]]

ASSUME ActionInputAssumption ==
    /\ Scale \in Nat /\ Tolerance \in Nat
    /\ Types \subseteq {"boolean", "float", "vector", "pose"}
    /\ Suggestions \in [Profiles -> SUBSET Seq(Binding)]
    /\ Packets \subseteq Packet
    /\ Automated \subseteq Hands \X Components
    /\ Overrides \subseteq Vector
    /\ AutomatedProfiles \subseteq Profiles \cup {"inactive"}

VARIABLES
    type,               \* of the actions
    suggested,          \* gSuggestedBindings: a list for each profile that has one
    attached,           \* gAttachedActionSetHandles, {} before xrAttachSessionActionSets
    receiving,          \* the session's receiver is there and has had a packet
    input,              \* the packet InputManager::Update last took
    automation,         \* AutomationHandState: explicit activity and profile ...
    overridden,         \* ... and the values, for the inputs that were given one
    data                \* subactionData_ of each action

inputVars == <<receiving, input, automation, overridden>>
vars == <<type, suggested, attached, inputVars, data>>

Unset == "unset"
NoSource == [hand |-> "none", component |-> "none"]

Actions == {"whole", "split", "crossed", "lefty"}

\* An action's subaction paths, in the order it was created with.
SubactionPaths(a) ==
    CASE a = "whole" -> <<>>
      [] a = "split" -> <<"left", "right">>
      [] a = "crossed" -> <<"right", "left">>
      [] a = "lefty" -> <<"left">>

\* XR_NULL_PATH stands for the whole of an action without subaction paths.
Paths == Hands \cup {"null"}
Resolved(a) == IF SubactionPaths(a) = <<>> THEN <<"null">> ELSE SubactionPaths(a)
Elements(s) == {s[i] : i \in DOMAIN s}

Source == Binding \cup {NoSource}
Zero == IF type = "vector" THEN <<0, 0>> ELSE 0
Idle == [active |-> FALSE, value |-> Zero, changed |-> FALSE, poseSource |-> NoSource,
         sources |-> {}]
Rest == [tracked |-> {}, stick |-> [h \in Hands |-> <<0, 0>>], menu |-> 0,
         pinch |-> [h \in Hands |-> 0]]

Init ==
    /\ type \in Types
    /\ suggested = [p \in {} |-> <<>>]
    /\ attached = {}
    /\ receiving = FALSE
    /\ input = Rest
    /\ automation = [h \in Hands |-> Unset]
    /\ overridden = [i \in {} |-> <<0, 0>>]
    /\ data = [a \in Actions |-> [p \in Paths |-> Idle]]

Magnitude(x) == IF x < 0 THEN -x ELSE x

-----------------------------------------------------------------------------
(* InputManager. *)

IsHandTrackingActive(h) == receiving /\ h \in input.tracked

IsInputDeviceActive(h) ==
    IF automation[h] # Unset THEN automation[h] # "inactive"
    ELSE IsHandTrackingActive(h) \/ receiving

\* "inactive" also stands for the empty path: no profile.
CurrentInteractionProfile(h) ==
    IF automation[h] # Unset THEN automation[h]
    ELSE IF IsHandTrackingActive(h) THEN "hand"
    ELSE IF receiving THEN "touch"
    ELSE "simple"

\* GetTrackedPinchValue, and the ready components.
PinchValue(h) == IF IsHandTrackingActive(h) THEN input.pinch[h] ELSE 0
PinchReady(h) == IF IsHandTrackingActive(h) THEN 1 ELSE 0

\* A stick, or a value of the automation extension, as the type reads it: whether it
\* is off its center, its x (the code has one for y as well), or both.
OffCenter(v) == Magnitude(v[1]) > Tolerance \/ Magnitude(v[2]) > Tolerance
AsRead(v) ==
    CASE type = "boolean" -> IF OffCenter(v) THEN 1 ELSE 0
      [] type = "float" -> v[1]
      [] type = "vector" -> v
      [] type = "pose" -> 0

\* GetBooleanComponent, GetFloatComponent and GetVector2fComponent: an overridden
\* input has the value it was given; the sticks, the menu button and the pinch
\* stand for the components there are.
Reading(h, component) ==
    IF <<h, component>> \in DOMAIN overridden
    THEN AsRead(overridden[<<h, component>>])
    ELSE CASE component = "stick" -> AsRead(input.stick[h])
           [] type = "boolean" /\ component = "menu" -> input.menu
           [] type = "float" /\ component = "menu" -> IF input.menu = 1 THEN Scale ELSE 0
           [] type = "boolean" /\ component = "pinch" -> PinchReady(h)
           [] type = "float" /\ component = "pinch" -> PinchValue(h)
           [] OTHER -> Zero

\* A value taken into the value so far, in AccumulateBindingState and again in
\* GetQueriedActionState: or, maximum, and the vector that is longer somewhere, which
\* of two vectors may both be.
\* CombinedSummed, and the forms below that stand before what they vary, are slips
\* the code might have made: Spec uses none.
Longer(v, w) == Magnitude(v[1]) > Magnitude(w[1]) \/ Magnitude(v[2]) > Magnitude(w[2])
CombinedSummed(sofar, v) ==
    CASE type = "boolean" -> IF sofar = 1 \/ v = 1 THEN 1 ELSE 0
      [] type = "float" -> sofar + v
      [] type = "vector" -> IF Longer(v, sofar) THEN v ELSE sofar
      [] type = "pose" -> 0
Combined(sofar, v) ==
    CASE type = "boolean" -> IF sofar = 1 \/ v = 1 THEN 1 ELSE 0
      [] type = "float" -> IF v > sofar THEN v ELSE sofar
      [] type = "vector" -> IF Longer(v, sofar) THEN v ELSE sofar
      [] type = "pose" -> 0

\* The pose comes from the first source.
FirstSource(sofar, source) == IF sofar = NoSource THEN source ELSE sofar

-----------------------------------------------------------------------------
(* xrSyncActions. *)

\* What is suggested for the profile a hand has now.
Bindings(h) ==
    LET profile == CurrentInteractionProfile(h)
    IN  IF profile \in DOMAIN suggested THEN suggested[profile] ELSE <<>>

\* AccumulateBindingState: an input device that is not active gives nothing.
AccumulatedUnasked(aggregate, b) ==
    [aggregate EXCEPT
        !.active = TRUE,
        !.sources = @ \cup {b},
        !.value = Combined(@, Reading(b.hand, b.component)),
        !.poseSource = IF type = "pose" THEN FirstSource(@, b) ELSE @]
Accumulated(aggregate, b) ==
    IF ~IsInputDeviceActive(b.hand)
    THEN aggregate
    ELSE [aggregate EXCEPT
             !.active = TRUE,
             !.sources = @ \cup {b},
             !.value = Combined(@, Reading(b.hand, b.component)),
             !.poseSource = IF type = "pose" THEN FirstSource(@, b) ELSE @]

\* The loop over the bindings for a hand: those of the hand, one after the other.
Taken(h, aggregate, b) == IF b.hand = h THEN Accumulated(aggregate, b) ELSE aggregate
AccumulatedFor(h, aggregate) ==
    LET upTo[n \in 0..Len(Bindings(h))] ==
            IF n = 0 THEN aggregate ELSE Taken(h, upTo[n - 1], Bindings(h)[n])
    IN  upTo[Len(Bindings(h))]

\* What is gathered for a path of an action: the left hand's bindings are before
\* the right hand's where both go to the null path.
AggregateRightFirst(a, p) ==
    IF SubactionPaths(a) = <<>>
    THEN AccumulatedFor("left", AccumulatedFor("right", Idle))
    ELSE AccumulatedFor(p, Idle)
Aggregate(a, p) ==
    IF SubactionPaths(a) = <<>>
    THEN AccumulatedFor("right", AccumulatedFor("left", Idle))
    ELSE AccumulatedFor(p, Idle)

\* ApplySyncState: a value is stored even where it is not one that has changed; nothing
\* gathered is the same as Idle.
Differs(v, w) ==
    CASE type = "boolean" -> v # w
      [] type = "float" -> Magnitude(v - w) > Tolerance
      [] type = "vector" -> \/ Magnitude(v[1] - w[1]) > Tolerance
                            \/ Magnitude(v[2] - w[2]) > Tolerance
      [] type = "pose" -> FALSE
SyncStateUntold(old, aggregate) ==
    [aggregate EXCEPT !.changed = aggregate.active /\ Differs(aggregate.value, old.value)]
SyncState(old, aggregate) ==
    [aggregate EXCEPT !.changed = Differs(aggregate.value, old.value)]

\* No active sets means all that are attached; sets that are named need not be.
IsActionSetActive(active) ==
    IF active = {} THEN "own" \in attached ELSE "own" \in active

SyncActions(active) ==
    /\ attached # {}
    /\ UNCHANGED <<type, suggested, attached, inputVars>>
    /\ data' = IF IsActionSetActive(active)
               THEN [a \in Actions |-> [p \in Paths |->
                        IF p \in Elements(Resolved(a))
                        THEN SyncState(data[a][p], Aggregate(a, p))
                        ELSE data[a][p]]]
               ELSE data

-----------------------------------------------------------------------------
(* The queries. *)

\* The state of one more path, taken into that of the paths so far.
Joined(sofar, d) ==
    [active |-> sofar.active \/ d.active,
     value |-> Combined(sofar.value, d.value),
     changed |-> sofar.changed \/ d.changed,
     poseSource |-> FirstSource(sofar.poseSource, d.poseSource),
     sources |-> sofar.sources \cup d.sources]

\* GetQueriedActionState without a subaction path.
AllPaths(a) ==
    LET r == Resolved(a)
        upTo[n \in 0..Len(r)] == IF n = 0 THEN Idle ELSE Joined(upTo[n - 1], data[a][r[n]])
    IN  upTo[Len(r)]

\* ValidateActionStateQuery, for the type the action has.
Query(a, p) ==
    CASE "own" \notin attached -> "ACTIONSET_NOT_ATTACHED"
      [] "own" \in attached /\ p # "null" /\ p \notin Elements(Resolved(a)) -> "PATH_UNSUPPORTED"
      [] OTHER -> "SUCCESS"

GetActionState(a, p) == IF p = "null" THEN AllPaths(a) ELSE data[a][p]

\* xrCreateActionSpace: a space made without a path is of the first.
SpacePath(a, p) == IF p = "null" /\ SubactionPaths(a) # <<>> THEN SubactionPaths(a)[1] ELSE p

\* Where GetWorldPose looks when the space's path has no pose source.
FallbackFirst(a) == Resolved(a)[1]
FallbackPath(a) == "null"

\* The hand a space follows: of the pose source, or of its path.
SpaceHand(a, p) ==
    LET own == data[a][p].poseSource
        other == data[a][FallbackPath(a)].poseSource
    IN  CASE own # NoSource -> own.hand
          [] own = NoSource /\ other # NoSource -> other.hand
          [] OTHER -> IF p = "right" THEN "right" ELSE "left"

-----------------------------------------------------------------------------
(* What the application and the world do. *)

\* IsValidBindingPathForProfile: hand interaction has its own components.
ValidBinding(profile, b) == profile = "hand" => b.hand \in Hands /\ b.component = "pinch"

SuggestInteractionProfileBindings ==
    \E profile \in Profiles : \E list \in Suggestions[profile] :
        /\ attached = {}
        /\ \A b \in Elements(list) : ValidBinding(profile, b)
        /\ suggested' = [p \in DOMAIN suggested \cup {profile} |->
                            IF p = profile THEN list ELSE suggested[p]]
        /\ UNCHANGED <<type, attached, inputVars, data>>

AttachSessionActionSets ==
    /\ attached = {}
    /\ attached' \in (SUBSET Sets) \ {{}}
    /\ UNCHANGED <<type, suggested, inputVars, data>>

\* xrDestroySession, and the next xrCreateSession: the input is a new session's,
\* the actions and their state stay.
NewSession ==
    /\ attached' = {}
    /\ receiving' = FALSE /\ input' = Rest
    /\ automation' = [h \in Hands |-> Unset]
    /\ overridden' = [i \in {} |-> <<0, 0>>]
    /\ UNCHANGED <<type, suggested, data>>

\* xrBeginSession gives the session a receiver; a first packet makes it receive.
PacketArrives ==
    /\ receiving' = TRUE
    /\ UNCHANGED <<type, suggested, attached, input, automation, overridden, data>>

\* InputManager::Update in xrWaitFrame.
Update ==
    /\ receiving
    /\ input' \in Packets
    /\ UNCHANGED <<type, suggested, attached, receiving, automation, overridden, data>>

\* xrEndSession takes the receiver away, and leaves the last input.
EndSession ==
    /\ receiving' = FALSE
    /\ UNCHANGED <<type, suggested, attached, input, automation, overridden, data>>

SetInputDeviceActive ==
    \E i \in Automated, profile \in AutomatedProfiles :
        /\ automation' = [automation EXCEPT ![i[1]] = profile]
        /\ UNCHANGED <<type, suggested, attached, receiving, input, overridden, data>>

SetInputDeviceState ==
    \E i \in Automated, v \in Overrides :
        /\ overridden' = [k \in DOMAIN overridden \cup {i} |-> IF k = i THEN v ELSE overridden[k]]
        /\ UNCHANGED <<type, suggested, attached, receiving, input, automation, data>>

Next ==
    \/ SuggestInteractionProfileBindings
    \/ AttachSessionActionSets
    \/ NewSession
    \/ PacketArrives
    \/ Update
    \/ EndSession
    \/ SetInputDeviceActive
    \/ SetInputDeviceState
    \/ \E active \in SUBSET Sets : SyncActions(active)

Spec == Init /\ [][Next]_vars

-----------------------------------------------------------------------------
(* Properties. *)

Values ==
    CASE type = "boolean" -> 0..1
      [] type = "float" -> 0..Scale
      [] type = "vector" -> Vector
      [] type = "pose" -> {0}
SubactionData == [active : BOOLEAN, value : Values, changed : BOOLEAN, poseSource : Source,
                  sources : SUBSET Binding]

\* Types; a float is never below zero, whatever its sources read.
TypeOK ==
    /\ type \in Types
    /\ DOMAIN suggested \subseteq Profiles
    /\ \A p \in DOMAIN suggested : suggested[p] \in Suggestions[p]
    /\ attached \subseteq Sets
    /\ receiving \in BOOLEAN
    /\ input \in Packets \cup {Rest}
    /\ automation \in [Hands -> Profiles \cup {"inactive", Unset}]
    /\ DOMAIN overridden \subseteq Automated
    /\ \A i \in DOMAIN overridden : overridden[i] \in Overrides
    /\ data \in [Actions -> [Paths -> SubactionData]]

\* The automation extension gives a vector to no input but the sticks, the only ones that
\* have one without it: then no hand has two, of which the last that is longer somewhere
\* would win over one that the first hand's may not be won over by.
OneVectorPerHand == "vector" \in Types => \A i \in Automated : i[2] = "stick"

\* There are two places that combine the hands, AccumulateBindingState at a sync, the left
\* hand before the right, and GetQueriedActionState at a query, in the order the
\* application gave the paths.  An action of both hands, asked without a path, is active
\* and has the sources and, boolean or float, the value of an action without paths that
\* is bound to the same sources, whatever that order.  Of several vectors or poses the two
\* take the same one if the left hand was given first (and OneVectorPerHand).
WaysToCombineAgree ==
    LET whole == GetActionState("whole", "null")
        split == GetActionState("split", "null")
        crossed == GetActionState("crossed", "null")
    IN  /\ \A both \in {split, crossed} :
              whole.active = both.active /\ whole.sources = both.sources
        /\ whole.value = split.value /\ whole.poseSource = split.poseSource
        /\ type # "vector" => whole.value = crossed.value

\* No run checks this, which the code does not keep: the same of an action that was given
\* the right hand first.
OrderDoesNotMatter ==
    LET whole == GetActionState("whole", "null")
        crossed == GetActionState("crossed", "null")
    IN  whole.value = crossed.value /\ whole.poseSource = crossed.poseSource

\* The sources that drive a path now: bound in the profile its hand has, and active.
Driving(a, p) ==
    {b \in UNION {Elements(suggested[q]) : q \in DOMAIN suggested} :
        /\ b.hand \in Hands
        /\ a = "whole" \/ b.hand = p
        /\ IsInputDeviceActive(b.hand)
        /\ CurrentInteractionProfile(b.hand) \in DOMAIN suggested
        /\ b \in Elements(suggested[CurrentInteractionProfile(b.hand)])}

\* What a path's state says of the sources that drive it: theirs, and zero without.  No
\* source reads more; of vectors, where the longest need not win, only that one which
\* is not at rest is not lost.
Tells(d, driving) ==
    LET readings == {Reading(b.hand, b.component) : b \in driving} \cup {Zero}
    IN  /\ d.active <=> driving # {}
        /\ d.sources = driving
        /\ d.value \in readings
        /\ IF type = "vector" THEN d.value = Zero => readings = {Zero}
                              ELSE \A v \in readings : v <= d.value
        /\ IF type = "pose" /\ driving # {} THEN d.poseSource \in driving
                                            ELSE d.poseSource = NoSource

\* After a sync of its set, each path of an action tells the input of that moment and
\* nothing of an earlier one: a device gone, a profile changed, a session in between.
SyncTellsInput ==
    [][\A active \in SUBSET Sets :
         SyncActions(active) /\ IsActionSetActive(active) =>
            \A a \in Actions : \A p \in Elements(Resolved(a)) :
                Tells(data'[a][p], Driving(a, p))]_vars

\* The answer to a query is another than it was before, and does not say so.
ChangesUntold(a, p) ==
    /\ Query(a, p) = "SUCCESS"
    /\ Differs(GetActionState(a, p)'.value, GetActionState(a, p).value)
    /\ ~GetActionState(a, p)'.changed

\* No change of what an application can read goes untold, but those within the tolerance,
\* by which a value may drift any distance: when the answer to a query differs from what
\* it was before, it says that it has changed, also where it is the larger of two hands.
\* The vectors of two hands are left out.
NoChangeUntold ==
    [][\A a \in Actions, p \in Paths :
         ChangesUntold(a, p) => type = "vector" /\ p = "null" /\ a \in {"split", "crossed"}]_vars

\* No run checks this, which the code does not keep: a step of one hand's vector within the
\* tolerance may make it the longer one somewhere, and the answer jumps from one hand's
\* vector to the other's untold.
NoJumpUntold == [][\A a \in Actions, p \in Paths : ~ChangesUntold(a, p)]_vars

\* A space made of a subaction path of its action follows that hand, through every
\* change of sources; one made of an action with paths never leaves the first.
SpaceFollowsItsHand ==
    \A a \in Actions, p \in Paths :
        SubactionPaths(a) # <<>> /\ Query(a, p) = "SUCCESS" =>
            SpaceHand(a, SpacePath(a, p)) = SpacePath(a, p)
=============================================================================
