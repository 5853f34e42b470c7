--------------------------- MODULE EntryPoint_proofs ---------------------------
(***************************************************************************)
(* Proofs about EntryPoint.tla, for any number of handles, any names and   *)
(* any extensions, in whichever order the application tears its objects    *)
(* down; only ParentsOutliveChildren takes it to destroy an action set     *)
(* after its actions.                                                      *)
(*                                                                         *)
(* Every step gives out one handle, takes some away or leaves the objects  *)
(* alone, so the invariant is kept by three lemmas about Registers, about  *)
(* Removes and about what is attached; the actions only choose among them. *)
(***************************************************************************)
EXTENDS EntryPoint, TLAPS

Labels == Names \cup {"none", "metal", "vulkan"}

\* The kind of object a pointer in an object of some kind points to.
ParentKind(kind) ==
    CASE kind \in OfSession -> "session"
      [] kind = "action" -> "actionSet"
      [] OTHER -> "instance"

\* The kinds whose pointers stay good: an action's does not, when its set is
\* destroyed before it.
Followed == IF OrphansActions THEN Kinds \ {"action"} ELSE Kinds

\* What is left of ParentsOutliveChildren then.
ParentsLive ==
    \A h \in DOMAIN objects :
        objects[h].kind \in Followed /\ objects[h].parent # NoHandle =>
            /\ objects[h].parent \in DOMAIN objects
            /\ objects[objects[h].parent].kind = ParentKind(objects[h].kind)

\* The invariant.
IInv == TypeOK /\ OwnersAgree /\ ParentsLive /\ AttachedSetsLive

\* Before any call there is no object, and nothing is attached.
LEMMA InitIInv == Init => IInv
  <1> SUFFICES ASSUME Init PROVE IInv
    OBVIOUS
  <1>1. DOMAIN objects = {}
    BY DEF Init
  <1>2. \A kind : Owned(kind) = {}
    BY <1>1 DEF Owned
  <1>3. TypeOK
    <2>1. nextHandle \in Nat \ {0} /\ DOMAIN objects \subseteq 1..(nextHandle - 1)
          /\ gInstance \in Nat /\ gSession \in Nat
      BY <1>1 DEF Init, NoHandle
    <2>2. systemRequested \in BOOLEAN /\ requirementsQueried \in BOOLEAN /\ attached \in BOOLEAN
      BY Zenon DEF Init
    <2>3. extensions \subseteq Extensions /\ suggested \subseteq Nat /\ attachedSets \subseteq Nat
          /\ vulkanDispatch \in {"none", "loader", "instance"}
      BY Zenon DEF Init
    <2> QED BY <1>1, <2>1, <2>2, <2>3 DEF TypeOK
  <1>4. OwnersAgree
    BY <1>1, <1>2 DEF Init, OwnersAgree
  <1>5. ParentsLive
    BY <1>1 DEF ParentsLive
  <1>6. AttachedSetsLive
    BY DEF Init, AttachedSetsLive
  <1> QED BY <1>3, <1>4, <1>5, <1>6 DEF IInv

\* What RegisterHandle does: the new handle is of no other object, and the other
\* objects are as they were.
LEMMA Registered ==
  ASSUME TypeOK, NEW kind \in Kinds, NEW parent \in Nat, NEW name \in Labels,
         NEW action \in Nat, Registers(kind, parent, name, action)
  PROVE  /\ nextHandle # NoHandle /\ nextHandle \notin DOMAIN objects
         /\ nextHandle' \in Nat \ {0}
         /\ DOMAIN objects' = DOMAIN objects \cup {nextHandle}
         /\ DOMAIN objects' \subseteq 1..(nextHandle' - 1)
         /\ \A h \in DOMAIN objects : objects'[h] = objects[h]
         /\ objects'[nextHandle] = [kind |-> kind, parent |-> parent, name |-> name,
                                    action |-> action]
         /\ \A h \in DOMAIN objects' : objects'[h] \in Object
  <1>1. nextHandle # NoHandle /\ nextHandle \notin DOMAIN objects /\ nextHandle' \in Nat \ {0}
    BY DEF TypeOK, NoHandle, Registers, HandleGiven
  <1>2. DOMAIN objects' = DOMAIN objects \cup {nextHandle}
    BY DEF Registers
  <1>3. DOMAIN objects' \subseteq 1..(nextHandle' - 1)
    BY <1>2 DEF TypeOK, Registers, HandleGiven
  <1>4. \A h \in DOMAIN objects : objects'[h] = objects[h]
    BY <1>1 DEF Registers
  <1>5. objects'[nextHandle] = [kind |-> kind, parent |-> parent, name |-> name,
                                action |-> action]
    BY DEF Registers
  <1>6. \A h \in DOMAIN objects' : objects'[h] \in Object
    BY <1>2, <1>4, <1>5 DEF TypeOK, Object, Labels
  <1> QED BY <1>1, <1>2, <1>3, <1>4, <1>5, <1>6

\* The objects of a kind are then those there were and, if it is its kind, the new one.
LEMMA RegisteredOwned ==
  ASSUME TypeOK, NEW kind \in Kinds, NEW parent \in Nat, NEW name \in Labels,
         NEW action \in Nat, Registers(kind, parent, name, action)
  PROVE  /\ Owned(kind)' = Owned(kind) \cup {nextHandle}
         /\ \A other \in Kinds \ {kind} : Owned(other)' = Owned(other)
  <1>1. /\ nextHandle \notin DOMAIN objects
        /\ DOMAIN objects' = DOMAIN objects \cup {nextHandle}
        /\ \A h \in DOMAIN objects : objects'[h] = objects[h]
        /\ objects'[nextHandle] = [kind |-> kind, parent |-> parent, name |-> name,
                                   action |-> action]
    BY Registered
  <1>2. objects'[nextHandle].kind = kind
    BY <1>1
  <1> QED BY <1>1, <1>2 DEF Owned

\* A new object whose pointer is null or to a live object of the right kind leaves no
\* pointer dangling.
LEMMA RegisteredParents ==
  ASSUME TypeOK, ParentsLive, NEW kind \in Kinds, NEW parent \in Nat,
         NEW name \in Labels, NEW action \in Nat, Registers(kind, parent, name, action),
         parent = NoHandle \/ parent \in Owned(ParentKind(kind))
  PROVE  ParentsLive'
  <1> SUFFICES ASSUME NEW h \in DOMAIN objects', objects'[h].kind \in Followed,
                      objects'[h].parent # NoHandle
               PROVE  /\ objects'[h].parent \in DOMAIN objects'
                      /\ objects'[objects'[h].parent].kind = ParentKind(objects'[h].kind)
    BY DEF ParentsLive
  <1>1. CASE h = nextHandle
    <2>1. objects'[h].kind = kind /\ objects'[h].parent = parent
      BY <1>1, Registered
    <2>2. parent \in DOMAIN objects /\ objects[parent].kind = ParentKind(kind)
      BY <2>1 DEF Owned
    <2> QED BY <2>1, <2>2, Registered
  <1>2. CASE h # nextHandle
    <2>1. h \in DOMAIN objects /\ objects'[h] = objects[h]
      BY <1>2, Registered
    <2>2. objects[h].parent \in DOMAIN objects
          /\ objects[objects[h].parent].kind = ParentKind(objects[h].kind)
      BY <2>1 DEF ParentsLive
    <2> QED BY <2>1, <2>2, Registered
  <1> QED BY <1>1, <1>2

\* What destructors do to the table: the objects that stay are as they were.
LEMMA Removed ==
  ASSUME TypeOK, NEW handles, Removes(handles)
  PROVE  /\ DOMAIN objects' = DOMAIN objects \ handles
         /\ \A h \in DOMAIN objects' : objects'[h] = objects[h]
         /\ nextHandle' = nextHandle
         /\ DOMAIN objects' \subseteq 1..(nextHandle' - 1)
         /\ \A h \in DOMAIN objects' : objects'[h] \in Object
         /\ \A kind \in Kinds : Owned(kind)' = Owned(kind) \ handles
  BY DEF Removes, TypeOK, Owned

\* Objects go without leaving a pointer dangling when whatever points to one of them
\* goes too.
LEMMA RemovedParents ==
  ASSUME TypeOK, ParentsLive, NEW handles, Removes(handles),
         \A h \in DOMAIN objects :
            objects[h].kind \in Followed /\ objects[h].parent \in handles => h \in handles
  PROVE  ParentsLive'
  <1> SUFFICES ASSUME NEW h \in DOMAIN objects', objects'[h].kind \in Followed,
                      objects'[h].parent # NoHandle
               PROVE  /\ objects'[h].parent \in DOMAIN objects'
                      /\ objects'[objects'[h].parent].kind = ParentKind(objects'[h].kind)
    BY DEF ParentsLive
  <1>1. h \in DOMAIN objects /\ h \notin handles /\ objects'[h] = objects[h]
    BY Removed
  <1>2. objects[h].parent \in DOMAIN objects
        /\ objects[objects[h].parent].kind = ParentKind(objects[h].kind)
    BY <1>1 DEF ParentsLive
  <1> QED BY <1>1, <1>2, Removed

\* A call that leaves all but the last result and Vulkan's functions alone.
LEMMA KeptPreserves ==
  ASSUME IInv, UNCHANGED kept, vulkanDispatch' \in {"none", "loader", "instance"}
  PROVE  IInv'
  BY DEF IInv, TypeOK, OwnersAgree, ParentsLive, AttachedSetsLive, Owned, kept,
         objectVars, instanceVars, bindingVars

\* A constructor of anything but the instance and the session.
LEMMA CreationPreserves ==
  ASSUME IInv, NEW kind \in Kinds \ {"instance", "session"}, NEW parent \in Nat,
         NEW name \in Labels, NEW action \in Nat, Registers(kind, parent, name, action),
         parent = NoHandle \/ parent \in Owned(ParentKind(kind)), gInstance # NoHandle,
         UNCHANGED <<instanceVars, gSession, bindingVars, vulkanDispatch>>
  PROVE  IInv'
  <1> USE DEF IInv
  <1>1. TypeOK'
    BY Registered DEF TypeOK, instanceVars, bindingVars
  <1>2. OwnersAgree'
    BY RegisteredOwned DEF OwnersAgree, instanceVars, Kinds
  <1>3. ParentsLive'
    BY RegisteredParents
  <1>4. AttachedSetsLive'
    <2>1. Owned("actionSet") \subseteq Owned("actionSet")'
      BY RegisteredOwned DEF Kinds
    <2> QED BY <2>1 DEF AttachedSetsLive, bindingVars
  <1> QED BY <1>1, <1>2, <1>3, <1>4

\* A destructor of one object that nothing points to.
LEMMA DestructionPreserves ==
  ASSUME IInv, NEW kind \in Kinds \ {"instance", "session"}, NEW h \in Owned(kind), Removes({h}),
         \A other \in DOMAIN objects :
            objects[other].kind \in Followed => objects[other].parent # h,
         attachedSets' = attachedSets \ {h},
         UNCHANGED <<instanceVars, gSession, suggested, attached, vulkanDispatch>>
  PROVE  IInv'
  <1> USE DEF IInv
  <1>1. TypeOK'
    BY Removed DEF TypeOK, instanceVars
  <1>2. OwnersAgree'
    <2>1. h \notin Owned("instance") /\ h \notin Owned("session")
      BY DEF Owned
    <2>2. "instance" \in Kinds /\ "session" \in Kinds
      BY DEF Kinds
    <2>3. Owned("instance")' = Owned("instance") \ {h} /\ Owned("session")' = Owned("session") \ {h}
      BY <2>2, Removed, Zenon
    <2>4. Owned("instance")' = Owned("instance") /\ Owned("session")' = Owned("session")
      BY <2>1, <2>3, Zenon
    <2>5. gInstance' = NoHandle => DOMAIN objects' = {}
      BY Removed DEF OwnersAgree, instanceVars
    <2> QED BY <2>4, <2>5, Zenon DEF OwnersAgree, instanceVars
  <1>3. ParentsLive'
    BY RemovedParents
  <1>4. AttachedSetsLive'
    <2>1. "actionSet" \in Kinds
      BY DEF Kinds
    <2>2. Owned("actionSet")' = Owned("actionSet") \ {h}
      BY <2>1, Removed, Zenon
    <2> QED BY <2>2, Zenon DEF AttachedSetsLive
  <1> QED BY <1>1, <1>2, <1>3, <1>4

\* Only a session, an instance and an action set are pointed to.
LEMMA LeavesArePointedToByNone ==
  ASSUME IInv, NEW h \in DOMAIN objects, objects[h].kind \notin {"instance", "session", "actionSet"}
  PROVE  \A other \in DOMAIN objects : objects[other].kind \in Followed => objects[other].parent # h
  <1> SUFFICES ASSUME NEW other \in DOMAIN objects, objects[other].kind \in Followed,
                      objects[other].parent = h
               PROVE  FALSE
    OBVIOUS
  <1>1. h # NoHandle
    BY DEF IInv, TypeOK, NoHandle
  <1>2. objects[h].kind = ParentKind(objects[other].kind)
    BY <1>1 DEF IInv, ParentsLive
  <1> QED BY <1>2 DEF ParentKind

\* Making and destroying the instance and the session keep the invariant.
LEMMA LifePreserves ==
  ASSUME IInv, CreateInstance \/ DestroyInstance \/ CreateSession \/ DestroySession
  PROVE  IInv'
  <1>1. CASE CreateInstance
    <2>1. CASE UNCHANGED <<kept, vulkanDispatch>>
      BY <2>1, KeptPreserves DEF IInv, TypeOK
    <2>2. CASE ~UNCHANGED <<kept, vulkanDispatch>>
      <3>1. PICK enabled \in ExtensionSets :
               /\ gInstance = NoHandle
               /\ Registers("instance", NoHandle, "none", NoHandle)
               /\ gInstance' = nextHandle
               /\ extensions' = enabled
               /\ systemRequested' = FALSE /\ requirementsQueried' = FALSE
               /\ UNCHANGED <<gSession, bindingVars, vulkanDispatch>>
        BY <1>1, <2>2 DEF CreateInstance, Fails
      <3>2. DOMAIN objects = {} /\ gSession = NoHandle
        BY <3>1 DEF IInv, OwnersAgree, Owned
      <3>3. /\ nextHandle # NoHandle /\ nextHandle' \in Nat \ {0}
            /\ DOMAIN objects' = {nextHandle} /\ DOMAIN objects' \subseteq 1..(nextHandle' - 1)
            /\ objects'[nextHandle].kind = "instance" /\ objects'[nextHandle].parent = NoHandle
            /\ \A h \in DOMAIN objects' : objects'[h] \in Object
        <4>1. "instance" \in Kinds /\ "none" \in Labels /\ NoHandle \in Nat
          BY DEF Kinds, Labels, NoHandle
        <4>2. objects'[nextHandle] = [kind |-> "instance", parent |-> NoHandle, name |-> "none",
                                      action |-> NoHandle]
          BY <3>1, <4>1, Registered, Zenon DEF IInv
        <4>3. objects'[nextHandle].kind = "instance" /\ objects'[nextHandle].parent = NoHandle
          BY <4>2
        <4>4. /\ nextHandle # NoHandle /\ nextHandle' \in Nat \ {0}
              /\ DOMAIN objects' = DOMAIN objects \cup {nextHandle}
              /\ DOMAIN objects' \subseteq 1..(nextHandle' - 1)
              /\ \A h \in DOMAIN objects' : objects'[h] \in Object
          BY <3>1, <4>1, Registered, Zenon DEF IInv
        <4> QED BY <3>2, <4>3, <4>4, Zenon
      <3>4. TypeOK'
        <4>1. extensions' \subseteq Extensions
          BY <3>1, EntryPointAssumption
        <4>2. systemRequested' \in BOOLEAN /\ requirementsQueried' \in BOOLEAN
          BY <3>1, Zenon
        <4>3. gInstance' \in Nat
          BY <3>1 DEF IInv, TypeOK
        <4> QED BY <3>1, <3>3, <4>1, <4>2, <4>3 DEF IInv, TypeOK, bindingVars
      <3>5. OwnersAgree'
        <4>1. Owned("instance")' = {nextHandle} /\ Owned("session")' = {}
          BY <3>3 DEF Owned
        <4> QED BY <3>1, <3>2, <3>3, <4>1 DEF OwnersAgree
      <3>6. ParentsLive'
        BY <3>3 DEF ParentsLive
      <3>7. AttachedSetsLive'
        BY <3>1, <3>2 DEF IInv, AttachedSetsLive, bindingVars
      <3> QED BY <3>4, <3>5, <3>6, <3>7 DEF IInv
    <2> QED BY <2>1, <2>2
  <1>2. CASE DestroyInstance
    <2>1. DOMAIN objects' = {} /\ nextHandle' = nextHandle
      BY <1>2 DEF DestroyInstance, Removes, Cleans
    <2>2. \A kind : Owned(kind)' = {}
      BY <2>1 DEF Owned
    <2>3. TypeOK'
      <3>1. systemRequested' \in BOOLEAN /\ requirementsQueried' \in BOOLEAN /\ attached' \in BOOLEAN
        BY <1>2, Zenon DEF DestroyInstance
      <3> QED BY <1>2, <2>1, <3>1 DEF DestroyInstance, IInv, TypeOK, NoHandle
    <2>4. OwnersAgree'
      BY <1>2, <2>1, <2>2 DEF DestroyInstance, OwnersAgree
    <2>5. ParentsLive'
      BY <2>1 DEF ParentsLive
    <2>6. AttachedSetsLive'
      BY <1>2 DEF DestroyInstance, AttachedSetsLive
    <2> QED BY <2>3, <2>4, <2>5, <2>6 DEF IInv
  <1>3. CASE CreateSession
    <2>1. CASE UNCHANGED <<kept, vulkanDispatch>>
      BY <2>1, KeptPreserves DEF IInv, TypeOK
    <2>2. CASE ~UNCHANGED <<kept, vulkanDispatch>>
      <3>1. PICK binding \in {"metal", "vulkan", "none"} :
               /\ gInstance # NoHandle
               /\ BindingError(binding) = "SUCCESS"
               /\ Registers("session", gInstance, binding, NoHandle)
               /\ gSession' = nextHandle
               /\ UNCHANGED <<instanceVars, bindingVars, vulkanDispatch>>
        BY <1>3, <2>2 DEF CreateSession, Fails
      <3>2. gSession = NoHandle
        BY <3>1 DEF BindingError
      <3>3. gInstance \in Owned("instance") /\ gInstance \in Nat
        BY <3>1 DEF IInv, TypeOK, OwnersAgree
      <3>4. TypeOK'
        <4>1. gSession' \in Nat
          BY <3>1 DEF IInv, TypeOK
        <4> QED BY <3>1, <3>3, <4>1, Registered
                DEF IInv, TypeOK, Kinds, Labels, NoHandle, instanceVars, bindingVars
      <3>5. OwnersAgree'
        <4>1. Owned("instance")' = Owned("instance") /\ Owned("session")' = Owned("session") \cup {nextHandle}
              /\ nextHandle # NoHandle
          BY <3>1, <3>3, RegisteredOwned, Registered DEF IInv, Kinds, Labels, NoHandle
        <4> QED BY <3>1, <3>2, <4>1 DEF IInv, OwnersAgree, instanceVars
      <3>6. ParentsLive'
        <4>1. ParentKind("session") = "instance"
          BY DEF ParentKind, OfSession
        <4> QED BY <3>1, <3>3, <4>1, RegisteredParents DEF IInv, Kinds, Labels, NoHandle
      <3>7. AttachedSetsLive'
        BY <3>1, <3>2 DEF IInv, AttachedSetsLive, bindingVars
      <3> QED BY <3>4, <3>5, <3>6, <3>7 DEF IInv
    <2> QED BY <2>1, <2>2
  <1>4. CASE DestroySession
    <2> DEFINE gone == EndsWithSession
    <2>1. Removes(gone) /\ gSession \in Owned("session") /\ gSession # NoHandle
      BY <1>4 DEF DestroySession, IInv, OwnersAgree
    <2>2. ParentsLive'
      <3>1. ASSUME NEW h \in DOMAIN objects, objects[h].kind \in Followed,
                   objects[h].parent \in gone
            PROVE  h \in gone
        <4>1. objects[h].parent \in DOMAIN objects /\ objects[h].parent # NoHandle
          BY <2>1, <3>1 DEF EndsWithSession, Owned, IInv, TypeOK, NoHandle
        <4>2. objects[objects[h].parent].kind = ParentKind(objects[h].kind)
          BY <3>1, <4>1 DEF IInv, ParentsLive
        <4>3. objects[objects[h].parent].kind \in {"session"} \cup OfSession
          BY <2>1, <3>1 DEF EndsWithSession, Owned
        <4>4. objects[h].kind \in OfSession
          BY <4>2, <4>3 DEF ParentKind, OfSession
        <4> QED BY <4>4 DEF EndsWithSession, Owned
      <3> QED BY <2>1, <3>1, RemovedParents DEF IInv
    <2>3. TypeOK'
      BY <1>4, <2>1, Removed DEF DestroySession, Detach, IInv, TypeOK, instanceVars, NoHandle
    <2>4. OwnersAgree'
      <3>1. Owned("instance") \cap gone = {}
        BY <2>1 DEF EndsWithSession, Owned, OfSession
      <3>2. Owned("instance")' = Owned("instance") \ gone /\ Owned("session")' = Owned("session") \ gone
        BY <2>1, Removed DEF IInv, Kinds
      <3>3. Owned("session")' = {}
        BY <2>1, <3>2 DEF EndsWithSession, IInv, OwnersAgree
      <3>4. gInstance' = NoHandle => DOMAIN objects' = {}
        BY <1>4, <2>1, Removed DEF DestroySession, instanceVars, IInv, OwnersAgree
      <3> QED BY <1>4, <3>1, <3>2, <3>3, <3>4 DEF DestroySession, instanceVars, IInv, OwnersAgree
    <2>5. AttachedSetsLive'
      BY <1>4 DEF DestroySession, Detach, AttachedSetsLive
    <2> QED BY <2>2, <2>3, <2>4, <2>5 DEF IInv
  <1> QED BY <1>1, <1>2, <1>3, <1>4

\* A call that fails, or one that succeeds and leaves all but the result alone.
LEMMA StillPreserves ==
  ASSUME IInv, UNCHANGED <<kept, vulkanDispatch>>
  PROVE  IInv'
  BY KeptPreserves DEF IInv, TypeOK

\* The session there is, when there is one, belongs to the instance there is.
LEMMA SessionHasInstance ==
  ASSUME IInv, gSession # NoHandle
  PROVE  gInstance # NoHandle /\ gSession \in Owned("session") /\ gSession \in Nat
  BY DEF IInv, TypeOK, OwnersAgree, Owned

\* What is made for a session points to it.
LEMMA SessionObjectPreserves ==
  ASSUME IInv, gSession # NoHandle, NEW kind \in OfSession, NEW action \in Nat,
         Registers(kind, gSession, "none", action),
         UNCHANGED <<instanceVars, gSession, bindingVars, vulkanDispatch>>
  PROVE  IInv'
  <1>1. kind \in Kinds \ {"instance", "session"} /\ "none" \in Labels
    BY DEF OfSession, Kinds, Labels
  <1>2. ParentKind(kind) = "session"
    BY DEF ParentKind, OfSession
  <1>3. gInstance # NoHandle /\ gSession \in Owned(ParentKind(kind)) /\ gSession \in Nat
    BY <1>2, SessionHasInstance
  <1> QED BY <1>1, <1>3, CreationPreserves

\* Making a swapchain, a space, a tracker, a messenger, an action set or an action
\* keeps the invariant.
LEMMA MakingPreserves ==
  ASSUME IInv,
         \/ CreateSwapchain \/ CreateReferenceSpace \/ CreateActionSpace \/ CreateHandTracker
         \/ CreateDebugUtilsMessenger \/ CreateActionSet \/ CreateAction
  PROVE  IInv'
  <1>0. NoHandle \in Nat /\ "none" \in Labels /\ Names \subseteq Labels
    BY DEF NoHandle, Labels
  <1>1. CASE UNCHANGED <<kept, vulkanDispatch>>
    BY <1>1, StillPreserves
  <1>2. CASE ~UNCHANGED <<kept, vulkanDispatch>> /\ CreateSwapchain
    <2>1. "swapchain" \in OfSession
      BY DEF OfSession
    <2> QED BY <1>0, <1>2, <2>1, SessionObjectPreserves DEF CreateSwapchain
  <1>3. CASE ~UNCHANGED <<kept, vulkanDispatch>> /\ CreateReferenceSpace
    <2>1. "space" \in OfSession
      BY DEF OfSession
    <2> QED BY <1>0, <1>3, <2>1, SessionObjectPreserves DEF CreateReferenceSpace, Fails
  <1>4. CASE ~UNCHANGED <<kept, vulkanDispatch>> /\ CreateActionSpace
    <2>1. PICK action \in Owned("action") :
             /\ Registers("space", gSession, "none", action)
             /\ UNCHANGED <<instanceVars, gSession, bindingVars, vulkanDispatch>>
      BY <1>4 DEF CreateActionSpace, Fails
    <2>2. action \in Nat /\ "space" \in OfSession
      BY DEF Owned, IInv, TypeOK, OfSession
    <2> QED BY <1>4, <2>1, <2>2, SessionObjectPreserves DEF CreateActionSpace
  <1>5. CASE ~UNCHANGED <<kept, vulkanDispatch>> /\ CreateHandTracker
    <2>1. "tracker" \in OfSession
      BY DEF OfSession
    <2> QED BY <1>0, <1>5, <2>1, SessionObjectPreserves DEF CreateHandTracker, Fails
  <1>6. CASE ~UNCHANGED <<kept, vulkanDispatch>> /\ CreateDebugUtilsMessenger
    <2>1. "messenger" \in Kinds \ {"instance", "session"} /\ ParentKind("messenger") = "instance"
      BY DEF Kinds, ParentKind, OfSession
    <2>2. gInstance \in Nat /\ gInstance \in Owned("instance")
      BY <1>6 DEF CreateDebugUtilsMessenger, IInv, TypeOK, OwnersAgree
    <2> QED BY <1>0, <1>6, <2>1, <2>2, CreationPreserves DEF CreateDebugUtilsMessenger, Fails
  <1>7. CASE ~UNCHANGED <<kept, vulkanDispatch>> /\ CreateActionSet
    <2>1. PICK name \in Names :
             /\ Registers("actionSet", NoHandle, name, NoHandle)
             /\ UNCHANGED <<instanceVars, gSession, bindingVars, vulkanDispatch>>
      BY <1>7 DEF CreateActionSet, Fails
    <2>2. "actionSet" \in Kinds \ {"instance", "session"} /\ name \in Labels
      BY <1>0 DEF Kinds
    <2> QED BY <1>0, <1>7, <2>1, <2>2, CreationPreserves DEF CreateActionSet
  <1>8. CASE ~UNCHANGED <<kept, vulkanDispatch>> /\ CreateAction
    <2>1. PICK set \in Owned("actionSet"), name \in Names :
             /\ Registers("action", set, name, NoHandle)
             /\ UNCHANGED <<instanceVars, gSession, bindingVars, vulkanDispatch>>
      BY <1>8 DEF CreateAction, Fails
    <2>2. "action" \in Kinds \ {"instance", "session"} /\ name \in Labels
          /\ ParentKind("action") = "actionSet"
      BY <1>0 DEF Kinds, ParentKind, OfSession
    <2>3. set \in Nat /\ gInstance # NoHandle
      BY DEF Owned, IInv, TypeOK, OwnersAgree
    <2> QED BY <1>0, <2>1, <2>2, <2>3, CreationPreserves
  <1> QED BY <1>1, <1>2, <1>3, <1>4, <1>5, <1>6, <1>7, <1>8

\* So does destroying one, whether an action set's actions have gone before it or not.
LEMMA UnmakingPreserves ==
  ASSUME IInv, DestroyObject \/ DestroyActionSet
  PROVE  IInv'
  <1>1. CASE DestroyObject
    <2>1. PICK h \in UNION {Owned(kind) : kind \in OfSession \cup {"messenger", "action"}} :
             Removes({h}) /\ UNCHANGED <<instanceVars, gSession, bindingVars, vulkanDispatch>>
      BY <1>1 DEF DestroyObject
    <2>2. PICK kind \in OfSession \cup {"messenger", "action"} : h \in Owned(kind)
      BY <2>1
    <2>3. kind \in Kinds \ {"instance", "session"} /\ kind # "actionSet"
      BY DEF Kinds, OfSession
    <2>4. h \in DOMAIN objects /\ objects[h].kind = kind
      BY <2>2 DEF Owned
    <2>5. \A other \in DOMAIN objects :
             objects[other].kind \in Followed => objects[other].parent # h
      BY <2>3, <2>4, LeavesArePointedToByNone
    <2>6. h \notin attachedSets
      BY <2>3, <2>4 DEF IInv, AttachedSetsLive, Owned
    <2> QED BY <2>1, <2>2, <2>3, <2>5, <2>6, DestructionPreserves DEF bindingVars
  <1>2. CASE DestroyActionSet
    <2>1. PICK set \in Owned("actionSet") :
             /\ OrphansActions \/ ActionsOf(set) = {}
             /\ Removes({set})
             /\ attachedSets' = attachedSets \ {set}
             /\ UNCHANGED <<instanceVars, gSession, suggested, attached, vulkanDispatch>>
      BY <1>2 DEF DestroyActionSet, DetachedBy
    <2>2. \A other \in DOMAIN objects :
             objects[other].kind \in Followed => objects[other].parent # set
      <3> SUFFICES ASSUME NEW other \in DOMAIN objects, objects[other].kind \in Followed,
                          objects[other].parent = set
                   PROVE  FALSE
        OBVIOUS
      <3>1. set \in DOMAIN objects /\ objects[set].kind = "actionSet" /\ set # NoHandle
        BY DEF Owned, IInv, TypeOK, NoHandle
      <3>2. ParentKind(objects[other].kind) = "actionSet"
        BY <3>1 DEF IInv, ParentsLive
      <3>3. objects[other].kind = "action"
        BY <3>2 DEF ParentKind
      <3>4. other \in ActionsOf(set)
        BY <3>3 DEF ActionsOf, Owned
      <3>5. ~OrphansActions
        BY <3>3 DEF Followed
      <3> QED BY <2>1, <3>4, <3>5
    <2>3. "actionSet" \in Kinds \ {"instance", "session"}
      BY DEF Kinds
    <2> QED BY <2>1, <2>2, <2>3, DestructionPreserves
  <1> QED BY <1>1, <1>2

\* Suggesting bindings and attaching action sets keep it.
LEMMA BindingPreserves ==
  ASSUME IInv, SuggestInteractionProfileBindings \/ AttachSessionActionSets
  PROVE  IInv'
  <1>1. CASE UNCHANGED <<kept, vulkanDispatch>>
    BY <1>1, StillPreserves
  <1>2. CASE ~UNCHANGED <<kept, vulkanDispatch>> /\ SuggestInteractionProfileBindings
    <2>1. /\ UNCHANGED <<objectVars, instanceVars, gSession, attached, attachedSets, vulkanDispatch>>
          /\ suggested' \subseteq Nat
      <3>1. Owned("action") \subseteq Nat /\ suggested \subseteq Nat
        BY DEF Owned, IInv, TypeOK
      <3> QED BY <1>2, <3>1 DEF SuggestInteractionProfileBindings, Fails, StoresNothing
    <2> QED BY <2>1 DEF IInv, TypeOK, OwnersAgree, ParentsLive, AttachedSetsLive, Owned,
                        objectVars, instanceVars
  <1>3. CASE ~UNCHANGED <<kept, vulkanDispatch>> /\ AttachSessionActionSets
    <2>1. /\ UNCHANGED <<objectVars, instanceVars, gSession, suggested, vulkanDispatch>>
          /\ gSession # NoHandle
      BY <1>3 DEF AttachSessionActionSets, Fails
    <2>2. \/ attachedSets' = {} /\ attached' = attached
          \/ attachedSets' \subseteq Owned("actionSet") /\ attached' = TRUE
      BY <1>3, Zenon DEF AttachSessionActionSets, Fails, LeavesNone
    <2>3. attached' \in BOOLEAN
      BY <2>2, Zenon DEF IInv, TypeOK
    <2>4. attachedSets' \subseteq Owned("actionSet")
      BY <2>2
    <2>5. attachedSets' \subseteq Nat
      BY <2>4 DEF Owned, IInv, TypeOK
    <2>6. TypeOK' /\ OwnersAgree' /\ ParentsLive'
      BY <2>1, <2>3, <2>5 DEF IInv, TypeOK, OwnersAgree, ParentsLive, Owned,
                              objectVars, instanceVars
    <2>7. AttachedSetsLive'
      <3>1. Owned("actionSet")' = Owned("actionSet")
        BY <2>1 DEF Owned, objectVars
      <3>2. gSession' # NoHandle
        BY <2>1
      <3>3. attachedSets' # {} => attached'
        BY <2>2, Zenon
      <3> QED BY <2>4, <3>1, <3>2, <3>3, Zenon DEF AttachedSetsLive
    <2> QED BY <2>6, <2>7 DEF IInv
  <1> QED BY <1>1, <1>2, <1>3

\* So do the queries that leave a mark in the instance or in Vulkan's functions.
LEMMA QueryPreserves ==
  ASSUME IInv,
         \/ BadCall \/ GetSystem \/ GetMetalGraphicsRequirements \/ GetVulkanGraphicsRequirements
         \/ CreateVulkanInstance \/ GetVulkanGraphicsDevice \/ CreateVulkanDevice
  PROVE  IInv'
  <1>1. CASE BadCall \/ GetVulkanGraphicsRequirements \/ CreateVulkanDevice
    BY <1>1, StillPreserves DEF BadCall, GetVulkanGraphicsRequirements, CreateVulkanDevice, Fails
  <1>2. CASE GetSystem \/ GetMetalGraphicsRequirements
    <2>1. /\ UNCHANGED <<objectVars, gInstance, extensions, gSession, bindingVars, vulkanDispatch>>
          /\ systemRequested' \in BOOLEAN /\ requirementsQueried' \in BOOLEAN
      <3>1. CASE GetSystem
        BY <3>1, Zenon DEF GetSystem, IInv, TypeOK
      <3>2. CASE GetMetalGraphicsRequirements
        BY <3>2, Zenon DEF GetMetalGraphicsRequirements, Fails, kept, instanceVars, IInv, TypeOK
      <3> QED BY <1>2, <3>1, <3>2
    <2> QED BY <2>1 DEF IInv, TypeOK, OwnersAgree, ParentsLive, AttachedSetsLive, Owned,
                        objectVars, bindingVars
  <1>3. CASE CreateVulkanInstance \/ GetVulkanGraphicsDevice
    <2>1. UNCHANGED kept /\ vulkanDispatch' \in {"none", "loader", "instance"}
      BY <1>3 DEF CreateVulkanInstance, GetVulkanGraphicsDevice, Fails, IInv, TypeOK
    <2> QED BY <2>1, KeptPreserves
  <1> QED BY <1>1, <1>2, <1>3

\* Every step keeps the invariant.
LEMMA NextPreserves ==
  ASSUME IInv, [Next]_vars
  PROVE  IInv'
  <1>1. CASE UNCHANGED vars
    BY <1>1, StillPreserves DEF vars
  <1>2. CASE Next
    BY <1>2, LifePreserves, MakingPreserves, UnmakingPreserves, BindingPreserves, QueryPreserves
       DEF Next
  <1> QED BY <1>1, <1>2

-----------------------------------------------------------------------------
(* The theorems. *)

\* For any number of handles, whichever entry points the application calls and in
\* whichever order, the handle table, the globals and the attached sets stay
\* consistent: the four parts of the invariant hold together.
THEOREM IInvHolds == Spec => []IInv
  <1>1. IInv /\ [Next]_vars => IInv'
    BY NextPreserves
  <1> QED BY <1>1, InitIInv, PTL DEF Spec

\* Every handle given out is below the next one, and is of one object only.
THEOREM TypeOKHolds == Spec => []TypeOK
  <1>1. IInv => TypeOK
    BY DEF IInv
  <1> QED BY <1>1, IInvHolds, PTL

\* One instance and one session at most, the session's life inside the instance's:
\* what xrDestroyInstance and xrDestroySession leave behind.
THEOREM OwnersAgreeHolds == Spec => []OwnersAgree
  <1>1. IInv => OwnersAgree
    BY DEF IInv
  <1> QED BY <1>1, IInvHolds, PTL

\* No object keeps a pointer to a destroyed one, when an application destroys an
\* action set after its actions.
THEOREM ParentsOutliveChildrenHolds == OrphansActions = FALSE /\ Spec => []ParentsOutliveChildren
  <1>1. ASSUME OrphansActions = FALSE, IInv PROVE ParentsOutliveChildren
    <2>1. \A h \in DOMAIN objects : objects[h].kind \in Followed
      BY <1>1 DEF Followed, IInv, TypeOK, Object
    <2> QED BY <1>1, <2>1 DEF IInv, ParentsLive, ParentsOutliveChildren, ParentKind
  <1>2. CASE OrphansActions = FALSE
    <2>1. IInv => ParentsOutliveChildren
      BY <1>1, <1>2
    <2> QED BY <2>1, IInvHolds, PTL
  <1>3. CASE OrphansActions # FALSE
    BY <1>3
  <1> QED BY <1>2, <1>3

\* Destroying an action set before its actions leaves nothing else dangling than the
\* pointers of those actions: a session, swapchain, space, tracker or messenger keeps
\* its owner whichever way the application tears its objects down.
THEOREM OnlyActionsAreOrphaned == Spec => []ParentsLive
  <1>1. IInv => ParentsLive
    BY DEF IInv
  <1> QED BY <1>1, IInvHolds, PTL

\* What is attached are live action sets of the session there is.
THEOREM AttachedSetsLiveHolds == Spec => []AttachedSetsLive
  <1>1. IInv => AttachedSetsLive
    BY DEF IInv
  <1> QED BY <1>1, IInvHolds, PTL

\* A step that makes or destroys nothing of the actions leaves every set's actions.
LEMMA ActionsStay ==
  ASSUME \/ UNCHANGED objects
         \/ \E handles : Removes(handles)
         \/ TypeOK /\ \E kind \in Kinds \ {"action"}, parent \in Nat, name \in Labels, action \in Nat :
               Registers(kind, parent, name, action)
  PROVE  \A set : ActionsOf(set)' \subseteq ActionsOf(set)
  <1>1. CASE UNCHANGED objects
    BY <1>1 DEF ActionsOf, Owned
  <1>2. CASE \E handles : Removes(handles)
    BY <1>2 DEF ActionsOf, Owned, Removes
  <1>3. CASE TypeOK /\ \E kind \in Kinds \ {"action"}, parent \in Nat, name \in Labels, action \in Nat :
               Registers(kind, parent, name, action)
    BY <1>3 DEF ActionsOf, Owned, Registers
  <1> QED BY <1>1, <1>2, <1>3

\* A call that fails changes no object, no binding and nothing attached.
LEMMA FailureStep ==
  ASSUME IInv, [Next]_vars, result' # "SUCCESS"
  PROVE  UNCHANGED kept
  <1>1. CASE UNCHANGED vars
    BY <1>1 DEF vars
  <1>2. CASE SuggestInteractionProfileBindings
    BY <1>2 DEF SuggestInteractionProfileBindings, StoresNothing, Fails, kept, bindingVars
  <1>3. CASE AttachSessionActionSets
    <2>1. CASE UNCHANGED <<kept, vulkanDispatch>>
      BY <2>1
    <2>2. CASE ~UNCHANGED <<kept, vulkanDispatch>>
      <3>1. /\ ~attached /\ attachedSets' = {}
            /\ UNCHANGED <<objectVars, instanceVars, gSession, suggested, attached>>
        BY <1>3, <2>2 DEF AttachSessionActionSets, LeavesNone, Fails
      <3>2. attachedSets = {}
        BY <3>1 DEF IInv, AttachedSetsLive
      <3> QED BY <3>1, <3>2 DEF kept, bindingVars
    <2> QED BY <2>1, <2>2
  <1>4. CASE CreateVulkanInstance \/ GetVulkanGraphicsDevice \/ CreateVulkanDevice
             \/ GetVulkanGraphicsRequirements \/ BadCall
    BY <1>4 DEF CreateVulkanInstance, GetVulkanGraphicsDevice, CreateVulkanDevice,
                GetVulkanGraphicsRequirements, BadCall, Fails
  <1>5. CASE DestroyInstance \/ GetSystem \/ DestroySession \/ CreateSwapchain \/ DestroyObject
             \/ DestroyActionSet
    BY <1>5 DEF DestroyInstance, GetSystem, DestroySession, CreateSwapchain, DestroyObject,
                DestroyActionSet
  <1>6. CASE CreateInstance \/ GetMetalGraphicsRequirements \/ CreateSession
    BY <1>6 DEF CreateInstance, GetMetalGraphicsRequirements, CreateSession, Fails
  <1>7. CASE CreateReferenceSpace \/ CreateActionSpace \/ CreateHandTracker
             \/ CreateDebugUtilsMessenger
    BY <1>7 DEF CreateReferenceSpace, CreateActionSpace, CreateHandTracker,
                CreateDebugUtilsMessenger, Fails
  <1>8. CASE CreateActionSet \/ CreateAction
    BY <1>8 DEF CreateActionSet, CreateAction, Fails
  <1> QED BY <1>1, <1>2, <1>3, <1>4, <1>5, <1>6, <1>7, <1>8 DEF Next

\* An entry point that returns an error leaves the runtime as it found it, also when
\* it meets the error halfway through a list.
THEOREM FailureChangesNothingHolds == Spec => FailureChangesNothing
  <1>1. IInv /\ [Next]_vars => [result' # "SUCCESS" => UNCHANGED kept]_vars
    BY FailureStep
  <1> QED BY <1>1, IInvHolds, PTL DEF Spec, FailureChangesNothing

\* The action of AttachFreezes.
Freezes ==
    attached /\ attached' =>
        /\ attachedSets' \subseteq attachedSets
        /\ suggested' = suggested
        /\ \A set \in attachedSets' : ActionsOf(set)' \subseteq ActionsOf(set)

\* No step adds to what is attached.
LEMMA FreezesStep ==
  ASSUME IInv, [Next]_vars
  PROVE  Freezes
  <1> SUFFICES ASSUME attached, attached' PROVE Freezes
    BY DEF Freezes
  <1>0. NoHandle \in Nat /\ gSession \in Nat /\ gInstance \in Nat
        /\ "none" \in Labels /\ Names \subseteq Labels /\ Owned("action") \subseteq Nat
    BY DEF NoHandle, IInv, TypeOK, Labels, Owned
  <1>1. CASE UNCHANGED <<objects, suggested, attachedSets>>
    BY <1>1, ActionsStay, Zenon DEF Freezes
  <1>2. CASE CreateInstance \/ CreateSession
    <2>1. gSession # NoHandle /\ gInstance # NoHandle
      BY SessionHasInstance DEF IInv, AttachedSetsLive
    <2>2. UNCHANGED <<objects, suggested, attachedSets>>
      BY <1>2, <2>1 DEF CreateInstance, CreateSession, BindingError, Fails, kept, objectVars,
                        bindingVars
    <2> QED BY <1>1, <2>2
  <1>3. CASE DestroyInstance \/ DestroySession
    <2>1. ~attached'
      BY <1>3 DEF DestroyInstance, DestroySession, Detach
    <2> QED BY <2>1
  <1>4. CASE SuggestInteractionProfileBindings \/ AttachSessionActionSets
    <2>1. UNCHANGED <<objects, suggested, attachedSets>>
      BY <1>4 DEF SuggestInteractionProfileBindings, AttachSessionActionSets, Fails, kept,
                  objectVars, bindingVars
    <2> QED BY <1>1, <2>1
  <1>5. CASE DestroyObject \/ DestroyActionSet
    <2>1. (\E handles : Removes(handles)) /\ suggested' = suggested
          /\ attachedSets' \subseteq attachedSets
      BY <1>5 DEF DestroyObject, DestroyActionSet, DetachedBy, bindingVars
    <2> QED BY <2>1, ActionsStay, Zenon DEF Freezes
  <1>6. CASE CreateAction /\ ~UNCHANGED <<objects, suggested, attachedSets>>
    <2>1. PICK into \in Owned("actionSet"), name \in Names :
             /\ ~IsAttached(into)
             /\ Registers("action", into, name, NoHandle)
             /\ UNCHANGED bindingVars
      BY <1>6 DEF CreateAction, Fails, kept, objectVars, bindingVars
    <2>2. into \notin attachedSets
      BY <2>1 DEF IsAttached
    <2>3. \A set \in attachedSets : ActionsOf(set)' \subseteq ActionsOf(set)
      BY <2>1, <2>2 DEF ActionsOf, Owned, Registers
    <2> QED BY <2>1, <2>3 DEF Freezes, bindingVars
  <1>7. CASE (CreateSwapchain \/ CreateReferenceSpace \/ CreateActionSpace \/ CreateHandTracker
              \/ CreateDebugUtilsMessenger \/ CreateActionSet)
             /\ ~UNCHANGED <<objects, suggested, attachedSets>>
    <2>1. UNCHANGED bindingVars
      BY <1>7 DEF CreateSwapchain, CreateReferenceSpace, CreateActionSpace, CreateHandTracker,
                  CreateDebugUtilsMessenger, CreateActionSet, Fails, kept
    <2>2. \E kind \in Kinds \ {"action"}, parent \in Nat, name \in Labels, action \in Nat :
             Registers(kind, parent, name, action)
      <3>1. {"swapchain", "space", "tracker", "messenger", "actionSet"} \subseteq Kinds \ {"action"}
        BY DEF Kinds
      <3>2. CASE CreateSwapchain
        BY <1>0, <3>1, <3>2 DEF CreateSwapchain
      <3>3. CASE CreateReferenceSpace
        BY <1>0, <1>7, <3>1, <3>3 DEF CreateReferenceSpace, Fails, kept, objectVars, bindingVars
      <3>4. CASE CreateActionSpace
        BY <1>0, <1>7, <3>1, <3>4 DEF CreateActionSpace, Fails, kept, objectVars, bindingVars
      <3>5. CASE CreateHandTracker
        BY <1>0, <1>7, <3>1, <3>5 DEF CreateHandTracker, Fails, kept, objectVars, bindingVars
      <3>6. CASE CreateDebugUtilsMessenger
        BY <1>0, <1>7, <3>1, <3>6 DEF CreateDebugUtilsMessenger, Fails, kept, objectVars,
                                      bindingVars
      <3>7. CASE CreateActionSet
        BY <1>0, <1>7, <3>1, <3>7 DEF CreateActionSet, Fails, kept, objectVars, bindingVars
      <3> QED BY <1>7, <3>2, <3>3, <3>4, <3>5, <3>6, <3>7
    <2>3. \A set : ActionsOf(set)' \subseteq ActionsOf(set)
      BY <2>2, ActionsStay DEF IInv
    <2> QED BY <2>1, <2>3 DEF Freezes, bindingVars
  <1>8. CASE UNCHANGED vars \/ BadCall \/ GetSystem \/ GetMetalGraphicsRequirements
             \/ GetVulkanGraphicsRequirements \/ CreateVulkanInstance \/ GetVulkanGraphicsDevice
             \/ CreateVulkanDevice
    <2>1. UNCHANGED <<objects, suggested, attachedSets>>
      BY <1>8 DEF vars, BadCall, GetSystem, GetMetalGraphicsRequirements,
                  GetVulkanGraphicsRequirements, CreateVulkanInstance, GetVulkanGraphicsDevice,
                  CreateVulkanDevice, Fails, kept, objectVars, bindingVars
    <2> QED BY <1>1, <2>1
  <1> QED BY <1>1, <1>2, <1>3, <1>4, <1>5, <1>6, <1>7, <1>8 DEF Next

\* From the time a session's action sets are attached until they are detached, no set
\* joins them, none of them gains an action, and no binding is suggested anew.
THEOREM AttachFreezesHolds == Spec => AttachFreezes
  <1>1. IInv /\ [Next]_vars => [Freezes]_vars
    BY FreezesStep
  <1>2. Spec => [][Freezes]_vars
    BY <1>1, IInvHolds, PTL DEF Spec
  <1> QED BY <1>2, PTL DEF AttachFreezes, Freezes
=============================================================================
