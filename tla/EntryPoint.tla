------------------------------ MODULE EntryPoint ------------------------------
(***************************************************************************)
(* The objects the runtime keeps for the application, and the entry points *)
(* that make and destroy them: the instance, its session, the session's    *)
(* swapchains, spaces and hand trackers, debug messengers, action sets and *)
(* actions, and which action sets are attached to the session.             *)
(*                                                                         *)
(* `objects' is at once the heap and the handle table of Runtime: every    *)
(* constructor registers its handle, every destructor removes it, and a    *)
(* handle is never used again.  An object's `parent' is the pointer it     *)
(* keeps to another object (a tracker's session_, an action's actionSet_); *)
(* `action' is a handle, which is looked up again at every use.            *)
(*                                                                         *)
(* The application calls one entry point at a time (OpenXR leaves it to    *)
(* the application to synchronise the calls modelled here).  A handle it   *)
(* passes is of the right kind: Runtime::FromHandle does not tell kinds    *)
(* apart.  What an action's state is, is the subject of ActionInput.tla;   *)
(* the session's life cycle and its swapchain images have modules too.     *)
(***************************************************************************)
EXTENDS Naturals, FiniteSets

CONSTANTS
    ExtensionSets,      \* the sets of extensions an instance is created with
    Names,              \* of action sets and of actions
    MaxHandles,         \* bound: handles given out
    OrphansActions      \* the application destroys action sets before their actions

Extensions == {"metal", "vulkan", "vulkan2", "hand", "debug"}

ASSUME EntryPointAssumption ==
    /\ ExtensionSets \subseteq SUBSET Extensions
    /\ MaxHandles \in Nat
    /\ OrphansActions \in BOOLEAN

VARIABLES
    objects, nextHandle,        \* Runtime's handles_, nextHandle_
    gInstance, gSession,        \* their handles, or NoHandle
    extensions, systemRequested, requirementsQueried,   \* Instance's
    suggested,                  \* the actions gSuggestedBindings names
    attached,                   \* gActionSetsAttached
    attachedSets,               \* gAttachedActionSetHandles
    vulkanDispatch,             \* gVulkanDispatch: what has been resolved
    result                      \* of the last call

instanceVars == <<gInstance, extensions, systemRequested, requirementsQueried>>
bindingVars == <<suggested, attached, attachedSets>>
objectVars == <<objects, nextHandle>>
kept == <<objectVars, instanceVars, gSession, bindingVars>>
vars == <<kept, vulkanDispatch, result>>

NoHandle == 0

Kinds == {"instance", "session", "swapchain", "space", "tracker", "messenger", "actionSet",
          "action"}

Owned(kind) == {h \in DOMAIN objects : objects[h].kind = kind}

OfSession == {"swapchain", "space", "tracker"}

Enabled(extension) == gInstance # NoHandle /\ extension \in extensions

Init ==
    /\ objects = [h \in {} |-> NoHandle] /\ nextHandle = 1
    /\ gInstance = NoHandle /\ gSession = NoHandle
    /\ extensions = {} /\ systemRequested = FALSE /\ requirementsQueried = FALSE
    /\ suggested = {} /\ attached = FALSE /\ attachedSets = {}
    /\ vulkanDispatch = "none"
    /\ result = "SUCCESS"

\* RegisterHandle counts on.  The forms below that stand before what they vary
\* are slips the code might have made: Spec uses none.
HandleGiven == nextHandle' = nextHandle + 1

\* A constructor's RegisterHandle.
Registers(kind, parent, name, action) ==
    /\ nextHandle <= MaxHandles
    /\ HandleGiven
    /\ objects' = [h \in DOMAIN objects \cup {nextHandle} |->
                      IF h = nextHandle
                      THEN [kind |-> kind, parent |-> parent, name |-> name, action |-> action]
                      ELSE objects[h]]

\* The destructors' RemoveHandle.
Removes(handles) ==
    /\ objects' = [h \in DOMAIN objects \ handles |-> objects[h]]
    /\ UNCHANGED nextHandle

Fails(error) == result' = error /\ UNCHANGED <<kept, vulkanDispatch>>

\* Any call with a handle that is null or of a destroyed object, and any call
\* whose arguments are not what the entry point accepts: it returns at once.
BadCall ==
    \E error \in {"HANDLE_INVALID", "VALIDATION_FAILURE"} : Fails(error)

-----------------------------------------------------------------------------
(* The instance. *)

CreateInstance ==
    \E enabled \in ExtensionSets :
        \/ gInstance # NoHandle /\ Fails("LIMIT_REACHED")
        \/ gInstance = NoHandle /\ Fails("RUNTIME_UNAVAILABLE")
        \/ /\ gInstance = NoHandle
           /\ Registers("instance", NoHandle, "none", NoHandle)
           /\ gInstance' = nextHandle
           /\ extensions' = enabled
           /\ systemRequested' = FALSE /\ requirementsQueried' = FALSE
           /\ result' = "SUCCESS"
           /\ UNCHANGED <<gSession, bindingVars, vulkanDispatch>>

Cleans == DOMAIN objects

\* CleanupRuntimeState, which also runs when the library is unloaded.
\* gVulkanDispatch is not reset.
DestroyInstance ==
    /\ gInstance # NoHandle
    /\ Removes(Cleans)
    /\ gInstance' = NoHandle /\ gSession' = NoHandle
    /\ extensions' = {} /\ systemRequested' = FALSE /\ requirementsQueried' = FALSE
    /\ suggested' = {} /\ attached' = FALSE /\ attachedSets' = {}
    /\ result' = "SUCCESS"
    /\ UNCHANGED vulkanDispatch

GetSystem ==
    /\ gInstance # NoHandle
    /\ systemRequested' = TRUE
    /\ result' = "SUCCESS"
    /\ UNCHANGED <<objectVars, gInstance, extensions, requirementsQueried, gSession, bindingVars,
                   vulkanDispatch>>

\* xrGetInstanceProcAddr gives a function of an extension to an instance that
\* enabled it only.
GetMetalGraphicsRequirements ==
    /\ Enabled("metal")
    /\ \/ Fails("RUNTIME_FAILURE")
       \/ /\ requirementsQueried' = TRUE
          /\ result' = "SUCCESS"
          /\ UNCHANGED <<objectVars, gInstance, extensions, systemRequested, gSession,
                         bindingVars, vulkanDispatch>>

-----------------------------------------------------------------------------
(* Vulkan: the functions the runtime calls are resolved through the loader *)
(* of the application, which only xrCreateVulkanInstanceKHR is given.       *)

UsesVulkan == Enabled("vulkan") \/ Enabled("vulkan2")

\* xrGetVulkanGraphicsRequirements(2)KHR asks for the Metal extension.
RequirementsGiven == "metal" \in extensions

GetVulkanGraphicsRequirements ==
    /\ UsesVulkan
    /\ IF RequirementsGiven
       THEN result' = "SUCCESS" /\ UNCHANGED <<kept, vulkanDispatch>>
       ELSE Fails("FUNCTION_UNSUPPORTED")

CreateVulkanInstance ==
    /\ Enabled("vulkan2")
    /\ \/ /\ vulkanDispatch' = IF vulkanDispatch = "none" THEN "loader" ELSE vulkanDispatch
          /\ result' = "RUNTIME_FAILURE"
       \/ /\ vulkanDispatch' = "instance"
          /\ result' = "SUCCESS"
    /\ UNCHANGED kept

GetVulkanGraphicsDevice ==
    /\ UsesVulkan
    /\ IF vulkanDispatch = "none"
       THEN Fails("RUNTIME_FAILURE")
       ELSE /\ vulkanDispatch' = "instance"
            /\ result' \in {"SUCCESS", "RUNTIME_FAILURE"}
            /\ UNCHANGED kept

CreateVulkanDevice ==
    /\ Enabled("vulkan2")
    /\ \/ Fails("RUNTIME_FAILURE")
       \/ /\ vulkanDispatch = "instance"
          /\ result' = "SUCCESS"
          /\ UNCHANGED <<kept, vulkanDispatch>>

-----------------------------------------------------------------------------
(* The session and what it owns. *)

\* What is wrong with a graphics binding, in the order OxrCreateSession looks.
BindingError(binding) ==
    CASE ~systemRequested -> "SYSTEM_INVALID"
      [] binding = "metal" /\ "metal" \notin extensions -> "VALIDATION_FAILURE"
      [] binding = "metal" /\ ~requirementsQueried -> "GRAPHICS_REQUIREMENTS_CALL_MISSING"
      [] binding = "vulkan" /\ ~UsesVulkan -> "VALIDATION_FAILURE"
      [] gSession # NoHandle -> "LIMIT_REACHED"
      [] binding = "none" -> "GRAPHICS_DEVICE_INVALID"
      [] OTHER -> "SUCCESS"

CreateSession ==
    \E binding \in {"metal", "vulkan", "none"} :
        /\ gInstance # NoHandle
        /\ \/ BindingError(binding) # "SUCCESS" /\ Fails(BindingError(binding))
           \/ /\ BindingError(binding) = "SUCCESS"
              /\ Registers("session", gInstance, binding, NoHandle)
              /\ gSession' = nextHandle
              /\ result' = "SUCCESS"
              /\ UNCHANGED <<instanceVars, bindingVars, vulkanDispatch>>

\* Session::Shutdown clears the spaces and the swapchains.
EndsKeepingTrackers == {gSession} \cup Owned("swapchain") \cup Owned("space")
EndsWithSession == {gSession} \cup UNION {Owned(kind) : kind \in OfSession}

\* Action sets, actions and suggested bindings stay; they are no longer attached.
Detach == attached' = FALSE /\ attachedSets' = {}

DestroySession ==
    /\ gSession # NoHandle
    /\ Removes(EndsWithSession)
    /\ gSession' = NoHandle
    /\ Detach
    /\ result' = "SUCCESS"
    /\ UNCHANGED <<instanceVars, suggested, vulkanDispatch>>

CreateSwapchain ==
    /\ gSession # NoHandle
    /\ Registers("swapchain", gSession, "none", NoHandle)
    /\ result' = "SUCCESS"
    /\ UNCHANGED <<instanceVars, gSession, bindingVars, vulkanDispatch>>

CreateReferenceSpace ==
    /\ gSession # NoHandle
    /\ \/ Fails("REFERENCE_SPACE_UNSUPPORTED")
       \/ Fails("POSE_INVALID")
       \/ /\ Registers("space", gSession, "none", NoHandle)
          /\ result' = "SUCCESS"
          /\ UNCHANGED <<instanceVars, gSession, bindingVars, vulkanDispatch>>

\* The action need not be attached, nor outlive the space.
CreateActionSpace ==
    /\ gSession # NoHandle
    /\ \E action \in Owned("action") :
          \/ Fails("ACTION_TYPE_MISMATCH")
          \/ /\ Registers("space", gSession, "none", action)
             /\ result' = "SUCCESS"
             /\ UNCHANGED <<instanceVars, gSession, bindingVars, vulkanDispatch>>

CreateHandTracker ==
    /\ gSession # NoHandle
    /\ \/ "hand" \notin extensions /\ Fails("FUNCTION_UNSUPPORTED")
       \/ /\ "hand" \in extensions
          /\ Registers("tracker", gSession, "none", NoHandle)
          /\ result' = "SUCCESS"
          /\ UNCHANGED <<instanceVars, gSession, bindingVars, vulkanDispatch>>

CreateDebugUtilsMessenger ==
    /\ gInstance # NoHandle
    /\ \/ "debug" \notin extensions /\ Fails("FUNCTION_UNSUPPORTED")
       \/ /\ "debug" \in extensions
          /\ Registers("messenger", gInstance, "none", NoHandle)
          /\ result' = "SUCCESS"
          /\ UNCHANGED <<instanceVars, gSession, bindingVars, vulkanDispatch>>

\* xrDestroySwapchain, xrDestroySpace, xrDestroyHandTrackerEXT,
\* xrDestroyDebugUtilsMessengerEXT and xrDestroyAction.
DestroyObject ==
    \E h \in UNION {Owned(kind) : kind \in OfSession \cup {"messenger", "action"}} :
        /\ Removes({h})
        /\ result' = "SUCCESS"
        /\ UNCHANGED <<instanceVars, gSession, bindingVars, vulkanDispatch>>

-----------------------------------------------------------------------------
(* Action sets, actions and their bindings. *)

Taken(kind, parent, name) ==
    \E h \in Owned(kind) : objects[h].parent = parent /\ objects[h].name = name

CreateActionSet ==
    /\ gInstance # NoHandle
    /\ \E name \in Names :
          \/ Taken("actionSet", NoHandle, name) /\ Fails("NAME_DUPLICATED")
          \/ /\ ~Taken("actionSet", NoHandle, name)
             /\ Registers("actionSet", NoHandle, name, NoHandle)
             /\ result' = "SUCCESS"
             /\ UNCHANGED <<instanceVars, gSession, bindingVars, vulkanDispatch>>

ActionsOf(set) == {h \in Owned("action") : objects[h].parent = set}

DetachedKept(set) == attachedSets
DetachedBy(set) == attachedSets \ {set}

DestroyActionSet ==
    \E set \in Owned("actionSet") :
        /\ OrphansActions \/ ActionsOf(set) = {}
        /\ Removes({set})
        /\ attachedSets' = DetachedBy(set)
        /\ result' = "SUCCESS"
        /\ UNCHANGED <<instanceVars, gSession, suggested, attached, vulkanDispatch>>

IsAttachedAlways(set) == FALSE
IsAttached(set) == attached /\ set \in attachedSets

CreateAction ==
    \E set \in Owned("actionSet"), name \in Names :
        \/ IsAttached(set) /\ Fails("ACTIONSETS_ALREADY_ATTACHED")
        \/ ~IsAttached(set) /\ Taken("action", set, name) /\ Fails("NAME_DUPLICATED")
        \/ /\ ~IsAttached(set) /\ ~Taken("action", set, name)
           /\ Registers("action", set, name, NoHandle)
           /\ result' = "SUCCESS"
           /\ UNCHANGED <<instanceVars, gSession, bindingVars, vulkanDispatch>>

\* What is stored when the binding after `actions' turns out to be bad.
StoresNothing(actions) == suggested

SuggestInteractionProfileBindings ==
    /\ gInstance # NoHandle
    /\ \E actions \in SUBSET Owned("action"), bad \in BOOLEAN :
          \/ attached /\ Fails("ACTIONSETS_ALREADY_ATTACHED")
          \/ /\ ~attached /\ bad
             /\ suggested' = StoresNothing(actions)
             /\ result' \in {"HANDLE_INVALID", "PATH_INVALID", "PATH_UNSUPPORTED"}
             /\ UNCHANGED <<objectVars, instanceVars, gSession, attached, attachedSets,
                            vulkanDispatch>>
          \/ /\ ~attached /\ ~bad /\ actions # {}
             /\ suggested' = actions
             /\ result' = "SUCCESS"
             /\ UNCHANGED <<objectVars, instanceVars, gSession, attached, attachedSets,
                            vulkanDispatch>>

\* The list is filled as the handles are looked up, and cleared at a bad one.
LeavesPushed(sets) == sets
LeavesNone(sets) == {}

AttachSessionActionSets ==
    /\ gSession # NoHandle
    /\ \E sets \in SUBSET Owned("actionSet"), bad \in BOOLEAN :
          \/ attached /\ Fails("ACTIONSETS_ALREADY_ATTACHED")
          \/ /\ ~attached /\ bad
             /\ attachedSets' = LeavesNone(sets)
             /\ result' = "HANDLE_INVALID"
             /\ UNCHANGED <<objectVars, instanceVars, gSession, suggested, attached,
                            vulkanDispatch>>
          \/ /\ ~attached /\ ~bad /\ sets # {}
             /\ attachedSets' = sets
             /\ attached' = TRUE
             /\ result' = "SUCCESS"
             /\ UNCHANGED <<objectVars, instanceVars, gSession, suggested, vulkanDispatch>>

-----------------------------------------------------------------------------
Next ==
    \/ BadCall
    \/ CreateInstance
    \/ DestroyInstance
    \/ GetSystem
    \/ GetMetalGraphicsRequirements
    \/ GetVulkanGraphicsRequirements
    \/ CreateVulkanInstance
    \/ GetVulkanGraphicsDevice
    \/ CreateVulkanDevice
    \/ CreateSession
    \/ DestroySession
    \/ CreateSwapchain
    \/ CreateReferenceSpace
    \/ CreateActionSpace
    \/ CreateHandTracker
    \/ CreateDebugUtilsMessenger
    \/ DestroyObject
    \/ CreateActionSet
    \/ DestroyActionSet
    \/ CreateAction
    \/ SuggestInteractionProfileBindings
    \/ AttachSessionActionSets

Spec == Init /\ [][Next]_vars

-----------------------------------------------------------------------------
(* Properties. *)

Object == [kind : Kinds, parent : Nat, name : Names \cup {"none", "metal", "vulkan"},
           action : Nat]

\* Types; every handle given out is below the next one.
TypeOK ==
    /\ nextHandle \in Nat \ {0}
    /\ DOMAIN objects \subseteq 1..(nextHandle - 1)
    /\ \A h \in DOMAIN objects : objects[h] \in Object
    /\ gInstance \in Nat /\ gSession \in Nat
    /\ extensions \subseteq Extensions
    /\ systemRequested \in BOOLEAN /\ requirementsQueried \in BOOLEAN
    /\ suggested \subseteq Nat
    /\ attached \in BOOLEAN /\ attachedSets \subseteq Nat
    /\ vulkanDispatch \in {"none", "loader", "instance"}

\* The globals and the objects agree: one instance and one session at most, the
\* session's inside the instance's life, and nothing else without an instance.
OwnersAgree ==
    /\ Owned("instance") = {gInstance} \ {NoHandle}
    /\ Owned("session") = {gSession} \ {NoHandle}
    /\ gInstance = NoHandle => DOMAIN objects = {}

\* No object keeps a pointer to one that has been destroyed: whatever xrLocateSpace,
\* xrLocateHandJointsEXT or IsActionAttached follows is there, whichever way the
\* application tears its objects down (action sets after their actions).
ParentsOutliveChildren ==
    \A h \in DOMAIN objects :
        objects[h].parent # NoHandle =>
            /\ objects[h].parent \in DOMAIN objects
            /\ objects[objects[h].parent].kind =
                   CASE objects[h].kind \in OfSession -> "session"
                     [] objects[h].kind = "action" -> "actionSet"
                     [] OTHER -> "instance"

\* What is attached is a set of live action sets of the session there is: nothing
\* attached outlives its session, or is left of an attach that failed.
AttachedSetsLive ==
    /\ attachedSets \subseteq Owned("actionSet")
    /\ attachedSets # {} => attached
    /\ attached => gSession # NoHandle

\* A call that fails leaves the objects, the bindings and what is attached as they
\* were: an attach or a suggestion that meets a bad element halfway is as if it
\* had not been made.
FailureChangesNothing == [][result' # "SUCCESS" => UNCHANGED kept]_vars

\* While the session's action sets are attached, they gain no action, no other set
\* joins them and the suggested bindings stay what they were when they were attached.
AttachFreezes ==
    [][attached /\ attached' =>
         /\ attachedSets' \subseteq attachedSets
         /\ suggested' = suggested
         /\ \A set \in attachedSets' : ActionsOf(set)' \subseteq ActionsOf(set)]_vars

\* docs/architecture.md:47 says that Vulkan is exposed through either extension: an
\* instance that enabled one of them is given the graphics requirements.
VulkanExtensionSuffices == UsesVulkan => RequirementsGiven
=============================================================================
