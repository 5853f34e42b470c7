---------------------------- MODULE SwapchainRing ----------------------------
(***************************************************************************)
(* What a swapchain promises its application, as a ring buffer: the held   *)
(* images are `held' consecutive indices that start at `oldest'; only the  *)
(* oldest may be waited for; only a waited image may be released; the last *)
(* released image is the published one.  There is no per-image state and   *)
(* no queue here: Swapchain.tla has both, as the code does, and is shown   *)
(* to implement this module.                                               *)
(***************************************************************************)
EXTENDS Integers

CONSTANT imageCount

VARIABLES
    oldest,        \* the index of the oldest held image, or of the next one
    held,          \* how many images the application holds
    oldestWaited,  \* the oldest held image has been waited for
    published,     \* the image a submitted layer shows, or NothingPublished
    staticUsed     \* the only image of a static swapchain has been acquired

vars == <<oldest, held, oldestWaited, published, staticUsed>>

NothingPublished == -1

Successor(i) == IF i + 1 = imageCount THEN 0 ELSE i + 1

Init ==
    /\ oldest = 0
    /\ held = 0
    /\ oldestWaited = FALSE
    /\ published = NothingPublished
    /\ staticUsed = FALSE

Acquire ==
    /\ ~staticUsed
    /\ held < imageCount
    /\ held' = held + 1
    /\ staticUsed' = (imageCount = 1)
    /\ UNCHANGED <<oldest, oldestWaited, published>>

Wait ==
    /\ held > 0
    /\ ~oldestWaited
    /\ oldestWaited' = TRUE
    /\ UNCHANGED <<oldest, held, published, staticUsed>>

Release ==
    /\ held > 0
    /\ oldestWaited
    /\ published' = oldest
    /\ oldest' = Successor(oldest)
    /\ held' = held - 1
    /\ oldestWaited' = FALSE
    /\ UNCHANGED staticUsed

Next == Acquire \/ Wait \/ Release

Spec == Init /\ [][Next]_vars
==============================================================================
