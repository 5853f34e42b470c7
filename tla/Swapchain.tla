------------------------------ MODULE Swapchain ------------------------------
(***************************************************************************)
(* One OpenXR swapchain (runtime/src/Swapchain.mm, Swapchain.h).           *)
(*                                                                         *)
(* Application threads call xrAcquire/Wait/ReleaseSwapchainImage; each is  *)
(* one critical section of stateMutex_, hence one action.  A call that     *)
(* returns an error changes nothing and is not an action.  The thread in   *)
(* xrEndFrame reads the swapchain in two calls, HasReleasedImage (locked)  *)
(* and GetLastReleasedTextureSlice (not locked), with any number of the    *)
(* other calls in between.                                                 *)
(***************************************************************************)
EXTENDS Integers, Sequences

CONSTANT imageCount   \* imageCount_: SwapchainImageCount = 3, or 1 if static

ASSUME ImageCountAssumption == imageCount \in Nat \ {0}

VARIABLES
    imageStates,          \* std::vector<ImageState>
    acquiredImageOrder,   \* std::deque<uint32_t>, front first
    nextAcquireIndex,
    lastReleasedIndex,
    hasReleasedImage,
    staticImageAcquired,
    reader,               \* where the xrEndFrame thread is
    slice,                \* the image whose texture view that thread retains
    everReleased          \* history: the images released at least once

imageVars == <<imageStates, acquiredImageOrder, nextAcquireIndex,
              lastReleasedIndex, hasReleasedImage, staticImageAcquired>>
readerVars == <<reader, slice>>
swapchainVars == <<imageVars, readerVars, everReleased>>

Images == 0 .. imageCount - 1
NoSlice == -1          \* a null texture pointer

\* x % imageCount for 0 <= x < 2 * imageCount, the sums the code takes.
Wrap(x) == IF x < imageCount THEN x ELSE x - imageCount

SCInit ==
    /\ imageStates = [i \in Images |-> "Available"]
    /\ acquiredImageOrder = <<>>
    /\ nextAcquireIndex = 0
    /\ lastReleasedIndex = 0
    /\ hasReleasedImage = FALSE
    /\ staticImageAcquired = FALSE
    /\ reader = "idle"
    /\ slice = NoSlice
    /\ everReleased = {}

------------------------------------------------------------------------------
(* The application's calls.                                                *)

\* The scan of AcquireImage starts at nextAcquireIndex_ and goes round once.
ScanPosition(i) == Wrap(i + imageCount - nextAcquireIndex)

IsFirstAvailable(i) ==
    /\ imageStates[i] = "Available"
    /\ \A j \in Images :
          ScanPosition(j) < ScanPosition(i) => imageStates[j] # "Available"

\* A slip: the cursor stays on the image just acquired.
CursorAfterStays(i) == i
CursorAfter(i) == Wrap(i + 1)

AcquireImage ==
    /\ ~staticImageAcquired
    /\ Len(acquiredImageOrder) < imageCount
    /\ \E i \in Images :
          /\ IsFirstAvailable(i)
          /\ imageStates' = [imageStates EXCEPT ![i] = "Acquired"]
          /\ acquiredImageOrder' = Append(acquiredImageOrder, i)
          /\ nextAcquireIndex' = CursorAfter(i)
    /\ staticImageAcquired' = (imageCount = 1)
    /\ UNCHANGED <<lastReleasedIndex, hasReleasedImage, readerVars, everReleased>>

\* Waiting is for the image acquired first.
WaitIndex == Head(acquiredImageOrder)

WaitImage ==
    /\ acquiredImageOrder # <<>>
    /\ imageStates[WaitIndex] = "Acquired"
    /\ imageStates' = [imageStates EXCEPT ![WaitIndex] = "Waited"]
    /\ UNCHANGED <<acquiredImageOrder, nextAcquireIndex, lastReleasedIndex,
                   hasReleasedImage, staticImageAcquired, readerVars, everReleased>>

\* A slip: releasing an image nobody waited for.
MayReleaseUnwaited(i) == TRUE
MayRelease(i) == imageStates[i] = "Waited"

ReleaseImage ==
    /\ acquiredImageOrder # <<>>
    /\ LET releaseIndex == Head(acquiredImageOrder)
       IN  /\ MayRelease(releaseIndex)
           /\ lastReleasedIndex' = releaseIndex
           /\ imageStates' = [imageStates EXCEPT ![releaseIndex] = "Available"]
           /\ everReleased' = everReleased \cup {releaseIndex}
    /\ hasReleasedImage' = TRUE
    /\ acquiredImageOrder' = Tail(acquiredImageOrder)
    /\ UNCHANGED <<nextAcquireIndex, staticImageAcquired, readerVars>>

------------------------------------------------------------------------------
(* The reader in xrEndFrame.                                               *)

\* A slip: an available image is taken for a released one.
HasReleasedImageUnflagged == imageStates[lastReleasedIndex] = "Available"
HasReleasedImage ==
    /\ hasReleasedImage
    /\ imageStates[lastReleasedIndex] = "Available"

ReaderChecks ==
    /\ reader = "idle"
    /\ HasReleasedImage
    /\ reader' = "checked"
    /\ UNCHANGED <<imageVars, slice, everReleased>>

GetLastReleasedTextureSlice ==
    /\ reader = "checked"
    /\ reader' = "holding"
    /\ slice' = lastReleasedIndex
    /\ UNCHANGED <<imageVars, everReleased>>

ReleaseTextureSlice ==
    /\ reader = "holding"
    /\ reader' = "idle"
    /\ slice' = NoSlice
    /\ UNCHANGED <<imageVars, everReleased>>

SCNext ==
    \/ AcquireImage
    \/ WaitImage
    \/ ReleaseImage
    \/ ReaderChecks
    \/ GetLastReleasedTextureSlice
    \/ ReleaseTextureSlice

SCSpec == SCInit /\ [][SCNext]_swapchainVars
------------------------------------------------------------------------------
(* Properties.                                                             *)

\* Each variable keeps its type; in particular the cursor of the next acquire
\* and the last released index always name an image (Swapchain.mm:408, 456).
SCTypeOK ==
    /\ imageStates \in [Images -> {"Available", "Acquired", "Waited"}]
    /\ acquiredImageOrder \in Seq(Images)
    /\ nextAcquireIndex \in Images
    /\ lastReleasedIndex \in Images
    /\ hasReleasedImage \in BOOLEAN
    /\ staticImageAcquired \in BOOLEAN
    /\ reader \in {"idle", "checked", "holding"}
    /\ slice \in Images \cup {NoSlice}
    /\ everReleased \subseteq Images

Queued == Len(acquiredImageOrder)

\* The queue holds exactly the images that are not Available, each once, and
\* of these only the front one may be Waited: xrWait and xrRelease always
\* speak of the image acquired first.
OrderMatchesStates ==
    /\ \A k \in 1 .. Queued : imageStates[acquiredImageOrder[k]] # "Available"
    /\ \A i \in Images :
          imageStates[i] # "Available" => \E k \in 1 .. Queued : acquiredImageOrder[k] = i
    /\ \A k, l \in 1 .. Queued : acquiredImageOrder[k] = acquiredImageOrder[l] => k = l
    /\ \A k \in 2 .. Queued : imageStates[acquiredImageOrder[k]] = "Acquired"

\* The index of the oldest held image, or the next to be acquired.
Oldest == Wrap(nextAcquireIndex + imageCount - Queued)

\* The held images are consecutive modulo imageCount_ and nextAcquireIndex_ is
\* the index after the newest, although the code keeps no such relation.
RingOrder ==
    /\ Queued <= imageCount
    /\ \A k \in 1 .. Queued :
          acquiredImageOrder[k] = Wrap(nextAcquireIndex + imageCount - Queued + k - 1)

\* While an image is left the scan of AcquireImage stops at its first
\* candidate: images are handed out strictly in turn, and the second "no image"
\* return of AcquireImage is never taken.
AcquireNeverSkips ==
    Queued < imageCount => imageStates[nextAcquireIndex] = "Available"

\* Once something was released, a layer that shows the swapchain is refused
\* (HasReleasedImage is false) only while the application holds all images:
\* holding some of them never hides the frame released last.
ReleasedImageStaysVisible ==
    hasReleasedImage /\ Queued < imageCount => HasReleasedImage

\* The texture xrEndFrame retains has been released by the application at
\* least once, even though the slice is read after the check without the lock.
SliceWasReleased == slice # NoSlice => slice \in everReleased

\* The abstract ring this swapchain implements.
Ring == INSTANCE SwapchainRing WITH
    oldest       <- Oldest,
    held         <- Queued,
    oldestWaited <- acquiredImageOrder # <<>> /\ imageStates[Head(acquiredImageOrder)] = "Waited",
    published    <- IF hasReleasedImage THEN lastReleasedIndex ELSE -1,
    staticUsed   <- staticImageAcquired

\* Every step of the swapchain is a step of the ring buffer, or none of it.
ImplementsRing == Ring!Spec
==============================================================================
