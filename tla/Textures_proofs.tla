---------------------------- MODULE Textures_proofs ----------------------------
(***************************************************************************)
(* Theorems about the two modules a texture goes through: Swapchain.tla,   *)
(* for every number of images, and FramePath.tla, for every set of layers  *)
(* and every number of them; only OwnedOnce takes at most one of a frame's *)
(* to be a projection layer.                                               *)
(* The swapchain's definitions begin with SC where both have one.          *)
(***************************************************************************)
EXTENDS Swapchain, FramePath, FiniteSetTheorems, SequenceTheorems, TLAPS

-----------------------------------------------------------------------------
(* The swapchain.  The inductive invariant is SCIInv: the types, that the  *)
(* queue and the per-image states agree, and the ring order of the queue,  *)
(* from which all else follows by linear arithmetic on Wrap.               *)

\* The published image is the one before the oldest held image, and was
\* released; a reader past its check works on a published image.
PublishedBeforeOldest ==
    /\ hasReleasedImage => /\ lastReleasedIndex = Wrap(Oldest + imageCount - 1)
                           /\ lastReleasedIndex \in everReleased
    /\ reader # "idle" => hasReleasedImage

SCIInv ==
    /\ SCTypeOK
    /\ OrderMatchesStates
    /\ RingOrder
    /\ PublishedBeforeOldest
    /\ SliceWasReleased

\* A sum of two indices wraps to an index; no index wraps to another one.
LEMMA WrapType ==
    ASSUME NEW x \in 0 .. 2 * imageCount - 1
    PROVE  Wrap(x) \in Images
  BY ImageCountAssumption DEF Wrap, Images

\* A swapchain starts in the invariant: nothing is held, nothing published.
LEMMA SCInitIInv == SCInit => SCIInv
  <1> SUFFICES ASSUME SCInit PROVE SCIInv OBVIOUS
  <1> USE ImageCountAssumption DEF SCInit
  <1>1. Queued = 0 BY DEF Queued
  <1>2. SCTypeOK
    <2>1. 0 \in Images BY DEF Images
    <2>2. acquiredImageOrder \in Seq(Images) OBVIOUS
    <2> QED BY <2>1, <2>2 DEF SCTypeOK
  <1>3. OrderMatchesStates BY <1>1 DEF OrderMatchesStates
  <1>4. RingOrder BY <1>1 DEF RingOrder
  <1>5. PublishedBeforeOldest BY DEF PublishedBeforeOldest
  <1>6. SliceWasReleased BY DEF SliceWasReleased
  <1> QED BY <1>2, <1>3, <1>4, <1>5, <1>6 DEF SCIInv

\* While an image is left the ring order keeps nextAcquireIndex_ out of the
\* queue, so the image there is Available.
LEMMA CursorIsFree ==
    ASSUME SCIInv, Queued < imageCount
    PROVE  imageStates[nextAcquireIndex] = "Available"
  <1>1. ASSUME NEW k \in 1 .. Queued, acquiredImageOrder[k] = nextAcquireIndex
        PROVE  FALSE
    BY <1>1, ImageCountAssumption DEF SCIInv, SCTypeOK, RingOrder, Queued, Images, Wrap
  <1> QED BY <1>1 DEF SCIInv, SCTypeOK, OrderMatchesStates

\* AcquireImage therefore takes exactly the image at nextAcquireIndex_.
LEMMA AcquireTakesCursor ==
    ASSUME SCIInv, Queued < imageCount, NEW i \in Images, IsFirstAvailable(i)
    PROVE  i = nextAcquireIndex
  <1>1. imageStates[nextAcquireIndex] = "Available" BY CursorIsFree
  <1>2. nextAcquireIndex \in Images BY DEF SCIInv, SCTypeOK
  <1>3. ScanPosition(nextAcquireIndex) = 0
    BY <1>2, ImageCountAssumption DEF ScanPosition, Wrap, Images
  <1>4. ASSUME i # nextAcquireIndex PROVE ScanPosition(i) > 0
    BY <1>4, <1>2, ImageCountAssumption DEF ScanPosition, Wrap, Images
  <1> QED BY <1>1, <1>2, <1>3, <1>4 DEF IsFirstAvailable

\* Acquiring appends the image at the cursor and moves the cursor past it.
LEMMA AcquireIInv == SCIInv /\ AcquireImage => SCIInv'
  <1> SUFFICES ASSUME SCIInv, AcquireImage PROVE SCIInv' OBVIOUS
  <1> DEFINE c == nextAcquireIndex
  <1>t. SCTypeOK /\ OrderMatchesStates /\ RingOrder /\ PublishedBeforeOldest /\ SliceWasReleased
    BY DEF SCIInv
  <1>n. Queued \in Nat /\ Queued < imageCount /\ imageCount \in Nat \ {0}
    BY <1>t, ImageCountAssumption DEF AcquireImage, Queued, SCTypeOK
  <1>c. c \in Images BY <1>t DEF SCTypeOK
  <1>1. /\ imageStates' = [imageStates EXCEPT ![c] = "Acquired"]
        /\ acquiredImageOrder' = Append(acquiredImageOrder, c)
        /\ nextAcquireIndex' = Wrap(c + 1)
        /\ staticImageAcquired' = (imageCount = 1)
        /\ UNCHANGED <<lastReleasedIndex, hasReleasedImage, reader, slice, everReleased>>
    BY AcquireTakesCursor, <1>n DEF AcquireImage, CursorAfter, Queued, readerVars
  <1>2. Queued' = Queued + 1 BY <1>1, <1>t, <1>c DEF Queued, SCTypeOK
  <1>3. \A k \in 1 .. Queued : acquiredImageOrder'[k] = acquiredImageOrder[k]
    BY <1>1, <1>t, <1>c DEF Queued, SCTypeOK
  <1>4. acquiredImageOrder'[Queued + 1] = c
    BY <1>1, <1>t, <1>c DEF Queued, SCTypeOK
  <1>5. \A k \in 1 .. Queued : acquiredImageOrder[k] # c
    BY CursorIsFree, <1>n, <1>t DEF OrderMatchesStates
  <1>6. SCTypeOK'
    <2>1. nextAcquireIndex' \in Images BY <1>1, <1>c, <1>n DEF Wrap, Images
    <2> QED BY <2>1, <1>1, <1>t, <1>c, <1>n DEF SCTypeOK
  <1>7. OrderMatchesStates'
    <2>s. \A i \in Images : imageStates'[i] = IF i = c THEN "Acquired" ELSE imageStates[i]
      BY <1>1, <1>t DEF SCTypeOK
    <2>o. \A k \in 1 .. Queued : acquiredImageOrder[k] \in Images
      BY <1>t DEF SCTypeOK, Queued
    <2>1. \A k \in 1 .. Queued' : imageStates'[acquiredImageOrder'[k]] # "Available"
      BY <1>2, <1>3, <1>4, <1>n, <1>c, <1>t, <2>s, <2>o DEF OrderMatchesStates
    <2>2. \A i \in Images : imageStates'[i] # "Available" =>
              \E k \in 1 .. Queued' : acquiredImageOrder'[k] = i
      <3> SUFFICES ASSUME NEW i \in Images, imageStates'[i] # "Available"
                   PROVE  \E k \in 1 .. Queued' : acquiredImageOrder'[k] = i
        OBVIOUS
      <3>1. CASE i = c BY <3>1, <1>2, <1>4, <1>n
      <3>2. CASE i # c
        <4>1. PICK k \in 1 .. Queued : acquiredImageOrder[k] = i
          BY <3>2, <2>s, <1>t DEF OrderMatchesStates
        <4> QED BY <4>1, <1>2, <1>3, <1>n
      <3> QED BY <3>1, <3>2
    <2>3. \A k, l \in 1 .. Queued' : acquiredImageOrder'[k] = acquiredImageOrder'[l] => k = l
      BY <1>2, <1>3, <1>4, <1>5, <1>n, <1>t DEF OrderMatchesStates
    <2>4. \A k \in 2 .. Queued' : imageStates'[acquiredImageOrder'[k]] = "Acquired"
      BY <1>2, <1>3, <1>4, <1>5, <1>n, <1>c, <1>t, <2>s, <2>o DEF OrderMatchesStates
    <2> QED BY <2>1, <2>2, <2>3, <2>4 DEF OrderMatchesStates
  <1>8. RingOrder'
    <2> SUFFICES ASSUME NEW k \in 1 .. Queued + 1
                 PROVE  acquiredImageOrder'[k]
                          = Wrap(Wrap(c + 1) + imageCount - (Queued + 1) + k - 1)
      <3>1. Queued' <= imageCount BY <1>2, <1>n
      <3> QED BY <3>1, <1>1, <1>2 DEF RingOrder, Wrap
    <2>1. CASE k = Queued + 1 BY <2>1, <1>4, <1>c, <1>n DEF Wrap, Images
    <2>2. CASE k \in 1 .. Queued
      <3>1. acquiredImageOrder[k] = Wrap(c + imageCount - Queued + k - 1)
        BY <2>2, <1>t DEF RingOrder
      <3> QED BY <3>1, <2>2, <1>3, <1>c, <1>n DEF Wrap, Images
    <2> QED BY <2>1, <2>2, <1>n
  <1>9. PublishedBeforeOldest'
    <2>1. Oldest' = Oldest
      BY <1>1, <1>2, <1>c, <1>n DEF Oldest, Wrap, Images
    <2> QED BY <2>1, <1>1, <1>t DEF PublishedBeforeOldest
  <1>10. SliceWasReleased' BY <1>1, <1>t DEF SliceWasReleased
  <1> QED BY <1>6, <1>7, <1>8, <1>9, <1>10 DEF SCIInv

\* Waiting turns the front image from Acquired to Waited and moves nothing.
LEMMA WaitIInv == SCIInv /\ WaitImage => SCIInv'
  <1> SUFFICES ASSUME SCIInv, WaitImage PROVE SCIInv' OBVIOUS
  <1> DEFINE w == Head(acquiredImageOrder)
  <1>t. SCTypeOK /\ OrderMatchesStates /\ RingOrder /\ PublishedBeforeOldest /\ SliceWasReleased
    BY DEF SCIInv
  <1>1. /\ imageStates' = [imageStates EXCEPT ![w] = "Waited"]
        /\ UNCHANGED <<acquiredImageOrder, nextAcquireIndex, lastReleasedIndex,
                       hasReleasedImage, staticImageAcquired, reader, slice, everReleased>>
        /\ imageStates[w] = "Acquired"
    BY DEF WaitImage, WaitIndex, readerVars
  <1>2. Queued \in Nat /\ Queued >= 1 /\ w = acquiredImageOrder[1] /\ w \in Images
    BY <1>t DEF WaitImage, Queued, SCTypeOK
  <1>3. SCTypeOK' BY <1>1, <1>2, <1>t DEF SCTypeOK
  <1>4. OrderMatchesStates'
    <2>s. \A i \in Images : imageStates'[i] = IF i = w THEN "Waited" ELSE imageStates[i]
      BY <1>1, <1>t DEF SCTypeOK
    <2>o. \A k \in 1 .. Queued : acquiredImageOrder[k] \in Images
      BY <1>t DEF SCTypeOK, Queued
    <2>h. Queued' = Queued BY <1>1 DEF Queued
    <2>1. \A k \in 2 .. Queued : acquiredImageOrder[k] # w
      BY <1>2, <1>t DEF OrderMatchesStates
    <2> QED BY <2>s, <2>o, <2>h, <2>1, <1>1, <1>2, <1>t DEF OrderMatchesStates
  <1>5. RingOrder' BY <1>1, <1>t DEF RingOrder, Queued
  <1>6. PublishedBeforeOldest' BY <1>1, <1>t DEF PublishedBeforeOldest, Oldest, Queued
  <1>7. SliceWasReleased' BY <1>1, <1>t DEF SliceWasReleased
  <1> QED BY <1>3, <1>4, <1>5, <1>6, <1>7 DEF SCIInv

\* Releasing takes the front image off the queue and publishes it.
LEMMA ReleaseIInv == SCIInv /\ ReleaseImage => SCIInv'
  <1> SUFFICES ASSUME SCIInv, ReleaseImage PROVE SCIInv' OBVIOUS
  <1> DEFINE r == Head(acquiredImageOrder)
  <1>t. SCTypeOK /\ OrderMatchesStates /\ RingOrder /\ PublishedBeforeOldest /\ SliceWasReleased
    BY DEF SCIInv
  <1>1. /\ imageStates' = [imageStates EXCEPT ![r] = "Available"]
        /\ acquiredImageOrder' = Tail(acquiredImageOrder)
        /\ lastReleasedIndex' = r
        /\ hasReleasedImage' = TRUE
        /\ everReleased' = everReleased \cup {r}
        /\ UNCHANGED <<nextAcquireIndex, staticImageAcquired, reader, slice>>
    BY DEF ReleaseImage, readerVars
  <1>2. /\ imageCount \in Nat \ {0}
        /\ Queued \in 1 .. imageCount
        /\ r = acquiredImageOrder[1]
        /\ r \in Images
        /\ nextAcquireIndex \in Images
    BY <1>t, ImageCountAssumption DEF ReleaseImage, Queued, SCTypeOK, RingOrder
  <1>3. Queued' = Queued - 1 BY <1>1, <1>2, <1>t DEF Queued, SCTypeOK
  <1>4. \A k \in 1 .. Queued - 1 : acquiredImageOrder'[k] = acquiredImageOrder[k + 1]
    BY <1>1, <1>2, <1>t DEF Queued, SCTypeOK
  <1>5. \A k \in 2 .. Queued : acquiredImageOrder[k] \in Images /\ acquiredImageOrder[k] # r
    BY <1>2, <1>t DEF OrderMatchesStates, SCTypeOK, Queued
  <1>6. SCTypeOK'
    <2>1. acquiredImageOrder' \in Seq(Images) BY <1>1, <1>2, <1>t DEF SCTypeOK, Queued
    <2> QED BY <2>1, <1>1, <1>2, <1>t DEF SCTypeOK
  <1>7. OrderMatchesStates'
    <2>s. \A i \in Images : imageStates'[i] = IF i = r THEN "Available" ELSE imageStates[i]
      BY <1>1, <1>t DEF SCTypeOK
    <2>1. \A k \in 1 .. Queued' : imageStates'[acquiredImageOrder'[k]] = "Acquired"
      BY <1>2, <1>3, <1>4, <1>5, <2>s, <1>t DEF OrderMatchesStates
    <2>2. \A i \in Images : imageStates'[i] # "Available" =>
              \E k \in 1 .. Queued' : acquiredImageOrder'[k] = i
      <3> SUFFICES ASSUME NEW i \in Images, imageStates'[i] # "Available"
                   PROVE  \E k \in 1 .. Queued' : acquiredImageOrder'[k] = i
        OBVIOUS
      <3>1. PICK k \in 1 .. Queued : acquiredImageOrder[k] = i
        BY <2>s, <1>t DEF OrderMatchesStates
      <3>2. k # 1 BY <3>1, <1>2, <2>s
      <3>3. k - 1 \in 1 .. Queued' /\ acquiredImageOrder'[k - 1] = i
        BY <3>1, <3>2, <1>2, <1>3, <1>4
      <3> QED BY <3>3
    <2>3. \A k, l \in 1 .. Queued' : acquiredImageOrder'[k] = acquiredImageOrder'[l] => k = l
      <3> SUFFICES ASSUME NEW k \in 1 .. Queued', NEW l \in 1 .. Queued',
                          acquiredImageOrder'[k] = acquiredImageOrder'[l]
                   PROVE  k = l
        OBVIOUS
      <3>1. k + 1 \in 1 .. Queued /\ l + 1 \in 1 .. Queued BY <1>2, <1>3
      <3>2. acquiredImageOrder[k + 1] = acquiredImageOrder[l + 1] BY <1>2, <1>3, <1>4
      <3>3. k + 1 = l + 1 BY <3>1, <3>2, <1>t DEF OrderMatchesStates
      <3> QED BY <3>3, <1>2, <1>3
    <2> QED BY <2>1, <2>2, <2>3, <1>2, <1>3 DEF OrderMatchesStates
  <1>8. RingOrder'
    <2> DEFINE n == nextAcquireIndex
    <2> SUFFICES ASSUME NEW k \in 1 .. Queued - 1
                 PROVE  acquiredImageOrder'[k] = Wrap(n + imageCount - (Queued - 1) + k - 1)
      <3>1. Queued' <= imageCount BY <1>2, <1>3
      <3> QED BY <3>1, <1>1, <1>3 DEF RingOrder, Wrap
    <2>1. acquiredImageOrder[k + 1] = Wrap(n + imageCount - Queued + (k + 1) - 1)
      BY <1>2, <1>t DEF RingOrder
    <2>2. n + imageCount - Queued + (k + 1) - 1 = n + imageCount - (Queued - 1) + k - 1
      BY <1>2 DEF Images
    <2> QED BY <2>1, <2>2, <1>2, <1>4
  <1>9. PublishedBeforeOldest'
    <2>1. r = Wrap(nextAcquireIndex + imageCount - Queued + 1 - 1)
      BY <1>2, <1>t DEF RingOrder
    <2>2. r = Wrap(Wrap(nextAcquireIndex + imageCount - (Queued - 1)) + imageCount - 1)
      BY <2>1, <1>2 DEF Wrap, Images
    <2>3. Oldest' = Wrap(nextAcquireIndex + imageCount - (Queued - 1))
      BY <1>1, <1>3 DEF Oldest, Wrap
    <2>4. lastReleasedIndex' = Wrap(Oldest' + imageCount - 1)
      BY <2>2, <2>3, <1>1
    <2> QED BY <2>4, <1>1, <1>t DEF PublishedBeforeOldest, Wrap
  <1>10. SliceWasReleased' BY <1>1, <1>t DEF SliceWasReleased
  <1> QED BY <1>6, <1>7, <1>8, <1>9, <1>10 DEF SCIInv

\* The reader's three steps change nothing the swapchain itself keeps.
LEMMA ReaderIInv ==
    SCIInv /\ (ReaderChecks \/ GetLastReleasedTextureSlice \/ ReleaseTextureSlice) => SCIInv'
  <1> SUFFICES ASSUME SCIInv,
                      ReaderChecks \/ GetLastReleasedTextureSlice \/ ReleaseTextureSlice
               PROVE  SCIInv'
    OBVIOUS
  <1>t. SCTypeOK /\ OrderMatchesStates /\ RingOrder /\ PublishedBeforeOldest /\ SliceWasReleased
    BY DEF SCIInv
  <1>1. UNCHANGED <<imageStates, acquiredImageOrder, nextAcquireIndex, lastReleasedIndex,
                    hasReleasedImage, staticImageAcquired, everReleased>>
    BY DEF ReaderChecks, GetLastReleasedTextureSlice, ReleaseTextureSlice, imageVars
  <1>2. SCTypeOK'
    BY <1>1, <1>t
    DEF SCTypeOK, ReaderChecks, GetLastReleasedTextureSlice, ReleaseTextureSlice
  <1>3. OrderMatchesStates' BY <1>1, <1>t DEF OrderMatchesStates, Queued
  <1>4. RingOrder' BY <1>1, <1>t DEF RingOrder, Queued
  <1>5. PublishedBeforeOldest'
    BY <1>1, <1>t DEF PublishedBeforeOldest, Oldest, Queued, ReaderChecks, HasReleasedImage,
                      GetLastReleasedTextureSlice, ReleaseTextureSlice
  <1>6. SliceWasReleased'
    BY <1>1, <1>t DEF SliceWasReleased, PublishedBeforeOldest, ReaderChecks,
                      GetLastReleasedTextureSlice, ReleaseTextureSlice
  <1> QED BY <1>2, <1>3, <1>4, <1>5, <1>6 DEF SCIInv

\* SCIInv holds in every reachable state, whatever the number of images.
THEOREM SCIInvHolds == SCSpec => []SCIInv
  <1>1. SCInit => SCIInv BY SCInitIInv
  <1>2. SCIInv /\ [SCNext]_swapchainVars => SCIInv'
    <2> SUFFICES ASSUME SCIInv, [SCNext]_swapchainVars PROVE SCIInv' OBVIOUS
    <2>1. CASE AcquireImage BY <2>1, AcquireIInv
    <2>2. CASE WaitImage BY <2>2, WaitIInv
    <2>3. CASE ReleaseImage BY <2>3, ReleaseIInv
    <2>4. CASE ReaderChecks \/ GetLastReleasedTextureSlice \/ ReleaseTextureSlice
      BY <2>4, ReaderIInv
    <2>5. CASE UNCHANGED swapchainVars
      BY <2>5 DEF swapchainVars, imageVars, readerVars, SCIInv, SCTypeOK, OrderMatchesStates,
                  RingOrder, PublishedBeforeOldest, SliceWasReleased, Queued, Oldest
    <2> QED BY <2>1, <2>2, <2>3, <2>4, <2>5 DEF SCNext
  <1> QED BY <1>1, <1>2, PTL DEF SCSpec

\* The queue and the per-image states agree, and only the front image of the
\* queue may be in the Waited state, for any number of images.
THEOREM OrderMatchesStatesHolds == SCSpec => [](SCTypeOK /\ OrderMatchesStates)
  <1>1. SCIInv => SCTypeOK /\ OrderMatchesStates BY DEF SCIInv
  <1> QED BY <1>1, SCIInvHolds, PTL

\* AcquireImage never has to look past its first candidate: images are handed
\* out strictly in turn, for any number of images.
THEOREM AcquireNeverSkipsHolds == SCSpec => []AcquireNeverSkips
  <1>1. SCIInv => AcquireNeverSkips BY CursorIsFree DEF AcquireNeverSkips
  <1> QED BY <1>1, SCIInvHolds, PTL

\* The frame released last is hidden only while every image is held: the
\* published image is the one before the oldest held image on the ring.
THEOREM ReleasedImageStaysVisibleHolds == SCSpec => []ReleasedImageStaysVisible
  <1>1. SCIInv => ReleasedImageStaysVisible
    <2> SUFFICES ASSUME SCIInv, hasReleasedImage, Queued < imageCount
                 PROVE  imageStates[lastReleasedIndex] = "Available"
      BY DEF ReleasedImageStaysVisible, HasReleasedImage
    <2>1. /\ lastReleasedIndex = Wrap(Oldest + imageCount - 1)
          /\ lastReleasedIndex \in Images
          /\ nextAcquireIndex \in Images
          /\ Queued \in Nat
          /\ imageCount \in Nat \ {0}
      BY ImageCountAssumption DEF SCIInv, SCTypeOK, PublishedBeforeOldest, Queued
    <2>2. ASSUME NEW k \in 1 .. Queued, acquiredImageOrder[k] = lastReleasedIndex
          PROVE  FALSE
      <3>1. acquiredImageOrder[k] = Wrap(nextAcquireIndex + imageCount - Queued + k - 1)
        BY DEF SCIInv, RingOrder
      <3> QED BY <3>1, <2>1, <2>2 DEF Oldest, Wrap, Images
    <2> QED BY <2>1, <2>2 DEF SCIInv, OrderMatchesStates
  <1> QED BY <1>1, SCIInvHolds, PTL

\* A texture view that xrEndFrame retains always shows an image the
\* application has released, whatever calls run between check and read.
THEOREM SliceWasReleasedHolds == SCSpec => []SliceWasReleased
  <1>1. SCIInv => SliceWasReleased BY DEF SCIInv
  <1> QED BY <1>1, SCIInvHolds, PTL

\* The code implements the ring buffer: each call is the ring's operation of
\* that name, the reader's calls are none of its steps.
THEOREM ImplementsRingHolds == SCSpec => ImplementsRing
  <1> USE ImageCountAssumption
  <1>1. SCInit => Ring!Init
    BY DEF SCInit, Ring!Init, Ring!NothingPublished, Oldest, Queued, Wrap
  <1>2. SCIInv /\ SCIInv' /\ [SCNext]_swapchainVars => [Ring!Next]_(Ring!vars)
    <2> SUFFICES ASSUME SCIInv, SCIInv', [SCNext]_swapchainVars PROVE [Ring!Next]_(Ring!vars)
      OBVIOUS
    <2>t. /\ SCTypeOK /\ OrderMatchesStates /\ RingOrder
          /\ Queued \in Nat /\ nextAcquireIndex \in Images
          /\ \A k \in 1 .. Queued : acquiredImageOrder[k] \in Images
          /\ acquiredImageOrder # <<>> => /\ Queued >= 1
                                          /\ Head(acquiredImageOrder) = acquiredImageOrder[1]
                                          /\ Head(acquiredImageOrder) = Oldest
          /\ Queued >= 1 => acquiredImageOrder # <<>>
      BY SMTT(20) DEF SCIInv, SCTypeOK, RingOrder, Queued, Oldest, Wrap, Images
    <2>1. CASE AcquireImage
      <3> DEFINE c == nextAcquireIndex
      <3>1. /\ Queued < imageCount
            /\ imageStates' = [imageStates EXCEPT ![c] = "Acquired"]
            /\ acquiredImageOrder' = Append(acquiredImageOrder, c)
            /\ nextAcquireIndex' = Wrap(c + 1)
            /\ ~staticImageAcquired /\ staticImageAcquired' = (imageCount = 1)
            /\ UNCHANGED <<lastReleasedIndex, hasReleasedImage>>
        BY <2>1, <2>t, AcquireTakesCursor DEF AcquireImage, CursorAfter, Queued
      <3>2. Queued' = Queued + 1 /\ acquiredImageOrder' # <<>> BY <3>1, <2>t DEF Queued, SCTypeOK
      <3>3. Oldest' = Oldest BY <3>1, <3>2, <2>t DEF Oldest, Wrap, Images
      <3>4. (imageStates[Head(acquiredImageOrder)] = "Waited" /\ acquiredImageOrder # <<>>)
              <=> (imageStates'[Head(acquiredImageOrder')] = "Waited"
                     /\ acquiredImageOrder' # <<>>)
        <4>1. CASE acquiredImageOrder = <<>>
          <5>1. Head(acquiredImageOrder') = c BY <4>1, <3>1
          <5> QED BY <5>1, <4>1, <3>1, <2>t DEF SCTypeOK
        <4>2. CASE acquiredImageOrder # <<>>
          <5>1. Head(acquiredImageOrder') = Head(acquiredImageOrder)
            BY <4>2, <3>1, <2>t DEF SCTypeOK
          <5>2. Head(acquiredImageOrder) # c
            BY <4>2, <2>t, <3>1, CursorIsFree DEF OrderMatchesStates
          <5> QED BY <5>1, <5>2, <4>2, <3>1, <3>2, <2>t DEF SCTypeOK
        <4> QED BY <4>1, <4>2
      <3>5. Ring!Acquire BY <3>1, <3>2, <3>3, <3>4, <2>t DEF Ring!Acquire
      <3> QED BY <3>5 DEF Ring!Next
    <2>2. CASE WaitImage
      <3>1. Ring!Wait
        BY <2>2, <2>t DEF WaitImage, WaitIndex, Ring!Wait, SCTypeOK, Oldest, Queued
      <3> QED BY <3>1 DEF Ring!Next
    <2>3. CASE ReleaseImage
      <3> DEFINE r == Head(acquiredImageOrder)
      <3>1. /\ acquiredImageOrder # <<>> /\ imageStates[r] = "Waited"
            /\ imageStates' = [imageStates EXCEPT ![r] = "Available"]
            /\ acquiredImageOrder' = Tail(acquiredImageOrder)
            /\ lastReleasedIndex' = r /\ hasReleasedImage' = TRUE
            /\ UNCHANGED <<nextAcquireIndex, staticImageAcquired>>
        BY <2>3 DEF ReleaseImage, MayRelease
      <3>2. Queued' = Queued - 1 BY <3>1, <2>t DEF Queued, SCTypeOK
      <3>3. Oldest' = Ring!Successor(Oldest)
        BY <3>1, <3>2, <2>t DEF Oldest, Wrap, Images, Ring!Successor, RingOrder
      <3>4. acquiredImageOrder' # <<>> => imageStates'[Head(acquiredImageOrder')] # "Waited"
        <4> SUFFICES ASSUME acquiredImageOrder' # <<>>
                     PROVE  imageStates'[Head(acquiredImageOrder')] # "Waited"
          OBVIOUS
        <4>1. Queued >= 2 /\ Head(acquiredImageOrder') = acquiredImageOrder[2]
          BY <3>1, <3>2, <2>t DEF Queued, SCTypeOK
        <4>2. acquiredImageOrder[2] # r /\ imageStates[acquiredImageOrder[2]] = "Acquired"
          BY <4>1, <3>1, <2>t DEF OrderMatchesStates
        <4> QED BY <4>1, <4>2, <3>1, <2>t DEF SCTypeOK
      <3>5. Ring!Release BY <3>1, <3>2, <3>3, <3>4, <2>t DEF Ring!Release
      <3> QED BY <3>5 DEF Ring!Next
    <2>4. CASE ReaderChecks \/ GetLastReleasedTextureSlice \/ ReleaseTextureSlice
      BY <2>4 DEF ReaderChecks, GetLastReleasedTextureSlice, ReleaseTextureSlice,
                  imageVars, Ring!vars, Oldest, Queued
    <2>5. CASE UNCHANGED swapchainVars
      BY <2>5 DEF swapchainVars, imageVars, Ring!vars, Oldest, Queued
    <2> QED BY <2>1, <2>2, <2>3, <2>4, <2>5 DEF SCNext
  <1> QED BY <1>1, <1>2, SCIInvHolds, PTL DEF SCSpec, ImplementsRing, Ring!Spec

-----------------------------------------------------------------------------
(* The frame path. *)

RenderLabels == {"app", "layers", "release", "send", "checkEncoder", "enqueue", "replaced",
                 "notify", "join", "empty", "stopped"}
EncodeLabels == {"loop", "check", "blocking", "asleep", "copyEncoder", "encode", "release", "done"}
HandlerLabels == {"idle", "arrive", "connect", "initialize", "failed", "depart", "leave", "reset"}

StopLabels == {"notify", "join", "empty", "stopped"}

PcType ==
    /\ pc \in [render : RenderLabels, encode : EncodeLabels, handler : HandlerLabels]

\* EndFrame and SendFrame hold a frame only between their steps, and what
\* SendFrame queues has both eyes.
RenderHolds ==
    /\ pc.render \in StopLabels \cup {"app"} => eyes = NoFrame
    /\ pc.render \in {"checkEncoder", "enqueue"} =>
          eyes.left # Null /\ eyes.right # Null
    /\ pc.render # "replaced" => replacedFrame = NoFrame

\* So does the encode thread.
EncodeHolds == pc.encode \notin {"copyEncoder", "encode", "release"} => encodeFrame = NoFrame

\* A server that is being stopped stays so, and once its threads are joined
\* nothing is at work but Stop.
StopHolds ==
    /\ pc.render \in StopLabels => ~running
    /\ pc.render \in {"empty", "stopped"} => pc.encode = "done" /\ pc.handler = "idle"
    /\ pc.render = "stopped" => pendingFrame = NoFrame

IsProjection(layer) == layer \in {"projection", "badProjection"}

\* EndFrame takes references at most once in a frame.
OneProjection ==
    /\ layers \in Seq(LayerKinds)
    /\ \A i, j \in DOMAIN layers : IsProjection(layers[i]) /\ IsProjection(layers[j]) => i = j
    /\ pc.render = "layers" /\ eyes # NoFrame => \A i \in DOMAIN layers : ~IsProjection(layers[i])

\* No two views of a frame get one reference.
EyesDiffer == eyes.left = Null \/ eyes.left # eyes.right

Control == PcType /\ RenderHolds /\ EncodeHolds /\ StopHolds

\* What the four owners hold between them.
AllHeld == EyesOwned \cup Held(replacedFrame) \cup Held(pendingFrame) \cup Held(encodeFrame)

\* No reference has two owners, and what is owned is retained: so far nothing was
\* released twice.
Parted ==
    /\ ~overReleased
    /\ IsFiniteSet(retained) /\ retained \subseteq Nat \ {Null}
    /\ AllHeld \subseteq retained
    /\ EyesOwned \cap Held(replacedFrame) = {} /\ EyesOwned \cap Held(pendingFrame) = {}
    /\ EyesOwned \cap Held(encodeFrame) = {}
    /\ Held(replacedFrame) \cap Held(pendingFrame) = {}
    /\ Held(replacedFrame) \cap Held(encodeFrame) = {}
    /\ Held(pendingFrame) \cap Held(encodeFrame) = {}

\* What holds of a frame with any layers.
FrameInv == Control /\ TypeOK /\ EyesDiffer /\ Parted

\* Every retained reference has an owner.
NoneLost == retained \subseteq AllHeld

\* What holds of a frame with one projection layer.
IInv == FrameInv /\ OneProjection /\ NoneLost

\* With nothing lost, that is OwnedOnce: its sequence of owners written out.
LEMMA OwnersListed ==
  ASSUME IInv
  PROVE  OwnedOnce
  <1>1. DOMAIN Owners = 1..4 BY DEF Owners
  <1>2. /\ Owners[1] = EyesOwned /\ Owners[2] = Held(replacedFrame)
        /\ Owners[3] = Held(pendingFrame) /\ Owners[4] = Held(encodeFrame)
    BY DEF Owners
  <1>3. UNION {Owners[i] : i \in DOMAIN Owners} =
           Owners[1] \cup Owners[2] \cup Owners[3] \cup Owners[4]
    BY <1>1
  <1>4. retained = UNION {Owners[i] : i \in DOMAIN Owners}
    BY <1>2, <1>3 DEF IInv, FrameInv, Parted, NoneLost, AllHeld
  <1>5. \A i, j \in DOMAIN Owners : i # j => Owners[i] \cap Owners[j] = {}
    BY <1>1, <1>2 DEF IInv, FrameInv, Parted
  <1>6. pc.render = "stopped" => retained = {}
    BY DEF IInv, FrameInv, Control, RenderHolds, EncodeHolds, StopHolds, StopLabels, NoneLost,
           AllHeld, EyesOwned, Held, NoFrame, Null
  <1> QED BY <1>4, <1>5, <1>6 DEF OwnedOnce, IInv, FrameInv, Parted

\* There is always a reference not in use, and NewReference is one.
LEMMA NewReferenceIsNew ==
  ASSUME NEW inUse, IsFiniteSet(inUse)
  PROVE  NewReference(inUse) \in Nat \ {Null} /\ NewReference(inUse) \notin inUse
  <1> DEFINE n == Cardinality(inUse) + 1
  <1>1. n \in Nat \ {0} BY FS_CardinalityType
  <1>2. IsFiniteSet(1..n) /\ Cardinality(1..n) = n BY <1>1, FS_Interval
  <1>3. ~(1..n \subseteq inUse)
    <2>1. 1..n \subseteq inUse => Cardinality(1..n) <= Cardinality(inUse) BY FS_Subset
    <2> QED BY <2>1, <1>2, FS_CardinalityType
  <1>4. PICK r \in 1..n : r \notin inUse BY <1>3
  <1>5. NewReference(inUse) \in 1..n /\ NewReference(inUse) \notin inUse
    BY <1>4 DEF NewReference
  <1> QED BY <1>1, <1>5 DEF Null

\* The initial state satisfies every part of the invariant.
LEMMA InitIInv == Init => IInv
  <1> SUFFICES ASSUME Init PROVE IInv OBVIOUS
  <1> USE DEF Init, NoFrame, Null, EyesOwned, Held
  <1>1. TypeOK /\ PcType
    BY DEF TypeOK, PcType, FullFrames, RenderLabels, EncodeLabels, HandlerLabels
  <1>2. Parted /\ NoneLost BY FS_EmptySet DEF Parted, NoneLost, AllHeld
  <1>3. RenderHolds /\ EncodeHolds /\ StopHolds
        BY DEF RenderHolds, EncodeHolds, StopHolds, StopLabels
  <1>4. OneProjection /\ EyesDiffer BY DEF OneProjection, EyesDiffer
  <1> QED BY <1>1, <1>2, <1>3, <1>4 DEF IInv, FrameInv, Control

\* Every step keeps what the threads' places say.
LEMMA ControlPreserved ==
  ASSUME Control, Next
  PROVE  Control'
  <1> USE DEF Control, PcType, RenderHolds, EncodeHolds, StopHolds, RenderLabels, EncodeLabels,
              HandlerLabels, StopLabels, Goes, NoFrame, Null, endFrameVars, textureVars
  <1>1. CASE EndFrame BY <1>1 DEF EndFrame
  <1>2. CASE TakeProjection BY <1>2, SMTT(20) DEF TakeProjection
  <1>3. CASE TakeOtherLayer BY <1>3 DEF TakeOtherLayer
  <1>4. CASE LayersTaken BY <1>4 DEF LayersTaken
  <1>5. CASE ReleaseEyes BY <1>5 DEF ReleaseEyes
  <1>6. CASE SendFrame BY <1>6 DEF SendFrame, MaySend, AfterSend
  <1>7. CASE SendFrameChecksEncoder BY <1>7 DEF SendFrameChecksEncoder, AfterSend
  <1>8. CASE SendFrameEnqueues BY <1>8 DEF SendFrameEnqueues, Replaced
  <1>9. CASE SendFrameNotifies BY <1>9 DEF SendFrameNotifies, AfterSend, AfterNotify
  <1>10. CASE EncodeLoop BY <1>10 DEF EncodeLoop
  <1>11. CASE EncodeCheck BY <1>11 DEF EncodeCheck
  <1>12. CASE EncodeBlocks BY <1>12 DEF EncodeBlocks
  <1>13. CASE EncodeWakesSpuriously BY <1>13 DEF EncodeWakesSpuriously
  <1>14. CASE EncodeCopiesEncoder BY <1>14 DEF EncodeCopiesEncoder
  <1>15. CASE EncodeStereo BY <1>15 DEF EncodeStereo
  <1>16. CASE EncodeReleases BY <1>16 DEF EncodeReleases
  <1>17. CASE ClientConnects BY <1>17 DEF ClientConnects
  <1>18. CASE ConnectStoresState BY <1>18 DEF ConnectStoresState
  <1>19. CASE ConnectMakesEncoder BY <1>19 DEF ConnectMakesEncoder
  <1>20. CASE ConnectEnds BY <1>20 DEF ConnectEnds
  <1>21. CASE ConnectFails BY <1>21 DEF ConnectFails
  <1>22. CASE ClientLeaves BY <1>22 DEF ClientLeaves
  <1>23. CASE LeaveStoresState BY <1>23 DEF LeaveStoresState
  <1>24. CASE LeaveEmptiesQueue BY <1>24 DEF LeaveEmptiesQueue
  <1>25. CASE LeaveResetsEncoder BY <1>25 DEF LeaveResetsEncoder
  <1>26. CASE Stop BY <1>26 DEF Stop
  <1>27. CASE StopNotifies BY <1>27 DEF StopNotifies, AfterNotify
  <1>28. CASE StopJoins BY <1>28 DEF StopJoins
  <1>29. CASE StopEmptiesQueue BY <1>29 DEF StopEmptiesQueue, LeftQueued
  <1> QED
      BY <1>1, <1>2, <1>3, <1>4, <1>5, <1>6, <1>7, <1>8, <1>9, <1>10, <1>11, <1>12, <1>13,
         <1>14, <1>15, <1>16, <1>17, <1>18, <1>19, <1>20, <1>21, <1>22, <1>23, <1>24, <1>25,
         <1>26, <1>27, <1>28, <1>29
      DEF Next, Choose, Render, Encode, Handle

-----------------------------------------------------------------------------------

\* A frame has at most one layer that takes references.
LEMMA AtMostOneProjection ==
  ASSUME NEW n \in Nat, NEW ls \in [1..n -> Layers], Projections(ls) <= 1,
         NEW i \in 1..n, NEW j \in 1..n, IsProjection(ls[i]), IsProjection(ls[j])
  PROVE  i = j
  <1> DEFINE P == {k \in DOMAIN ls : ls[k] \in {"projection", "badProjection"}}
  <1>1. IsFiniteSet(1..n) BY FS_Interval
  <1>2. IsFiniteSet(P) /\ Cardinality(P) <= 1
    BY <1>1, FS_Subset DEF Projections
  <1>3. {i, j} \subseteq P BY DEF IsProjection
  <1>4. Cardinality({i, j}) <= 1 /\ IsFiniteSet({i, j})
    BY <1>2, <1>3, FS_Subset, FS_CardinalityType
  <1>5. IsFiniteSet({i}) /\ Cardinality({i}) = 1 BY FS_Singleton
  <1>6. Cardinality({i} \cup {j}) = IF j \in {i} THEN 1 ELSE 1 + 1 BY <1>5, FS_AddElement
  <1>7. {i} \cup {j} = {i, j} OBVIOUS
  <1> QED BY <1>4, <1>6, <1>7

\* The step that retains: what it gives EndFrame is new, and the rest is what EndFrame
\* had before, of which it may forget some.
LEMMA TakeProjectionTakes ==
  ASSUME FrameInv, TakeProjection
  PROVE  /\ eyes' \in FullFrames(Nat)
         /\ EyesDiffer'
         /\ Held(eyes') \cap retained \subseteq Held(eyes)
         /\ retained \subseteq retained' /\ retained' \subseteq retained \cup Held(eyes')
         /\ Held(eyes') \subseteq retained'
         /\ IsFiniteSet(retained') /\ retained' \subseteq Nat \ {Null}
         /\ layers # <<>> /\ IsProjection(Head(layers))
  <1> USE DEF NoFrame, Null
  <1>1. PICK views \in 0..2, made \in SUBSET {"left", "right"} : TakeProjection!2!(views, made)
    BY DEF TakeProjection
  <1> DEFINE left == IF "left" \in made THEN NewReference(retained) ELSE Null
             right == IF "right" \in made THEN NewReference(retained \cup {left}) ELSE Null
             first == IF views >= 1 THEN left ELSE Null
             second == IF views = 2 THEN right ELSE Null
  <1>2. /\ IsFiniteSet(retained) /\ retained \subseteq Nat \ {Null}
        /\ eyes \in FullFrames(Nat) /\ Held(eyes) \subseteq retained
        /\ eyes.left = Null \/ eyes.left # eyes.right
    <2>1. pc.render = "layers" BY DEF TakeProjection
    <2> QED BY <2>1 DEF FrameInv, Parted, AllHeld, EyesOwned, TypeOK, EyesDiffer
  <1>3. left = Null \/ (left \in Nat \ {Null} /\ left \notin retained) BY <1>2, NewReferenceIsNew
  <1>4. right = Null \/ (right \in Nat \ {Null} /\ right \notin retained \cup {left})
    <2>1. IsFiniteSet(retained \cup {left}) BY <1>2, FS_AddElement
    <2> QED BY <2>1, NewReferenceIsNew
  <1>5. layers # <<>> /\ IsProjection(Head(layers)) BY <1>1 DEF TakeProjection, IsProjection
  <1>6. /\ eyes' = [left |-> IF views >= 1 THEN left ELSE eyes.left,
                    right |-> IF views = 2 THEN right ELSE eyes.right]
        /\ retained' = retained \cup ({first, second} \ {Null})
    BY <1>1
  <1> HIDE DEF left, right
  <1>7. IsFiniteSet(retained')
    <2>1. IsFiniteSet(retained \cup {first} \cup {second}) BY <1>2, FS_AddElement
    <2> QED BY <2>1, <1>6, FS_Subset
  <1>8. \/ /\ first = Null /\ second = Null
           /\ eyes' = [left |-> eyes.left, right |-> eyes.right]
        \/ /\ first = left /\ second = Null
           /\ eyes' = [left |-> left, right |-> eyes.right]
        \/ /\ first = left /\ second = right
           /\ eyes' = [left |-> left, right |-> right]
    BY <1>6
  <1> HIDE DEF first, second
  <1>9. /\ eyes' \in FullFrames(Nat)
        /\ eyes'.left = Null \/ eyes'.left # eyes'.right
        /\ retained' \subseteq Nat \ {Null}
    <2>1. retained' \subseteq Nat \ {Null}
      <3>1. first = Null \/ first \in Nat \ {Null} BY <1>3, <1>8
      <3>2. second = Null \/ second \in Nat \ {Null} BY <1>4, <1>8
      <3> QED BY <1>2, <1>6, <3>1, <3>2
    <2>2. eyes.right = Null \/ eyes.right \in retained BY <1>2 DEF Held
    <2>3. left \in Nat /\ right \in Nat BY <1>3, <1>4
    <2>4. left = Null \/ (left # eyes.right /\ left # right) BY <1>3, <1>4, <2>2
    <2> QED BY <1>2, <1>8, <2>1, <2>3, <2>4 DEF FullFrames
  <1>10. /\ Held(eyes') \cap retained \subseteq Held(eyes)
         /\ retained \subseteq retained' /\ retained' \subseteq retained \cup Held(eyes')
         /\ Held(eyes') \subseteq retained'
    BY <1>2, <1>3, <1>4, <1>6, <1>8 DEF FullFrames, Held
  <1> QED BY <1>5, <1>7, <1>9, <1>10 DEF EyesDiffer

\* A frame retains once: the layers EndFrame has left hold no other projection.
LEMMA OneProjectionPreserved ==
  ASSUME IInv, Next, MaxProjections <= 1
  PROVE  OneProjection'
  <1> USE DEF IInv, FrameInv, Control, PcType, RenderHolds, RenderLabels, EncodeLabels,
              HandlerLabels, StopLabels, Goes, NoFrame, Null, endFrameVars, OneProjection
  <1>1. CASE EndFrame
    <2>1. PICK n \in 0..MaxLayers : \E ls \in [1..n -> Layers] :
             Projections(ls) <= MaxProjections /\ layers' = ls
      BY <1>1 DEF EndFrame
    <2>2. layers' \in [1..n -> Layers] /\ Projections(layers') <= MaxProjections /\ n \in Nat
      BY <2>1, FramePathAssumption
    <2>3. Projections(layers') <= 1
      <3>1. Projections(layers') \in Nat
        <4>1. IsFiniteSet(DOMAIN layers') BY <2>2, FS_Interval
        <4> QED BY <4>1, FS_Subset, FS_CardinalityType DEF Projections
      <3> QED BY <3>1, <2>2, FramePathAssumption
    <2>4. \A i, j \in DOMAIN layers' : IsProjection(layers'[i]) /\ IsProjection(layers'[j]) => i = j
      BY <2>2, <2>3, AtMostOneProjection
    <2>5. layers' \in Seq(LayerKinds) BY <2>2, FramePathAssumption
    <2> QED BY <2>4, <2>5, <1>1 DEF EndFrame
  <1>2. CASE TakeProjection
    <2>1. layers # <<>> /\ IsProjection(layers[1])
      BY <1>2, TakeProjectionTakes
    <2>2. layers' = Tail(layers) \/ layers' = <<>> BY <1>2 DEF TakeProjection
    <2>3. \A i \in DOMAIN Tail(layers) :
             i + 1 \in DOMAIN layers /\ Tail(layers)[i] = layers[i + 1] /\ i + 1 # 1
      BY <2>1
    <2>4. \A i \in DOMAIN layers' : ~IsProjection(layers'[i]) BY <2>1, <2>2, <2>3
    <2>5. layers' \in Seq(LayerKinds)
      <3>1. layers \in Seq(LayerKinds) /\ layers # <<>> BY <2>1, <2>2
      <3>2. Tail(layers) \in Seq(LayerKinds) BY <3>1, HeadTailProperties
      <3> QED BY <3>2, <2>1, <2>2, EmptySeq
    <2> QED BY <2>1, <2>4, <2>5
  <1>3. CASE TakeOtherLayer
    <2>1. layers' = Tail(layers) \/ layers' = <<>> BY <1>3 DEF TakeOtherLayer
    <2>2. layers # <<>> BY <1>3 DEF TakeOtherLayer
    <2>3. \A i \in DOMAIN Tail(layers) : i + 1 \in DOMAIN layers /\ Tail(layers)[i] = layers[i + 1]
      BY <2>2
    <2>4. UNCHANGED eyes /\ pc.render = "layers" BY <1>3 DEF TakeOtherLayer
    <2>5. layers' \in Seq(LayerKinds)
      <3>1. layers \in Seq(LayerKinds) /\ layers # <<>> BY <2>1, <2>2
      <3>2. Tail(layers) \in Seq(LayerKinds) BY <3>1, HeadTailProperties
      <3> QED BY <3>2, <2>1, <2>2, EmptySeq
    <2>6. \A i, j \in DOMAIN layers' :
             IsProjection(layers'[i]) /\ IsProjection(layers'[j]) => i = j
      BY <2>1, <2>2, <2>3
    <2>7. eyes' # NoFrame => \A i \in DOMAIN layers' : ~IsProjection(layers'[i])
      BY <2>1, <2>2, <2>3, <2>4
    <2> QED BY <2>4, <2>5, <2>6, <2>7
  <1>4. CASE ReleaseEyes BY <1>4 DEF ReleaseEyes
  <1>5. CASE SendFrame BY <1>5 DEF SendFrame, AfterSend
  <1>6. CASE SendFrameChecksEncoder BY <1>6 DEF SendFrameChecksEncoder, AfterSend
  <1>7. CASE SendFrameNotifies BY <1>7 DEF SendFrameNotifies, AfterSend
  <1>8. CASE UNCHANGED <<layers, eyes>> /\ (pc'.render = "layers" => pc.render = "layers") BY <1>8
  <1> QED
    BY <1>1, <1>2, <1>3, <1>4, <1>5, <1>6, <1>7, <1>8
    DEF Next, Choose, Render, Encode, Handle, LayersTaken, SendFrameEnqueues, EncodeLoop,
        EncodeCheck, EncodeBlocks, EncodeWakesSpuriously, EncodeCopiesEncoder,
        EncodeStereo, EncodeReleases, ClientConnects, ConnectStoresState, ConnectMakesEncoder,
        ConnectEnds, ConnectFails, ClientLeaves, LeaveStoresState, LeaveEmptiesQueue,
        LeaveResetsEncoder, Stop, StopNotifies, StopJoins, StopEmptiesQueue

\* No step gives EndFrame one reference for both eyes.
LEMMA EyesDifferPreserved ==
  ASSUME FrameInv, Next
  PROVE  EyesDiffer'
  <1> USE DEF NoFrame, Null, endFrameVars, EyesDiffer
  <1>1. CASE TakeProjection BY <1>1, TakeProjectionTakes
  <1>2. CASE ReleaseEyes BY <1>2 DEF ReleaseEyes
  <1>3. CASE SendFrame BY <1>3 DEF SendFrame, AfterSend, FrameInv
  <1>4. CASE SendFrameChecksEncoder BY <1>4 DEF SendFrameChecksEncoder, AfterSend, FrameInv
  <1>5. CASE SendFrameNotifies BY <1>5 DEF SendFrameNotifies, AfterSend
  <1>6. CASE UNCHANGED eyes BY <1>6 DEF FrameInv
  <1> QED
    BY <1>1, <1>2, <1>3, <1>4, <1>5, <1>6
    DEF Next, Choose, Render, Encode, Handle, EndFrame, TakeOtherLayer, LayersTaken,
        SendFrameEnqueues, EncodeLoop, EncodeCheck, EncodeBlocks, EncodeWakesSpuriously,
        EncodeCopiesEncoder, EncodeStereo, EncodeReleases, ClientConnects, ConnectStoresState,
        ConnectMakesEncoder, ConnectEnds, ConnectFails, ClientLeaves, LeaveStoresState,
        LeaveEmptiesQueue, LeaveResetsEncoder, Stop, StopNotifies, StopJoins, StopEmptiesQueue

\* Every step keeps the types.
LEMMA TypePreserved ==
  ASSUME FrameInv, Next
  PROVE  TypeOK'
  <1> USE DEF FrameInv, TypeOK, FullFrames, EyesDiffer, Control, PcType, RenderHolds, EncodeHolds,
              StopHolds, RenderLabels,
             EncodeLabels, HandlerLabels, StopLabels, Goes, Release, NoFrame, Null, endFrameVars,
             textureVars
  <1>1. CASE EndFrame BY <1>1 DEF EndFrame
  <1>2. CASE TakeProjection BY <1>2, TakeProjectionTakes DEF TakeProjection
  <1>3. CASE TakeOtherLayer BY <1>3 DEF TakeOtherLayer
  <1>4. CASE LayersTaken BY <1>4 DEF LayersTaken
  <1>5. CASE ReleaseEyes BY <1>5 DEF ReleaseEyes
  <1>6. CASE SendFrame
    <2>1. eyes' = eyes \/ eyes' = NoFrame BY <1>6 DEF SendFrame, AfterSend
    <2>2. overReleased' \in BOOLEAN BY <1>6 DEF SendFrame
    <2>3. UNCHANGED <<running, state, encoder, replacedFrame, pendingFrame, encodeFrame>>
      BY <1>6 DEF SendFrame
    <2> QED BY <2>1, <2>2, <2>3
  <1>7. CASE SendFrameChecksEncoder
    <2>1. eyes' = eyes \/ eyes' = NoFrame BY <1>7 DEF SendFrameChecksEncoder, AfterSend
    <2>2. overReleased' \in BOOLEAN BY <1>7 DEF SendFrameChecksEncoder
    <2>3. UNCHANGED <<running, state, encoder, replacedFrame, pendingFrame, encodeFrame>>
      BY <1>7 DEF SendFrameChecksEncoder
    <2> QED BY <2>1, <2>2, <2>3
  <1>8. CASE SendFrameEnqueues BY <1>8 DEF SendFrameEnqueues, Replaced
  <1>9. CASE SendFrameNotifies BY <1>9 DEF SendFrameNotifies, AfterSend, AfterNotify
  <1>10. CASE EncodeLoop BY <1>10 DEF EncodeLoop
  <1>11. CASE EncodeCheck BY <1>11 DEF EncodeCheck
  <1>12. CASE EncodeBlocks BY <1>12 DEF EncodeBlocks
  <1>13. CASE EncodeWakesSpuriously BY <1>13 DEF EncodeWakesSpuriously
  <1>14. CASE EncodeCopiesEncoder BY <1>14 DEF EncodeCopiesEncoder
  <1>15. CASE EncodeStereo BY <1>15 DEF EncodeStereo
  <1>16. CASE EncodeReleases BY <1>16 DEF EncodeReleases
  <1>17. CASE ClientConnects BY <1>17 DEF ClientConnects
  <1>18. CASE ConnectStoresState BY <1>18 DEF ConnectStoresState
  <1>19. CASE ConnectMakesEncoder BY <1>19 DEF ConnectMakesEncoder
  <1>20. CASE ConnectEnds BY <1>20 DEF ConnectEnds
  <1>21. CASE ConnectFails BY <1>21 DEF ConnectFails
  <1>22. CASE ClientLeaves BY <1>22 DEF ClientLeaves
  <1>23. CASE LeaveStoresState BY <1>23 DEF LeaveStoresState
  <1>24. CASE LeaveEmptiesQueue BY <1>24 DEF LeaveEmptiesQueue
  <1>25. CASE LeaveResetsEncoder BY <1>25 DEF LeaveResetsEncoder
  <1>26. CASE Stop BY <1>26 DEF Stop
  <1>27. CASE StopNotifies BY <1>27 DEF StopNotifies, AfterNotify
  <1>28. CASE StopJoins BY <1>28 DEF StopJoins
  <1>29. CASE StopEmptiesQueue BY <1>29 DEF StopEmptiesQueue, LeftQueued
  <1> QED
      BY <1>1, <1>2, <1>3, <1>4, <1>5, <1>6, <1>7, <1>8, <1>9, <1>10, <1>11, <1>12, <1>13,
         <1>14, <1>15, <1>16, <1>17, <1>18, <1>19, <1>20, <1>21, <1>22, <1>23, <1>24, <1>25,
         <1>26, <1>27, <1>28, <1>29
      DEF Next, Choose, Render, Encode, Handle

\* Every step leaves finitely many references, none of them null.
LEMMA RetainedIsFinite ==
  ASSUME FrameInv, Next
  PROVE  IsFiniteSet(retained') /\ retained' \subseteq Nat \ {Null}
  <1>1. CASE TakeProjection BY <1>1, TakeProjectionTakes
  <1>2. CASE retained' \subseteq retained
    BY <1>2, FS_Subset DEF FrameInv, Parted
  <1> QED
    BY <1>1, <1>2
    DEF Next, Choose, Render, Encode, Handle, Release, textureVars, EndFrame, TakeOtherLayer,
        LayersTaken, ReleaseEyes, SendFrame, SendFrameChecksEncoder, SendFrameEnqueues,
        SendFrameNotifies, EncodeLoop, EncodeCheck, EncodeBlocks, EncodeWakesSpuriously,
        EncodeCopiesEncoder, EncodeStereo, EncodeReleases, ClientConnects, ConnectStoresState,
        ConnectMakesEncoder, ConnectEnds, ConnectFails, ClientLeaves, LeaveStoresState,
        LeaveEmptiesQueue, LeaveResetsEncoder, Stop, StopNotifies, StopJoins, StopEmptiesQueue

\* Every step hands each reference from one owner to another, or releases it.
LEMMA PartedPreserved ==
  ASSUME FrameInv, Next
  PROVE  Parted'
  <1>0. IsFiniteSet(retained') /\ retained' \subseteq Nat \ {Null} BY RetainedIsFinite
  <1> USE DEF FrameInv, TypeOK, FullFrames, Parted, AllHeld, EyesOwned, Held, Control, PcType,
              RenderHolds, EncodeHolds, StopHolds, RenderLabels, EncodeLabels,
              HandlerLabels, StopLabels, Goes, Release, NoFrame, Null, endFrameVars,
             textureVars
  <1>1. CASE EndFrame BY <1>1 DEF EndFrame
  <1>2. CASE TakeProjection
    <2>1. /\ Held(eyes') \cap retained \subseteq Held(eyes)
          /\ retained \subseteq retained' /\ Held(eyes') \subseteq retained'
          /\ IsFiniteSet(retained') /\ retained' \subseteq Nat \ {Null}
      BY <1>2, TakeProjectionTakes
    <2>2. pc.render # "replaced" /\ pc'.render # "replaced" BY <1>2 DEF TakeProjection
    <2>3. UNCHANGED <<overReleased, replacedFrame, pendingFrame, encodeFrame>>
      BY <1>2 DEF TakeProjection
    <2> HIDE DEF Held
    <2> QED BY <2>1, <2>2, <2>3
  <1>3. CASE TakeOtherLayer BY <1>3 DEF TakeOtherLayer
  <1>4. CASE LayersTaken BY <1>4 DEF LayersTaken
  <1>5. CASE ReleaseEyes BY <1>5, <1>0 DEF ReleaseEyes
  <1>6. CASE SendFrame BY <1>6, <1>0 DEF SendFrame, MaySend, AfterSend
  <1>7. CASE SendFrameChecksEncoder BY <1>7, <1>0 DEF SendFrameChecksEncoder, AfterSend
  <1>8. CASE SendFrameEnqueues BY <1>8 DEF SendFrameEnqueues, Replaced
  <1>9. CASE SendFrameNotifies BY <1>9, <1>0 DEF SendFrameNotifies, AfterSend, AfterNotify
  <1>10. CASE EncodeLoop BY <1>10 DEF EncodeLoop
  <1>11. CASE EncodeCheck BY <1>11 DEF EncodeCheck
  <1>12. CASE EncodeBlocks BY <1>12 DEF EncodeBlocks
  <1>13. CASE EncodeWakesSpuriously BY <1>13 DEF EncodeWakesSpuriously
  <1>14. CASE EncodeCopiesEncoder BY <1>14 DEF EncodeCopiesEncoder
  <1>15. CASE EncodeStereo BY <1>15 DEF EncodeStereo
  <1>16. CASE EncodeReleases BY <1>16, <1>0 DEF EncodeReleases
  <1>17. CASE ClientConnects BY <1>17 DEF ClientConnects
  <1>18. CASE ConnectStoresState BY <1>18 DEF ConnectStoresState
  <1>19. CASE ConnectMakesEncoder BY <1>19 DEF ConnectMakesEncoder
  <1>20. CASE ConnectEnds BY <1>20 DEF ConnectEnds
  <1>21. CASE ConnectFails BY <1>21 DEF ConnectFails
  <1>22. CASE ClientLeaves BY <1>22 DEF ClientLeaves
  <1>23. CASE LeaveStoresState BY <1>23 DEF LeaveStoresState
  <1>24. CASE LeaveEmptiesQueue BY <1>24, <1>0 DEF LeaveEmptiesQueue
  <1>25. CASE LeaveResetsEncoder BY <1>25 DEF LeaveResetsEncoder
  <1>26. CASE Stop BY <1>26 DEF Stop
  <1>27. CASE StopNotifies BY <1>27 DEF StopNotifies, AfterNotify
  <1>28. CASE StopJoins BY <1>28 DEF StopJoins
  <1>29. CASE StopEmptiesQueue BY <1>29, <1>0 DEF StopEmptiesQueue, LeftQueued
  <1> QED
      BY <1>1, <1>2, <1>3, <1>4, <1>5, <1>6, <1>7, <1>8, <1>9, <1>10, <1>11, <1>12, <1>13,
         <1>14, <1>15, <1>16, <1>17, <1>18, <1>19, <1>20, <1>21, <1>22, <1>23, <1>24, <1>25,
         <1>26, <1>27, <1>28, <1>29
      DEF Next, Choose, Render, Encode, Handle

\* With one projection layer in a frame a step that retains overwrites nothing.
LEMMA NoneLostPreserved ==
  ASSUME IInv, Next
  PROVE  NoneLost'
  <1> USE DEF IInv, FrameInv, TypeOK, FullFrames, NoneLost, AllHeld, EyesOwned, Held, Control,
              PcType, RenderHolds, EncodeHolds, StopHolds, RenderLabels, EncodeLabels,
              HandlerLabels, StopLabels, Goes, Release, NoFrame, Null, endFrameVars, textureVars
  <1>1. CASE TakeProjection
    <2>1. /\ layers # <<>> /\ IsProjection(Head(layers))
          /\ retained' \subseteq retained \cup Held(eyes')
      BY <1>1, TakeProjectionTakes
    <2>2. 1 \in DOMAIN layers /\ Head(layers) = layers[1] BY <2>1 DEF OneProjection
    <2>3. Held(eyes) = {} BY <1>1, <2>1, <2>2 DEF TakeProjection, OneProjection
    <2>4. pc.render # "replaced" /\ pc'.render # "replaced" BY <1>1 DEF TakeProjection
    <2>5. UNCHANGED <<replacedFrame, pendingFrame, encodeFrame>> BY <1>1 DEF TakeProjection
    <2> HIDE DEF Held
    <2> QED BY <2>1, <2>3, <2>4, <2>5
  <1>2. CASE ReleaseEyes BY <1>2 DEF ReleaseEyes
  <1>3. CASE SendFrame BY <1>3 DEF SendFrame, MaySend, AfterSend
  <1>4. CASE SendFrameChecksEncoder BY <1>4 DEF SendFrameChecksEncoder, AfterSend
  <1>5. CASE SendFrameEnqueues BY <1>5 DEF SendFrameEnqueues, Replaced
  <1>6. CASE SendFrameNotifies BY <1>6 DEF SendFrameNotifies, AfterSend, AfterNotify
  <1>7. CASE EncodeCheck BY <1>7 DEF EncodeCheck
  <1>8. CASE EncodeReleases BY <1>8 DEF EncodeReleases
  <1>9. CASE LeaveEmptiesQueue BY <1>9 DEF LeaveEmptiesQueue
  <1>10. CASE StopEmptiesQueue BY <1>10 DEF StopEmptiesQueue, LeftQueued
  <1>11. CASE UNCHANGED <<eyes, replacedFrame, pendingFrame, encodeFrame, retained>>
                /\ (pc'.render = "replaced" <=> pc.render = "replaced")
    BY <1>11
  <1> QED
    BY <1>1, <1>2, <1>3, <1>4, <1>5, <1>6, <1>7, <1>8, <1>9, <1>10, <1>11
    DEF Next, Choose, Render, Encode, Handle, EndFrame, TakeOtherLayer, LayersTaken, EncodeLoop,
        EncodeBlocks, EncodeWakesSpuriously, EncodeCopiesEncoder, EncodeStereo, ClientConnects,
        ConnectStoresState, ConnectMakesEncoder, ConnectEnds, ConnectFails, ClientLeaves,
        LeaveStoresState, LeaveResetsEncoder, Stop, StopNotifies, StopJoins

\* FrameInv holds throughout, whatever layers frames have.
LEMMA FrameStep ==
  ASSUME FrameInv, [Next]_vars
  PROVE  FrameInv'
  <1>1. CASE Next
    BY <1>1, ControlPreserved, TypePreserved, EyesDifferPreserved, PartedPreserved DEF FrameInv
  <1>2. CASE UNCHANGED vars
    BY <1>2 DEF FrameInv, Control, PcType, RenderHolds, EncodeHolds, StopHolds, TypeOK,
                EyesDiffer, Parted, AllHeld, EyesOwned, vars, endFrameVars, textureVars
  <1> QED BY <1>1, <1>2

LEMMA FrameInvHolds == Spec => []FrameInv
  <1>1. Init => FrameInv BY InitIInv DEF IInv
  <1> QED BY <1>1, FrameStep, PTL DEF Spec

\* IInv holds of frames with one projection layer.
LEMMA IInvHolds ==
  ASSUME MaxProjections <= 1
  PROVE  Spec => []IInv
  <1>1. IInv /\ [Next]_vars => IInv'
    <2> SUFFICES ASSUME IInv, [Next]_vars PROVE IInv' OBVIOUS
    <2>1. FrameInv' BY FrameStep DEF IInv
    <2>2. CASE Next BY <2>1, <2>2, OneProjectionPreserved, NoneLostPreserved DEF IInv
    <2>3. CASE UNCHANGED vars
      BY <2>1, <2>3
      DEF IInv, OneProjection, NoneLost, AllHeld, EyesOwned, vars, endFrameVars, textureVars
    <2> QED BY <2>2, <2>3
  <1> QED BY InitIInv, <1>1, PTL DEF Spec

\* Every variable keeps its type, and a frame in the queue or in the encoder has
\* two different textures.
THEOREM TypeOKHolds == Spec => []TypeOK
  <1>1. FrameInv => TypeOK BY DEF FrameInv
  <1> QED BY FrameInvHolds, <1>1, PTL

\* Whatever layers a frame has, no texture slice is released twice: no two of
\* EndFrame, SendFrame, the queue and the encode thread own it at a time.
THEOREM ReleasedOnce == Spec => []Parted
  <1>1. FrameInv => Parted BY DEF FrameInv
  <1> QED BY FrameInvHolds, <1>1, PTL

\* With at most one projection layer in a frame every retained texture slice has
\* one owner, is released once and is not left when the server has stopped.
THEOREM OwnedOnceHolds ==
  ASSUME MaxProjections <= 1
  PROVE  Spec => []OwnedOnce
  <1>1. IInv => OwnedOnce BY OwnersListed
  <1> QED BY IInvHolds, <1>1, PTL

-----------------------------------------------------------------------------

\* The definitions of FrameSlot, in the terms of the frame path.
LEMMA SlotTerms ==
  /\ Slot!NoFrame = NoFrame
  /\ \A frame : Slot!References(frame) = Held(frame)
  /\ Slot!Loose = retained \ (Held(pendingFrame) \cup Held(encodeFrame))
  <1>1. Slot!NoFrame = NoFrame BY DEF Slot!NoFrame, NoFrame, Slot!Null, Null
  <1>2. \A frame : Slot!References(frame) = Held(frame)
    BY DEF Slot!References, Held, Slot!Null, Null
  <1> QED BY <1>1, <1>2 DEF Slot!Loose

\* What EndFrame or a replaced frame holds is loose.
LEMMA HeldElsewhereIsLoose ==
  ASSUME FrameInv
  PROVE  EyesOwned \subseteq Slot!Loose /\ Held(replacedFrame) \subseteq Slot!Loose
  BY SlotTerms DEF FrameInv, Parted, AllHeld

\* Leaving queue and encoder alone and releasing loose references is giving them up.
LEMMA ReleaseGivesUp ==
  ASSUME FrameInv, NEW frame, Held(frame) \subseteq Slot!Loose, Release(frame),
         UNCHANGED <<pendingFrame, encodeFrame>>
  PROVE  Slot!Next
  BY DEF Release, Slot!Next, Slot!GiveUp

\* SendFrame puts its frame into the queue.
LEMMA EnqueuePuts ==
  ASSUME FrameInv, SendFrameEnqueues
  PROVE  Slot!Next
  <1>1. /\ pc.render = "enqueue" /\ pendingFrame' = eyes
        /\ UNCHANGED <<encodeFrame, retained>>
    BY DEF SendFrameEnqueues, Goes, textureVars
  <1>2. /\ eyes.left # Null /\ eyes.right # Null /\ eyes.left # eyes.right
        /\ eyes \in FullFrames(Nat)
    BY <1>1 DEF FrameInv, Control, RenderHolds, EyesDiffer, TypeOK
  <1>3. eyes.left \in Slot!Loose /\ eyes.right \in Slot!Loose
    <2>1. eyes.left \in EyesOwned /\ eyes.right \in EyesOwned
      BY <1>1, <1>2 DEF EyesOwned, Held
    <2> QED BY <2>1, HeldElsewhereIsLoose
  <1>4. eyes = [left |-> eyes.left, right |-> eyes.right]
    BY <1>2 DEF FullFrames
  <1>5. Slot!Put
    BY <1>1, <1>2, <1>3, <1>4 DEF Slot!Put
  <1> QED BY <1>5 DEF Slot!Next

\* The encode thread takes it out, or finds the queue empty.
LEMMA CheckTakes ==
  ASSUME FrameInv, EncodeCheck
  PROVE  Slot!Next \/ UNCHANGED <<pendingFrame, encodeFrame, retained>>
  <1>1. /\ pc.encode = "check" /\ encodeFrame' = pendingFrame /\ pendingFrame' = NoFrame
        /\ UNCHANGED retained
    BY DEF EncodeCheck, Goes, textureVars
  <1>2. encodeFrame = NoFrame
    BY <1>1 DEF FrameInv, Control, EncodeHolds
  <1> QED BY <1>1, <1>2, SlotTerms DEF Slot!Next, Slot!Take

\* Whatever layers a frame has, every step of EndFrame, SendFrame, the encode thread, a
\* client or Stop is a step of the one-place queue, or none of it.
THEOREM ImplementsSlotHolds == Spec => ImplementsSlot
  <1>1. Init => Slot!Init
    BY SlotTerms DEF Init, Slot!Init
  <1>2. FrameInv /\ [Next]_vars => [Slot!Next]_(Slot!vars)
    <2> SUFFICES ASSUME FrameInv, [Next]_vars
                 PROVE  Slot!Next \/ UNCHANGED <<pendingFrame, encodeFrame, retained>>
      BY DEF Slot!vars
    <2>1. CASE TakeProjection
      <3>1. retained \subseteq retained' BY <2>1, TakeProjectionTakes
      <3>2. UNCHANGED <<pendingFrame, encodeFrame>> BY <2>1 DEF TakeProjection
      <3> QED BY <3>1, <3>2 DEF Slot!Next, Slot!Retain
    <2>2. CASE ReleaseEyes \/ SendFrame \/ SendFrameChecksEncoder
      <3>1. /\ Release(eyes) \/ UNCHANGED retained
            /\ UNCHANGED <<pendingFrame, encodeFrame>>
        BY <2>2 DEF ReleaseEyes, SendFrame, SendFrameChecksEncoder, textureVars
      <3>2. pc.render # "replaced"
        BY <2>2 DEF ReleaseEyes, SendFrame, SendFrameChecksEncoder, Goes
      <3>3. Held(eyes) \subseteq Slot!Loose
        BY <3>2, HeldElsewhereIsLoose DEF EyesOwned
      <3> QED BY <3>1, <3>3, ReleaseGivesUp
    <2>3. CASE SendFrameEnqueues
      BY <2>3, EnqueuePuts
    <2>4. CASE SendFrameNotifies
      <3>1. Release(replacedFrame) /\ UNCHANGED <<pendingFrame, encodeFrame>>
        BY <2>4 DEF SendFrameNotifies
      <3> QED BY <3>1, HeldElsewhereIsLoose, ReleaseGivesUp
    <2>5. CASE EncodeCheck
      BY <2>5, CheckTakes
    <2>6. CASE EncodeReleases
      BY <2>6, SlotTerms DEF EncodeReleases, Release, Slot!Next, Slot!Finish
    <2>7. CASE LeaveEmptiesQueue \/ StopEmptiesQueue
      BY <2>7, SlotTerms
      DEF LeaveEmptiesQueue, StopEmptiesQueue, LeftQueued, Release, Slot!Next, Slot!Drop
    <2>8. CASE UNCHANGED <<pendingFrame, encodeFrame, retained>>
      BY <2>8
    <2> QED
      BY <2>1, <2>2, <2>3, <2>4, <2>5, <2>6, <2>7, <2>8
      DEF Next, Choose, Render, Encode, Handle, EndFrame, TakeOtherLayer, LayersTaken, EncodeLoop,
          EncodeBlocks, EncodeWakesSpuriously, EncodeCopiesEncoder, EncodeStereo, ClientConnects,
          ConnectStoresState, ConnectMakesEncoder, ConnectEnds, ConnectFails, ClientLeaves,
          LeaveStoresState, LeaveResetsEncoder, Stop, StopNotifies, StopJoins, textureVars, vars
  <1> QED BY <1>1, <1>2, FrameInvHolds, PTL DEF Spec, ImplementsSlot, Slot!Spec
===============================================================================
