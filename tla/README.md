# A TLA+ model of the OpenXR-OSX runtime

OpenXR-OSX is an OpenXR runtime for macOS: an application links to it through the OpenXR
loader, renders on the Mac, and the runtime encodes its frames and streams them to a headset
(or to a simulator) that sends poses and inputs back. This directory holds TLA+ modules of the
parts where threads, messages and object lifetimes meet, TLC configurations that check them on
small instances, and proofs that TLAPS checks for every value of the constants.

    tlc -config MCSwapchain.cfg Swapchain        # model-check one module
    tlapm Textures_proofs.tla                    # check the proofs of one module

`PROJECT.json` lists the components, runs, mutants, findings, hazards and theorems, and for
every definition the lines of code it models.

## 1. Inventory

Paths below are under `src/`; `runtime/src/X` is abbreviated to `X`.

| Component | State it keeps | Operations | Hard behaviour |
|---|---|---|---|
| Swapchain (`Swapchain.mm`) | per-image state, queue of acquired images, next and last-released index, under `stateMutex_` | Acquire, WaitImage, Release, HasReleasedImage, GetLastReleasedTextureSlice, ReleaseTextureSlice | three representations of one ring; `xrEndFrame` asks `HasReleasedImage` under the lock and reads `lastReleasedIndex_` again without it |
| Session (`Session.cpp`) | `state_`, `running_`, `exitRequested_`, `frameBegun_`, `waitedFrameCount_`, the streaming server | Begin, End, RequestExit, WaitFrame, BeginFrame, EndFrame, destruction | called from two or three application threads; only the two frame variables have a lock |
| Instance (`Instance.cpp`) | event queue | PushEvent, PollEvent, RemoveEventsForSession | event order against state order, events of sessions that are gone |
| StreamingServer, connection (`StreamingServer.cpp`) | `running_`, `state_`, `broadcastThread_`, client identity, `packetDispatchState_`, TCP sockets, `encoder_` | Start, Stop, HandleClientConnect, HandleUsbClientConnect, HandleClientDisconnect, accept loops | six threads of its own beside the application's, atomics and three mutexes; two transports share one state |
| StreamingServer, frames | `pendingFrame_`, `encoder_`, texture references | SendFrame, EncodeThread, ReleasePendingFrame | ownership of retained textures over four hand-overs; lost wake-ups |
| Video transport (`SendNalUnit`, `HandleNackRequest`; Android `NetworkReceiver.cpp`) | packet cache on the server, one partial frame on the headset | cut, parity, cache, retransmit; reassemble, recover, NACK | lost and late packets |
| Video encoder (`VideoEncoder.mm`) | slots, forced keyframe, owners of the encoder | Initialize, EncodeInternal, GPU completion, output callback, Shutdown | callbacks on foreign threads; whoever drops the last reference runs Shutdown |
| Adaptive bitrate, prediction horizon (`StreamingServer.cpp` 1237-1357) | EMA of latencies, current bitrate, request counters | HandleLatencyReport, HandleKeyframeRequest | integer arithmetic at the bounds; a counter that two parts reset |
| Tracking receiver, input manager | history of poses, pointer to the receiver, streamed and automated inputs | ReceiveThread, GetPredictedPose, Update, the component queries | dangling pointer, stale history; three sources for one hand |
| Actions, bindings, spaces (`EntryPoint.cpp` 1514-2435, `ActionSet.cpp`, `Space.cpp`) | action sets, attachments, bindings, the state of each subaction path | create, suggest, attach, sync, query, destroy | objects destroyed in any order; two places that combine the hands; changes between syncs |
| Handles and instance lifecycle (`EntryPoint.cpp`, `Runtime.h`) | registry of handles, the globals that own the objects, `gVulkanDispatch` | create and destroy of everything | destruction order, raw pointers between objects, error returns half way |
| Android client (`XrApp.cpp`, `NetworkReceiver.cpp`) | `connectionState_`, `needsReconnect_`, sockets, threads, decoder | discover, connect, retry, reset, display | three threads that agree by two atomics; two transports; loss of the connection |
| Clients: visionOS, Swift package, simulator viewer | connection, decoder queue | discover, connect, retry, display | loss of the connection |
| Configuration, runtime status, home application, graphics interop | files, graphics objects | load, publish | file I/O and graphics APIs |

**How they interact.** `xrBeginSession` makes and starts the server; the server's control
threads make the encoder when a client connects; `xrWaitFrame` asks the server for its pacing and
has the input manager read the newest poses; `xrEndFrame` hands the input manager a raw pointer to the
server's tracking receiver while a client is connected,
retains a texture slice of each eye's swapchain and gives it to the server, whose encode thread
releases it; the encoder's callback calls `SendNalUnit` on a VideoToolbox thread; `xrEndSession`
takes the pointer back, stops the server and destroys it.

**What must hold of each.**

* Swapchain: images are handed out in ring order, the queue and the states agree, and the reader, whose test
  holds the lock and whose use does not, only takes an image that was released.
* Session: nobody uses the server after it is destroyed, and the pointer to its receiver goes with it; events tell the application
  the lifecycle in the order it happened; a frame does not survive the session it was waited for in; a
  requested exit completes.
* Streaming server: it announces itself exactly when it has no client; client, route, encoder and
  published status agree; packets go to the client that is connected; a `Stop` leaves nothing behind, and only
  the encode thread can keep it.
* Frame path: each retained texture has one owner and is released once; a queued frame is taken.
* Encoder: it outlives its frames and is destroyed after the last; each slot is released once; the bitrate
  stays in its range.
* Handles and actions: no object keeps a pointer to a destroyed one; a failed call changes nothing; what is
  attached does not change.
* Action input: a sync tells the input of its moment; the two places that combine the hands agree; no change beyond
  the tolerance goes untold; a space follows its hand.
* Android client: it listens before it tells the server of itself; a reset leaves no thread; a client that takes itself for
  connected receives; a stream that ends leads back to the search.
* Video transport: what reaches the decoder is what was encoded, in order, until something is sent again; one
  loss costs at most a one-packet NAL unit; only what could not be repaired is dropped.

`PROJECT.json` "hazards" lists, line by line, what in this code is hard to test, and the property
that covers it or the reason none does yet.

## 2. Modules

| Module | Models | Composes with |
|---|---|---|
| `SwapchainRing` | abstract specification: a ring buffer of images | - |
| `Swapchain` | the swapchain and the unlocked reader | implements `SwapchainRing` |
| `Session` | session, event queue, input manager's pointer, application threads | - |
| `Session_proofs` | its theorems | extends `Session` |
| `StreamingServer` | connection lifecycle from Start to destruction, the server's six threads | the server `Session` begins and ends |
| `StreamingServer_proofs` | its theorems | extends `StreamingServer` |
| `FrameSlot` | abstract specification: a place for one frame, which it owns | - |
| `FramePath` | frame queue, encode thread, texture ownership | implements `FrameSlot`; `Session::EndFrame` with the server's frame half |
| `Textures_proofs` | the theorems of the two modules a texture goes through | extends `Swapchain` and `FramePath` |
| `VideoTransport` | packets, parity, retransmission; both ends | the server's sender with the Android receiver |
| `VideoTransport_proofs` | its theorems | extends `VideoTransport` |
| `VideoEncoder` | the encoder's owners, slots and frames in flight; the adaptive bitrate | the encode thread of `FramePath` with the connects of `StreamingServer` |
| `VideoEncoder_proofs` | its theorems | extends `VideoEncoder` |
| `EntryPoint` | the registry of handles; creation, attachment and destruction of every object | the owner of what `Session`, `Swapchain` and `ActionInput` model |
| `EntryPoint_proofs` | its theorems | extends `EntryPoint` |
| `ActionInput` | suggested bindings, sources of input, xrSyncActions, queries, action spaces | the input manager, whose receiver `Session` hands over |
| `MCActionInput` | the bindings and packets its run takes | extends `ActionInput` |
| `ActionInput_proofs` | its theorems | extends `ActionInput` |
| `AndroidClient` | discovery, connection, loss, retry, reset on the headset | the peer of `StreamingServer`; its receive thread is the receiver of `VideoTransport` |
| `AndroidClient_proofs` | its theorems | extends `AndroidClient` |

**Conventions.** Variables have the names of the members they stand for, without the trailing
underscore. A call that holds a lock throughout is one action. A call that does not is a sequence of actions, each
one critical section or one atomic access, and `pc[t]` says where thread `t` stands; `Goes(t, from, to)`
moves it. Calls that return an error before they change anything are not steps. A definition whose
comment calls it a slip, or that stands as a form before the one it varies, is a plausible mistake, not the code; no specification uses it. It shows
that a property depends on the line it replaces ("mutants" in `PROJECT.json`).

### Swapchain

`imageStates`, `imageQueue`, `nextAcquireIndex`, `lastReleasedIndex` are the members of the same names.
`AcquireImage` scans from `nextAcquireIndex_` for the first available image; `WaitImage` and
`ReleaseImage` act on the queue's head and check its state. `ReaderChecks` (`HasReleasedImage`, under
the lock) and `GetLastReleasedTextureSlice` (without it) are two steps with any of the
application's calls between them; each image's texture contents are abstracted to whether a release has happened.
`SwapchainRing` knows only a cursor, how many images are acquired and how many of these were waited for;
`ImplementsRing` says that the per-image states, the scan and the queue amount to that.

### Session

The three thread roles may coincide: `MCSession.cfg` has a render thread and a thread for everything
else; `MCSessionThreads.cfg` has one each. `WaitFrame` is five steps, the sleep among them (`wf_pacing`), and looks at the session's state again at the end;
`EndFrame` goes through `CheckStreamingConnection` and the tests of `streamingServer_` one by one, the pointer to the receiver being
stored in a step of its own; an input query (`QueryInput`) tests that pointer and uses it in two steps, on any thread;
`EndSession` has a step for each of STOPPING, taking the pointer back, stopping and destroying the
server, and IDLE or EXITING. `TransitionState` writes `state_` and pushes the event in a later step,
as the code does. Creation and destruction require all threads to be outside: OpenXR asks the
application to synchronise on the handle there. With `EventDriven` the application ends a session
only once it has polled STOPPING, as the OpenXR specification asks.

### StreamingServer

The thread object `broadcastThread_` is "none" (not joinable), "running" or "finished"; assigning to a
joinable one ends the process (`fault = "assigned"`), and so does a join of an object another thread has
joined since it was tested (`fault = "joinedTwice"`). `packetDispatchState` keeps where packets go.
`status` is the connection state `RuntimeStatus` publishes. `Start` may fail at each of its four stages;
the session then destroys the server at once. The USB threads accept a connection and store it in two steps, between which `Stop`
may close everything: what they store then is closed by the `Stop` of the destructor. Connect and disconnect handlers are the
same actions for the WiFi and the USB thread, which differ in who the client is; a message that came before `Stop` cleared
`running_` is handled after it. The encode thread is there for its wait, which tests the predicate and then
goes to sleep: a notification between the two is missed, and `Stop` joins a thread that sleeps. `StrayGoodbyes` lets the control
thread take a disconnect although WiFi is off (`StreamingServer.cpp` 543-546 does not test it).

### FramePath

A reference to a texture is a number; `retained` has those retained and not yet released. `EndFrame`
gets any sequence of layers, valid or not, and walks through it; a texture view may fail to be made.
`SendFrame` swaps its frame with `pendingFrame_` under `frameMutex_` and releases the replaced one after it.
The encode thread's wait is three steps: test the predicate, block, be woken. `Stop`, connect and
disconnect empty the queue and replace the encoder.

`FrameSlot` is what the queue promises: a place for one frame, filled, emptied by the encoder or dropped, whose slices are
released by nobody else while they are in it or being read. It has no threads, lock or layers. `Slot` maps `slot` to
`pendingFrame` and `taken` to `encodeFrame`; `ImplementsSlot` is the refinement.

### VideoTransport

A payload is the number of the NAL unit it was cut from; parity of packets of different units
restores `Mixed`. The network loses any packet or NACK within a bound and keeps the order, as one socket over one
link does in practice; retransmissions therefore come after what was sent before them. The headset
has one partial frame, replaced as in `ReassembleFrame`, including the cases where the packet that
triggered a recovery is discarded. A keyframe is its parameter sets and its slice, NAL units of one
`frameIndex`; a NACK names the frame and is answered from the first cache slot of that frame (`CachedSlots`), whichever
unit that holds. `DeliveredIntact` therefore says different things before and after the first answer: before,
every unit delivered is whole and they come in order, each once; after, only the unit of a frame that is one unit is
sure to be whole, and the order is lost, because a retransmitted slice comes when later ones have passed. In either case
no packet is stored outside the buffer. `RestoresWhatWasLost` is what `FecCodec.h` says of parity, without that exception.

A NAL unit of one packet, a parameter set or a small P-frame, has parity too, but the headset opens no buffer before the unit's
first data packet and drops parity that finds none (`NetworkReceiver.cpp` 346-348). `OneLossIsRepaired` therefore says that
one loss costs at most the one-packet unit whose packet it was; `OneLossIsRecovered`, without that exception, is what the protocol's document says. Payloads
have no length: that a restored last packet is given the full length (546-557), and so ends in zeros, is not followed.

### VideoEncoder

An encoder is destroyed when nothing refers to it: `Captures` (the callback of each frame in flight), the
server's `encoder_` and the encode thread's copy are its references, and `Destructs` removes it from `alive`
in the step that drops the last. A frame goes from the GPU's handler to VideoToolbox's callback and
`FinalizeEncodeFrame`, which answers, releases the slot and deletes the context in three steps; frames may
pass each other. The bitrate is in Mbps; a smoothed latency is low, middle or high. `requestKeyframeCount`
wraps at `Wrap` (2^32 in the code), is taken to zero by the metrics callback of any frame, and is compared
with what the last report saw. The callback reaches the server and its tracking receiver (`StreamingServer.cpp` 916, 947), which
`Stop` does not keep for it: `ReportsReachTheServer` says that it does, and fails.

### EntryPoint

`objects` is the heap and the handle table in one, because every constructor registers and every destructor
removes its handle. An object's `parent` is the raw pointer it keeps; `action` of a space is a handle, which
the code looks up again. Each call has its error returns, as `result` with the rest unchanged, so that
`FailureChangesNothing` is about those that fail half way. `OrphansActions` says whether the application
destroys an action set before its actions. What a failed call must keep (`kept`) has the objects, the bindings and the attachments; the table of Vulkan,
which a failed `xrCreateVulkanInstanceKHR` has already filled (`EntryPoint.cpp` 3211-3216), is not in it.

### ActionInput

Four actions of one type are bound to the same sources: one without subaction paths, two with both hands, which were given them
in one order and in the other (`split`, `crossed`), and one with the left hand only, all in one set; the other sets are one more set that
is synced or not. A reading is a whole number of steps, or two of them for a vector, of which `Scale` are the full range; a difference of
up to `Tolerance` steps is one the code's comparisons do not see (0.0001 for a change, `ActionSet.cpp` 91-93, and 0.01 for a touch). `AccumulatedFor` is the
loop over the bindings of a hand, `Joined` one round of the loop in `GetQueriedActionState`. One vector takes the place of
another when it is longer in x or longer in y (`Longer`), so that of two vectors each may take the other's place, and which one is left
depends on their order. A sync takes the left hand first; a query takes them in the
order the application gave, so that it agrees with the sync on vectors and poses only where that was left first. The automation extension may give a hand a second one, for another component; then `WaysToCombineAgree` fails for it too (a right hand whose second
vector takes the place of its first, but would not have taken the left hand's), and `OneVectorPerHand` says that it does not. A hand is driven by automation,
by hand tracking or by its controller (`CurrentInteractionProfile`), and automated values override the
components one by one. `data[a][p]` is an action's `SubactionData`, with its changed flag.

### AndroidClient

`state` and `needsReconnect` are the two atomics; each access to them is a step. `RunFrame` does what it finds to do in
order: reset and start networking again, retry USB, and show the newest frame or notice a stall. `Configure` is
`ConfigureServerConnection`, which the main thread runs for USB and the discovery thread for WiFi; `expected[t]`
is the state it read. Sockets, threads and the decoder are booleans or the transport they belong to. `served` is what the server does: it
takes a client that connects and may close the USB sockets or stop sending. Main's calls come at any step of the discovery
thread's connect and of the loss the receive thread reports: nothing but the two atomics orders them. Three things go wrong in
such overlaps, each shown by a configuration of its own: a retry over USB stores the state it read before a connect, a retry
assigns the receive thread of a connection whose loss is half reported, and a connect switches `receiving_` on
again while `Stop` joins. `terminated` stands for the end of the process by such an assignment.

## 3. Runs

| Run | Configuration | Result | What it shows |
|---|---|---|---|
| `swapchain` | `MCSwapchain.cfg` | holds | the unlocked reader takes a released image, the last released image stays submittable, and the code implements `SwapchainRing` |
| `session` | `MCSession.cfg` | holds | no thread uses a destroyed server; the pointer to the receiver never outlives the server, whoever ends the session meanwhile; events tell the states in order, and never those of an earlier session |
| `session_threads` | `MCSessionThreads.cfg` | holds | no frame outlives `xrEndSession` even with three threads; a requested exit completes |
| `server` | `MCStreamingServer.cfg` | holds | with one transport, client, route, encoder, status and announcements agree, no thread object is assigned over, a destroyed server leaves no thread, connection or encoder behind, and only an encode thread that sleeps can keep `Stop` |
| `server_both` | `MCStreamingServerBoth.cfg` | holds | with both transports, the default, whose connects and disconnects overlap, a destroyed server still leaves no thread, connection or encoder behind |
| `transport` | `MCVideoTransport.cfg` | holds | what the decoder gets is intact, and in order until a packet is sent again; buffers are not overrun, one loss costs at most a one-packet NAL unit, nothing repairable is given up |
| `transport_nack` | `MCVideoTransportNack.cfg` | violated | an answered NACK does not recover its frame: the headset asks for missing packets at the moment it gives their frame up (`NetworkReceiver.cpp` 379-414), so the answer finds no buffer to complete; only a second NACK, for what the first answer began, may recover it, after later slices |
| `framepath` | `MCFramePath.cfg` | holds | one owner and one release for every texture slice; the queue is a place for one frame that it owns; queued frames are taken |
| `client` | `MCAndroidClient.cfg` | holds | whatever overlaps, a reset leaves no thread, video socket or decoder, and a connected client has a receive thread; over WiFi alone it listens before it connects, over USB alone a loss leads back to the search |
| `entrypoint` | `MCEntryPoint.cfg` | holds | no object points to a destroyed one, what is attached is live and frozen, failed calls change nothing |
| `actions` | `MCActionInput.cfg` | holds | a sync tells the input of its moment; both ways to combine the hands agree on activity, sources and, but for vectors of a right hand given first, values; no change beyond the tolerance goes untold but of two hands' vectors; spaces follow their hand |
| `encoder` | `MCVideoEncoder.cfg` | holds | encoders outlive their frames and are destroyed in the end, slots are released once, the bitrate stays in range |

The violated run is a disagreement between the code and a sentence of its documentation (`PROJECT.json`
"findings" quotes it).

**Further configurations that reproduce disagreements.** TLC finds each of these violated; they are kept
beside the runs, for a reader who changes the line they are about.

* `MCStreamingServerStop.cfg` (`StopReturnsToIdle`): `Stop` and a connect handler both test and join `broadcastThread_`, with no lock
  between them (`StreamingServer.cpp` 433-435 and 1033-1035); the second join throws. `docs/protocol.md:117`:
  "Either side can disconnect and return to idle."
* `MCStreamingServerAuto.cfg` (`UsbConnectIsAnswered`): a UDP disconnect sets `state_` back to Broadcasting (1178) after a USB connect has set it to
  Connected (1113); the broadcast thread goes on and the join of the USB handler (1117) waits for it.
* `MCFramePathStop.cfg` (`StopReturns`): `Stop` stores `running_` and notifies without `frameMutex_` (395-397), which can fall
  between the encode thread's test of its predicate and its sleep (792).
* `MCFramePathLayers.cfg` (`EveryRetainIsReleased`): a second projection layer overwrites the references taken for the first
  (`Session.cpp` 630, 634), which `Swapchain.h:72` has the caller release.
* `MCAndroidClientReturn.cfg` (`ReturnsToRetry`): over WiFi a server that leaves before the first frame is shown is not noticed
  (`XrApp.cpp` 2066), while `docs/platforms/quest.md:56` has the client return to discovery automatically.
* `MCAndroidClientStall.cfg` (`StallReturnsToRetry`): a retry over USB reads the state (`XrApp.cpp` 1254), the discovery thread connects over
  WiFi, and the retry stores what it read over "Connected" (1261; 1277 likewise). When the stream stalls, `OnConnectionLost` returns at its guard
  (1155), and nothing leads back to the search. `docs/platforms/quest.md:76`: when "video stalls after an app exits, the Quest client resets
  connection state and returns to the same retry loop".
* `MCAndroidClientStop.cfg` (`StopReturns`): the session stops while the discovery thread connects, which switches `receiving_` on
  (`NetworkReceiver.cpp` 158-226) after `Stop` has switched it off (728); the join of the receive thread (747) then waits for ever.
* `MCAndroidClientRetry.cfg` (`NeverAssignedJoinable`): over USB alone, main retries between the receive thread's two stores
  (`XrApp.cpp` 1161-1162, guards 1249 and 1288) and assigns a receive thread not yet joined (`NetworkReceiver.cpp` 223), which ends the process.
* `MCSessionQuery.cfg` (`NoDanglingReceiverUse`): an input query tests the pointer to the receiver and uses it (`InputManager.cpp` 382, 415)
  while another thread ends the session (`Session.cpp` 214-216).
* `MCStreamingServerStray.cfg` (`ConnectionAgrees`): over USB alone a UDP client's goodbye, taken without a test of the
  transport (`StreamingServer.cpp` 543-546), disconnects the USB client half way through its connect.
* `MCActionInputOrder.cfg` (`OrderDoesNotMatter`): of the vectors of two hands a query takes another one than the sync where the
  application gave the right hand first (`ActionSet.cpp` 26-30, `EntryPoint.cpp` 1956-1980).
* `MCActionInputJump.cfg` (`NoJumpUntold`): one hand's vector changes by no more than the tolerance, which makes it the longer
  one somewhere, and the query's answer jumps to the other hand's vector with no change told.
* `MCVideoEncoderServer.cfg` (`ReportsReachTheServer`): a frame in flight answers after `Stop`, through the `this` its
  encoder's callback captured (`StreamingServer.cpp` 904-948), when the tracking receiver is gone (465).
* `MCVideoTransportSingle.cfg` (`OneLossIsRecovered`): a small P-frame is lost with its one packet, though its parity
  arrives. `docs/protocol.md:78` has parity recover "one lost data packet" of its group.
* `MCVideoTransportMixed.cfg` (`RestoresWhatWasLost`): a keyframe's parameter sets and its slice share a `frameIndex`, by which the
  answer to a NACK is looked up (`StreamingServer.cpp` 1606-1616): asked for packet 0 of the slice the server sends the
  parameter set, and the headset stores it in the slice's place, because it compares only frame and index (`NetworkReceiver.cpp` 417-424). Parity
  then restores a packet that was never sent, and the slice is delivered with both. `FecCodec.h:10-11`: "If exactly 1 data packet in a
  group is lost, it can be recovered by XOR-ing the parity packet with the remaining data packets."
* `MCEntryPointVulkan.cfg` (`VulkanExtensionSuffices`): `xrGetVulkanGraphicsRequirementsKHR` asks for the Metal extension
  (`EntryPoint.cpp` 3171), while `docs/architecture.md:47` exposes Vulkan through its own extensions.
* `MCVideoEncoderAbr.cfg` (`DecreaseHasACause`): the metrics callback takes the request counter to zero (`StreamingServer.cpp` 931)
  while the report compares it with the last count (1253): the unsigned difference wraps, and the bitrate falls with no request
  and no high latency.

**Bounds, and why they are enough.**

* `imageCount = 3` is the code's own `SwapchainImageCount`; the theorems hold for any number.
* `MaxSessions = 2`: the second session meets events and threads of the first. `MaxWaited = 2`: one
  frame more than the one begun, so a pipelined application's case arises. The three-thread run
  has one session and one waited frame, to stay within minutes.
* `UsbSockets` has the two descriptors a reconnect needs: the old and the new one. Stop and
  destruction happen once each per server, clients come and go without a bound. The run `server` has one transport at a
  time and no stray goodbyes; the configurations named above have what it leaves out. `server_both` has no USB video and tracking
  connections: it is the handlers that overlap there, and the theorem holds for any sockets.
* `FecGroupSize = 3` (10 in the code) with slices of one packet and of 4 gives a small P-frame, and one full group
  with one of a single packet; the parameter set is a group of its own. Two losses in one group are the first that
  parity cannot repair, and a third is left for the retransmission; with three NACKs answered a frame is asked for again, recovered
  late, and a parameter set is sent in a slice's place. Three frames show a late slice after a later one; a cache of six slots holds
  them all. `MCVideoTransportMixed.cfg` and `MCVideoTransportNack.cfg` are the smallest instances with their counterexamples.
* One or two layers with at most one projection layer is what applications submit, `MaxLayers` in the
  code is larger but layers are looked at one by one; `MCFramePathLayers.cfg` raises the bound that matters.

* The encoder: two encoders are the one dropped and its successor, two frames one on each side of the drop, two
  slots (`SlotCount` is 3) let a frame find none free. 8 Mbps is below the minimum of 10 and 11 above it. `Wrap = 2` only
  bounds the counter, which `BitrateInRange` does not depend on; the theorems hold for any values.
* `EntryPoint`: five handles are an instance, a session, two action sets and an action, or one set with
  two other objects, so every pair of kinds meets; two names let a name be taken. `OrphansActions = FALSE`: with
  TRUE, which OpenXR allows, an action keeps a pointer to its destroyed set (hazard at `EntryPoint.cpp:1570`).
* `ActionInput`: two packets, one with the sticks aside to opposite sides, one with a tracked hand and the other hand's stick back; one
  automated input, whose value is one step from what its packet has. `Scale = 2` and `Tolerance = 1` give each sign a value that
  differs from rest and one that does not. The theorems hold for any packets, bindings, automated inputs, scale and tolerance.
* `AndroidClient`: nothing is bounded; the server is reached over WiFi, USB or both.
* The bitrates of the run never raise: the upper bound is `MCVideoEncoderAbr.cfg`'s, and the theorem's for every bitrate.

**Fairness, and why the code justifies it.**

* Session: a call that has begun goes on (weak fairness of each step: a running thread is
  scheduled). The application keeps polling and running its frame loop (strong fairness): a
  requested exit cannot complete without it, and OpenXR demands it. Nothing obliges it to call
  `xrRequestExitSession`.
* StreamingServer: each thread is scheduled (weak fairness of its steps), and a `Stop` that has begun goes on. A join waits for the
  thread it joins, so that none of these is owed more than that. Clients are not obliged to do anything, and nobody wakes the encode thread.
* FramePath: weak fairness for render, encode and handler steps; strong fairness for the encode thread's
  turn on the encoder mutex. Nobody has to submit frames or stop.
* VideoEncoder: the encode thread ends an iteration it has begun, and the GPU and VideoToolbox answer each
  frame in the end, which their interfaces promise. Nobody has to connect, leave or stop.
* AndroidClient: its threads are scheduled (weak fairness), a server without a client closes its video connection, and
  a stream that has ended shows no frame for two seconds (strong fairness of the stall), which is the passing of time.
* EntryPoint and ActionInput have no liveness property: every call returns in one step.
* The swapchain and the transport have no liveness property: their environment (the application, the
  network) owes them nothing.

`CHECK_DEADLOCK FALSE` is set where the system stops: a destroyed server, the end of the stream, the
last session. The swapchain runs for ever and is checked for deadlock.

## 4. Proofs

**Swapchain** (`Textures_proofs.tla`, where the names it shares with the frame path begin with `SC`), for every `imageCount` that is a positive number
(`ImageCountAssumption`). The inductive invariant `SCIInv` is the conjunction of

* `SCTypeOK`;
* `OrderMatchesStates`: the queue has no repetitions and holds exactly the images that are not available;
* `RingOrder`: the queue's images are consecutive in the ring and end just before `nextAcquireIndex`. It is why
  the scan always stops at its first image; without it `AcquireNeverSkips` is not inductive, because a release
  could make any image available;
* `PublishedBeforeOldest`: the last released image is the one before the queue's head. It turns
  "released at some time" into a position;
* `SliceWasReleased` and what the reader has seen when it stands between its two steps.

Each action is shown to preserve each conjunct it disturbs; arithmetic modulo `imageCount` is in lemmas of its own.
`OrderMatchesStatesHolds`, `AcquireNeverSkipsHolds`, `ReleasedImageStaysVisibleHolds` and
`SliceWasReleasedHolds` follow, and `ImplementsRingHolds` shows the refinement: initial states map to
initial states, each step to a step of the ring or to a stutter.

**Session** (`Session_proofs.tla`), for every assignment of threads to roles and all bounds
(`SessionAssumption`). The inductive invariant says which labels a thread may be at (`PcType`, `Roles`), that the
end of a session runs only while it is stopped (`EndIsStopped`) and never while a frame is begun on
the same thread (`FrameHoldsOffEnd`), and that a server exists only once streaming was started, with no receiver wired while
`BeginSession` starts it (`ServerWasStarted`). `NoDanglingServerUseHolds` and `ReceiverHasServerHolds` assume
`WaitThread = ControlThread`. The assumption is needed: with a waiting thread of its own the
code tests `streamingServer_` and then uses it while `EndSession` may destroy it. OpenXR
allows such an application; the hazard at `Session.cpp:358` records it. Input queries may come on any thread: `ReceiverHasServer` says that
`EndFrame` never stores a pointer into a server that is gone, and that an ended session has none, not that a query which
has already read it is safe (`MCSessionQuery.cfg`). `NoFrameSurvivesEndHolds` and `TypeOKHolds`
need no assumption about threads.

`EventsTellLifecycleHolds` is about the sequence `Told`, what the application knows followed by what it will poll. `Story`
says that it is legal and ends in the state that was announced last, which is `state` but for a step between the write of
`state_` and the push of its event, and `Endings` says how far the end of a session has come. Both need that all queued events are the
live session's (`OwnEvents`), which is what `RemoveEventsForSession` is for, and that no thread is inside a call
without a session (`Calling`). The theorem assumes `EventDriven \/ FrameThread = ControlThread`: an application that ends a
session it was not told to end, on another thread than the one that renders, may have IDLE pushed between the rendering
thread's write of `state_` and its event, and TLC shows that the events are then out of order.

**StreamingServer** (`StreamingServer_proofs.tla`), for any set of socket descriptors. `LifeInv` says where each thread may be while the
owner stands at each place of `Start` and `Stop`, and which of thread, receiver, connection and encoder are cleared by
then; the places of `Stop` are ordered by the sets `FromEncoder` to `FromSockets`. `CleanAfterDestructionHolds`
follows for every setting of the transports, with or without stray goodbyes. The other three theorems assume
`"auto" \notin Transports` and `~StrayGoodbyes`, one transport at a time and no disconnect but its own. `SpawnInv` then says that at most one handler is active (`OneTransport`) and
where it has joined what it is about to assign; `AgreeInv` says for each place of a handler what it has set so far
(`ConnectInv`, `DisconnectInv`, `StatusInv`, `RouteInv`). With both transports the two handlers overlap, one sets
what the other has cleared, and the properties fail: `MCStreamingServerAuto.cfg` shows what becomes of it, and
`MCStreamingServerStray.cfg` that a goodbye the code does not test does the same over USB alone.

**FramePath** (`Textures_proofs.tla`), for any number of layers and any sequence of them, in two steps.
`FrameInv` needs no assumption: `TypeOK`, where the threads stand and what they hold there (`Control`), that the two eyes differ,
and that the four owners of references hold different ones, all retained (`Parted`). So no slice is released twice
(`ReleasedOnce`), and the refinement `ImplementsSlotHolds` follows: what `EndFrame` holds and what a connect or a new frame
took out of the queue is `Loose` in `FrameSlot` (`HeldElsewhereIsLoose`), each release gives up loose slices, and the swap
under `frameMutex_` puts in a frame of loose ones (`EnqueuePuts`).

`OwnedOnceHolds` says besides that nothing is lost, and assumes `MaxProjections <= 1`. `IInv` adds `NoneLost` and `OneProjection`: a frame whose eyes
are taken has no projection layer left to walk through. A layer taken later would overwrite the first one's references, which is
what the code does with a second projection layer (`MCFramePathLayers.cfg`); the assumption is not one the code
enforces, and the theorems without it say that the leak is all that comes of it.

**VideoTransport** (`VideoTransport_proofs.tla`), for any group size, cache, slices, number of frames, losses and NACKs
(`TransportAssumption`). `IInv` is four conjuncts: the server's types and that packets of the unit being sent are the last on the wire;
that a frame has one slice, its last unit (`OneSlice`); that the cache holds what was sent (`CacheOK`); and `StreamOK` of the wire, the partial frame and what was
delivered, with nothing said of the order once a NACK is answered. `StreamOK` has these three as parameters, so that a lost packet and a received one
are instances of the same facts about a wire's tail. The step that needs the strengthening is a repair: that what parity restores is the
missing packet follows only if the stored packets of its group and the parity are of one unit, which holds of a frame
that is one unit at any time, and of every frame while nothing was sent again, because the units of a frame then come one after the other
(`InOrder`, `NothingTwice`). `DropsOnlyUnrepairableHolds` is an action property, from the invariant.

`OneLossIsRepairedHolds` counts losses over the whole history and needs a second invariant, `LossInv`, on top of `IInv`: while at most one packet was lost,
no NACK was sent, every packet of a unit of several packets that is not delivered is to come, lost or in the buffer (`Accounted`), a buffer in use
waits for a packet it lacks (`Awaits`), and the packet of a one-packet unit that is not delivered is to come or was the lost one (`Pending`). A step could only break `Awaits` by taking the last packet the buffer waits for; then all the others are stored
(`LastPacket`), and the buffer is either complete or lacks one packet whose parity it has, which `TryFecRecovery` restores at once.
The theorem assumes `FecGroupSize >= 2` (the code's `FEC_GROUP_SIZE` is 10, `Protocol.h` 144). With groups of one packet the
property is false: when the first packet of a slice is lost its parity comes before the slice's buffer is opened, and is ignored. It is
also why a one-packet unit is excepted, whatever the group size.

**AndroidClient** (`AndroidClient_proofs.tla`), for every `Reaches` and with no other assumption: main stops, resets and retries at any step
of the other threads. `IInv` says where each thread may be (`PcType`) and that it is there only while its objects exist and until it
is joined (`ThreadsInTime`), and has one conjunct for each theorem. `ResetInv`: once `Stop` has closed the sockets, an open one
belongs to a receive thread that runs, so that `Stop` passes the join of it only with the socket closed; the discovery thread, which could
open another, was joined before. `ReceivesInv`: without a receive thread, and unless main is stopping, nobody is at a place from which it
stores "Connected", and main's retry has not saved it. `WifiInv`: with WiFi alone a discovery thread that is about to tell the
server has a receive thread on its socket, or main is stopping. The three are preserved separately (`ResetKept`, `ReceivesKept`,
`WifiKept`). What overlaps do break, the stored state, the assigned thread and the join of `Stop`, is in `MCAndroidClientStall.cfg`,
`MCAndroidClientRetry.cfg` and `MCAndroidClientStop.cfg`.

**EntryPoint** (`EntryPoint_proofs.tla`), for every number of handles, names and extension sets
(`EntryPointAssumption`), in whichever order the application destroys its objects. The parts of `IInv` are `TypeOK`,
`OwnersAgree`, `AttachedSetsLive` and `ParentsLive`. The last is `ParentsOutliveChildren` for the kinds whose pointers stay
good (`Followed`): all of them, but for actions when `OrphansActions` lets a set go before its actions. It is inductive only with the
others: that a destruction leaves no pointer behind needs that nothing else points at what it removes, which needs the kinds of parents
and that there is one instance and one session. Every step gives out one handle, takes some away, or leaves
the objects alone; a lemma about each (`CreationPreserves`, `DestructionPreserves`, `KeptPreserves`) does the work, and the actions
choose among them. `FailureChangesNothingHolds` and `AttachFreezesHolds` are action properties, from the invariant.
Only `ParentsOutliveChildrenHolds` assumes `OrphansActions = FALSE`, which the code does not enforce; `OnlyActionsAreOrphaned` says what is left without it.

**VideoEncoder** (`VideoEncoder_proofs.tla`), for every number of encoders, frames and slots and all bitrates
(`VideoEncoderAssumption`). `IInv` adds `EncodeHolds`, where the encode thread has an encoder and a slot, to
`TypeOK`, `EncoderOutlivesItsFrames` and `SlotsAreOwedOnce`. It is needed because a commit hands the thread's
debt to a frame: that the frame's encoder lives follows from the thread's reference to it. `DropPreserves` says that
dropping any reference keeps the invariant, whoever drops it. The bitrate's range follows from `AbrTypeOK` and the
integer bounds of the lowering and the raise.

**ActionInput** (`ActionInput_proofs.tla`), for all packets, lists of bindings of any length and automated inputs and
values (`ActionInputAssumption`). What a sync gathers is a recursive function over a list, and what it computes cannot be had from the
library's induction theorems. The module therefore derives induction up to a number, for a set of numbers, from
`LeastExists`, which rests on the library's facts about finite sets and injections: the rank of an element in a set is one to one, so some element has rank one. With it
`RecursionExists` proves that a recursion has a solution, and `LoopUnfolds` that `AccumulatedFor` is one: its value after n bindings
is that after n - 1, and the n-th taken.

* The loop's invariant is `Tells`, of the bindings taken so far (`LoopTells`), and for a whole action of both loops one after the other (`AggregateTells`).
  `SyncTellsInputHolds` follows, because a sync stores what was gathered, and what was gathered before is not in it.
* `NoChangeUntoldHolds`: a value that a sync changes by more than the tolerance has its flag set (`SyncedChange`), no other step changes `data`, and a query combines
  values and flags of the same paths, so that without a flag nothing it combines differs (`DiffersNot`); then neither does the maximum (`CombinedDiffers`). Of two
  vectors that is not so, the answer may be the other one, and the property leaves them out (`NoJumpUntold`).
* `SpaceFollowsItsHandHolds` needs `SourcesOfTheirHand`: the pose source of a path is of that path's hand, and of an action with paths the
  null path has none, which is where a space falls back.
* `WaysToCombineAgreeHolds` has `HandsTogether` for its invariant: what the action without paths has is what the two paths have, joined.
  It is kept by a sync, since what the second loop adds to the first's result is what it gathers alone, joined to that (`LoopJoins`). Of
  vectors that holds only when the second hand has no more than one (`OneVector`), hence the assumption `OneVectorPerHand`. The code does not enforce it, but the
  only call that can violate it is `xrSetInputDeviceStateVector2fEXT` for a component that is no vector. For an action given the right hand
  first activity, sources, booleans and floats follow from the symmetry of union, or and maximum; vectors and poses do not (`OrderDoesNotMatter`).

**Only model-checked.** Liveness (`ExitCompletes`, `OnlyEncodeKeepsStop`, `QueuedFrameIsTaken`, `UsbLossReturnsToRetry`,
`DroppedEncoderIsDestroyed`) is out of the prover's reach. Every other property of a passing run is a theorem, under the assumptions named above.

## 5. Not modelled

Rendering, texture creation, views, poses and their prediction (floating-point), byte layout of
messages (covered by the repository's unit tests), parsing and file formats, user interfaces, haptics, localized
names, enumerations, debug labels, and the render-pose packets.
Data races
on plain members are modelled where they matter as separate steps; torn reads are not.
The codecs and graphics APIs (VideoToolbox, Metal, Vulkan, MediaCodec) are external: the modules take any answer of theirs.
The Swift clients repeat the Android client's role on other queues and are not part of the runtime.

## 6. Plan

What remains, in the order of what it would find:

1. `TrackingHistory`: the ring of poses, written by the receive thread and read by queries on any thread; what a
   new client inherits of it.
2. `StreamingServer` with `AndroidClient`: the two state machines over a network that loses announcements and connects.
3. The Swift `VideoReceiver`, as a second receiver for `VideoTransport`.

Abstract specifications worth stating: the connection as idle or connected, which `StreamingServer` implements with one
transport; the transport as a channel that drops whole NAL units. `ConnectionAgrees` and `DeliveredIntact`, which are
theorems, already say most of what they would.

Theorems to add: the refinements of these abstract specifications.
