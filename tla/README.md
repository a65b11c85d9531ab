# Formal model of the Raspberry Pi 5 camera streaming server

This directory holds TLA+ modules that model the concurrent core of
`rpi5_camera_streaming_server`, TLC configurations that model-check them, and
theorems about them that TLAPS checks. Paths below are relative to `src/` of
the program (`http/http_tcp_server.cpp` and so on).

## 1. The system

The program reads one or two cameras, processes their frames with OpenCV and
serves the result as a motion JPEG stream over HTTP, together with a small REST
interface that changes the processing while it runs. Its threads:

| thread | code | what it does |
|---|---|---|
| main | `main.cpp`, `TcpServer::startListen` | accepts connections, starts a detached handler thread for each, and at the end joins the workers and waits for the handler count to be 0 |
| handler (one per connection) | `ClientHandler` | registers, reads one request, answers it; a stream request stays and sends frames |
| producer | `FrameProducer` | opens the camera streams, grabs frames, appends them to the raw input queue |
| consumer | `FrameConsumer`, `FrameProcessor` | takes entries from the raw queue, runs the frame filters, encodes a JPEG and broadcasts it to the queues of the streaming clients |

### Components, their state and operations

**Raw input queue** (`frame/frame_queue_rawinput.cpp`). A ring buffer of
`IF_QUEUE_SIZE` entries with room for one left and one right frame each, one
count, a store and an output index, one mutex. *append* drops the oldest entry
of a full ring; *get* consumes the oldest entry and returns pointers into it
(no copy); *flush* forgets all entries. It is correct if indices and count
agree, the two sides of an entry belong together, frames come out in order, and
nothing that was never written is handed out.

**JPEG frame queue** (`frame/frame_queue_jpeg.cpp`). One ring buffer per
streaming client; entries grow on demand and the reader copies into a buffer of
its own that grows too. Correct if it is a FIFO queue that drops its oldest
element, loses no frame unaccounted, and never stores a frame in too few bytes.

**Client registry** (`http/http_tcp_server.cpp`). The number of running
handlers, the number of streams, and one slot with a JPEG queue per stream, all
under one mutex. Correct if the limits hold, the counts are what they claim,
each stream has a queue, and no slot outlives its stream.

**Handler threads** (`http/http_clienthandler.cpp`). Constructor: snapshot of
the options, registration, one read with a timeout of ten seconds, the request,
removal. A stream polls its queue every 5 ms, gives up after 2000 polls in
vain, and looks at the stop flag every 100 iterations.

**Producer and consumer loops** (`frame/frame_producer.cpp`,
`frame/frame_consumer.cpp`). Both copy all runtime options every few rounds and
look at the stop flag every so many rounds. The producer flushes the queue when
it sees other cameras selected, opens the streams again after an empty frame or
on request, and drains the queue at its end. The consumer waits for the streams
to be opened (30 s), processes frames, and adapts the frame rate. Correct if a
stop, or the end of either thread, ends both.

**Shared runtime options** (`shared.cpp`, `shared.hpp`). One record; one locked
setter per field and one locked copy of all fields. There is no transaction
over several fields: a handler's request, and a consumer's "apply and clear the
flag", take several steps.

**Camera selection** (`OUTPUT_CAMS_*` in `http/http_handleroute_post.cpp`, end
of `openStreams`). Correct if only cameras with a source are selected.

**Adaptive frame rate** (consumer, producer). The consumer lowers `cameraFps`
and raises a restart flag which the producer tests and clears. Correct if the
rate stays positive and no reduction is lost.

**Frame filters with state** (`frame/frame_processor.cpp`,
`frame/subprocessor/`): calibration, perspective, translation,
brightness/contrast/gamma, region of interest. Each is controlled by flags in
the shared options and keeps its data in a file that the next run loads.
Correct if requests take effect, clients are shown what is applied, and file
and memory agree.

**Query parsing** (`http/http_handleroute.cpp`). A loop over the characters of
the query cuts it into key/value pairs; the value of a parameter is converted
to an integer and compared with its range. Correct if the pairs are those of
the query and a number is accepted if it is in range.

**Others**: filters without state, routing, status JSON and web page, the
configuration file, the CPU temperature, vendored libraries.

### Interactions

Main, producer, consumer and handlers share: the stop flag (set by SIGINT, by
either worker; never cleared), the runtime options, the handler count (read by
both workers, which idle without clients), the raw queue (producer/consumer),
the JPEG queues (consumer/handlers), the flags `camStreamsOpened` and
`restartCamStreams`. The consumer reaches the registry by a callback
(`broadcastFrameToStreamingClients`).

### Hard behaviours

* decisions with option snapshots that are stale: taken when the client
  connected, before the devices were opened, or some rounds ago;
* flags cleared after work on an older copy;
* array slots indexed by counts; counts lowered by threads that did not raise
  them;
* two-sided entries with one index pair, sides switched in producer and
  consumer at different times, frames used in place after release;
* shutdown: bounded waits, threads that end for themselves, unregistered
  threads;
* flags raised before the value they announce is set;
* lists that requests append to in a snapshot and write back as a whole;
* files written in one run and read in the next, failing writes, two saves for
  one request;
* numeric edges: wrap of indices, thresholds of the rate, a loop that compares
  lists from their second element, numbers cut to 16 bits, the last character
  of a query.

`PROJECT.json` lists each with its line and the properties that cover it.

## 2. Modules

| module | models | uses |
|---|---|---|
| `BoundedQueue` | abstract: a bounded FIFO queue that drops its oldest element | – |
| `FrameQueueJpeg` | the JPEG ring buffer and its reader's buffer | implements `BoundedQueue` |
| `TcpServer` | main thread, handler threads, registry, stream slots, broadcast, shutdown | queue contents by `BoundedQueue!Enqueue` |
| `FrameQueueRawInput` | operations of the two-sided ring buffer | – |
| `FramePipeline` | producer and consumer around that queue, with an environment of handlers | EXTENDS `FrameQueueRawInput` |
| `FramerateControl` | drop test, reduction, restart handshake | – |
| `OutputCams` | enable/disable/swap requests and the producer's correction | – |
| `Translation` | deltas and flags of the translation filter, its file, restarts | – |
| `Calibration` | flags and life cycle of a calibration, its file, restarts | – |
| `OptionValues` | the values that clients send for the settings and corners | – |
| `ImageSettings` | brightness, contrast, gamma, size of the region of interest: requests, consumer, files, restarts | EXTENDS `OptionValues` |
| `Perspective` | the corner list, the transformation it gives, its file, the calibration that replaces it, resets, restarts | EXTENDS `OptionValues` |
| `HttpQuery` | the loop over a query, conversion and range test of integers | – |
| `RuntimeOptions` | the options that handlers change, group by group | EXTENDS `OutputCams`; instances of `ImageSettings`, `Perspective`, `HttpQuery` |
| `RuntimeOptionsProofs` | theorems about `RuntimeOptions` and, in it, `OutputCams`, `ImageSettings`, `HttpQuery` | EXTENDS `RuntimeOptions` |
| `PerspectiveProofs` | theorems about `Perspective` in `RuntimeOptions` | EXTENDS `RuntimeOptionsProofs` |
| other `*Proofs` | theorems about the module of that name | EXTENDS it and `TLAPS` |

State and actions carry the names of the code where TLA+ allows it. The
program counters (`handler`, `mainPc`, `prodPc`, `consPc`, `handlerPc`) name
the places between two accesses to something shared; code between two such
places that touches only the thread's own data is one step together with the
access before it. A callback or setter that runs under one mutex is one step.
`PROJECT.json` "map" names the lines behind every definition.

*TcpServer.* `Register` is the constructor's call of `addRunningHandler`; a
rejected thread goes to `remove` at once, as in the code. `StreamRequest` takes
slot number `runningStreamsCount`, whatever it holds; sending the header, which
touches nothing that is shared, is part of it. `PollFrame`, `PollNothing` and
`FrameLost` are the iterations of the streaming loop with its two counters; in
the last one the buffer of the stream cannot grow, so that the frame is gone and
the iteration counts as one without a frame. Main's look at
the stop flag is the end of the step in which `accept` returns.
The consumer is two steps (encode, broadcast) because it looks at the handler
count before it takes the registry's lock. The queue of a slot is its contents:
that the ring buffer behaves so is what `FrameQueueJpeg` shows.

*FramePipeline.* A frame is the number of the grab that it came from, so that
"same grab", "older" and "never written" (0) can be told apart. In the code,
the options, the stop flag and the client count are read every n-th iteration,
n depending on frame rates; here any iteration may do so, which allows every
relative speed. `UpdateOptions` is the full option check (pointers set again,
queue flushed); `RestartCamStreams` is the second place that reads the options
and does neither. `view` and `got` are the entry that the consumer works in
and what it found there. The correction of the selection in `openStreams` is one
step here; module `OutputCams` has it with its window.

*FramerateControl.* The drop counter takes values from `DropCounts`; the three
reads of the test are separate steps. `cameraFps` of the first rate is a
constant. `CheckClients` is the look at the count of running handlers; as long
as it finds none, the producer does nothing but sleep (`Working`), so a request
to open the streams again waits. Opening the streams may fail, which leaves them
closed; the code ignores the result, finds empty frames (`GrabFails`), tries
again, and gives up after `MaxEmptyFrames` of them in a row. `ProducerEnds` is
the stop flag or an exception.

*OutputCams.* `Connect` takes the snapshot, `Enable`/`Disable`/`Swap` decide
with it and write the shared value.

*Translation, Calibration.* One camera each (the code of the two sides is the
same). Handlers and consumer interleave at every setter. `Restart` ends the
process at any point and starts the next with what is in the file. In
`Calibration` whether a pattern is found and whether the computation succeeds
are free choices. History variables (`raced`, `touched`, `wanted`, `wasReset`,
`overtaken`, `flushed`) are read by properties only.

*ImageSettings.* Brightness/contrast/gamma and the region of interest use one
handshake (raise the flag, set the value; copy, apply, clear the flag), so one
module has both, and `group` says which. `ApplySetting` is one setter of the
filter with its save: two of them make up one change of brightness and
contrast, and `Restart` may come between them. Gamma is a setting that clients
set and that no filter applies (`subproc_bnc.cpp:91`, with the algorithm that is
compiled in).

*Perspective.* One camera. `PostCorner` appends to the list of the snapshot and
raises the flag, `SetRectCorners` writes the whole list. `setManualRectCorners`
is the code's comparison and its three outcomes; because the comparison skips
the first corner and reads one behind the last (which may be anything),
`MayEqual` and `MayDiffer` overlap. A list that was loaded or comes from the
calibration consists of placeholders, as in the code, and clients are shown
them. The source corners stand for the transformation. The reset of the
calibration, which asks for a reset of the perspective, and its success, which
supplies corners, are actions here (`CalibrationReset`, `CalibrationCompletes`);
their own state is in `Calibration`. The perspective's reset of the translation
is `EarlierStageReset` of `Translation`.

*HttpQuery.* One step per character of the loop. A number is one symbol with a
value, and `Huge` one that `stoi` refuses. `Stored` is the assignment of an
`int` to an `int16_t`.

*RuntimeOptions.* A handler changes the options of one group per request, and no
group reads an option of another, so a behaviour is about one group (`topic`):
that all clients use the same one loses no interleaving.

## 3. What is checked

Values that the program takes from its configuration file, and properties of
the file system, are variables chosen in `Init` that never change (`available`,
`adaptFps`, `canWrite`): one run covers every configuration.

Runs that pass:

| run | instance | shows |
|---|---|---|
| `FrameQueueJpeg` | ring of 3, sizes 1..3, 7 appends, allocations that may fail | newest frames in order; every frame delivered, discarded, dropped or queued; entries big enough; loss only after failed growth; in-order delivery; refinement of `BoundedQueue` |
| `TcpServerRegistry` | 3 connections, 3 handlers, 2 streams, 2 frames | exact stream count; slots owned by live streamers; no client sees a frame twice or out of order, even one whose slot was taken over |
| `TcpServerLiveness` | 3 connections, 2 handlers, 2 streams | handlers never overcounted although a client may be rejected; a stop ends the process; a stream without a slot ends |
| `FramePipeline` | left, right or both cameras, with and without rate adaption; ring of 2, 4 grabs, 2 switches | queue consistent; pairs and order survive switches (without rate adaption); in-place frames overwritten only by a whole lap; only written frames of available sides; no side goes back |
| `FramePipelineLiveness` | the same, 2 grabs, 1 switch | a stop ends both threads; the end of the producer stops all |
| `FramerateControl` | 30 fps, drops on both sides of every threshold | rate never 0; no reduction forgotten; while clients are found, reductions reach the cameras or the producer ends |
| `RuntimeOptions` | 2 handlers, any number of restarts; any cameras; 2 values; lists of 2 corners, 3 corners posted per run of the program; queries of up to 6 symbols | only an unsound snapshot makes the selection of cameras unsound, a left camera excludes that; files hold what is applied, also between two saves; settings and corners shown are the ones applied, unless raced; a flagged change is served; a reset of the perspective lasts; queries are cut into their pairs and numbers accepted or refused rightly |
| `Translation` | 2 deltas, 2 handlers, 1 restart | file equals applied delta; shown equals applied unless raced; the dynamic delta stays reset; flags are served |
| `Calibration` | 2 handlers, 3 requests, 1 restart | a calibration that counts is saved; a last reset wins; a start takes effect unless overtaken; a loaded calibration that was reset stays gone; the done flag converges |

Runs that find the program in disagreement with a document or comment of its
repository (each is a finding in `PROJECT.json`, with the quoted line):

| run | shows |
|---|---|
| `TcpServerClientsBounded` | a rejected client lowers the handler count, so more than `TCP_MAX_CLIENTS` are served |
| `TcpServerSlotTheft` | a new stream takes the slot of a running one, which ends for lack of frames |
| `FramePipelineStalePair` | after a switch seen in the restart check an entry pairs frames of different grabs |

Other places where the program does less than one might expect are conditions
in the properties; each condition is there because TLC finds a counterexample
without it:

* `HandlersNeverOvercounted` is an inequality, because a rejected client makes
  the count too low; `StopEndsServer` therefore speaks of main's end and not of
  the handlers': main may return while one is still serving its client.
* `QueuedEntriesPaired` and `OverwrittenOnlyByLap` hold `~adaptFps`, and the
  pipeline's `FramesInOrder` allows a frame to come again with `adaptFps`: the restart check (`frame_producer.cpp:422`) reads
  the options without setting the frame pointers or flushing the queue.
* `SoundSnapshotsStaySound` allows a handler with an unsound snapshot to
  select a camera that does not exist: one that connected before the streams
  were opened (`http_handleroute_post.cpp:49`).
* `ShownIsApplied` holds `~raced`: a delta set between the consumer's copy of
  the options and its clearing of the flag (`frame_processor.cpp:271`) is shown
  to clients and never applied.
* `DynDeltaStaysReset` holds `~touched`: a reset does not clear the shared
  dynamic delta (`frame_processor.cpp:396`), so any later change brings it back.
* `StartTakesEffect` holds `~overtaken`: the end of a calibration clears a start
  that was requested meanwhile (`frame_processor.cpp:320`).
* `ResetLasts` speaks of calibrations loaded from the file: one that was made in
  this run and reset is found again by the next, because its file stays
  (`subproc_calibrate.cpp:118`).
* `ResetWins` needs the flags to be copied more often than patterns are
  complete (see the bounds).
* `SettingsShownAreApplied` and `CornersShownAreUsed` hold `~raced`: a value set
  after the consumer's copy, or a flag cleared before its value was set
  (`http_handleroute_post.cpp:143`), leaves clients with a value that is never
  applied. The first also leaves out gamma.
* `CornersShownAreUsed` leaves out the first corner: a list of the same length
  that differs in it alone may be taken for the old one (`subproc_pt.cpp:22`).
  Nor does it say what the corners are: once a transformation was loaded, clients
  are shown placeholders (`subproc_pt.cpp:428`), and a corner that is appended to
  them sends the placeholders back. That no corner of two simultaneous requests is
  lost is not stated, because it is false.
* `ResetLasts` of the perspective holds `~touched`: a camera that is still
  calibrated has its transformation again with the next frame
  (`frame_processor.cpp:348`), and a request that was connected before the reset
  brings the old list back. And it speaks of resets: an incomplete list that
  takes a transformation away deletes its file only if it was loaded
  (`subproc_pt.cpp:71`), so that one made in this run is back in the next.
* `AcceptedInRange` allows a setting that does not fit into 16 bits to be
  accepted as another number (`http_handleroute.cpp:207`): 65543 is taken as 7.
  The API document gives ranges without such an exception
  (`docs/api-camera_server.yaml:562-566`, -100 to 100, and 584-591, 10 to 100).
* `QueryParamsFound` counts a separator at the end of a query to the last value
  (`http_handleroute.cpp:92`), so that `v=7&` is refused.

### Bounds, and why they suffice

* Server: three connections are the fewest with which a new stream can take the
  slot of a running one (two stream, the older ends, a third starts) and with
  which one of them is rejected when two are allowed. The registry run allows
  three handlers and two streams, so that a stream is refused; the liveness run
  allows two handlers, so that a client is rejected. A queue of one frame with
  two frames broadcast overflows. `StopPoll` is 2 (1 in the runs that
  show a violation), `NoFrameLimit` 0 and 1: the smallest with which a stream
  sees the flag later than it is set, and gives up at once or after a retry. No frames are broadcast in the liveness run: a
  frame only resets a stream's count of misses. The theorems hold for every value.
* `FrameQueueJpeg` appends 7 frames to a ring of 3: both indices wrap twice and
  every size relation of entry, frame and buffer occurs. The theorems hold for
  every size and any number of appends.
* `FramePipeline` grabs twice as many frames as the ring holds, so the producer
  can lap the consumer, with two switches (there and back, or to both). Two empty
  grabs in a row are one more than `MaxEmptyFrames`, and the wait for an empty
  queue runs out after `MaxWaits` = 2. For liveness, two grabs fill the ring.
* `FramerateControl`: each threshold of the code with the value on both sides;
  `MaxEmptyFrames` is 3 as in the code.
* `Translation` needs two deltas (none, some). `Calibration` shrinks the 10 and
  30 patterns to 3 and 4 and the copy interval to 2 frames; what matters is their
  order. `ResetWins` needs the copy interval to be shorter than the number of
  patterns. The code copies the flags every `cameraFps / 5` frames and needs 10
  patterns, so the property holds below 50 frames per second; the default is
  15, and a configuration with a higher rate may break it.
* `RuntimeOptions`: two handlers are a request and one that overtakes it (the
  theorems of `RuntimeOptionsProofs` and `PerspectiveProofs` are for any number). `MAX` = 2 instead of 4 corners has an empty, an incomplete and a
  complete list and one corner that is not compared; `MaxPosts` = 3 fills a list and
  appends to a full one. A restart returns to a state of `Init` with the file that
  is left, so that it needs no bound. Six symbols are two pairs and an ampersand
  too many; `Numbers` has values below, in and above the ranges and such as
  become each of these when they are cut to 16 bits.
* `MaxRestarts`, `MaxRequests`, `MaxSwitches`: one restart separates "this run"
  from "the next"; three requests are a start, a reset and a start.

Deadlock checking is off where the system really stops: the server's process
exits, the workers end, and the queue runs out of frames to append. It is on in
the other runs.

### Fairness

* Server: weak fairness of main, consumer, producer and each handler. No lock
  is held across a wait, all waits are sleeps or socket operations with a
  timeout of ten seconds. Connections and the stop need not come.
* Pipeline: weak fairness of both threads; strong fairness of the two steps that
  look at the stop flag, because each loop counts down to that look and other
  iterations come between. Grabs, exceptions, switches are not fair.
* Frame rate: weak fairness of a test that was begun and of a call of
  `openStreams` that was begun. Strong fairness of the restart check and of a
  grab from closed streams: both lie behind the check for clients, and the
  restart check also behind a successful grab, and the loop counts its grabs down
  to it. `StreamsCatchUp` states its condition: the producer finds a client
  again and again (`[]<>haveClients`). Without it the property is false, and
  so it is under weak fairness. Clients need not come and grabs need not fail.
* Image settings (`ChangeServed`): weak fairness of the consumer, which applies
  what it has copied and copies again. Clients and restarts are not fair.
* Translation and calibration: weak fairness of the consumer and of a handler in
  the middle of a request; strong fairness of copying the options and of
  processing a frame, both of which the loop comes to again and again while
  a client is connected and the camera is shown.

## 4. What is proved

TLAPS checks these for every value of the constants that satisfies the named
assumptions (`QueueAssumption`, `ServerAssumption`, `FramerateAssumption`,
`OptionValuesAssumption`, `OptionsAssumption`, `TranslationAssumption`,
`CalibrationAssumption`, `QueueSizeAssumption`, `PipelineAssumption`, all of them
about ranges only; `OutputCams` needs none). Every invariant that a run checks, and
every action property, is stated by a theorem:

* `FrameQueueJpegProofs`: `TypeCorrect`, `NewestInOrder`, `DeliveryOrder`,
  `StorageCorrect` (with `StoredFramesFit`, `DiscardsExplained`) and `Refinement`. `HoldsNewestInOrder` is not inductive by
  itself: that the entry behind the last one is free follows only from
  `IndicesAgree`, so the invariant is both together with the type invariant.
  Order of delivery needs in addition that `output` is older than everything in
  the ring (`OutputBehindRing`), and the storage properties that the size
  recorded for the reader's buffer never falls below its initial one. For the refinement, an append maps to `Put` and a read to `Take` or
  `Discard` by lemmas about how `Contents` changes.
* `TcpServerProofs`: `TypeCorrect`, `StreamsCorrect` (with `SlotsCorrect`), `HandlersCorrect`. None
  of the counts is inductive alone: the array accesses stay in range because
  the stream count equals the number of streaming threads, and the
  registry never names a thread that has left. `RegistryInv` joins the type
  invariant, the exact stream count, the ownership of slots, the handler count
  and the fact that threads that were not yet started have done nothing
  (`FreshThreads`). `StreamOrderCorrect` is the action property `FramesInOrder`:
  `DeliveryInv` adds that the frames in an active slot's queue increase, are newer
  than what its stream sent last, and that none is newer than the frame encoded
  last. It is kept through the taking over of a slot, because a stream polls one
  slot only, its own (`SlotsOwnedByStreamers`), and a new stream has sent nothing.
* `FramePipelineProofs`: `InvCorrect`, and from it `TypeCorrect`, `QueueCorrect`,
  `PairsCorrect`, `WrittenCorrect`, `LapCorrect`, `OrderCorrect`. None of these is
  inductive alone. `Inv` adds to the types and to `QueueConsistent`: `PhasesInv`
  (while the streams are being opened the queue is empty and nothing is
  processed, so that a correction of the selection disturbs no entry);
  `FramesInv` (a frame comes from a camera that exists, and no entry and no frame
  found is newer than the frame its side retrieved last); `FoundInv` (the consumer
  processes only what it found); `OrderInv` (on the sides that are stored, entries
  are in order and not older than the frame found last); `SteadyInv` (without
  rate adaption the sides that are grabbed are those that are stored, so that
  order is strict and the sides of an entry agree); `LapInv` (the next
  frame is newer than the one processed by as many grabs as its entry is ahead,
  so that the entry is written again only one whole ring later).
  `QueueKeepsPromise` says that the raw queue keeps, side by side, the promise of
  `BoundedQueue`: each step of the two threads leaves a stored side's contents
  alone, puts a frame (`Enqueue`), hands out the oldest, or is a switch of
  the cameras that empties it. It holds with rate adaption too. It is
  a statement about steps and not an instance of `BoundedQueue!Spec`, because
  that module has no switch.
* `FramerateControlProofs`: `TypeCorrect`, `ReductionsKept`. The inductive
  invariant adds that a reduction is about to happen only at a rate above 1
  (`ReducesAboveOne`), and that a producer that has not ended has seen no more
  empty frames in a row than it tolerates (`EndsAfterEmptyFrames`).
* `RuntimeOptionsProofs` is about the composition, `OptionsSpec`. The topic never
  changes; a behaviour with the topic of a component satisfies the component's
  own specification (`CamsImplemented`, `ImageImplemented`, `QueryImplemented`,
  and `PtImplemented` of `PerspectiveProofs`), and in any other the component stays
  as `Init` left it (`CamsIdle` and the like). So each property is proved of the
  component and then carried to the composition.
  - Cameras: `CamsTypeCorrect`, `SnapshotsSound`, `LeftCameraSound`. The second is
    an action property; the third needs that all snapshots are sound, not only
    the shared option (`AllSound`).
  - Image: `ImageTypeCorrect`, `FilesCorrect`, `ShownCorrect`. That the file holds
    what is applied needs that a failed save stays recorded and that nothing is
    applied before the file was loaded (`FilesInv`). What clients see is compared
    with the consumer's copy while the copy is applied, setting by setting
    (`AppliedInv`).
  - Queries: `ParamsCorrect`, `AcceptedCorrect`. The invariant of the loop
    (`QueryInv`) says where its three positions may stand (`PlacesInv`), that the
    pairs read so far are exactly those that begin before the current one
    (`ParamsInv`), and that a number is accepted if and only if it is allowed in
    the form in which it is stored (`ValueInv`); so it holds for queries of any length. What a cut to
    16 bits does to a number follows from `RemainderBelow`.
* `PerspectiveProofs`: `PtTypeCorrect`, `FileCorrect`, `ResetCorrect`,
  `CornersCorrect`. `CornersInv` follows the list from the shared options to the
  copy and from there to the filter, with a clause for a transformation that the
  clients have not been told of yet.
* `TranslationProofs`: `TypeCorrect`, `FileCorrect`, `ShownCorrect`,
  `DynDeltaCorrect`. `FileInv` adds that the delta saved last is the one applied,
  so that the file may be read again at any frame (`LoadChangesNothing`).
  `ShownInv` says that a delta that differs from the one applied is on its way
  (`Pending`), also through the two steps of a reset.
* `CalibrationProofs`: `TypeCorrect`, `SavedCorrect`, `ResetWinsCorrect`,
  `StartCorrect`, `ResetLastsCorrect`. `ResetWinsCorrect` assumes
  `CopyEvery < MinPatterns`, which is the condition on the frame rate above. After
  the last reset either the reset is still to be carried out (`ResetPending`) or
  the camera is not calibrated and a start left in the consumer's copy has
  collected no more patterns than frames passed since that copy (`ResetDone`), so
  that it ends before it has enough.

Only model-checked: the liveness properties `StopEndsServer`, `LostStreamEnds`,
`StopEndsWorkers`, `ProducerEndStopsAll`, `StreamsCatchUp`, `ChangeServed`,
`FlagsServed` and `DoneConverges`, because TLAPS 1.4.5 does not reason about
`ENABLED` and fairness. The three runs that expect a violation show what does not
hold. No module uses `RECURSIVE` operators.

## 5. Not modelled

* The grid and the option to show the chessboard points of a calibration: flags
  that change what is drawn and nothing else. (The grid's changed flag is never
  cleared.)
* The frame rate that a stream reports for the status page with its client id
  (`setFramerateInfo`, `getFramerateInfo`).
* Filters without state, the pixels of frames, OpenCV and the camera drivers:
  their outcomes are nondeterministic choices.
* Routing and the API key, the parameters that are compared with constant
  strings (camera, boolean, output cameras), JSON, the web page, the configuration
  file, CPU temperature, and binding the socket with its retries.
* Vendored code: `json/json.hpp`, `httpparser/` and `md5/` make up about three
  quarters of the lines under `src/src`, so that most of those lines stand outside
  of any model of this program.
* A crash in the middle of a file write; a signal handler that interrupts a
  thread inside a locked region; memory exhaustion other than the reader's
  buffer.

## 6. Plan

The runs above are as many as a reader can take in; a module to come joins an
existing run, as the groups of options share `RuntimeOptions`, or replaces one
whose question it subsumes. Done: the queue of a client, the registry and
shutdown, the worker pipeline, frame rate and camera selection, translation and
calibration, the image settings and the perspective, query parsing, and the proofs
of all their safety properties. Still to do:

1. One module that composes the resets of calibration, perspective and
   translation in one frame (`frame_processor.cpp` 276-405); now each has the
   requests of the stage before it as actions of its own.
2. An abstract specification of the option handshake ("the last value set is
   eventually the one applied, unless it raced"), which the image settings, the
   perspective and the translation implement.
3. The retries of `bind` (`http_tcp_server.cpp` 266-290), the rates of streams
   (`setFramerateInfo`), the grid and chessboard flags.
