# TLA+ models of the MoQ live streaming system

A live video is produced by ffmpeg, cut into frames, published by an origin
server over Media over QUIC (MoQ), and played in the browser with WebCodecs.
The interesting question of the repository is how frames are *mapped to QUIC
streams* (one per GoP, one per B-frame, one per frame type), because the
mapping decides what the network may reorder and the client has to repair.
This directory models the paths on which that happens, checks them with TLC and
proves the most important results with TLAPS.

All paths below are relative to `src/`.

## 1. The system

| Part | State | Operations | Interacts with |
|---|---|---|---|
| fMP4 splitter (`server/mp4-parser`) | box reader | parse boxes, write framed items to stdout | ffmpeg (pipe), server (pipe) |
| Framing (`server/src/video.rs`, `main.rs`) | byte buffer | `next_item`, `parse_item`, `read_video` | splitter; calls the mapping |
| Mappings (`server/src/mappings/*.rs`) | group and object counters, current group | `new`, `stream` | writes tracks `init`, `video` (and `b-frames`, ...) of moq-transport |
| Sessions (`server/src/server.rs`, `local.rs`) | the one registered namespace, a task per subscription | accept, serve, route | moq-transport |
| `Player` (`client/src/lib/Player.ts`) | `playerState`, `buffer`, `processing`, subscription ids, init segment, latency anchors | `setup`, `pause`, `onPlay`, `parseRawFrames`, `decodeFrames` | MoQ session, `Mp4Parser`, `Logger`, VideoDecoder |
| `StreamPerGop` (`client/src/lib/StreamPerGop`) | `SkipOldGops.lastEnqueued`, sleeping timers | `play`, write sink, `queueNextFrame` | extends `Player` |
| `StreamPerBFrame` (`client/src/lib/StreamPerBFrame`) | reorder buffer, `lastEnqueued` | `play`, `videoStream`, `ReorderBufferBFrames.transform` | extends `Player` |
| `Mp4Parser` | mp4box file, queue of frames | `configure`, `start`, `transform` | pairs frames with samples |
| `Logger`, `Metrics` | session logs | start, end, events; fold of the logs | `App`, `Test`, `Player` |
| App (`App.tsx`) | React state | start and stop watching | `Player` |
| Testbed (`testbed/`, `Test.tsx`) | exposed functions, 3 s timer, packet filter | run a measurement, shape the network, restore it | `Player` in a browser driven by puppeteer |
| Go server (`server-go/`) | init segment, video track | ingest, subscriptions | moqtransport (vendored); an earlier version, `main` only serves the certificate hash |

What is hard here:

* **Reordering.** Streams overtake one another. `SkipOldGops` and the reorder
  buffer decide by decode time alone; the decoder accepts only frames whose
  references it has seen.
* **Callbacks that outlive their call.** A `setTimeout` of `queueNextFrame`, the
  awaits of `play()`, and whole pipelines survive `pause()` and meet the next
  `play()`.
* **State shared between pipeline stages**: the `processing` map, the latency
  anchors, the array of the reorder buffer, the parser's queue.
* **Framing.** Three places spell out an item's length, and a pipe is read in
  pieces of any size.
* **Time.** Timers fire late and drop fractions, and gaps in the stream move the
  time line.
* **A protocol over two processes**: page and `run.ts` call each other, once,
  and nothing repeats a call that failed.
* **Limits**: packed priorities, counters, a fixed frame duration of 512.

What makes each part correct: the server numbers groups consistently and orders
priorities as documented; the client feeds its decoder only decodable
sequences, drops no more than it must, renders in order and on time, keeps one
render loop per play, leaves no subscription behind, goes silent after
`pause()`, and its logs describe sessions that can be paired up; successive
plays do not mix up one another's frames; the pipe hands over exactly the items
written; every subscription is answered; and a simulation is measured, in a log
session that is open, and takes its packet filter rules away. `PROJECT.json` lists
the hazards line by line with the properties that cover them, or the reason why none
does.

## 2. Modules

```
ItemStream               items in, items out (abstract)
  ^ implemented by
Framing                  mp4-parser's serialisers + pipe + read_video + video.rs

Origin                   main.rs, local.rs, server.rs with track.rs and its subscribers
DecodeOrder              what a decoder may be fed (abstract)
  ^ implemented by
GopPipeline              gop.rs + network + parse/skip/decode of StreamPerGop
BFrameMapper             bframe.rs
  ^ extended by
BFramePipeline           ... + network + videoStream + ReorderBuffer.ts
Timestamps               keys of the processing map through the decoder
  ^ extended by
Restarts                 several plays: Mp4Parser, processing map, subscriptions
Player                   Player.ts + render loop + App buttons + Logger + Metrics
RenderClock              when the render loop shows a frame
Testbed                  Test.tsx + run.ts + simulateMacos.ts
*Proofs                  the theorems about each
```

The path of a frame is cut where one part does not depend on how the next
works, which keeps each state space small. `Framing` hands items to a mapping
(`Origin`, `GopPipeline` or `BFrameMapper` start with an item). `GopPipeline`
stops at the decoder's output callback and `Player` and `RenderClock` start
there; what goes over is a stream of frames in presentation order
(`Player.Emit`, `RenderClock.Write`). `GopPipeline` has one play and every
order of arrival, `Restarts` has several plays and frames of each play in order.
`Player` has every interleaving of render loops and no clock, `RenderClock` one
loop and time.

### DecodeOrder

State `fed`. `Feed(f)` accepts the keyframe of a later GoP or the direct
successor of the last frame in its GoP. It is the specification of what
`SkipOldGops` promises to the decoder; `NoHole` and `Forward` say what that is worth.

### ItemStream and Framing

`ItemStream` is a queue: `Put`, `Take`, and `Refuse`, which ends it. `Framing`
implements it over a byte stream.

| Code | Model |
|---|---|
| `mp4-parser/main.go`, `serializeInit`, `serializeEncodedFrame` | `WireLength`, `WriteInit`, `WriteFrame` |
| the splitter ends, its writer flushed or not | `Exit(n)`: the stream may be cut anywhere |
| `read_buf`, end of input | `Read(n)` (any number of bytes), `ReadEof` |
| `next_item` | `Complete`, with `HeaderOnly` |
| `parse_item`, `parse_frame` | `ParsedLength`; `StreamItem`, `StreamInvalid` |
| the end of `while next_item(buf)?` | `NeedMore` |

Bytes are counted, not spelled out. `WireLength`, `Complete` and `ParsedLength`
are translated separately, field by field: that they agree is what is checked.
In this commit the splitter's `main()` is commented out and nothing calls the two
serialisers; they are the only description of the format next to `video.rs`, and
`Framing` models the pipe as they would write it.

### Origin

The server as `main.rs` builds it, with `StreamPerTrack`, the mapping that it
selects, and its one namespace, which is registered when the server is made and stays
so (the `Drop` of `Registration` is commented out). `groups` and `open` are moq-rs's tracks: `append()` opens a group, and
dropping its writer (by assigning `current_group`) closes it. `task[s][r]` is the
future that `Producer::run` pushes for each SUBSCRIBE: `Subscribe`, `Serve`
(route and subscribe), `NextGroup` and `SendObject` (moq-rs serving a track),
and `EndSession`, which drops all of a session's tasks. External and assumed:
a subscription starts with the latest group and, at the end of a closed group,
goes on with the then latest. Every client sets up its session as a subscriber.

### GopPipeline

| Code | Model |
|---|---|
| `gop.rs:32-64`, one iteration | `StreamKeyframe`, `StreamDelta`, `StreamNoGroup` (the error, which ends the server) |
| moq-transport, QUIC | `written`, `delivered[g]`: a group is a FIFO, groups are independent |
| `StreamPerGop.play`, subscription | `Subscribe(g)` |
| `Player.parseRawFrames` | `ParseRawFrame(g)`: anchor, processing map |
| `SkipOldGops.transform` | `SkipLate`, `EnqueueFrame` |
| decoder and its output callback | `decoding`, `DecoderOutput(f)`, any order |

`Late` is the code's test. Timestamps are counted in frame durations; a frame's
presentation time identifies it as its decode time does, so the processing map
is a set of frames. `ensureInOrder` (called after the late test, on the same
comparison) cannot throw there and has no action.

### Player

The actions are what runs between two waits in JavaScript. `held` is the list
of sleeping `queueNextFrame` calls with the frame each has taken; `step[p]` is
where the p-th call of `play()` stands; `subs` is what the server is serving;
`NoId = 0` because the code tests ids with `if (id)`. `StartWatching` is
`play()` up to its first await followed by `startLoggerSession()`, in that
order, as `App.tsx:59-60` has it. A set-up may fail at any of its awaits
(`SetupFailed`), after `read()` with or without the init segment. `Timer(i)` lets any sleeping call wake at any
time. `Metrics` is what `calculateMetrics` makes of the buffering events; the
other variables of the logs are left out. `interrupted` is a history variable.

### RenderClock

`Write` is the write sink, `QueueNext` is `queueNextFrame` up to its
`setTimeout`, `RenderQueuesNext` and `RenderUnderruns` what follows when the
timer fires. `Wait` and `NewAnchor` are `calculateTimeUntilFrame`. The two players
have this loop in common but for the jump to a new GoP; `jumpsToNewGop`, chosen in the
initial state and constant, tells `StreamPerGop` (TRUE, with its constant 512,
`JumpLimit`) from `StreamPerBFrame`. Time and timestamps are in one unit. A timer may
fire up to `Early` before it is due (fractions of a millisecond are dropped) and up to
`Late` after. A gap of up to `MaxSkip` frames between two frames stands for frames
dropped on the way. `Latency` is `calculateFrameLatency` with the time at which the
server got the first frame, `FirstAvailable`, as an arbitrary number: what the
availability of later frames is, and so whether a logged latency is that of its frame,
depends on the encoder (with B-frames the server gets frames in decode order, the
player shows them in presentation order), and nothing is said of it here.

### Timestamps and Restarts

`Truncations` are the microsecond timestamps that a chunk may have (a floating
point product, cut to an integer, may be one short), `Key` is the rounding in the
output callback. `Restarts` extends it with several calls of `play()`:

| Code | Model |
|---|---|
| `play()` up to the SUBSCRIBE, with `Mp4Parser.configure` | `Configure`: new file, old queue |
| the answer; building the pipeline, `Mp4Parser.start` | `Start(p, k)`: the file's samples go to this play's decoder; `StartThrows(p, k)`: there are not RawFrames enough for them |
| no subscription | `SubscribeFails` |
| `pause()`, also while `play()` is subscribing | `Pause` |
| `parseRawFrames`, `Mp4Parser.transform`, `onSamples` | `TransformWaits`, `TransformExtracts`, `TransformThrows`, `TransformUnread` |
| output callback | `Output(p, c, t)` |

Set-ups may overlap: `pause()` does not stop a `play()` that waits for its
SUBSCRIBE, the next `play()` replaces the file, and when the interrupted one is answered
it calls `start()` on the file of the later one and takes its samples over. An
UNSUBSCRIBE has no action: all it does is to keep frames from a pipeline, and a pipeline
may stop getting frames at any point here. Assumed of the libraries: mp4box keeps the
samples of a file that has not been started and gives them out in order at `start()`,
from the first one again each time that a file is started; a decoder that starts with a
delta frame throws. `lost`, `fed`, `answered` and `missed` are history variables. The
init segment is there (`Player` has the play that fetches it and fails).

### Testbed

`step` is where the chain of calls between page and `run.ts` stands,
`exposed` how many of the four functions `run.ts` has exposed, `shaping` what the
packet filter does. Every step that throws is an action of its own (`setup()` and
`clean()` run three commands each, and no one catches them), as is a `play()` that
rejects; a call of a function that is not exposed breaks the chain off (`"uncalled"`).
`Sigint` may come at any time. puppeteer is not in the repository; `run.ts:19`
launches it without options, and then it installs a SIGINT listener that exits the
process. That listener is older than those of `run.ts:40` and
`simulateMacos.ts:46`, which would have cleaned up, and in a measurement these are never
reached: Ctrl-C while the profile is applied leaves the rules where they are. (Under
`scripts/simulate.ts`, which is not modelled, there is no puppeteer.)

### BFrameMapper

`current` is the number that moq-transport gives to a group (0 for the group
appended by `new()`), `group_id` the mapping's own count. `Priority` is
`(b_group << 6) | (63 - b_frame_index)` with the limits as constants; the code's
values are `MaxBGroup = 0x1FFFFFF`, `MaxBIndex = 0x3F`, `MaxU32 = 2^32 - 1`, and
`VideoPriority` is then `i32::MAX`. Errors (`GroupCounterOverflows`,
`StreamBFails`) stop the server; a keyframe on which the counter overflows has
already opened its group.

### BFramePipeline

Extends `BFrameMapper` with the two subscriptions, the arrival of frames and
`transform()`. `Place` is the stable sort of `add()`, `Leaves` the loop's
condition for the k-th frame, `InOrder` is `ensureInOrder`, `Drain` the loop:
the longest prefix that may go goes. The pipeline stops when `transform()`
throws (`status`). The network does what it likes. Two history variables say what
it has done: `inOrder`, that I- and P-frames have arrived in order, as
`ReorderBuffer.ts:67` assumes; `startedBlind`, that B-frames filled the buffer before
any I- or P-frame had arrived, so that the rule `!this.lastEnqueued` (`:55`) let a
B-frame go first.

## 3. Runs

| Run | Question | Bounds |
|---|---|---|
| `gop_pipeline` | Is the decoder's input decodable whatever overtakes what? Does the output callback find its frame? Do both latency anchors name one frame? Does dropping ever starve the newest GoP? | 5 frames |
| `player` | How many loops and subscriptions, in what order do loops render, what do the metrics make of the events, does a paused player fall silent and a playing one show its buffer? | 2 plays, 4 frames, target 2 |
| `player_session` | Does a session's log begin with its `bufferingStart`? **No** | 1 play, 2 frames |
| `bframes` | Are priorities ordered and bounded and groups consistent, at the limits too? Is the reorder buffer's output sorted, are references held back, in any arrival order? With I- and P-frames in order and one of them before the first frame goes, does it never throw and feed references first? | limits 4, 2, 5; 6 frames, target 1 |
| `bframe_overtaken` | Are I- and P-frames transmitted in order, as a comment says? **No** | 5 frames, target 1 |
| `framing` | Do the items come out as they went in, however the stream is read and wherever it ends? | 3 items, one payload size, a valid and a refused slice type |
| `render_clock` | Does the time line of either player drift, stall at a gap or rush; do logged latencies change by what passed? | 14 ticks, frames of 2, jump limit 4, steps of up to 3 frames, timers up to 1 early or 3 late |
| `restarts` | What can successive and overlapping plays do to one another's frames? | 3 plays, 2 frames of one GoP |
| `restart_lookup` | Is every decoded frame in the processing map, as an exception's text says? **No** | 2 plays, 4 frames, 2 GoPs |
| `origin` | Does every subscription catch up, with frames that can be decoded? | 1 session with 3 concurrent subscriptions, 5 items |
| `testbed` | Is a simulation logged, measured, and measured once? What leaves the network shaped? | profile of 3 items |
| `testbed_uninterrupted` | Does the simulation follow three seconds without a wait, as comment and log say? **No** | profile of 3 items |

Why the bounds suffice. Overtaking needs two GoPs with two frames each; five
frames give three GoPs or one overtaken in the middle. A duplicated render loop
or a leaked subscription needs one restart. The limits of `BFrameMapper` are
small enough that the counters reach them, which no test of the real limits
would. A reorder buffer with target 1 waits, drops, drains one and drains
several frames within five frames. Items of 7 and 33 bytes are read in every
split, with the parser between items, inside a header and inside a payload. The
render clock runs through buffering, an underrun, a small gap (one frame missing, a
step of 4) and a jump (two missing, a step of 6) in one behaviour, and a timer that is
late by more than a frame. Three plays are the fewest with a failed or interrupted play
between two good ones; `restarts` scales the decoder's clock down to the smallest ratio that
`TimestampsAssumption` allows. Sessions of `Origin` share only the
tracks, which they read, so one session with its subscriptions
interleaved stands for several. Every invariant and every action property that a
run expects to hold is also proved, for all values of the constants (section 5).

The type and inductive invariants of the modules with proofs were checked with
TLC before they were proved and are not part of the runs any more; the
configurations list what the runs ask.

`CHECK_DEADLOCK FALSE` is set in every run: encoder and input stop at the bound,
a server may end, a paused player may stay paused, and a measurement is over.

### The disagreements found

* `player_session`: `Logger.ts:15` says "session begins on play() and ends on
  pause()". `App.startWatching` calls `play()`, whose synchronous part reports
  `bufferingStart`, and then starts the session: the event is lost and each
  session's log begins with a `bufferingEnd`, which `calculateMetrics` ignores.
  The first wait, the start-up delay, is missing from every metric.
* `bframe_overtaken`: `ReorderBuffer.ts:67` says "(I-, P-frames are transmitted
  in order)". `bframe.rs:67` appends a group, hence a stream, per keyframe, all
  at one priority. When a GoP overtakes the end of the last one by more than the
  buffer's target, `transform()` throws and playback ends. `NoFrameAhead` and
  `ReferencesFirst` show what the comment's conclusion needs: that its claim is true,
  and that no B-frame was let go before the first I- or P-frame (`startedBlind`), for
  then `transform()` throws on that frame although I- and P-frames are in order. There
  are no other cases.
* `restart_lookup`: `Player.ts:172` throws "frame not in processing map" where
  the code takes this to be impossible. A play after `pause()` is served the
  current GoP from its beginning while frames of the last play are still in its
  decoder; so is one that `pause()` interrupted while it was subscribing. Both copies of
  a frame share an entry of the map; the output of the first deletes it, that of the
  second throws. `MissedOnlyTwice` shows that there is no other cause.
* `testbed_uninterrupted`: `Test.tsx:32` and `run.ts:34` speak of 3 seconds of
  uninterrupted playback. The timer is set by the first `bufferingEnd` and nothing
  cancels it, so the simulation begins although the player has been waiting for frames
  in the meantime. (A wait after the three seconds does not count: `interrupted` is only
  set while the timer runs.)

What is true of the code and contradicts no document is no run of its own. Two
examples: Ctrl-C during a simulation leaves the packet filter's rules
(`NetworkRestored` names the case; the handlers that the code has for it are never
reached), and `scripts/simulate.ts:10` prints "completed successfully" also when
`simulateNetworkPattern` has caught an error of its loop.

## 4. Fairness

* `GopPipeline`: weak fairness of each group's delivery and of `SkipOldGops`:
  QUIC repairs losses and the browser runs its stream callbacks. The server is
  not fair: it may stop.
* `Player`: weak fairness of every sleeping timer, which is what `setTimeout`
  gives; nothing is assumed of the user, the network or the decoder.
  `PauseQuiesces` is about a user who stops pressing buttons, and says so in its
  antecedent.
* `Framing`: weak fairness of the server's steps together: `read_buf` completes
  when there is input, and nothing else in `read_video` waits. The splitter is
  not fair, and may exit.
* `Origin`: weak fairness of each step of each task, which is what tokio's
  executor and `FuturesUnordered` give a future that can go on. That one task does not
  keep another from running is thereby assumed, not shown. Clients and the input are
  not fair.
* `Testbed`: weak fairness of the simulation's steps together (`Simulate`), from the
  first item of the profile to the metrics: the profile's pauses end, and the event
  reaches the page. The player, the timer, `setup()`, the exposing of functions and
  Ctrl-C are not fair.

## 5. Proofs

Every theorem is about a module's specification with no bound on its constants
but these, which are stated in the modules: constants that count are natural
numbers; `MaxBGroup < MaxU32`; in `Timestamps`, `2 * Timescale < Second`, that
is a timescale below 500000.

**GopPipelineProofs.** `Refinement`: `Spec => DecodeOrder`. "The last frame fed
is followed by its successor" is not inductive by itself: one has to know that
what waits between `parseRawFrames` and `SkipOldGops` continues, for every GoP
not yet outdated, exactly where the decoder stopped (`QueueContiguous`,
`QueueSorted`), and that decode times order GoPs as their numbers do
(`WrittenInOrder`), since the code compares only the former. `NoHoleNoStepBack`
draws the conclusions that a decoder needs from the steps of `DecodeOrder`.
`DecoderNeverThrows` and `ProcessingCorrect` add that a frame is in one place at a
time (`OnePlace`); `AnchorCorrect` that the first frame parsed waits at the head
until it is fed (`AnchorWaits`).

**PlayerProofs.** `LoopsBounded`: a loop is started only in `BUFFERING`, and
while buffering there are fewer loops than calls of `play()`; with
`NotYetPlayed`, `LoopBound` is inductive. `InOrderRendering`: with one call of
`play()` there is one loop, and shown frame, held frame, buffer and last decoded
frame are in order (`FirstPlayInOrder`).

`LeaksBounded`: a call that `pause()` interrupted may still be answered and overwrite
the one subscription id that the player keeps; the next `pause()` then cancels that
call's subscription and leaves the playing call's behind. Nothing can be said of a
subscription by name, so the proof counts. `Counted` are the video subscriptions of calls that have
settled, less the one that the next `pause()` will cancel, and there are never
more of them than settled calls that were interrupted (`LeftBehind`); at most one
call that is setting up was not interrupted, and it is the newest
(`OnlyNewestUninterrupted`).
`WaitsMeasuredAlways`: the fold of `calculateMetrics` is shown to have a closed form
(`MetricsMeasure`: its waits are the neighbouring pairs of a start and an end): the
closed form satisfies the fold's equation, and a smallest set of events on which
another function that satisfies it differed would have a smaller one. The log alternates as
far as the property needs (`WaitsAlternate`): two `bufferingStart`s in a row need two
loops, hence a restart; two `bufferingEnd`s never come in a row.

**BFramePipelineProofs.** For the mapping: `PrioritiesCorrect`, `VideoFirst` and
`GroupsAgree` for all limits. Every priority is that of a B-group and an index
already used (`PrioritiesUsed`), and the packed number orders pairs
lexicographically (`PriorityFacts`); `MapperInPipeline` carries them over to the
pipeline. For the reorder buffer: `OutputSorted` and `ReferencesNotHeld` for any
network and any target, since what is in the buffer is sorted and newer than all
that left it. `NoFrameAheadInOrder` and `ReferencesComeFirst` for a network that keeps
I- and P-frames in order and a pipeline that did not start blindly (`Regular` in the
proofs): then some I- or P-frame had arrived when the first frame left
(`StartedWithReference`), all that arrived is buffered or was enqueued
(`ArrivedKnown`, `ReferencesComplete`), and the loop lets no frame go before an
earlier I- or P-frame that is still to come (`ReferenceArrived`): the least frame
that would leave too early leaves for one of the four reasons of `Leaves`, and each
of them tells of an I- or P-frame that has arrived behind the missing one, or of a
frame that left too early before it.

**FramingProofs.** `Refinement`: `Spec => Stream!Spec`, whatever the payload
sizes and the splits of the stream. Items lie in the stream one behind the other
(`Contiguous`), those delivered are the first of them (`Delivery`), and the parser
stands at the end of the last one delivered (`InStep`); hence the item at the
parser is the next one (`HeadIsNext` in the proofs), and `Complete` says of it
exactly that it has arrived.

**RenderClockProofs.** `ClockDoesNotDrift`, `JumpsDoNotStall`, `FramesArePaced`,
`LatenciesSteady`, for both players, every frame duration and jump limit, and timers
that are late by any amount. The invariant orders all timestamps in the player
(`Sorted`), ties the sleeping timer to the anchor (`OnTime`, `NoDrift`) and the last
latency to the frame that it was logged with (`MediaAnchored`). Two exceptions are
in the properties: `Paced` holds for `StreamPerGop` only if a frame is no longer
than the jump limit. A frame takes 512 ticks at 30 frames/s; it takes 256 at 60, where
two missing frames are not yet a jump, and 1024 at 15, where every frame is one and all
are shown as they come. And `LatencySteady` says what `if (!this.firstFrameMediaTime)`
does to a first timestamp of 0: the second frame's latency is logged with its own
timestamp too much.

**RestartsProofs.** `KeysRecovered`: the key survives the decoder's clock for
every presentation time. With it `SamplesPairedAlways`, `MissedOnlyTwiceAlways`
and `CleanRestartAlways` for any number of plays, frames and GoPs, and however set-ups
overlap: the play that gets samples was answered since the current file was made, and
the samples in the file are of plays that were answered (`PlayStates`); a frame that is
still to come out is in the map and alone there unless it was received twice
(`OneToken`).

**OriginProofs.** `AllDecodable`, for any sets of sessions and
namespaces. The groups of the video track are runs of consecutive frames that
begin with a keyframe, and the latest one ends with the last frame of all
(`VideoGroups`, `LatestComplete`); what a task sent last is the object it stands at
(`SentLast`), so its next object follows it or begins a group. The first group is
the exception that `Decodable` names: it may begin with a delta frame.

**TestbedProofs.** `NetworkLeftAlone`, `SimulationsLogged`, `OneMeasurement`, for
profiles of any length: rules of the packet filter stand only at the steps that
`NetworkRestored` names, only the end of the first wait sets the timer
(`FirstWaitOnly`), and the log session spans the simulation (`SessionOpen`).

Only model-checked: the liveness properties (`FedOrSuperseded`,
`PauseQuiesces`, `BufferedShown`, `Delivered`, `Answered`, `SimulationMeasured`), which
are out of the prover's reach. The library's induction theorems are, too; where a
proof needs an induction it takes a least counterexample, which exists because the
order of the naturals is well-founded (`LeastNumber`). There are no recursive
operators.

## 6. Not modelled

Modelled are the StreamPerGop path and restarts over it, the player with its clock and
metrics, the StreamPerBFrame path of one play, the ingest pipe, the server with
StreamPerTrack, and the testbed. Not modelled, and why:

* **Restarts of StreamPerBFrame**: the reorder buffer's array that outlives a play, and
  the `b-frames` subscription whose id `pause()` does not know. No document says what
  should come out of the array; this is the first thing to add.
* **VideoFrames that are never closed**: frames that arrive while paused or are cleared
  from the buffer. The size of a decoder's pool is the browser's.
* **Subscriptions to the init track**: its id is 0 and thus falsy for `pause()`;
  `Player` has the test, but `LeakBound` counts subscriptions to the video track.
* **The independence of the tasks of a session** (`FuturesUnordered`): assumed as
  fairness in `Origin`.
* **What the server's availability time is**: it is taken when a frame is read, in
  decode order; see RenderClock above.
* **StreamPerFrameType** (`ftype.rs`): its counters and groups are those of
  StreamPerBFrame with P-frames moved to a track as well; `main.rs` does not
  select it and no client plays it.
* **Go server** (`server-go/`): an earlier server over a vendored library, whose
  `main` now only serves the certificate hash.
* **Cutting fMP4 into boxes and NAL units** (`mp4-parser`): a parser of a format
  without state that interleaves with anything; its output is `Framing`'s input.
* **Sums and averages of `calculateMetrics`**: arithmetic over a log; only the
  matching of buffering events and the case of an empty log have states.
* **React rendering and layout, TLS and certificates, the text of logs, shell
  scripts**, and the vendored libraries, which are modelled from how they are used.
