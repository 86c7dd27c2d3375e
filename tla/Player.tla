------------------------------- MODULE Player -------------------------------
(***************************************************************************)
(* The browser player: Player.ts with the render loop of StreamPerGop      *)
(* (processDecodedFrames), driven by the buttons of App.tsx.               *)
(*                                                                         *)
(* JavaScript runs one callback at a time, so an action is what runs       *)
(* between two waits: a click, the answer to a SUBSCRIBE, the first object *)
(* of the init track, a decoded frame reaching write(), a timer of         *)
(* queueNextFrame.  Everything that outlives pause() is kept: the calls of *)
(* play() still setting up, the pipelines still emitting frames, and the   *)
(* queueNextFrame calls asleep in setTimeout, each holding a frame that it *)
(* has taken out of the buffer (held).                                     *)
(*                                                                         *)
(* A frame is its presentation time in frame durations; the time that a    *)
(* timer takes is left open, timers may fire in any order.                 *)
(***************************************************************************)
EXTENDS Integers, Sequences, SequencesExt, FiniteSets

CONSTANTS
  BufferTarget,  \* bufferSizeMs, in frame durations
  FirstId,       \* the first subscribe id that the session hands out
  MaxPlays,      \* bound: calls of play()
  MaxPts         \* bound: presentation times

ASSUME PlayerAssumption ==
  /\ BufferTarget \in Nat /\ FirstId \in Nat /\ MaxPlays \in Nat /\ MaxPts \in Nat

VARIABLES
  playerState,   \* Player.playerState
  buffer,        \* Player.buffer
  held,          \* frame of every sleeping queueNextFrame call, oldest call first
  isRebuffering, \* Player.isRebuffering
  lastRendered,  \* Player.lastFrameRendered; 0 before the first frame
  plays,         \* calls of play() so far
  step,          \* step[p]: where the p-th call of play() stands
  subId,         \* subId[p]: the subscription that the p-th call asked for last
  emitted,       \* emitted[p]: last frame out of the p-th call's decoder
  initSegment,   \* Player.initSegment is set
  initTrackSubscriptionId,   \* NoId when undefined
  videoTrackSubscriptionId,  \* NoId when undefined
  subs,          \* subscriptions the server is serving
  nextId,        \* the next subscribe id
  enabled,       \* Logger.#enabled
  bufferingEvents,  \* Logger.#logs.bufferingEvents
  interrupted    \* history: calls of play() still setting up at some pause()

renderVars == <<playerState, buffer, held, isRebuffering, lastRendered>>
logVars    == <<enabled, bufferingEvents>>
setupVars  == <<plays, step, subId, initSegment, initTrackSubscriptionId,
                videoTrackSubscriptionId, subs, nextId, interrupted>>
vars == <<renderVars, logVars, setupVars, emitted>>

Plays == 1..MaxPlays
Frames == 1..MaxPts
NoId == 0       \* undefined and 0 are the same to "if (id)"
Id == Nat
SettingUp == {"initSub", "initRead", "videoSub"}
Steps == {"idle", "streaming", "failed"} \cup SettingUp
Subscription == [id : Id, track : {"init", "video"}, play : Plays]

TypeOK ==
  /\ playerState \in {"PAUSED", "BUFFERING", "PLAYING"}
  /\ buffer \in Seq(Frames) /\ held \in Seq(Frames)
  /\ isRebuffering \in BOOLEAN
  /\ lastRendered \in 0..MaxPts
  /\ plays \in 0..MaxPlays
  /\ step \in [Plays -> Steps] /\ subId \in [Plays -> Id]
  /\ emitted \in [Plays -> 0..MaxPts]
  /\ initSegment \in BOOLEAN
  /\ initTrackSubscriptionId \in Id /\ videoTrackSubscriptionId \in Id
  /\ subs \subseteq Subscription /\ nextId \in Id
  /\ enabled \in BOOLEAN /\ bufferingEvents \in Seq({"start", "end"})
  /\ interrupted \subseteq Plays

Init ==
  /\ playerState = "PAUSED" /\ buffer = <<>> /\ held = <<>>
  /\ isRebuffering = FALSE /\ lastRendered = 0
  /\ plays = 0 /\ step = [p \in Plays |-> "idle"] /\ subId = [p \in Plays |-> NoId]
  /\ emitted = [p \in Plays |-> 0]
  /\ initSegment = FALSE
  /\ initTrackSubscriptionId = NoId /\ videoTrackSubscriptionId = NoId
  /\ subs = {} /\ nextId = FirstId
  /\ enabled = FALSE /\ bufferingEvents = <<>>
  /\ interrupted = {}

\* Logger.onBufferingStart and onBufferingEnd.
LogEvent(event) ==
  bufferingEvents' = IF enabled THEN Append(bufferingEvents, event) ELSE bufferingEvents

-----------------------------------------------------------------------------
(* play() and its set-up                                                   *)

\* session.subscribe of the p-th call: the request is on its way to the server.
Subscribe(p, track) ==
  /\ step' = [step EXCEPT ![p] = IF track = "init" THEN "initSub" ELSE "videoSub"]
  /\ subId' = [subId EXCEPT ![p] = nextId]
  /\ subs' = subs \cup {[id |-> nextId, track |-> track, play |-> p]}
  /\ nextId' = nextId + 1

\* App.startWatching: play() up to its first wait, then startLoggerSession().
StartWatching ==
  /\ playerState = "PAUSED" /\ plays < MaxPlays
  /\ plays' = plays + 1
  /\ buffer' = <<>> /\ playerState' = "BUFFERING"
  /\ Subscribe(plays + 1, IF initSegment THEN "video" ELSE "init")
  /\ enabled' = TRUE /\ bufferingEvents' = <<>>
  /\ UNCHANGED <<held, isRebuffering, lastRendered, emitted, initSegment,
                 initTrackSubscriptionId, videoTrackSubscriptionId, interrupted>>

InitSubscribed(p) ==
  /\ step[p] = "initSub"
  /\ step' = [step EXCEPT ![p] = "initRead"]
  /\ initTrackSubscriptionId' = subId[p]
  /\ UNCHANGED <<renderVars, logVars, plays, subId, emitted, initSegment,
                 videoTrackSubscriptionId, subs, nextId, interrupted>>

\* The first object of the init track, then the parser's configuration and the
\* SUBSCRIBE for the video track, with no wait for the network in between.
InitSegmentRead(p) ==
  /\ step[p] = "initRead"
  /\ initSegment' = TRUE
  /\ Subscribe(p, "video")
  /\ UNCHANGED <<renderVars, logVars, plays, emitted, initTrackSubscriptionId,
                 videoTrackSubscriptionId, interrupted>>

\* Mutant: the id of the video subscription is not kept.
VideoSubscribedForgets(p) ==
  /\ step[p] = "videoSub"
  /\ step' = [step EXCEPT ![p] = "streaming"]
  /\ UNCHANGED <<renderVars, logVars, plays, subId, emitted, initSegment,
                 initTrackSubscriptionId, videoTrackSubscriptionId, subs, nextId,
                 interrupted>>

VideoSubscribed(p) ==
  /\ step[p] = "videoSub"
  /\ step' = [step EXCEPT ![p] = "streaming"]
  /\ videoTrackSubscriptionId' = subId[p]
  /\ UNCHANGED <<renderVars, logVars, plays, subId, emitted, initSegment,
                 initTrackSubscriptionId, subs, nextId, interrupted>>

\* A refused SUBSCRIBE, an init track whose read() rejects, or one that ends without an
\* object, which leaves initSegment undefined: play() rejects, nothing is cleaned up.
SetupFailed(p) ==
  /\ step[p] \in SettingUp
  /\ step' = [step EXCEPT ![p] = "failed"]
  /\ \/ initSegment' = initSegment
     \/ step[p] = "initRead" /\ initSegment' = FALSE
  /\ subs' = {s \in subs : s.id # subId[p]}
  /\ UNCHANGED <<renderVars, logVars, plays, subId, emitted,
                 initTrackSubscriptionId, videoTrackSubscriptionId, nextId, interrupted>>

\* App.stopWatching: pause() ends the session and unsubscribes from what it knows.
StopWatching ==
  /\ playerState # "PAUSED"
  /\ playerState' = "PAUSED" /\ enabled' = FALSE
  /\ subs' = {s \in subs : \/ s.id = NoId
                           \/ s.id \notin {initTrackSubscriptionId, videoTrackSubscriptionId}}
  /\ interrupted' = interrupted \cup {p \in Plays : step[p] \in SettingUp}
  /\ UNCHANGED <<buffer, held, isRebuffering, lastRendered, bufferingEvents, plays,
                 step, subId, emitted, initSegment, initTrackSubscriptionId,
                 videoTrackSubscriptionId, nextId>>

-----------------------------------------------------------------------------
(* Frames and the render loop                                              *)

\* The p-th call's decoder hands its next frame to write().
Emit(p, pts) ==
  /\ step[p] = "streaming" /\ pts > emitted[p]
  /\ emitted' = [emitted EXCEPT ![p] = pts]

\* Player.currentBufferSize, once pts is in the buffer.
SizeWith(pts) == pts + 1 - Append(buffer, pts)[1]

WritePaused(p, pts) ==
  /\ Emit(p, pts) /\ playerState = "PAUSED"
  /\ UNCHANGED <<renderVars, logVars, setupVars>>

WriteBuffers(p, pts) ==
  /\ Emit(p, pts)
  /\ \/ playerState = "PLAYING"
     \/ playerState = "BUFFERING" /\ SizeWith(pts) < BufferTarget
  /\ buffer' = Append(buffer, pts)
  /\ UNCHANGED <<playerState, held, isRebuffering, lastRendered, logVars, setupVars>>

\* Mutant: write() does not check that the player is buffering.
WriteResumesAlways(p, pts) ==
  /\ Emit(p, pts)
  /\ playerState # "PAUSED" /\ SizeWith(pts) >= BufferTarget
  /\ playerState' = "PLAYING" /\ isRebuffering' = TRUE /\ LogEvent("end")
  /\ held' = Append(held, Append(buffer, pts)[1])
  /\ buffer' = Tail(Append(buffer, pts))
  /\ UNCHANGED <<lastRendered, enabled, setupVars>>

\* Mutant: write() does not call queueNextFrame.
WriteResumesAlone(p, pts) ==
  /\ Emit(p, pts)
  /\ playerState = "BUFFERING" /\ SizeWith(pts) >= BufferTarget
  /\ playerState' = "PLAYING" /\ isRebuffering' = TRUE /\ LogEvent("end")
  /\ buffer' = Append(buffer, pts)
  /\ UNCHANGED <<held, lastRendered, enabled, setupVars>>

\* The buffer is full enough: playback starts with a new queueNextFrame call, which
\* takes the oldest frame and goes to sleep.
WriteResumes(p, pts) ==
  /\ Emit(p, pts)
  /\ playerState = "BUFFERING" /\ SizeWith(pts) >= BufferTarget
  /\ playerState' = "PLAYING" /\ isRebuffering' = TRUE /\ LogEvent("end")
  /\ held' = Append(held, Append(buffer, pts)[1])
  /\ buffer' = Tail(Append(buffer, pts))
  /\ UNCHANGED <<lastRendered, enabled, setupVars>>

\* A timer of queueNextFrame fires: its frame is rendered, and it calls itself.
Render(i) ==
  /\ i \in DOMAIN held
  /\ lastRendered' = held[i]
  /\ UNCHANGED <<isRebuffering, enabled, setupVars, emitted>>

\* Mutant: a paused queueNextFrame sets its timer again instead of returning.
RenderStopsNever(i) ==
  /\ Render(i) /\ playerState = "PAUSED"
  /\ UNCHANGED <<playerState, buffer, held, bufferingEvents>>

RenderStops(i) ==
  /\ Render(i) /\ playerState = "PAUSED"
  /\ held' = RemoveAt(held, i)
  /\ UNCHANGED <<playerState, buffer, bufferingEvents>>

\* Mutant: onBufferingStart is not called.
RenderUnderrunsSilently(i) ==
  /\ Render(i) /\ playerState # "PAUSED" /\ buffer = <<>>
  /\ playerState' = "BUFFERING"
  /\ held' = RemoveAt(held, i)
  /\ UNCHANGED <<buffer, bufferingEvents>>

RenderUnderruns(i) ==
  /\ Render(i) /\ playerState # "PAUSED" /\ buffer = <<>>
  /\ playerState' = "BUFFERING" /\ LogEvent("start")
  /\ held' = RemoveAt(held, i)
  /\ UNCHANGED buffer

\* Mutant: pop() instead of shift().
RenderQueuesLast(i) ==
  /\ Render(i) /\ playerState # "PAUSED" /\ buffer # <<>>
  /\ held' = [held EXCEPT ![i] = Last(buffer)]
  /\ buffer' = Front(buffer)
  /\ UNCHANGED <<playerState, bufferingEvents>>

RenderQueuesNext(i) ==
  /\ Render(i) /\ playerState # "PAUSED" /\ buffer # <<>>
  /\ held' = [held EXCEPT ![i] = Head(buffer)]
  /\ buffer' = Tail(buffer)
  /\ UNCHANGED <<playerState, bufferingEvents>>

-----------------------------------------------------------------------------
Setup(p) == InitSubscribed(p) \/ InitSegmentRead(p) \/ VideoSubscribed(p) \/ SetupFailed(p)
Write(p, pts) == WritePaused(p, pts) \/ WriteBuffers(p, pts) \/ WriteResumes(p, pts)
Timer(i) == RenderStops(i) \/ RenderUnderruns(i) \/ RenderQueuesNext(i)

Next ==
  \/ StartWatching
  \/ StopWatching
  \/ \E p \in Plays : Setup(p)
  \/ \E p \in Plays, pts \in Frames : Write(p, pts)
  \/ \E i \in DOMAIN held : Timer(i)

Spec == Init /\ [][Next]_vars

\* The browser runs every timer that is due.
FairSpec == Spec /\ \A i \in Plays : WF_vars(Timer(i))

-----------------------------------------------------------------------------
(* Properties                                                              *)

\* A stopped and restarted player may have several queueNextFrame calls alive, for
\* one that slept through pause() and the next play() goes on.  There is never
\* more than one for each play(), none in excess while a single play() buffers, and
\* while the player is PLAYING at least one is there to empty the buffer.
LoopBound ==
  /\ Len(held) <= plays
  /\ playerState = "BUFFERING" => Len(held) < plays
  /\ playerState = "PLAYING" => held # <<>>

\* Until the player is restarted, frames are rendered in presentation order.
RenderedInOrder == [][plays' = 1 => lastRendered' >= lastRendered]_vars

VideoSubs == {s \in subs : s.track = "video"}

\* After pause(), the server streams video to this player only for calls of play()
\* that pause() interrupted: at most one subscription is left behind for each.
LeakBound ==
  (playerState = "PAUSED" /\ \A p \in Plays : step[p] \notin SettingUp)
    => Cardinality(VideoSubs) <= Cardinality(interrupted)

\* calculateMetrics (Metrics.ts:27): the waits it adds up, as the places of their two
\* events in the log, the number of bufferingStarts, and the one still to be matched.
MeasureEvent(acc, k) ==
  IF bufferingEvents[k] = "start"
  THEN [acc EXCEPT !.started = k, !.count = @ + 1]
  ELSE [acc EXCEPT !.started = 0,
                   !.waits = @ \cup (IF acc.started = 0 THEN {} ELSE {<<acc.started, k>>})]

Metrics ==
  FoldLeftDomain(MeasureEvent, [waits |-> {}, count |-> 0, started |-> 0], bufferingEvents)

Places(event) == {k \in DOMAIN bufferingEvents : bufferingEvents[k] = event}

\* The metrics of a session measure its waits for frames: every bufferingEnd but the
\* first, whose bufferingStart may lie before the session, closes a wait of its own;
\* and until a restart each wait is measured from its start to its own end, and the
\* average divides by their number, except for a wait that is still going on.
WaitsMeasured ==
  /\ Cardinality(Metrics.waits) >= Cardinality(Places("end")) - 1
  /\ plays = 1 =>
       /\ Metrics.waits = {<<k, k + 1>> : k \in Places("start") \ {Len(bufferingEvents)}}
       /\ Metrics.count = Cardinality(Metrics.waits) + (IF Metrics.started = 0 THEN 0 ELSE 1)

\* A player that stays paused goes silent: every timer that pause() left behind
\* dies, and with it every frame it holds.
PauseQuiesces == <>[](playerState = "PAUSED") => <>[](held = <<>>)

\* A frame in the buffer of a playing player is shown, unless playback is paused.
BufferedShown ==
  \A f \in Frames :
    (playerState = "PLAYING" /\ \E k \in DOMAIN buffer : buffer[k] = f)
      ~> (lastRendered = f \/ playerState = "PAUSED")

\* "session begins on play() and ends on pause()" (Logger.ts:15), read with what
\* play() does first, start buffering: the events of a session begin with the
\* bufferingStart of its play().
SessionCoversPlay ==
  bufferingEvents # <<>> => bufferingEvents[1] = "start"

-----------------------------------------------------------------------------
(* The inductive invariant behind LoopBound and RenderedInOrder.           *)

\* Calls of play() not made yet are idle, and before the first one nothing happens.
NotYetPlayed ==
  /\ \A p \in Plays : p > plays => step[p] = "idle"
  /\ plays = 0 => /\ playerState = "PAUSED" /\ buffer = <<>> /\ held = <<>>
                  /\ lastRendered = 0

\* Until the restart: the frame shown, the frame held by the only queueNextFrame call,
\* the buffer from its head to its tail, and the frame decoded last are in order.
FirstPlayInOrder ==
  plays <= 1 =>
    /\ \A k \in DOMAIN held : lastRendered <= held[k]
    /\ \A k \in DOMAIN held, j \in DOMAIN buffer : held[k] <= buffer[j]
    /\ \A j \in DOMAIN buffer : lastRendered <= buffer[j]
    /\ \A j, k \in DOMAIN buffer : j < k => buffer[j] <= buffer[k]
    /\ \A p \in Plays : p = 1 =>
         /\ lastRendered <= emitted[p]
         /\ \A k \in DOMAIN held : held[k] <= emitted[p]
         /\ \A j \in DOMAIN buffer : buffer[j] <= emitted[p]

IInv == TypeOK /\ LoopBound /\ NotYetPlayed /\ FirstPlayInOrder

-----------------------------------------------------------------------------
(* The inductive invariant behind LeakBound.  A call that pause() interrupted may   *)
(* stand after all, overwrite the id of the subscription of the call that plays,  *)
(* and make pause() cancel its own instead: subscriptions are counted, not named. *)

\* Before the first play() there is no init segment, and after it no id is NoId.
IdsStarted ==
  /\ plays = 0 => ~ initSegment
  /\ plays > 0 => nextId > NoId
  /\ \A p \in interrupted : p <= plays

\* Video is subscribed to after the init segment, with a fresh id, and the
\* subscription of a call that waits for the answer is the one it asked for.
VideoSubsKnown ==
  /\ IsFiniteSet(subs)
  /\ \A s \in VideoSubs :
       /\ NoId < s.id /\ s.id < nextId
       /\ step[s.play] \notin {"idle", "initSub", "initRead"}
       /\ step[s.play] = "videoSub" => s.id = subId[s.play]
  /\ \A s, t \in VideoSubs : s.id = t.id => s = t

\* A call that is setting up and was not interrupted is the one that plays.
Uninterrupted(p) == step[p] \in SettingUp /\ p \notin interrupted

OnlyNewestUninterrupted ==
  \A p \in Plays : Uninterrupted(p) => p = plays /\ playerState # "PAUSED"

Settled == {p \in Plays : step[p] \notin SettingUp}
SettledSubs == {s \in VideoSubs : s.play \in Settled}
Cancelled == {s \in VideoSubs : s.id = videoTrackSubscriptionId}

\* Not more subscriptions stand than calls were interrupted, not counting the one
\* that the next pause() cancels; that one counts as long as the call that plays is
\* setting up, for its answer will overwrite the id.
Counted ==
  IF playerState = "PAUSED" \/ \E p \in Plays : Uninterrupted(p)
  THEN SettledSubs ELSE SettledSubs \ Cancelled

LeftBehind == Cardinality(Counted) <= Cardinality(interrupted \cap Settled)

LeakIInv == IdsStarted /\ VideoSubsKnown /\ OnlyNewestUninterrupted /\ LeftBehind

-----------------------------------------------------------------------------
(* The inductive invariant behind WaitsMeasured: a restarted player may begin to  *)
(* wait twice, but never stops waiting twice in a row.                            *)

\* An end follows a start, and until a restart a start follows an end.
WaitsAlternate ==
  \A k \in DOMAIN bufferingEvents \ {1} :
    /\ bufferingEvents[k] = "end" => bufferingEvents[k - 1] = "start"
    /\ plays <= 1 /\ bufferingEvents[k] = "start" => bufferingEvents[k - 1] = "end"

\* The last event of a session that goes on says what the player does now.
LogInStep ==
  enabled /\ bufferingEvents # <<>> =>
    LET last == bufferingEvents[Len(bufferingEvents)]
    IN  /\ last = "end" => playerState = "PLAYING"
        /\ plays <= 1 /\ last = "start" => playerState = "BUFFERING"

LogIInv == WaitsAlternate /\ LogInStep
=============================================================================
