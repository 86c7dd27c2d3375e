------------------------------ MODULE Restarts ------------------------------
(***************************************************************************)
(* What successive calls of play() share: a StreamPerGop player that is    *)
(* stopped and started again builds a new pipeline each time,              *)
(*                                                                         *)
(*   videoTrack -> parseRawFrames -> SkipOldGops -> mp4Parser -> decoder   *)
(*                                                                         *)
(* but pause() does not take the old one down, and all of them go through  *)
(* one Mp4Parser, with its queue and its mp4box file, and one processing   *)
(* map.  configure(), called by each play(), replaces the file; start(),   *)
(* called when the pipeline is built, directs the samples of the current   *)
(* file to that pipeline's decoder.  Between the two the file keeps the    *)
(* samples it is given.  pause() does not wait for a play() that is still  *)
(* subscribing: that one goes on when its SUBSCRIBE is answered, and calls *)
(* start() on the file of a later one.                                     *)
(*                                                                         *)
(* Frames are numbered in decode order; the number serves as presentation  *)
(* time as well, for what matters is that it is unique.  A play gets its   *)
(* frames in order here (GopPipeline has the rest), so SkipOldGops drops   *)
(* nothing, and an object goes from parseRawFrames through the parser in   *)
(* one step.  The init segment is there.                                   *)
(***************************************************************************)
EXTENDS Timestamps, Sequences

CONSTANTS
  Keyframes,     \* frames that begin a GoP, a set of numbers
  MaxFrames,     \* bound: frames the encoder produces
  MaxPlays       \* bound: calls of play()

ASSUME RestartsAssumption ==
  /\ MaxFrames \in Nat /\ MaxPlays \in Nat
  /\ Keyframes \subseteq 1..MaxFrames

Frames == 1..MaxFrames
Plays == 1..MaxPlays
NoPlay == 0
RawFrame == [pts : Frames, play : Plays]
Chunk == [data : RawFrame, pts : Frames]    \* pts: what its timestamp is computed from

VARIABLES
  plays,         \* calls of play() so far
  paused,        \* playerState is PAUSED
  step,          \* step[p]: where the p-th play() and its pipeline stand
  first,         \* first[p]: the frame that the p-th subscription begins with
  received,      \* received[p]: last frame that the p-th pipeline has parsed
  answered,      \* history: answered[p]: calls of play() when the p-th was answered
  processing,    \* Player.processing: at most one RawFrame for each pts
  queue,         \* Mp4Parser.queue
  file,          \* RawFrames whose samples the current file holds
  sink,          \* play to whose decoder the samples go, or NoPlay before start()
  lost,          \* history: a file was replaced while samples waited in it for start()
  decoding,      \* decoding[p]: chunks in the p-th decoder
  fed,           \* history: fed[p]: data of the chunks given to the p-th decoder
  missed         \* history: frames whose output threw "frame not in processing map"

playVars == <<plays, paused, step, first, answered>>
parserVars == <<queue, file, sink, lost>>
decodeVars == <<decoding, fed>>
vars == <<playVars, received, processing, parserVars, decodeVars, missed>>

TypeOK ==
  /\ plays \in 0..MaxPlays /\ paused \in BOOLEAN
  /\ step \in [Plays -> {"idle", "subscribing", "streaming", "failed",
                      "broken", "unpiped"}]
  /\ answered \in [Plays -> 0..MaxPlays]
  /\ first \in [Plays -> 0..MaxFrames] /\ received \in [Plays -> 0..MaxFrames]
  /\ processing \subseteq RawFrame
  /\ queue \in Seq(RawFrame) /\ file \in Seq(RawFrame)
  /\ sink \in 0..MaxPlays /\ lost \in BOOLEAN
  /\ decoding \in [Plays -> SUBSET Chunk] /\ fed \in [Plays -> Seq(RawFrame)]
  /\ missed \subseteq Frames

Init ==
  /\ plays = 0 /\ paused = TRUE
  /\ step = [p \in Plays |-> "idle"]
  /\ answered = [p \in Plays |-> 0]
  /\ first = [p \in Plays |-> 0] /\ received = [p \in Plays |-> 0]
  /\ processing = {}
  /\ queue = <<>> /\ file = <<>> /\ sink = NoPlay /\ lost = FALSE
  /\ decoding = [p \in Plays |-> {}] /\ fed = [p \in Plays |-> <<>>]
  /\ missed = {}

-----------------------------------------------------------------------------
(* play() and pause().                                                     *)

\* The samples that wait for start().
Waiting == IF sink = NoPlay THEN file ELSE <<>>

\* play() up to the SUBSCRIBE: setup() configures the parser with a new file.
\* The queue is not cleared.
Configure ==
  /\ paused /\ plays < MaxPlays
  /\ plays' = plays + 1 /\ paused' = FALSE
  /\ step' = [step EXCEPT ![plays + 1] = "subscribing"]
  /\ file' = <<>> /\ sink' = NoPlay
  /\ lost' = (lost \/ Waiting # <<>>)
  /\ UNCHANGED <<first, answered, received, processing, queue, decodeVars, missed>>

\* pause(), whatever the calls of play() have come to.  The UNSUBSCRIBE that it may send
\* takes effect at any time or never, and only keeps frames from a pipeline, which may
\* get as few of its frames here as one likes.
Pause ==
  /\ ~paused
  /\ paused' = TRUE
  /\ UNCHANGED <<plays, step, first, answered, received, processing,
                 parserVars, decodeVars, missed>>

SubscribeFails(p) ==
  /\ step[p] = "subscribing"
  /\ step' = [step EXCEPT ![p] = "failed"]
  /\ UNCHANGED <<plays, paused, first, answered, received, processing,
                 parserVars, decodeVars, missed>>

\* A decoder that starts with a frame that is no keyframe throws.
Refuses(p, data) == fed[p] = <<>> /\ data # <<>> /\ data[1].pts \notin Keyframes

\* The p-th decodeFrames gets samples with these data, each with the RawFrame taken
\* from the queue for it.
Decode(p, data, raws) ==
  IF Refuses(p, data)
  THEN /\ fed' = [fed EXCEPT ![p] = <<data[1]>>]
       /\ UNCHANGED decoding
  ELSE /\ fed' = [fed EXCEPT ![p] = @ \o data]
       /\ decoding' = [decoding EXCEPT ![p] = @ \cup
            {[data |-> data[k], pts |-> raws[k].pts] : k \in DOMAIN data}]

\* The answer to the p-th SUBSCRIBE.  The objects are those of a group from its first one
\* on; nothing here depends on the group that is current when the server handles it.
Served(p, k) ==
  /\ step[p] = "subscribing"
  /\ first' = [first EXCEPT ![p] = k] /\ answered' = [answered EXCEPT ![p] = plays]
  /\ sink' = p
  /\ UNCHANGED <<plays, paused, processing, file, lost, missed>>

\* A mistake: start() begins with the next sample, what waits in the file stays there.
StartSkipsPending(p, k) ==
  /\ Served(p, k)
  /\ received' = [received EXCEPT ![p] = k - 1]
  /\ step' = [step EXCEPT ![p] = "streaming"]
  /\ UNCHANGED <<queue, decodeVars>>

\* A mistake: the first object of the subscription is not read.
StartSkipsFirst(p, k) ==
  /\ Served(p, k) /\ Len(file) <= Len(queue)
  /\ received' = [received EXCEPT ![p] = k]
  /\ queue' = SubSeq(queue, Len(file) + 1, Len(queue))
  /\ Decode(p, file, queue)
  /\ step' = [step EXCEPT ![p] = IF Refuses(p, file) THEN "broken" ELSE "streaming"]

\* play() builds the pipeline.  start() makes mp4box give the samples of the current
\* file, from the first on: the samples that wait in it, or, when another play() has
\* started this file before, all of them once more.
Start(p, k) ==
  /\ Served(p, k) /\ Len(file) <= Len(queue)
  /\ received' = [received EXCEPT ![p] = k - 1]
  /\ queue' = SubSeq(queue, Len(file) + 1, Len(queue))
  /\ Decode(p, file, queue)
  /\ step' = [step EXCEPT ![p] = IF Refuses(p, file) THEN "broken" ELSE "streaming"]

\* There is no RawFrame in the queue for such a sample: onSamples throws, so does
\* start(), and play() ends before its pipes are made.
StartThrows(p, k) ==
  /\ Served(p, k) /\ Len(file) > Len(queue)
  /\ received' = [received EXCEPT ![p] = k - 1]
  /\ queue' = <<>>
  /\ step' = [step EXCEPT ![p] = "unpiped"]
  /\ UNCHANGED decodeVars

-----------------------------------------------------------------------------
(* The pipelines, those of stopped plays included.                         *)

\* parseRawFrames takes the next object of the p-th subscription, and
\* Mp4Parser.transform appends it to the file.
Parse(p, f) ==
  /\ step[p] = "streaming" /\ received[p] < MaxFrames
  /\ f = [pts |-> received[p] + 1, play |-> p]
  /\ received' = [received EXCEPT ![p] = f.pts]
  /\ processing' = {g \in processing : g.pts # f.pts} \cup {f}
  /\ file' = Append(file, f)
  /\ UNCHANGED <<plays, paused, first, answered, sink, lost, missed>>

\* The file has not been started.
TransformWaits(p, f) ==
  /\ Parse(p, f) /\ sink = NoPlay
  /\ queue' = Append(queue, f)
  /\ UNCHANGED <<step, decodeVars>>

\* The sample comes out at once, and goes with the oldest RawFrame of the queue to the
\* decoder of the sink.
TransformExtracts(p, f) ==
  /\ Parse(p, f) /\ sink # NoPlay /\ step[sink] = "streaming"
  /\ queue' = Tail(Append(queue, f))
  /\ Decode(sink, <<f>>, Append(queue, f))
  /\ step' = [step EXCEPT ![sink] = IF Refuses(sink, <<f>>) THEN "broken" ELSE @]

\* The sink's pipeline is errored: enqueue() throws, and errors this one.  Where start()
\* threw, mp4box still has samples to give again: the first one takes the RawFrame, and
\* one more, if there is one, throws.
TransformThrows(p, f) ==
  /\ Parse(p, f) /\ sink # NoPlay /\ step[sink] \in {"broken", "unpiped"}
  /\ queue' = Tail(Append(queue, f))
  /\ step' = [step EXCEPT ![p] = "broken"]
  /\ UNCHANGED decodeVars

\* Otherwise nothing reads what start() has left enqueued.
TransformUnread(p, f) ==
  /\ Parse(p, f) /\ sink # NoPlay /\ step[sink] = "unpiped"
  /\ queue' = Tail(Append(queue, f))
  /\ UNCHANGED <<step, decodeVars>>

\* The output callback of the p-th decoder.
Output(p, c, timestamp) ==
  /\ decoding' = [decoding EXCEPT ![p] = @ \ {c}]
  /\ processing' = {f \in processing : f.pts # Key(timestamp)}
  /\ missed' = IF \E f \in processing : f.pts = Key(timestamp) THEN missed
                                                             ELSE missed \cup {c.pts}
  /\ UNCHANGED <<playVars, received, parserVars, fed>>

Transform(p, f) ==
  \/ TransformWaits(p, f) \/ TransformExtracts(p, f)
  \/ TransformThrows(p, f) \/ TransformUnread(p, f)

Next ==
  \/ Configure \/ Pause
  \/ \E p \in Plays : \/ SubscribeFails(p)
                     \/ \E k \in Keyframes : Start(p, k) \/ StartThrows(p, k)
  \/ \E p \in Plays, f \in RawFrame : Transform(p, f)
  \/ \E p \in Plays : \E c \in decoding[p] : \E t \in Truncations(c.pts) : Output(p, c, t)

Spec == Init /\ [][Next]_vars

-----------------------------------------------------------------------------
(* Properties                                                              *)

\* Across restarts, whichever calls of play() overlap, a sample that waits for start()
\* has a RawFrame in the queue, and every sample is given the RawFrame of its own frame.
\* Only samples that wait in a file when play() is called again put the parser out of
\* step: their RawFrames stay in the queue.  That is so after a SUBSCRIBE that failed,
\* and after pause() while the SUBSCRIBE was not answered.
SamplesPaired ==
  /\ Len(Waiting) <= Len(queue)
  /\ ~lost =>
       /\ queue = Waiting
       /\ \A p \in Plays : \A c \in decoding[p] : c.data.pts = c.pts

\* The restart delivered this frame a second time.
DeliveredTwice(pts) ==
  \E p, q \in Plays :
    /\ p # q
    /\ first[p] \in 1..pts /\ pts <= received[p]
    /\ first[q] \in 1..pts /\ pts <= received[q]

\* An output that finds no RawFrame in the processing map has a single cause: the
\* frame was received twice, and the other copy came out before.
MissedOnlyTwice == \A pts \in missed : DeliveredTwice(pts)

\* A decoder that gets no frames of other plays gets those of its own from a keyframe
\* on, without a hole, also if a later or an interrupted play() takes the file over.  It
\* never gets frames of a play() called after its SUBSCRIBE was answered; those of one
\* called before that, after pause(), it may get.
CleanRestart ==
  \A p \in Plays :
    /\ \A k \in DOMAIN fed[p] : fed[p][k].play <= answered[p]
    /\ (\A k \in DOMAIN fed[p] : fed[p][k].play = p) =>
         \A k \in DOMAIN fed[p] : fed[p][k].pts = first[p] + k - 1

\* "frame not in processing map" (Player.ts:172): whatever comes out of a decoder is
\* in the map.
FrameInMap == missed = {}

-----------------------------------------------------------------------------
(* The inductive invariant behind the first three.                         *)

\* What a play has come to, and the file of the newest one: samples come from plays that
\* were answered, and go to one that was answered since the file was made.
PlayStates ==
  /\ \A p \in Plays :
       /\ p > plays => step[p] = "idle"
       /\ step[p] \in {"idle", "subscribing", "failed"} => first[p] = 0 /\ fed[p] = <<>>
       /\ step[p] \in {"streaming", "broken", "unpiped"} =>
            first[p] > 0 /\ first[p] <= received[p] + 1
       /\ step[p] = "unpiped" => fed[p] = <<>>
  /\ sink # NoPlay =>
       answered[sink] = plays /\ step[sink] \in {"streaming", "broken", "unpiped"}
  /\ \A k \in DOMAIN file : file[k].play <= plays /\ first[file[k].play] > 0

Parsed(pts) == \E p \in Plays : first[p] \in 1..pts /\ pts <= received[p]

InMap(pts) == \E f \in processing : f.pts = pts

\* A RawFrame that is still to come out is in the map, and is the only one of its frame
\* that is, unless the frame was received twice.
OneToken ==
  /\ \A k \in DOMAIN queue :
       /\ Parsed(queue[k].pts)
       /\ InMap(queue[k].pts) \/ DeliveredTwice(queue[k].pts)
       /\ \A j \in DOMAIN queue :
            j # k /\ queue[j].pts = queue[k].pts => DeliveredTwice(queue[k].pts)
       /\ \A p \in Plays : \A c \in decoding[p] :
            c.pts = queue[k].pts => DeliveredTwice(c.pts)
  /\ \A p \in Plays : \A c \in decoding[p] :
       /\ Parsed(c.pts)
       /\ InMap(c.pts) \/ DeliveredTwice(c.pts)
       /\ \A q \in Plays : \A d \in decoding[q] :
            (p # q \/ c # d) /\ c.pts = d.pts => DeliveredTwice(c.pts)

\* A decoder in step with its pipeline has all that the pipeline parsed.
OwnFed ==
  \A p \in Plays :
    sink = p /\ step[p] = "streaming" /\ (\A k \in DOMAIN fed[p] : fed[p][k].play = p) =>
      Len(fed[p]) = received[p] - first[p] + 1

IInv ==
  /\ TypeOK /\ PlayStates /\ SamplesPaired /\ OneToken /\ MissedOnlyTwice
  /\ OwnFed /\ CleanRestart
=============================================================================
