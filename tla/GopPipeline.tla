---------------------------- MODULE GopPipeline ----------------------------
(***************************************************************************)
(* One GoP per QUIC stream, end to end: the StreamPerGop mapping of the    *)
(* origin server (server/src/mappings/gop.rs), the subscription, and the   *)
(* client pipeline that StreamPerGop.play() builds                         *)
(*                                                                         *)
(*   videoTrack -> parseRawFrames -> SkipOldGops -> mp4Parser -> decoder   *)
(*                                                                         *)
(* up to the decoder's output callback, for one play().  A frame is named  *)
(* by its GoP, its place in it and its decode timestamp, in units of the   *)
(* frame duration (ffmpeg's decode times increase by one frame each); its  *)
(* presentation timestamp, the key of the processing map, identifies it    *)
(* just as well, so the map is the set of the frames it holds.             *)
(*                                                                         *)
(* The streams between server and client are QUIC's: frames of one group   *)
(* arrive in order, groups overtake one another freely.  An object that    *)
(* waits in a web stream's queue before parseRawFrames is still "on its    *)
(* way" here: parseRawFrames is that queue's only reader, so the order in  *)
(* which it takes objects is the order in which they arrived.              *)
(***************************************************************************)
EXTENDS Integers, Sequences

CONSTANT MaxFrames      \* bound: frames the encoder produces

ASSUME MaxFramesAssumption == MaxFrames \in Nat

VARIABLES
  \* StreamPerGop (server)
  serverUp,      \* read_video has not returned an error
  group,         \* StreamPerGop.group: groups appended; the newest is current
  count,         \* frames written to the current group
  clock,         \* decode time of the last frame read from the encoder
  written,       \* every frame written to a group of the video track
  \* the subscription
  start,         \* first group served to the client; 0 before SUBSCRIBE
  delivered,     \* delivered[g]: frames of group g parsed so far
  \* the client pipeline
  firstFrame,    \* frame that set firstFrameAvailabilityTime, or NoFrame
  processing,    \* Player.processing
  parsed,        \* RawFrames between parseRawFrames and SkipOldGops
  lastEnqueued,  \* SkipOldGops.lastEnqueued, or NoFrame (undefined)
  fed,           \* frames enqueued by SkipOldGops, in order
  dropped,       \* frames SkipOldGops returned without enqueueing
  decoding,      \* frames in the decoder, not yet output
  decoderError   \* the output callback threw "frame not in processing map"

serverVars == <<serverUp, group, count, clock, written>>
subVars    == <<start, delivered>>
parseVars  == <<firstFrame, processing, parsed>>
skipVars   == <<lastEnqueued, fed, dropped>>
decodeVars == <<decoding, decoderError>>
vars == <<serverVars, subVars, parseVars, skipVars, decodeVars>>

Groups == 1..MaxFrames
Number == 0..MaxFrames
Frame == [gop : Groups, idx : Groups, dts : Groups]
NoFrame == [gop |-> 0, idx |-> 0, dts |-> 0]    \* undefined

TypeOK ==
  /\ serverUp \in BOOLEAN
  /\ group \in Number /\ count \in Number /\ clock \in Number
  /\ written \subseteq Frame
  /\ start \in Number
  /\ delivered \in [Groups -> Number]
  /\ firstFrame \in Frame \cup {NoFrame}
  /\ processing \subseteq Frame
  /\ parsed \in Seq(Frame)
  /\ lastEnqueued \in Frame \cup {NoFrame}
  /\ fed \in Seq(Frame)
  /\ dropped \subseteq Frame
  /\ decoding \subseteq Frame
  /\ decoderError \in BOOLEAN

Init ==
  /\ serverUp = TRUE /\ group = 0 /\ count = 0 /\ clock = 0 /\ written = {}
  /\ start = 0 /\ delivered = [g \in Groups |-> 0]
  /\ firstFrame = NoFrame /\ processing = {} /\ parsed = <<>>
  /\ lastEnqueued = NoFrame /\ fed = <<>> /\ dropped = {}
  /\ decoding = {} /\ decoderError = FALSE

-----------------------------------------------------------------------------
(* The origin server: one iteration of the loop in StreamPerGop::stream.   *)

WriteFrame(f) ==
  /\ written' = written \cup {f}
  /\ group' = f.gop
  /\ count' = f.idx
  /\ clock' = f.dts

StreamKeyframe ==
  /\ serverUp /\ clock < MaxFrames
  /\ WriteFrame([gop |-> group + 1, idx |-> 1, dts |-> clock + 1])
  /\ UNCHANGED <<serverUp, subVars, parseVars, skipVars, decodeVars>>

StreamDelta ==
  /\ serverUp /\ clock < MaxFrames
  /\ group > 0
  /\ WriteFrame([gop |-> group, idx |-> count + 1, dts |-> clock + 1])
  /\ UNCHANGED <<serverUp, subVars, parseVars, skipVars, decodeVars>>

\* A first frame that is no keyframe: "No current group" ends read_video, and
\* with it main's select!, the server and every session.
StreamNoGroup ==
  /\ serverUp /\ clock < MaxFrames
  /\ group = 0
  /\ serverUp' = FALSE
  /\ UNCHANGED <<group, count, clock, written, subVars, parseVars, skipVars,
                 decodeVars>>

-----------------------------------------------------------------------------
(* The subscription of play(): live asks for the next group, future for a  *)
(* named one.  The relay side may also serve the group that is being       *)
(* written, from its first object.                                         *)

Subscribe(g) ==
  /\ serverUp /\ start = 0
  /\ g > 0 /\ g >= group
  /\ start' = g
  /\ UNCHANGED <<serverVars, delivered, parseVars, skipVars, decodeVars>>

\* Mutant: the processing map is reset at every keyframe, against the leak.
ParseRawFrameResets(g) ==
  /\ start > 0 /\ g >= start
  /\ \E f \in written :
       /\ f.gop = g /\ f.idx = delivered[g] + 1
       /\ delivered' = [delivered EXCEPT ![g] = f.idx]
       /\ firstFrame' = IF firstFrame = NoFrame THEN f ELSE firstFrame
       /\ parsed' = Append(parsed, f)
       /\ processing' = {f} \cup (IF f.idx = 1 THEN {} ELSE processing)
  /\ UNCHANGED <<serverVars, start, skipVars, decodeVars>>

\* Mutant: every frame overwrites firstFrameAvailabilityTime.
ParseRawFrameReanchors(g) ==
  /\ start > 0 /\ g >= start
  /\ \E f \in written :
       /\ f.gop = g /\ f.idx = delivered[g] + 1
       /\ delivered' = [delivered EXCEPT ![g] = f.idx]
       /\ firstFrame' = f
       /\ parsed' = Append(parsed, f)
       /\ processing' = processing \cup {f}
  /\ UNCHANGED <<serverVars, start, skipVars, decodeVars>>

(* parseRawFrames takes the next object of group g.                        *)
ParseRawFrame(g) ==
  /\ start > 0 /\ g >= start
  /\ \E f \in written :
       /\ f.gop = g /\ f.idx = delivered[g] + 1
       /\ delivered' = [delivered EXCEPT ![g] = f.idx]
       /\ firstFrame' = IF firstFrame = NoFrame THEN f ELSE firstFrame
       /\ parsed' = Append(parsed, f)
       /\ processing' = processing \cup {f}
  /\ UNCHANGED <<serverVars, start, skipVars, decodeVars>>

(* SkipOldGops.transform: late frames are dropped, the rest is enqueued    *)
(* and reaches the decoder through the mp4 parser, one sample per frame.   *)
\* Mutant: the comparison is turned round, frames that come early are dropped.
LateReversed(f) == lastEnqueued # NoFrame /\ lastEnqueued.dts + 1 < f.dts

Late(f) == lastEnqueued # NoFrame /\ f.dts < lastEnqueued.dts

\* Mutant: lastEnqueued is set before the frame is dropped.
SkipLateRemembered ==
  /\ parsed # <<>> /\ Late(Head(parsed))
  /\ dropped' = dropped \cup {Head(parsed)}
  /\ lastEnqueued' = Head(parsed)
  /\ parsed' = Tail(parsed)
  /\ UNCHANGED <<serverVars, subVars, firstFrame, processing, fed, decodeVars>>

SkipLate ==
  /\ parsed # <<>> /\ Late(Head(parsed))
  /\ dropped' = dropped \cup {Head(parsed)}
  /\ parsed' = Tail(parsed)
  /\ UNCHANGED <<serverVars, subVars, firstFrame, processing, lastEnqueued,
                 fed, decodeVars>>

EnqueueFrame ==
  /\ parsed # <<>> /\ ~ Late(Head(parsed))
  /\ lastEnqueued' = Head(parsed)
  /\ fed' = Append(fed, Head(parsed))
  /\ decoding' = decoding \cup {Head(parsed)}
  /\ parsed' = Tail(parsed)
  /\ UNCHANGED <<serverVars, subVars, firstFrame, processing, dropped,
                 decoderError>>

\* Mutant: the frame is not deleted from the processing map.
DecoderOutputKeeps(f) ==
  /\ f \in decoding
  /\ decoding' = decoding \ {f}
  /\ decoderError' = (decoderError \/ f \notin processing)
  /\ UNCHANGED <<serverVars, subVars, parseVars, skipVars>>

(* The VideoDecoder's output callback.  The decoder reorders frames into   *)
(* presentation order, so any frame it holds may come out next.            *)
DecoderOutput(f) ==
  /\ f \in decoding
  /\ decoding' = decoding \ {f}
  /\ decoderError' = (decoderError \/ f \notin processing)
  /\ processing' = processing \ {f}
  /\ UNCHANGED <<serverVars, subVars, firstFrame, parsed, skipVars>>

-----------------------------------------------------------------------------
Server == StreamKeyframe \/ StreamDelta \/ StreamNoGroup

Client ==
  \/ \E g \in Groups : Subscribe(g)
  \/ \E g \in Groups : ParseRawFrame(g)
  \/ SkipLate
  \/ EnqueueFrame
  \/ \E f \in decoding : DecoderOutput(f)

Next == Server \/ Client

Spec == Init /\ [][Next]_vars

\* The browser keeps running its stream callbacks, and every QUIC stream that
\* has data keeps making progress (loss is repaired; streams are not reset).
Fairness ==
  /\ \A g \in Groups : WF_vars(ParseRawFrame(g))
  /\ WF_vars(SkipLate \/ EnqueueFrame)

FairSpec == Spec /\ Fairness

-----------------------------------------------------------------------------
(* Properties                                                              *)

\* Whatever the order in which groups overtake one another on the network, the
\* decoder sees only what it can decode: a keyframe of a later GoP or the direct
\* successor of the last frame, never a hole or a step back (SkipOldGops drops
\* by decode time only and knows nothing of groups).
Order == INSTANCE DecodeOrder WITH Frame <- Frame, fed <- fed
DecodableOrder == Order!Spec

\* Every frame the decoder outputs is still in the processing map, so the output
\* callback of decodeFrames never throws "frame not in processing map".
DecoderFindsFrame == ~ decoderError

InPipeline == {parsed[k] : k \in DOMAIN parsed} \cup decoding

\* The processing map holds the frames in the pipeline and, for ever, those that
\* SkipOldGops dropped: nothing removes a skipped frame from the map.
ProcessingAccounted ==
  /\ processing = InPipeline \cup dropped
  /\ InPipeline \cap dropped = {}

\* The two anchors of the latency calculation name the same frame: the frame
\* whose availability time parseRawFrames keeps is the first one fed to the
\* decoder, even when later groups overtake it.
LatencyAnchor == fed # <<>> => fed[1] = firstFrame

\* A frame written to a served group reaches the decoder, unless a newer GoP got
\* there first: dropping never starves the newest GoP.
FedOrSuperseded ==
  \A g \in Groups, i \in Groups :
    (start > 0 /\ g >= start /\ \E f \in written : f.gop = g /\ f.idx = i)
      ~> \E k \in DOMAIN fed : \/ fed[k].gop = g /\ fed[k].idx = i
                               \/ fed[k].gop > g

-----------------------------------------------------------------------------
(* The inductive invariant behind the safety properties.                   *)

\* Frames are written GoP by GoP, in decode order.
WrittenInOrder ==
  /\ group <= clock /\ count <= clock
  /\ \A f \in written :
       f.gop <= group /\ f.dts <= clock /\ (f.gop = group => f.idx <= count)
  /\ \A e, f \in written :
       (e.gop < f.gop \/ (e.gop = f.gop /\ e.idx < f.idx)) => e.dts < f.dts

\* What the client holds was written, and was parsed before.
ClientFrames ==
  /\ \A k \in DOMAIN parsed : parsed[k] \in written
  /\ dropped \subseteq written /\ decoding \subseteq written
  /\ lastEnqueued \in written \cup {NoFrame}
  /\ \A k \in DOMAIN parsed : parsed[k].idx <= delivered[parsed[k].gop]
  /\ \A f \in dropped \cup decoding : f.idx <= delivered[f.gop]

\* The frames of a GoP stay in order between parseRawFrames and SkipOldGops.
QueueSorted ==
  \A j, k \in DOMAIN parsed :
    j < k /\ parsed[j].gop = parsed[k].gop => parsed[j].idx < parsed[k].idx

\* Frames of GoP g enqueued so far, for the GoPs that SkipOldGops still accepts.
Enqueued(g) == IF lastEnqueued.gop = g THEN lastEnqueued.idx ELSE 0

\* For every GoP still accepted, the queue continues without a hole where the
\* decoder stopped, up to the last frame parsed.
QueueContiguous ==
  /\ \A k \in DOMAIN parsed :
       parsed[k].gop >= lastEnqueued.gop =>
         \/ parsed[k].idx = Enqueued(parsed[k].gop) + 1
         \/ \E j \in DOMAIN parsed :
              /\ j < k /\ parsed[j].gop = parsed[k].gop
              /\ parsed[j].idx + 1 = parsed[k].idx
  /\ \A g \in Groups :
       g >= lastEnqueued.gop =>
         \/ delivered[g] = Enqueued(g)
         \/ \E k \in DOMAIN parsed : parsed[k].gop = g /\ parsed[k].idx = delivered[g]

\* lastEnqueued is the last frame fed, and the newest GoP fed so far.
FedInOrder ==
  /\ (fed = <<>>) <=> (lastEnqueued = NoFrame)
  /\ fed # <<>> => fed[Len(fed)] = lastEnqueued
  /\ \A k \in DOMAIN fed : fed[k].gop <= lastEnqueued.gop

\* A frame is either waiting for SkipOldGops or in the decoder, never both.
OnePlace == \A k \in DOMAIN parsed : parsed[k] \notin decoding

\* Before the first frame is fed, the frame of the anchor waits at the head.
AnchorWaits ==
  /\ fed = <<>> /\ firstFrame # NoFrame => parsed # <<>> /\ parsed[1] = firstFrame
  /\ firstFrame = NoFrame => parsed = <<>> /\ fed = <<>>

IInv ==
  /\ TypeOK /\ WrittenInOrder /\ ClientFrames /\ QueueSorted /\ QueueContiguous
  /\ FedInOrder /\ OnePlace /\ ProcessingAccounted /\ DecoderFindsFrame
  /\ AnchorWaits /\ LatencyAnchor
=============================================================================
