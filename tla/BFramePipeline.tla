--------------------------- MODULE BFramePipeline ---------------------------
(***************************************************************************)
(* One QUIC stream per B-frame, end to end: the StreamPerBFrame mapping    *)
(* (BFrameMapper), the two subscriptions of StreamPerBFrame.play(), the    *)
(* merge of both tracks in videoStream() and the reorder buffer in front   *)
(* of the mp4 parser (ReorderBuffer.ts), for one play().                   *)
(*                                                                         *)
(* The network delivers the frames of a group of the video track in order; *)
(* groups overtake one another, and B-frames, which travel alone, overtake *)
(* everything or never arrive.  parseRawFrames and the reorder buffer take *)
(* an object each time one arrives, so an arrival and the transform() that *)
(* it causes are one step.  Decode timestamps count frame durations: the   *)
(* 512 of ReorderBuffer.ts:57 is 1 here, at the rate the code is made for. *)
(***************************************************************************)
EXTENDS BFrameMapper, Sequences, SequencesExt

CONSTANT TargetSize     \* targetSize of the reorder buffer, in frame durations

ASSUME TargetAssumption == TargetSize \in Nat

VARIABLES
  videoFrom,     \* first group served by the video subscription, or NoGroup
  bFrom,         \* first group served by the b-frames subscription, or NoGroup
  arrived,       \* timestamps of the frames taken out of either track
  buffer,        \* Player.reorderBuffer
  lastEnqueued,  \* timestamp of ReorderBuffer.lastEnqueued, or NoFrame
  enqueued,      \* frames enqueued to the mp4 parser, in order
  status,        \* "ok", or which of the two errors ended the pipeline
  inOrder,       \* history: I- and P-frames have arrived in order so far
  startedBlind   \* history: the first frame left the reorder buffer, a B-frame, when
                 \* no I- or P-frame had arrived yet

clientVars == <<videoFrom, bFrom, arrived, buffer, lastEnqueued, enqueued, status,
                inOrder, startedBlind>>
vars == <<mapperVars, clientVars>>

NoGroup == -1
NoFrame == 0
RawFrame == [dts : Timestamp, isB : BOOLEAN]

ClientTypeOK ==
  /\ videoFrom \in Nat \cup {NoGroup} /\ bFrom \in Nat \cup {NoGroup}
  /\ arrived \subseteq Timestamp
  /\ buffer \in Seq(RawFrame) /\ enqueued \in Seq(RawFrame)
  /\ lastEnqueued \in 0..MaxFrames
  /\ status \in {"ok", "frameAhead", "outOfOrder"}

PipelineInit ==
  /\ Init
  /\ videoFrom = NoGroup /\ bFrom = NoGroup /\ arrived = {}
  /\ buffer = <<>> /\ lastEnqueued = NoFrame /\ enqueued = <<>> /\ status = "ok"
  /\ inOrder = TRUE /\ startedBlind = FALSE

-----------------------------------------------------------------------------
(* play(): the video track first, then the b-frames track.  Each SUBSCRIBE *)
(* is served from the current group on or from a later one; nothing in the *)
(* code relates the two.                                                   *)

SubscribeVideo(g) ==
  /\ serverUp /\ videoFrom = NoGroup /\ g >= current
  /\ videoFrom' = g
  /\ UNCHANGED <<mapperVars, bFrom, arrived, buffer, lastEnqueued, enqueued, status,
                 inOrder, startedBlind>>

SubscribeBFrames(g) ==
  /\ serverUp /\ videoFrom # NoGroup /\ bFrom = NoGroup /\ g >= current
  /\ bFrom' = g
  /\ UNCHANGED <<mapperVars, videoFrom, arrived, buffer, lastEnqueued, enqueued, status,
                 inOrder, startedBlind>>

-----------------------------------------------------------------------------
(* ReorderBufferBFrames                                                    *)

Late(f) == lastEnqueued # NoFrame /\ f.dts < lastEnqueued

\* A late B-frame is dropped; a late I- or P-frame throws.
TransformLate(f) ==
  /\ Late(f)
  /\ status' = IF f.isB THEN status ELSE "frameAhead"
  /\ UNCHANGED <<buffer, lastEnqueued, enqueued>>

\* Where add() puts the frame: behind n frames that are not newer.
Place(f, n) ==
  /\ \A k \in 1..n : buffer[k].dts <= f.dts
  /\ \A k \in (n + 1)..Len(buffer) : buffer[k].dts > f.dts

Previous(q, k) == IF k = 1 THEN lastEnqueued ELSE q[k - 1].dts

\* Mutant: an early B-frame never waits.
LeavesEarly(q, k) == q[Len(q)].dts - q[k].dts > TargetSize

\* Mutant: I- and P-frames wait for their predecessor like B-frames do.
LeavesInSequence(q, k) ==
  /\ q[Len(q)].dts - q[k].dts > TargetSize
  /\ Previous(q, k) = NoFrame \/ q[k].dts = Previous(q, k) + 1

\* The loop of transform() lets the k-th frame of q go once those before it went: the
\* buffer is too large and the frame is no B-frame, is the first of all, follows the
\* last one directly, or has an I- or P-frame behind it.
Leaves(q, k) ==
  /\ q[Len(q)].dts - q[k].dts > TargetSize
  /\ \/ ~ q[k].isB
     \/ Previous(q, k) = NoFrame
     \/ q[k].dts = Previous(q, k) + 1
     \/ \E j \in (k + 1)..Len(q) : ~ q[j].isB

\* ensureInOrder does not throw.
InOrder(q, k) == Previous(q, k) # NoFrame => q[k].dts >= Previous(q, k)

\* Mutant: enqueueNext does not remember what it enqueued.
DrainForgets(q) ==
  \E m \in 0..Len(q) :
    /\ \A k \in 1..m : Leaves(q, k) /\ InOrder(q, k)
    /\ m < Len(q) => ~ (Leaves(q, m + 1) /\ InOrder(q, m + 1))
    /\ enqueued' = enqueued \o SubSeq(q, 1, m)
    /\ lastEnqueued' = lastEnqueued
    /\ LET thrown == m < Len(q) /\ Leaves(q, m + 1)
       IN  /\ buffer' = SubSeq(q, IF thrown THEN m + 2 ELSE m + 1, Len(q))
           /\ status' = IF thrown THEN "outOfOrder" ELSE status

\* The loop enqueues the first m frames, and stops before the next one or throws on it.
Drain(q) ==
  \E m \in 0..Len(q) :
    /\ \A k \in 1..m : Leaves(q, k) /\ InOrder(q, k)
    /\ m < Len(q) => ~ (Leaves(q, m + 1) /\ InOrder(q, m + 1))
    /\ enqueued' = enqueued \o SubSeq(q, 1, m)
    /\ lastEnqueued' = IF m = 0 THEN lastEnqueued ELSE q[m].dts
    /\ LET thrown == m < Len(q) /\ Leaves(q, m + 1)
       IN  /\ buffer' = SubSeq(q, IF thrown THEN m + 2 ELSE m + 1, Len(q))
           /\ status' = IF thrown THEN "outOfOrder" ELSE status

TransformAdds(f) ==
  /\ ~ Late(f)
  /\ \E n \in 0..Len(buffer) : Place(f, n) /\ Drain(InsertAt(buffer, n + 1, f))

\* The loop takes a B-frame that nothing was enqueued before without a look at what
\* else the buffer holds (!this.lastEnqueued, ReorderBuffer.ts:55).
StartsBlind ==
  lastEnqueued = NoFrame /\ lastEnqueued' # NoFrame /\ \A v \in video : v.dts \notin arrived'

Arrives(f) ==
  /\ status = "ok" /\ f.dts \notin arrived
  /\ arrived' = arrived \cup {f.dts}
  /\ TransformLate(f) \/ TransformAdds(f)
  /\ startedBlind' = (startedBlind \/ StartsBlind)
  /\ UNCHANGED <<mapperVars, videoFrom, bFrom>>

-----------------------------------------------------------------------------
(* The two tracks, read by videoStream() once both subscriptions stand.    *)

Served(v) == videoFrom # NoGroup /\ v.group >= videoFrom

VideoArrives(v) ==
  /\ Served(v) /\ bFrom # NoGroup
  /\ \A w \in video : w.group = v.group /\ w.idx < v.idx => w.dts \in arrived
  /\ Arrives([dts |-> v.dts, isB |-> FALSE])
  /\ inOrder' = (inOrder /\ \A w \in video : Served(w) /\ w.dts < v.dts => w.dts \in arrived)

BFrameArrives(b) ==
  /\ bFrom # NoGroup /\ b.group >= bFrom
  /\ Arrives([dts |-> b.dts, isB |-> TRUE])
  /\ inOrder' = inOrder

Subscribe == \E g \in 0..MaxFrames : SubscribeVideo(g) \/ SubscribeBFrames(g)

Mapper == Next /\ UNCHANGED clientVars

PipelineNext ==
  \/ Mapper
  \/ Subscribe
  \/ \E v \in video : VideoArrives(v)
  \/ \E b \in bFrames : BFrameArrives(b)

PipelineSpec == PipelineInit /\ [][PipelineNext]_vars

-----------------------------------------------------------------------------
(* Properties                                                              *)

\* Whatever overtakes what on the network, frames leave the reorder buffer in decode
\* order, each at most once, and ensureInOrder never throws.
SortedOutput ==
  /\ \A j, k \in DOMAIN enqueued : j < k => enqueued[j].dts < enqueued[k].dts
  /\ status # "outOfOrder"

\* An I- or P-frame never waits for more than the target size: only B-frames that
\* might be ahead of their references make the buffer grow beyond it.
ReferenceNotHeld ==
  \A k \in DOMAIN buffer :
    ~ buffer[k].isB => buffer[Len(buffer)].dts - buffer[1].dts <= TargetSize

\* transform() throws "Enqueued a frame ahead of an I-, or P-frame" for two reasons
\* only: I- and P-frames did not arrive in order, which the code counts on ("I-, P-frames
\* are transmitted in order", ReorderBuffer.ts:67), or B-frames that arrived before all
\* of them filled the buffer and the first one was let go (:55), past the first I-frame.
NoFrameAhead == inOrder /\ ~ startedBlind => status # "frameAhead"

\* "I-, P-frames are transmitted in order" (ReorderBuffer.ts:67): a pipeline that
\* started with an I- or P-frame never meets one that comes too late.  It does:
\* bframe.rs:67 opens a stream for each GoP, and a GoP may overtake the last one.
TransmittedInOrder ==
  enqueued # <<>> /\ ~ enqueued[1].isB => status # "frameAhead"

\* With the same two exceptions, a B-frame is fed to the decoder only after every served
\* I- and P-frame that precedes it in decode order.
ReferencesFirst ==
  \A k \in DOMAIN enqueued :
    inOrder /\ ~ startedBlind /\ enqueued[k].isB =>
      \A v \in video :
        Served(v) /\ v.dts < enqueued[k].dts =>
          \E j \in 1..(k - 1) : enqueued[j].dts = v.dts

-----------------------------------------------------------------------------
(* The inductive invariant behind SortedOutput and ReferenceNotHeld.       *)

\* What is in the buffer arrived, is newer than all that left it, and is sorted.
BufferSorted ==
  /\ \A k \in DOMAIN buffer : buffer[k].dts \in arrived /\ buffer[k].dts > lastEnqueued
  /\ \A j, k \in DOMAIN buffer : j < k => buffer[j].dts < buffer[k].dts

\* lastEnqueued arrived, and is the newest frame enqueued.
LastIsNewest ==
  /\ lastEnqueued # NoFrame => lastEnqueued \in arrived
  /\ \A k \in DOMAIN enqueued : enqueued[k].dts <= lastEnqueued

PipelineInv ==
  ClientTypeOK /\ BufferSorted /\ LastIsNewest /\ SortedOutput /\ ReferenceNotHeld

-----------------------------------------------------------------------------
(* The inductive invariant behind NoFrameAhead and ReferencesFirst.        *)

Buffered(d) == \E k \in DOMAIN buffer : buffer[k].dts = d
Enqueued(d) == \E k \in DOMAIN enqueued : enqueued[k].dts = d

\* A decode timestamp names one frame of one track.
TimesDistinct ==
  /\ \A v, w \in video : v.dts = w.dts => v = w
  /\ \A v \in video, b \in bFrames : v.dts # b.dts

\* What arrived was written before and is served, and stays in the buffer at least
\* until the first frame leaves it.
ArrivedKnown ==
  /\ \A d \in arrived : d <= clock
  /\ videoFrom = NoGroup => arrived = {} /\ bFrom = NoGroup
  /\ \A v \in video : v.dts \in arrived => Served(v)
  /\ \A k \in DOMAIN buffer : ~ buffer[k].isB =>
       \E v \in video : Served(v) /\ v.dts = buffer[k].dts
  /\ lastEnqueued = NoFrame => \A d \in arrived : Buffered(d)

\* While I- and P-frames arrive in order, those that arrived are the first ones that
\* are served, they include all that precede a frame already fed to the decoder, and
\* none of them was dropped, unless the first frame was let go blindly.
ReferencesComplete ==
  inOrder /\ ~ startedBlind =>
    \A v \in video : Served(v) =>
      /\ \A w \in video : v.dts < w.dts /\ w.dts \in arrived => v.dts \in arrived
      /\ v.dts <= lastEnqueued => v.dts \in arrived
      /\ v.dts \in arrived => Buffered(v.dts) \/ Enqueued(v.dts)

\* Otherwise some I- or P-frame had arrived when the first frame was let go.
StartedWithReference ==
  ~ startedBlind /\ lastEnqueued # NoFrame => \E v \in video : v.dts \in arrived

ReferencesInv ==
  /\ TimesDistinct /\ ArrivedKnown /\ ReferencesComplete /\ StartedWithReference
  /\ NoFrameAhead
=============================================================================
