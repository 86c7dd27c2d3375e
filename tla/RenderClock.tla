---------------------------- MODULE RenderClock ----------------------------
(***************************************************************************)
(* When a frame is shown.  The render loops of StreamPerGop and of         *)
(* StreamPerBFrame (queueNextFrame, calculateTimeUntilFrame) take a frame  *)
(* from the buffer, sleep in setTimeout until it is due and render it; an  *)
(* anchor, resumedPlayingAt, relates local time to media time.  Player     *)
(* leaves the clock out; here is one play() with time, in units of the     *)
(* track's timescale, up to the latency that is logged with each frame.    *)
(*                                                                         *)
(* Frames come out of the decoder in presentation order; a step of more    *)
(* than one frame is what frames dropped on the way leave.                 *)
(***************************************************************************)
EXTENDS Integers, Sequences

CONSTANTS
  FrameDuration, \* between two frames
  JumpLimit,     \* 512 in the code: a larger step is taken for a new GoP
  First,         \* timestamp of the first frame received
  FirstAvailable,\* when the server got it, on the client's clock
  Target,        \* bufferSizeMs
  Early, Late,   \* setTimeout drops fractions of a ms, and may fire late
  MaxSkip,       \* bound: frames missing between two frames, plus one
  MaxTime        \* bound: local time, and timestamps

ASSUME RenderClockAssumption ==
  /\ FrameDuration \in Nat \ {0} /\ JumpLimit \in Nat
  /\ First \in Nat /\ FirstAvailable \in Int
  /\ Target \in Nat /\ MaxSkip \in Nat /\ MaxTime \in Nat
  /\ Early \in Nat /\ Late \in Nat

None == -1
NoAnchor == [local |-> None, media |-> None]

VARIABLES
  jumpsToNewGop, \* TRUE: StreamPerGop, FALSE: StreamPerBFrame; does not change
  now,           \* performance.now()
  newest,        \* timestamp of the last frame from the decoder, or None
  buffer,        \* timestamps of the frames in Player.buffer
  playerState,   \* "BUFFERING" or "PLAYING"
  anchor,        \* resumedPlayingAt, or NoAnchor
  held,          \* frame of the sleeping queueNextFrame, or None
  due,           \* local time its timer was set to
  queuedAt,      \* local time its timer was set at
  last,          \* lastFrameRendered, or None
  firstMedia,    \* firstFrameMediaTime; 0 is falsy, hence undefined
  latency,       \* logged with the last frame
  shownAt        \* history: local time at which the last frame was rendered

vars == <<jumpsToNewGop, now, newest, buffer, playerState, anchor, held, due, queuedAt,
          last, firstMedia, latency, shownAt>>

Stamp == Nat \cup {None}

TypeOK ==
  /\ jumpsToNewGop \in BOOLEAN /\ shownAt \in Nat
  /\ now \in Nat /\ due \in Nat /\ queuedAt \in Nat /\ firstMedia \in Nat
  /\ newest \in Stamp /\ held \in Stamp /\ last \in Stamp
  /\ buffer \in Seq(Nat)
  /\ playerState \in {"BUFFERING", "PLAYING"}
  /\ anchor \in [local : Nat, media : Nat] \cup {NoAnchor}
  /\ latency \in Int

Init ==
  /\ jumpsToNewGop \in BOOLEAN
  /\ now = 0 /\ newest = None /\ buffer = <<>>
  /\ playerState = "BUFFERING"
  /\ anchor = NoAnchor
  /\ held = None /\ due = 0 /\ queuedAt = 0
  /\ last = None
  /\ firstMedia = 0 /\ latency = 0 /\ shownAt = 0

-----------------------------------------------------------------------------
\* calculateTimeUntilFrame.

Max0(n) == IF n < 0 THEN 0 ELSE n

Anchored(a, f) == IF a = NoAnchor THEN [local |-> now, media |-> f] ELSE a

\* Mistakes: any step is a jump; the comparison is the wrong way round.
NewGopAny(f, lastRendered) ==
  jumpsToNewGop /\ lastRendered # None /\ f >= lastRendered + FrameDuration
NewGopBackwards(f, lastRendered) ==
  jumpsToNewGop /\ lastRendered # None /\ lastRendered > f + JumpLimit

NewGop(f, lastRendered) ==
  jumpsToNewGop /\ lastRendered # None /\ f > lastRendered + JumpLimit

NewAnchor(a, f, lastRendered) ==
  IF NewGop(f, lastRendered) THEN [local |-> now, media |-> f] ELSE Anchored(a, f)

\* A mistake: sleeping for the time between two frames.
WaitBetween(a, f, lastRendered) ==
  IF lastRendered = None THEN 0 ELSE f - lastRendered

Wait(a, f, lastRendered) ==
  LET new == NewAnchor(a, f, lastRendered)
  IN  IF NewGop(f, lastRendered) THEN 0
      ELSE Max0((f - new.media) - (now - new.local))

\* queueNextFrame up to its setTimeout, with a frame in the buffer b.
QueueNext(b, a, lastRendered) ==
  /\ held' = Head(b)
  /\ buffer' = Tail(b)
  /\ anchor' = NewAnchor(a, Head(b), lastRendered)
  /\ due' = now + Wait(a, Head(b), lastRendered)
  /\ queuedAt' = now

\* The write sink.
BufferSize(b) == b[Len(b)] + FrameDuration - b[1]

Write(f) ==
  LET b == Append(buffer, f) IN
  /\ newest' = f
  /\ IF playerState = "BUFFERING" /\ BufferSize(b) >= Target
     THEN playerState' = "PLAYING" /\ QueueNext(b, anchor, last)
     ELSE buffer' = b /\ UNCHANGED <<playerState, anchor, held, due, queuedAt>>
  /\ UNCHANGED <<jumpsToNewGop, now, last, firstMedia, latency, shownAt>>

WriteFirst == newest = None /\ Write(First)

WriteNext(n) ==
  /\ newest # None /\ newest + n * FrameDuration <= MaxTime
  /\ Write(newest + n * FrameDuration)

\* calculateFrameLatency: the time since the first frame received was available at the
\* server, less the media time since the first frame rendered.
Latency(f, media) == (now - FirstAvailable) - (f - media)

\* A mistake: the anchor of the latency is set anew with each frame.
MediaAnchorAlways(f) == f

MediaAnchor(f) == IF firstMedia = 0 THEN f ELSE firstMedia

\* The timer fires: the frame is rendered, then queueNextFrame calls itself.
TimerFires == held # None /\ now >= due - Early
Rendered ==
  /\ last' = held
  /\ firstMedia' = MediaAnchor(held)
  /\ latency' = Latency(held, MediaAnchor(held))
  /\ shownAt' = now
  /\ UNCHANGED <<jumpsToNewGop, now, newest>>

RenderQueuesNext ==
  /\ TimerFires /\ buffer # <<>>
  /\ Rendered
  /\ QueueNext(buffer, anchor, held)
  /\ UNCHANGED playerState

RenderUnderruns ==
  /\ TimerFires /\ buffer = <<>>
  /\ Rendered
  /\ playerState' = "BUFFERING"
  /\ anchor' = NoAnchor
  /\ held' = None
  /\ UNCHANGED <<buffer, due, queuedAt>>

\* A timer fires at most Late after it is due.
Tick ==
  /\ now < MaxTime
  /\ held # None => now < due + Late
  /\ now' = now + 1
  /\ UNCHANGED <<jumpsToNewGop, newest, buffer, playerState, anchor, held, due,
                 queuedAt, last, firstMedia, latency, shownAt>>

Next ==
  \/ WriteFirst
  \/ \E n \in 1..MaxSkip : WriteNext(n)
  \/ RenderQueuesNext \/ RenderUnderruns
  \/ Tick

Spec == Init /\ [][Next]_vars

-----------------------------------------------------------------------------
\* Properties.

\* The frame's place on the time line that starts at an anchor.
Place(a, f) == a.local + (f - a.media)

\* Every timer is set to the frame's place on the one time line that starts at the
\* anchor, or to now if that has passed: neither late timers nor rounding add up over
\* frames, however late a single timer fires.
NoDrift ==
  held # None => due = IF Place(anchor, held) < queuedAt THEN queuedAt
                                                         ELSE Place(anchor, held)

\* Dropped GoPs never freeze the picture of StreamPerGop: however much is missing
\* before it, the next frame is due at most JumpLimit (and a timer's earliness) after
\* its timer is set.
NoStall == jumpsToNewGop /\ held # None => due <= queuedAt + JumpLimit + Early

\* A frame that follows the one just rendered is not due at once, as a new GoP is, but
\* a frame's distance after that one was due, provided that one was not behind its
\* place when its timer was set.  StreamPerGop keeps this only if a frame is no longer than the
\* jump limit, 512 ticks: at 15 frames/s, where it takes 1024, every frame is a jump.
Paced ==
  [][/\ jumpsToNewGop => FrameDuration <= JumpLimit
     /\ held # None /\ held' = held + FrameDuration
     /\ due = Place(anchor, held)
     => due' >= due + FrameDuration]_vars

\* The latencies logged with two successive frames differ by what passed between their
\* renderings less what lies between their timestamps: one pair of anchors serves the
\* whole session, through waits and jumps.  A first timestamp of 0 counts as none, and
\* then the second frame is logged with its own timestamp too much.
LatencySteady ==
  [][last' # last /\ last # None =>
       latency' - latency = (now - shownAt) - (last' - last)
                              + (IF last = 0 THEN last' ELSE 0)]_vars

-----------------------------------------------------------------------------
\* The inductive invariant.

Sorted ==
  /\ \A i \in DOMAIN buffer : First <= buffer[i] /\ buffer[i] <= newest
  /\ \A i, j \in DOMAIN buffer : i < j => buffer[i] + FrameDuration <= buffer[j]
  /\ held # None => /\ First <= held /\ held <= newest
                    /\ last # None => last + FrameDuration <= held
                    /\ \A i \in DOMAIN buffer : held + FrameDuration <= buffer[i]
  /\ last # None => /\ First <= last /\ last <= newest
                    /\ \A i \in DOMAIN buffer : last + FrameDuration <= buffer[i]

States ==
  /\ playerState = "PLAYING" <=> held # None
  /\ anchor # NoAnchor <=> held # None
  /\ newest = None => buffer = <<>> /\ held = None /\ last = None

OnTime ==
  held # None => /\ queuedAt <= now /\ now <= due + Late
                 /\ queuedAt <= due /\ anchor.local <= queuedAt
                 /\ anchor.media <= held

Reached == newest # None => First <= newest

\* Once a frame with a timestamp other than 0 has been rendered the anchor stays.
MediaAnchored ==
  /\ firstMedia = 0 <=> last \in {None, 0}
  /\ last # None => latency = (shownAt - FirstAvailable) - (last - firstMedia)

IInv ==
  TypeOK /\ Sorted /\ States /\ OnTime /\ Reached /\ MediaAnchored /\ NoDrift
=============================================================================
