------------------------- MODULE RenderClockProofs -------------------------
(***************************************************************************)
(* Theorems about RenderClock: for every frame duration, jump limit,       *)
(* buffer target and timer error, frames are shown on a time line that     *)
(* does not drift, and their latencies refer to one pair of anchors.       *)
(***************************************************************************)
EXTENDS RenderClock, TLAPS

USE RenderClockAssumption

Anchors == [local : Nat, media : Nat]

LEMMA AnchorIsSet == \A a \in Anchors : a # NoAnchor
  BY DEF Anchors, NoAnchor, None

\* What calculateTimeUntilFrame computes.  Either there is no anchor, or the
\* frame before the one queued was due as the anchor has it.
LEMMA QueueFacts ==
  ASSUME NEW b \in Seq(Nat), b # <<>>, NEW a, NEW lr \in Stamp,
         now \in Nat, due \in Nat, QueueNext(b, a, lr),
         \/ a = NoAnchor
         \/ /\ a \in Anchors /\ lr # None
            /\ Place(a, lr) <= due
            /\ now <= due + Late /\ a.local <= now /\ a.media <= lr
            /\ lr + FrameDuration <= Head(b)
  PROVE  /\ held' = Head(b) /\ held' \in Nat /\ buffer' = Tail(b)
         /\ anchor' \in Anchors
         /\ due' \in Nat /\ queuedAt' = now
         /\ due' = IF Place(anchor', held') < now THEN now ELSE Place(anchor', held')
         /\ now <= due' /\ anchor'.local <= now /\ anchor'.media <= held'
         /\ a # NoAnchor /\ held' = lr + FrameDuration /\ due = Place(a, lr)
            /\ (jumpsToNewGop => FrameDuration <= JumpLimit)
              => due' >= due + FrameDuration
         /\ jumpsToNewGop /\ (a # NoAnchor => now >= due - Early)
              => due' <= now + JumpLimit + Early
<1>1. PICK f \in Nat : f = Head(b)
  OBVIOUS
<1>2. /\ held' = f /\ buffer' = Tail(b) /\ queuedAt' = now
      /\ anchor' = NewAnchor(a, f, lr) /\ due' = now + Wait(a, f, lr)
  BY <1>1 DEF QueueNext
<1>4. CASE NewGop(f, lr)
  <2>1. anchor' = [local |-> now, media |-> f] /\ due' = now
    BY <1>2, <1>4 DEF NewAnchor, Wait
  <2>2. anchor' \in Anchors /\ anchor'.local = now /\ anchor'.media = f
    BY <2>1 DEF Anchors
  <2>3. lr # None /\ f > lr + JumpLimit
    BY <1>4 DEF NewGop
  <2>4. Place(anchor', held') = now /\ due' = now
    BY <1>1, <1>2, <2>1, <2>2 DEF Place
  <2>5. /\ ~(held' = lr + FrameDuration /\ (jumpsToNewGop => FrameDuration <= JumpLimit))
    BY <1>1, <1>2, <1>4, <2>3 DEF NewGop, Stamp, None
  <2> QED BY <1>1, <1>2, <2>2, <2>4, <2>5
<1>5. CASE ~NewGop(f, lr) /\ a = NoAnchor
  <2>1. anchor' = [local |-> now, media |-> f]
    BY <1>2, <1>5 DEF NewAnchor, Anchored
  <2>2. anchor' \in Anchors /\ anchor'.local = now /\ anchor'.media = f
    BY <2>1 DEF Anchors
  <2>3. due' = now
    BY <1>2, <1>5, <2>1 DEF Wait, NewAnchor, Anchored, Max0
  <2>4. Place(anchor', held') = now
    BY <1>1, <1>2, <2>2 DEF Place
  <2> QED BY <1>1, <1>2, <1>5, <2>2, <2>3, <2>4
<1>6. CASE ~NewGop(f, lr) /\ a # NoAnchor
  <2>1. /\ a \in Anchors /\ lr \in Nat /\ lr # None
        /\ Place(a, lr) <= due
        /\ now <= due + Late /\ a.local <= now /\ a.media <= lr
        /\ lr + FrameDuration <= f
    BY <1>1, <1>6 DEF Stamp
  <2>2. PICK l \in Nat, m \in Nat : a.local = l /\ a.media = m
    BY <2>1 DEF Anchors
  <2>3. anchor' = a
    BY <1>2, <1>6 DEF NewAnchor, Anchored
  <2>4. due' = now + Max0((f - m) - (now - l))
    BY <1>2, <1>6, <2>2, <2>3 DEF Wait
  <2>5. /\ l + (lr - m) <= due /\ l <= now /\ m <= lr /\ lr \in Nat
        /\ Place(a, lr) = l + (lr - m) /\ Place(anchor', held') = l + (f - m)
    BY <1>1, <1>2, <2>1, <2>2, <2>3 DEF Place
  <2>6. due' = IF l + (f - m) < now THEN now ELSE l + (f - m)
    BY <2>2, <2>4, <1>1 DEF Max0
  <2>7. now <= due' /\ due' \in Nat /\ m <= f
    <3>1. m <= f
      BY <1>1, <2>1, <2>5, RenderClockAssumption
    <3>2. l + (f - m) \in Nat
      BY <1>1, <2>2, <3>1
    <3> QED BY <2>6, <3>1, <3>2
  <2>8. f = lr + FrameDuration /\ due = Place(a, lr) => due' >= due + FrameDuration
    BY <2>1, <2>2, <2>5, <2>6
  <2>9. jumpsToNewGop => f <= lr + JumpLimit
    BY <1>1, <1>6, <2>1 DEF NewGop
  <2>10. jumpsToNewGop /\ now >= due - Early => due' <= now + JumpLimit + Early
    <3> SUFFICES ASSUME jumpsToNewGop, now >= due - Early
                 PROVE  due' <= now + JumpLimit + Early
      OBVIOUS
    <3>1. l + (f - m) <= due + JumpLimit
      BY <2>2, <2>5, <2>9, <1>1
    <3>2. l + (f - m) <= now + JumpLimit + Early
      BY <3>1, <2>2, RenderClockAssumption
    <3> QED BY <3>2, <2>2, <2>6, RenderClockAssumption
  <2>11. anchor' \in Anchors /\ anchor'.local = l /\ anchor'.media = m
    BY <2>1, <2>2, <2>3
  <2>12. now >= due - Early <=> (a # NoAnchor => now >= due - Early)
    BY <1>6
  <2> QED BY <1>1, <1>2, <2>5, <2>6, <2>7, <2>8, <2>10, <2>11, <2>12
<1> QED BY <1>4, <1>5, <1>6

\* A frame that is newer than those in the buffer, at its end.
LEMMA AppendSorted ==
  ASSUME IInv, NEW f \in Nat,
         newest = None => f = First,
         newest # None => newest + FrameDuration <= f
  PROVE  LET b == Append(buffer, f) IN
         /\ b \in Seq(Nat) /\ b # <<>>
         /\ \A i \in DOMAIN b : First <= b[i] /\ b[i] <= f
         /\ \A i, j \in DOMAIN b : i < j => b[i] + FrameDuration <= b[j]
         /\ held # None => /\ held <= f
                           /\ \A i \in DOMAIN b : held + FrameDuration <= b[i]
         /\ last # None => /\ last <= f
                           /\ \A i \in DOMAIN b : last + FrameDuration <= b[i]
<1> DEFINE b == Append(buffer, f)
<1>1. /\ buffer \in Seq(Nat) /\ newest \in Stamp /\ held \in Stamp /\ last \in Stamp
      /\ newest = None => buffer = <<>> /\ held = None /\ last = None
  BY DEF IInv, TypeOK, States
<1>2. /\ Len(b) = Len(buffer) + 1 /\ b[Len(b)] = f
      /\ \A i \in DOMAIN b : i \in DOMAIN buffer \/ i = Len(b)
      /\ \A i \in DOMAIN buffer : b[i] = buffer[i] /\ buffer[i] \in Nat
      /\ b \in Seq(Nat) /\ b # <<>>
  BY <1>1
<1>3. \A i \in DOMAIN buffer : First <= buffer[i] /\ buffer[i] + FrameDuration <= f
  BY <1>1 DEF IInv, Sorted, Stamp
<1>4. \A i \in DOMAIN b : First <= b[i] /\ b[i] <= f
  <2>1. First <= f
    <3>1. CASE newest = None  BY <3>1
    <3>2. CASE newest # None
      <4>1. First <= newest
        BY <3>2 DEF IInv, Reached
      <4> QED BY <3>2, <4>1, <1>1 DEF Stamp
    <3> QED BY <3>1, <3>2
  <2> QED BY <1>2, <1>3, <2>1
<1>5. \A i, j \in DOMAIN b : i < j => b[i] + FrameDuration <= b[j]
  BY <1>1, <1>2, <1>3, SMTT(30) DEF IInv, Sorted
<1>6. held # None => held <= f /\ \A i \in DOMAIN b : held + FrameDuration <= b[i]
  BY <1>1, <1>2 DEF IInv, Sorted, Stamp
<1>7. last # None => last <= f /\ \A i \in DOMAIN b : last + FrameDuration <= b[i]
  BY <1>1, <1>2 DEF IInv, Sorted, Stamp
<1> QED BY <1>2, <1>4, <1>5, <1>6, <1>7

\* Taking the head of a sorted sequence leaves a sorted one, all later.
LEMMA TakeHead ==
  ASSUME NEW b \in Seq(Nat), b # <<>>,
         \A i, j \in DOMAIN b : i < j => b[i] + FrameDuration <= b[j]
  PROVE  /\ Tail(b) \in Seq(Nat) /\ Head(b) \in Nat /\ Head(b) = b[1]
         /\ 1 \in DOMAIN b
         /\ \A i \in DOMAIN Tail(b) :
              i + 1 \in DOMAIN b /\ Tail(b)[i] = b[i + 1]
              /\ Head(b) + FrameDuration <= Tail(b)[i]
         /\ \A i, j \in DOMAIN Tail(b) :
              i < j => Tail(b)[i] + FrameDuration <= Tail(b)[j]
<1>1. /\ Len(b) >= 1 /\ Tail(b) \in Seq(Nat) /\ Len(Tail(b)) = Len(b) - 1
      /\ Head(b) = b[1]
      /\ \A i \in 1..(Len(b) - 1) : Tail(b)[i] = b[i + 1]
  OBVIOUS
<1>2. \A i \in DOMAIN Tail(b) : i + 1 \in DOMAIN b /\ Tail(b)[i] = b[i + 1] /\ i \in Nat
  BY <1>1
<1>3. \A i \in DOMAIN Tail(b) : Head(b) + FrameDuration <= Tail(b)[i]
  <2> SUFFICES ASSUME NEW i \in DOMAIN Tail(b)
               PROVE  b[1] + FrameDuration <= b[i + 1]
    BY <1>1, <1>2
  <2>1. PICK j : j = i + 1
    OBVIOUS
  <2>2. j \in DOMAIN b /\ 1 \in DOMAIN b /\ 1 < j
    BY <1>1, <1>2, <2>1
  <2> QED BY <2>1, <2>2
<1>4. \A i, j \in DOMAIN Tail(b) :
        i < j => Tail(b)[i] + FrameDuration <= Tail(b)[j]
  <2> SUFFICES ASSUME NEW i \in DOMAIN Tail(b), NEW j \in DOMAIN Tail(b), i < j
               PROVE  b[i + 1] + FrameDuration <= b[j + 1]
    BY <1>2
  <2>1. PICK k, l : k = i + 1 /\ l = j + 1
    OBVIOUS
  <2>2. k \in DOMAIN b /\ l \in DOMAIN b /\ k < l
    BY <1>2, <2>1
  <2> QED BY <2>1, <2>2
<1> QED BY <1>1, <1>2, <1>3, <1>4

LEMMA WriteStep ==
  ASSUME IInv, NEW f \in Nat, Write(f),
         newest = None => f = First,
         newest # None => newest + FrameDuration <= f
  PROVE  IInv' /\ (jumpsToNewGop /\ NoStall => NoStall')
         /\ (held # None => held' = held /\ due' = due)
<1> DEFINE b == Append(buffer, f)
<1>1. /\ b \in Seq(Nat) /\ b # <<>>
      /\ \A i \in DOMAIN b : First <= b[i] /\ b[i] <= f
      /\ \A i, j \in DOMAIN b : i < j => b[i] + FrameDuration <= b[j]
      /\ held # None => /\ held <= f
                        /\ \A i \in DOMAIN b : held + FrameDuration <= b[i]
      /\ last # None => /\ last <= f
                        /\ \A i \in DOMAIN b : last + FrameDuration <= b[i]
  BY AppendSorted
<1> HIDE DEF b
<1>2. newest' = f /\ UNCHANGED <<jumpsToNewGop, now, last, firstMedia, latency, shownAt>> /\ f # None
  BY DEF Write, None
<1>3. CASE playerState = "BUFFERING" /\ BufferSize(b) >= Target
  <2>1. playerState' = "PLAYING" /\ QueueNext(b, anchor, last)
    BY <1>3 DEF Write, b
  <2>2. held = None /\ anchor = NoAnchor
    BY <1>3 DEF IInv, States
  <2>3. now \in Nat /\ due \in Nat /\ last \in Stamp
    BY DEF IInv, TypeOK
  <2>4. /\ held' = Head(b) /\ held' \in Nat /\ buffer' = Tail(b)
        /\ anchor' \in Anchors /\ due' \in Nat /\ queuedAt' = now
        /\ due' = IF Place(anchor', held') < now THEN now ELSE Place(anchor', held')
        /\ now <= due' /\ anchor'.local <= now /\ anchor'.media <= held'
        /\ jumpsToNewGop => due' <= now + JumpLimit + Early
    BY <1>1, <2>1, <2>2, <2>3, QueueFacts, SMTT(30)
  <2>5. /\ Tail(b) \in Seq(Nat) /\ 1 \in DOMAIN b /\ Head(b) = b[1]
        /\ \A i \in DOMAIN Tail(b) :
              i + 1 \in DOMAIN b /\ Tail(b)[i] = b[i + 1]
              /\ Head(b) + FrameDuration <= Tail(b)[i]
        /\ \A i, j \in DOMAIN Tail(b) :
              i < j => Tail(b)[i] + FrameDuration <= Tail(b)[j]
    BY <1>1, TakeHead
  <2>6. TypeOK'
    BY <1>2, <2>1, <2>3, <2>4, <2>5 DEF IInv, TypeOK, Stamp, Anchors
  <2>7. Sorted'
    <3>1. \A i \in DOMAIN buffer' : First <= buffer'[i] /\ buffer'[i] <= f
      BY <1>1, <2>4, <2>5
    <3>2. First <= held' /\ held' <= f
      BY <1>1, <2>4, <2>5
    <3>3. last # None => /\ last + FrameDuration <= held' /\ First <= last /\ last <= f
                         /\ \A i \in DOMAIN buffer' : last + FrameDuration <= buffer'[i]
      <4> HAVE last # None
      <4>1. First <= last
        BY DEF IInv, Sorted
      <4> QED BY <1>1, <2>4, <2>5, <4>1
    <3> QED BY <1>2, <2>4, <2>5, <3>1, <3>2, <3>3 DEF Sorted
  <2>8. States'
    BY <1>2, <2>1, <2>4, AnchorIsSet DEF States, None
  <2>9. OnTime' /\ NoDrift'
    BY <1>2, <2>3, <2>4 DEF OnTime, NoDrift
  <2>10. MediaAnchored'
    BY <1>2 DEF IInv, MediaAnchored
  <2>12. Reached'
    BY <1>2 DEF IInv, Reached, TypeOK, Stamp
  <2>11. jumpsToNewGop => NoStall'
    BY <2>4 DEF NoStall
  <2> QED BY <1>2, <2>2, <2>6, <2>7, <2>8, <2>9, <2>10, <2>11, <2>12 DEF IInv
<1>4. CASE ~(playerState = "BUFFERING" /\ BufferSize(b) >= Target)
  <2>1. buffer' = b /\ UNCHANGED <<playerState, anchor, held, due, queuedAt>>
    BY <1>4 DEF Write, b
  <2>2. TypeOK'
    BY <1>1, <1>2, <2>1 DEF IInv, TypeOK, Stamp
  <2>3. Sorted'
    <3>1. held # None => First <= held /\ (last # None => last + FrameDuration <= held)
      BY DEF IInv, Sorted
    <3>2. last # None => First <= last
      BY DEF IInv, Sorted
    <3> QED BY <1>1, <1>2, <2>1, <3>1, <3>2 DEF Sorted
  <2>4. States' /\ OnTime' /\ NoDrift' /\ MediaAnchored'
    BY <1>2, <2>1 DEF IInv, States, OnTime, NoDrift, MediaAnchored
  <2>5. Reached'
    BY <1>2 DEF IInv, Reached, TypeOK, Stamp
  <2> QED BY <1>2, <2>1, <2>2, <2>3, <2>4, <2>5 DEF IInv, NoStall
<1> QED BY <1>3, <1>4

\* What rendering the held frame leaves behind.
LEMMA RenderedFacts ==
  ASSUME IInv, TimerFires, Rendered
  PROVE  /\ held \in Nat /\ held # None /\ last' = held /\ latency' \in Int
         /\ firstMedia' \in Nat /\ shownAt' = now
         /\ UNCHANGED <<jumpsToNewGop, now, newest>>
         /\ MediaAnchored'
         /\ last # None =>
              latency' - latency = (now - shownAt) - (held - last)
                                     + (IF last = 0 THEN held ELSE 0)
<1>1. /\ held \in Nat /\ held # None /\ firstMedia \in Nat /\ now \in Nat
      /\ shownAt \in Nat /\ last \in Stamp /\ FirstAvailable \in Int
  BY DEF IInv, TypeOK, Stamp, TimerFires
<1>2. /\ last' = held /\ firstMedia' = MediaAnchor(held) /\ shownAt' = now
      /\ latency' = (now - FirstAvailable) - (held - MediaAnchor(held))
      /\ UNCHANGED <<jumpsToNewGop, now, newest>>
  BY DEF Rendered, Latency
<1>3. MediaAnchor(held) \in Nat /\ latency' \in Int
  BY <1>1, <1>2 DEF MediaAnchor
<1>4. /\ firstMedia = 0 <=> last \in {None, 0}
      /\ last # None => latency = (shownAt - FirstAvailable) - (last - firstMedia)
  BY DEF IInv, MediaAnchored
<1>5. last # None => last \in Nat /\ last < held
  BY <1>1 DEF IInv, Sorted, Stamp
<1>6. MediaAnchor(held) = 0 <=> held = 0
  <2>1. CASE firstMedia = 0
    BY <2>1 DEF MediaAnchor
  <2>2. CASE firstMedia # 0
    BY <1>4, <1>5, <1>1, <2>2 DEF MediaAnchor
  <2> QED BY <2>1, <2>2
<1>7. MediaAnchored'
  BY <1>1, <1>2, <1>6 DEF MediaAnchored
<1>8. ASSUME last # None
      PROVE  latency' - latency = (now - shownAt) - (held - last)
                                    + (IF last = 0 THEN held ELSE 0)
  <2>1. CASE last = 0
    <3>1. firstMedia = 0 /\ MediaAnchor(held) = held
      BY <1>4, <2>1 DEF MediaAnchor
    <3> QED BY <1>1, <1>2, <1>4, <1>8, <2>1, <3>1
  <2>2. CASE last # 0
    <3>1. MediaAnchor(held) = firstMedia /\ last \in Nat
      BY <1>4, <1>5, <1>8, <2>2 DEF MediaAnchor
    <3> QED BY <1>1, <1>2, <1>4, <1>8, <2>2, <3>1
  <2> QED BY <2>1, <2>2
<1> QED BY <1>1, <1>2, <1>3, <1>7, <1>8

\* What Paced and LatencySteady say of a step.
OnPace ==
  /\ jumpsToNewGop => FrameDuration <= JumpLimit
  /\ held # None /\ held' = held + FrameDuration
  /\ due = Place(anchor, held)
  => due' >= due + FrameDuration
Steady ==
  last # None => latency' - latency = (now - shownAt) - (last' - last)
                                        + (IF last = 0 THEN last' ELSE 0)

\* The timer fires with a frame in the buffer.
LEMMA RenderStep ==
  ASSUME IInv, RenderQueuesNext
  PROVE  /\ IInv' /\ NoStall'
         /\ OnPace
         /\ Steady
<1>1. /\ held \in Nat /\ held # None /\ last' = held /\ latency' \in Int
      /\ firstMedia' \in Nat /\ shownAt' = now
      /\ UNCHANGED <<jumpsToNewGop, now, newest>>
      /\ MediaAnchored' /\ Steady
  BY RenderedFacts DEF RenderQueuesNext, Steady
<1>2. /\ buffer \in Seq(Nat) /\ buffer # <<>> /\ now \in Nat /\ due \in Nat
      /\ held \in Stamp /\ QueueNext(buffer, anchor, held) /\ playerState' = playerState
      /\ now >= due - Early
  BY DEF IInv, TypeOK, RenderQueuesNext, TimerFires
<1>3. /\ Tail(buffer) \in Seq(Nat) /\ 1 \in DOMAIN buffer /\ Head(buffer) = buffer[1]
      /\ \A i \in DOMAIN Tail(buffer) :
            i + 1 \in DOMAIN buffer /\ Tail(buffer)[i] = buffer[i + 1]
            /\ Head(buffer) + FrameDuration <= Tail(buffer)[i]
      /\ \A i, j \in DOMAIN Tail(buffer) :
            i < j => Tail(buffer)[i] + FrameDuration <= Tail(buffer)[j]
  BY <1>2, TakeHead DEF IInv, Sorted
<1>4. /\ anchor \in Anchors /\ anchor # NoAnchor
      /\ Place(anchor, held) <= due
      /\ now <= due + Late /\ anchor.local <= now /\ anchor.media <= held
      /\ held + FrameDuration <= Head(buffer)
  <2>1. anchor # NoAnchor /\ anchor \in Anchors
    BY <1>1 DEF IInv, States, TypeOK, Anchors
  <2>2. anchor.local \in Nat /\ anchor.media \in Nat /\ queuedAt \in Nat
    BY <2>1 DEF Anchors, IInv, TypeOK
  <2>3. Place(anchor, held) \in Int
    BY <1>1, <2>2 DEF Place
  <2>4. Place(anchor, held) <= due
    BY <1>1, <2>2, <2>3 DEF IInv, NoDrift
  <2> QED BY <1>1, <1>2, <1>3, <2>1, <2>2, <2>4 DEF IInv, OnTime, Sorted
<1>5. /\ held' = Head(buffer) /\ held' \in Nat /\ buffer' = Tail(buffer)
      /\ anchor' \in Anchors /\ due' \in Nat /\ queuedAt' = now
      /\ due' = IF Place(anchor', held') < now THEN now ELSE Place(anchor', held')
      /\ now <= due' /\ anchor'.local <= now /\ anchor'.media <= held'
      /\ OnPace
      /\ jumpsToNewGop => due' <= now + JumpLimit + Early
  <2>1. /\ buffer \in Seq(Nat) /\ buffer # <<>> /\ held \in Stamp
        /\ now \in Nat /\ due \in Nat /\ QueueNext(buffer, anchor, held)
    BY <1>2
  <2>2. /\ anchor \in Anchors /\ held # None
        /\ Place(anchor, held) <= due
        /\ now <= due + Late /\ anchor.local <= now /\ anchor.media <= held
        /\ held + FrameDuration <= Head(buffer)
    BY <1>1, <1>4
  <2>3. /\ held' = Head(buffer) /\ held' \in Nat /\ buffer' = Tail(buffer)
        /\ anchor' \in Anchors
        /\ due' \in Nat /\ queuedAt' = now
        /\ due' = IF Place(anchor', held') < now THEN now ELSE Place(anchor', held')
        /\ now <= due' /\ anchor'.local <= now /\ anchor'.media <= held'
        /\ anchor # NoAnchor /\ held' = held + FrameDuration /\ due = Place(anchor, held)
           /\ (jumpsToNewGop => FrameDuration <= JumpLimit)
             => due' >= due + FrameDuration
        /\ jumpsToNewGop /\ (anchor # NoAnchor => now >= due - Early)
             => due' <= now + JumpLimit + Early
    BY ONLY <2>1, <2>2, QueueFacts, SMTT(30)
  <2>4. OnPace
    BY <1>4, <2>3 DEF OnPace
  <2> QED BY <1>2, <1>4, <2>3, <2>4
<1>6. TypeOK'
  BY <1>1, <1>2, <1>3, <1>5 DEF IInv, TypeOK, Stamp, Anchors
<1>7. Sorted'
  <2>1. First <= held /\ held <= newest
    BY <1>1 DEF IInv, Sorted
  <2>2. \A i \in DOMAIN buffer : First <= buffer[i] /\ buffer[i] <= newest
                               /\ held + FrameDuration <= buffer[i]
    BY <1>1 DEF IInv, Sorted
  <2> QED BY <1>1, <1>3, <1>5, <2>1, <2>2 DEF Sorted
<1>8. States'
  BY <1>1, <1>2, <1>5, AnchorIsSet DEF IInv, States, None
<1>9. OnTime' /\ NoDrift' /\ NoStall'
  BY <1>1, <1>2, <1>5 DEF OnTime, NoDrift, NoStall
<1>10. Reached' /\ MediaAnchored'
  BY <1>1 DEF IInv, Reached
<1> QED BY <1>1, <1>5, <1>6, <1>7, <1>8, <1>9, <1>10 DEF IInv

LEMMA UnderrunStep ==
  ASSUME IInv, RenderUnderruns
  PROVE  IInv' /\ NoStall' /\ held' = None /\ Steady
<1>1. /\ held \in Nat /\ held # None /\ last' = held /\ latency' \in Int
      /\ firstMedia' \in Nat /\ shownAt' = now /\ now \in Nat
      /\ UNCHANGED <<jumpsToNewGop, now, newest>>
      /\ MediaAnchored' /\ Steady
  BY RenderedFacts DEF RenderUnderruns, Steady, IInv, TypeOK
<1>2. /\ buffer = <<>> /\ playerState' = "BUFFERING" /\ anchor' = NoAnchor
      /\ held' = None /\ UNCHANGED <<buffer, due, queuedAt>>
  BY DEF RenderUnderruns
<1>3. TypeOK'
  BY <1>1, <1>2 DEF IInv, TypeOK, Stamp
<1>4. Sorted'
  BY <1>1, <1>2 DEF IInv, Sorted
<1>5. States' /\ OnTime' /\ NoDrift' /\ NoStall'
  BY <1>1, <1>2 DEF IInv, States, OnTime, NoDrift, NoStall
<1>6. Reached'
  BY <1>1 DEF IInv, Reached
<1> QED BY <1>1, <1>2, <1>3, <1>4, <1>5, <1>6 DEF IInv

LEMMA TickStep ==
  ASSUME IInv, Tick
  PROVE  IInv' /\ (NoStall => NoStall') /\ UNCHANGED <<held, due, last>>
<1>1. now' = now + 1 /\ now \in Nat /\ (held # None => now < due + Late)
      /\ due \in Nat
      /\ UNCHANGED <<jumpsToNewGop, newest, buffer, playerState, anchor, held, due,
                     queuedAt, last, firstMedia, latency, shownAt>>
  BY DEF IInv, TypeOK, Tick
<1>2. TypeOK'
  BY <1>1 DEF IInv, TypeOK
<1>3. OnTime'
  BY <1>1 DEF IInv, TypeOK, OnTime
<1>4. Sorted' /\ States' /\ Reached' /\ MediaAnchored' /\ NoDrift'
  BY <1>1 DEF IInv, Sorted, States, Reached, MediaAnchored, NoDrift, Place
<1> QED BY <1>1, <1>2, <1>3, <1>4 DEF IInv, NoStall

Newer(f) ==
  /\ newest = None => f = First
  /\ newest # None => newest + FrameDuration <= f

\* The writes of Next are of frames newer than all before them.
LEMMA WritesAreNewer ==
  ASSUME IInv, WriteFirst \/ \E n \in 1..MaxSkip : WriteNext(n)
  PROVE  \E f \in Nat : Write(f) /\ Newer(f)
<1>1. CASE WriteFirst
  BY <1>1 DEF WriteFirst, Newer
<1>2. ASSUME NEW n \in 1..MaxSkip, WriteNext(n)
      PROVE  \E f \in Nat : Write(f) /\ Newer(f)
  <2>1. newest \in Nat /\ newest # None /\ Write(newest + n * FrameDuration)
    BY <1>2 DEF WriteNext, IInv, TypeOK, Stamp
  <2>2. n \in Nat /\ n >= 1 /\ FrameDuration \in Nat
    OBVIOUS
  <2>3. n * FrameDuration \in Nat /\ n * FrameDuration >= FrameDuration
    BY <2>2
  <2> QED BY <2>1, <2>3 DEF Newer
<1> QED BY <1>1, <1>2

\* One step, with all that is shown of it.
LEMMA Step ==
  ASSUME IInv, [Next]_vars
  PROVE  /\ IInv'
         /\ NoStall => NoStall'
         /\ OnPace
         /\ last' # last => Steady
<1>0. held # None => held \in Nat /\ held # held + FrameDuration
                     /\ None # held + FrameDuration
  BY DEF IInv, TypeOK, Stamp, None
<1>1. CASE UNCHANGED vars
  <2>1. IInv'
    BY <1>1 DEF vars, IInv, TypeOK, Sorted, States, OnTime, Reached,
                MediaAnchored, NoDrift, Place
  <2> QED BY <1>0, <1>1, <2>1 DEF vars, NoStall, OnPace
<1>2. CASE WriteFirst \/ \E n \in 1..MaxSkip : WriteNext(n)
  <2>1. PICK f \in Nat : Write(f) /\ Newer(f)
    BY <1>2, WritesAreNewer
  <2>2. last' = last /\ jumpsToNewGop' = jumpsToNewGop
    BY <2>1 DEF Write
  <2>3. IInv' /\ (jumpsToNewGop /\ NoStall => NoStall')
        /\ (held # None => held' = held /\ due' = due)
    BY <2>1, WriteStep DEF Newer
  <2>4. ~jumpsToNewGop => NoStall'
    BY <2>2 DEF NoStall
  <2> QED BY <1>0, <2>2, <2>3, <2>4 DEF OnPace
<1>3. CASE RenderQueuesNext  BY <1>3, RenderStep
<1>4. CASE RenderUnderruns  BY <1>4, <1>0, UnderrunStep DEF OnPace
<1>5. CASE Tick  BY <1>5, <1>0, TickStep DEF OnPace
<1> QED BY <1>1, <1>2, <1>3, <1>4, <1>5 DEF Next

LEMMA Start == Init => IInv /\ NoStall
<1> SUFFICES ASSUME Init PROVE IInv /\ NoStall
  OBVIOUS
<1>1. TypeOK
  BY DEF Init, TypeOK, Stamp
<1>2. DOMAIN buffer = {}
  BY DEF Init
<1>3. Sorted
  BY <1>2 DEF Init, Sorted
<1>4. States /\ OnTime /\ Reached /\ MediaAnchored /\ NoDrift /\ NoStall
  BY DEF Init, States, OnTime, Reached, MediaAnchored, NoDrift, NoStall
<1> QED BY <1>1, <1>3, <1>4 DEF IInv

\* The inductive invariant of the render clock holds.
THEOREM Invariance == Spec => []IInv
<1>1. IInv /\ [Next]_vars => IInv'
  BY Step
<1> QED BY <1>1, Start, PTL DEF Spec

\* Type correctness of the render clock.
THEOREM TypeCorrect == Spec => []TypeOK
  BY Invariance, PTL DEF IInv

\* Timers are set on one time line; their errors do not add up.
THEOREM ClockDoesNotDrift == Spec => []NoDrift
  BY Invariance, PTL DEF IInv

\* Skipped GoPs do not stall the picture.
THEOREM JumpsDoNotStall == Spec => []NoStall
<1>1. IInv /\ NoStall /\ [Next]_vars => NoStall'
  BY Step
<1> QED BY <1>1, Start, Invariance, PTL DEF Spec

\* Successive frames keep their distance, where a frame is no longer than the jump limit.
THEOREM FramesArePaced == Spec => Paced
<1>1. IInv /\ [Next]_vars =>
        [/\ jumpsToNewGop => FrameDuration <= JumpLimit
         /\ held # None /\ held' = held + FrameDuration
         /\ due = Place(anchor, held)
         => due' >= due + FrameDuration]_vars
  BY Step DEF OnPace
<1> QED BY <1>1, Invariance, PTL DEF Spec, Paced

\* The logged latencies refer to the same two anchors throughout.
THEOREM LatenciesSteady == Spec => LatencySteady
<1>1. IInv /\ [Next]_vars =>
        [last' # last /\ last # None =>
           latency' - latency = (now - shownAt) - (last' - last)
                                  + (IF last = 0 THEN last' ELSE 0)]_vars
  BY Step DEF Steady
<1> QED BY <1>1, Invariance, PTL DEF Spec, LatencySteady
=============================================================================
