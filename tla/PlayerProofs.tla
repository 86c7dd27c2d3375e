---------------------------- MODULE PlayerProofs ----------------------------
(* Proofs about Player, for any number of plays and frames: types, the     *)
(* bound on sleeping queueNextFrame calls, the order of rendering, the     *)
(* subscriptions that pause() leaves behind, and the waits of a session.   *)
EXTENDS Player, SequenceTheorems, FiniteSetTheorems, WellFoundedInduction, TLAPS

USE PlayerAssumption DEF Plays, Frames, Id, NoId

\* Taking a call out of the list of sleeping calls.
LEMMA RemoveAtFacts ==
  ASSUME NEW S, NEW q \in Seq(S), NEW i \in DOMAIN q
  PROVE  RemoveAt(q, i) \in Seq(S) /\ Len(RemoveAt(q, i)) = Len(q) - 1
<1>1. Len(q) \in Nat /\ i \in 1..Len(q) /\ \A k \in 1..Len(q) : q[k] \in S
  BY ElementOfSeq
<1>2. SubSeq(q, 1, i - 1) \in Seq(S) /\ Len(SubSeq(q, 1, i - 1)) = i - 1
  BY <1>1, SubSeqProperties
<1>3. SubSeq(q, i + 1, Len(q)) \in Seq(S) /\ Len(SubSeq(q, i + 1, Len(q))) = Len(q) - i
  <2>1. \A k \in (i + 1)..Len(q) : q[k] \in S BY <1>1
  <2> QED BY <1>1, <2>1, SubSeqProperties
<1> DEFINE a == SubSeq(q, 1, i - 1)
           b == SubSeq(q, i + 1, Len(q))
<1>4. a \in Seq(S) /\ b \in Seq(S) /\ Len(a) = i - 1 /\ Len(b) = Len(q) - i
  BY <1>2, <1>3
<1>5. RemoveAt(q, i) = a \o b BY DEF RemoveAt
<1> HIDE DEF a, b
<1>6. a \o b \in Seq(S) /\ Len(a \o b) = Len(a) + Len(b)
  BY <1>4, ConcatProperties
<1> QED BY <1>1, <1>4, <1>5, <1>6

\* The buffer with one more frame, and what is left once its head is taken.
LEMMA AppendFacts ==
  ASSUME NEW S, NEW q \in Seq(S), NEW e \in S
  PROVE  /\ Append(q, e) \in Seq(S) /\ Len(Append(q, e)) = Len(q) + 1 /\ Len(q) \in Nat
         /\ \A k \in DOMAIN q : Append(q, e)[k] = q[k] /\ k \in 1..Len(q)
         /\ Append(q, e)[Len(q) + 1] = e /\ 1 \in DOMAIN Append(q, e)
         /\ \A k \in DOMAIN Append(q, e) : k \in DOMAIN q \/ k = Len(q) + 1
         /\ Append(q, e)[1] \in S /\ Tail(Append(q, e)) \in Seq(S)
         /\ \A k \in DOMAIN Tail(Append(q, e)) :
              /\ k \in Nat \ {0} /\ k + 1 \in DOMAIN Append(q, e)
              /\ Tail(Append(q, e))[k] = Append(q, e)[k + 1]
<1>1. /\ Append(q, e) \in Seq(S) /\ Len(Append(q, e)) = Len(q) + 1 /\ Len(q) \in Nat
      /\ \A k \in 1..Len(q) : Append(q, e)[k] = q[k]
      /\ Append(q, e)[Len(q) + 1] = e /\ DOMAIN q = 1..Len(q)
      /\ DOMAIN Append(q, e) = 1..(Len(q) + 1)
  OBVIOUS
<1>2. Append(q, e)[1] \in S BY <1>1, ElementOfSeq
<1>3. Append(q, e) # <<>> BY <1>1
<1>4. /\ Tail(Append(q, e)) \in Seq(S) /\ Len(Tail(Append(q, e))) = Len(q)
      /\ \A k \in 1..Len(q) : Tail(Append(q, e))[k] = Append(q, e)[k + 1]
  BY <1>1, <1>3, HeadTailProperties
<1>5. DOMAIN Tail(Append(q, e)) = 1..Len(q) BY <1>4
<1> QED BY <1>1, <1>2, <1>4, <1>5

\* The head of the buffer, and what is left once it is taken.
LEMMA ShiftFacts ==
  ASSUME NEW S, NEW q \in Seq(S), q # <<>>
  PROVE  /\ Head(q) \in S /\ Head(q) = q[1] /\ 1 \in DOMAIN q /\ Tail(q) \in Seq(S)
         /\ \A k \in DOMAIN q : k \in Nat /\ k >= 1
         /\ \A k \in DOMAIN Tail(q) :
              k \in Nat \ {0} /\ k + 1 \in DOMAIN q /\ Tail(q)[k] = q[k + 1]
<1>1. Len(q) \in Nat \ {0} /\ DOMAIN q = 1..Len(q) /\ Head(q) = q[1]
  BY EmptySeq, LenProperties
<1>2. /\ Tail(q) \in Seq(S) /\ Len(Tail(q)) = Len(q) - 1 /\ Head(q) \in S
      /\ \A k \in 1..Len(Tail(q)) : Tail(q)[k] = q[k + 1]
  BY HeadTailProperties
<1>3. DOMAIN Tail(q) = 1..(Len(q) - 1) BY <1>2, LenProperties
<1> QED BY <1>1, <1>2, <1>3

\* The player before the first click.
LEMMA InitInv == Init => IInv
<1> SUFFICES ASSUME Init PROVE IInv OBVIOUS
<1> USE DEF Init
<1>1. isRebuffering \in BOOLEAN /\ initSegment \in BOOLEAN /\ enabled \in BOOLEAN OBVIOUS
<1>2. TypeOK BY <1>1 DEF TypeOK, Steps, SettingUp
<1>3. LoopBound BY DEF LoopBound
<1>4. NotYetPlayed /\ FirstPlayInOrder BY DEF NotYetPlayed, FirstPlayInOrder
<1> QED BY <1>2, <1>3, <1>4 DEF IInv

\* Logging an event keeps the log well typed.
LEMMA LogEventType ==
  ASSUME TypeOK, NEW e \in {"start", "end"}, LogEvent(e)
  PROVE  bufferingEvents' \in Seq({"start", "end"})
  BY DEF TypeOK, LogEvent

\* A SUBSCRIBE of an existing call keeps the set-up state well typed.
LEMMA SubscribeType ==
  ASSUME TypeOK, NEW p \in Plays, NEW t \in {"init", "video"}, Subscribe(p, t)
  PROVE  /\ step' \in [Plays -> Steps] /\ subId' \in [Plays -> Id]
         /\ subs' \subseteq Subscription /\ nextId' \in Id
         /\ \A q \in Plays : q # p => step'[q] = step[q]
<1> USE DEF Subscribe, TypeOK
<1>1. step' \in [Plays -> Steps] /\ \A q \in Plays : q # p => step'[q] = step[q]
  BY DEF Steps, SettingUp
<1>2. subId' \in [Plays -> Id] /\ nextId' \in Id OBVIOUS
<1>3. [id |-> nextId, track |-> t, play |-> p] \in Subscription BY DEF Subscription
<1> QED BY <1>1, <1>2, <1>3

\* A click on "Watch stream".
LEMMA StartInv == IInv /\ StartWatching => IInv'
<1> SUFFICES ASSUME IInv, StartWatching PROVE IInv' OBVIOUS
<1> USE DEF IInv, StartWatching
<1>1. plays + 1 \in Plays /\ plays \in Nat BY DEF TypeOK
<1>2. /\ step' \in [Plays -> Steps] /\ subId' \in [Plays -> Id]
      /\ subs' \subseteq Subscription /\ nextId' \in Id
      /\ \A q \in Plays : q # plays + 1 => step'[q] = step[q]
  BY <1>1, SubscribeType
<1>3. isRebuffering' \in BOOLEAN /\ initSegment' \in BOOLEAN /\ enabled' \in BOOLEAN
  BY DEF TypeOK
<1>4. buffer' \in Seq(Frames) /\ bufferingEvents' \in Seq({"start", "end"}) OBVIOUS
<1>5. TypeOK'
  <2>1. plays' \in 0..MaxPlays /\ playerState' \in {"PAUSED", "BUFFERING", "PLAYING"}
    BY <1>1
  <2>2. /\ held' \in Seq(Frames) /\ lastRendered' \in 0..MaxPts
        /\ emitted' \in [Plays -> 0..MaxPts] /\ interrupted' \subseteq Plays
        /\ initTrackSubscriptionId' \in Id /\ videoTrackSubscriptionId' \in Id
    BY DEF TypeOK
  <2> QED BY <1>2, <1>3, <1>4, <2>1, <2>2 DEF TypeOK
<1>6. LoopBound'
  <2>1. Len(held) \in Nat BY DEF TypeOK
  <2> QED BY <1>1, <2>1 DEF LoopBound
<1>7. NotYetPlayed' BY <1>1, <1>2 DEF NotYetPlayed
<1>8. FirstPlayInOrder'
  <2>1. CASE plays = 0
    <3>1. held' = <<>> /\ buffer' = <<>> /\ lastRendered' = 0 BY <2>1 DEF NotYetPlayed
    <3>2. \A p \in Plays : emitted'[p] \in Nat BY DEF TypeOK
    <3> QED BY <3>1, <3>2 DEF FirstPlayInOrder
  <2>2. CASE plays # 0 BY <1>1, <2>2 DEF FirstPlayInOrder
  <2> QED BY <2>1, <2>2
<1> QED BY <1>5, <1>6, <1>7, <1>8

\* The set-up of a call that was made leaves frames and timers alone.
LEMMA SetupInv == ASSUME IInv, NEW p \in Plays, Setup(p) PROVE IInv'
<1> USE DEF IInv
<1>1. /\ step[p] # "idle"
      /\ step' \in [Plays -> Steps] /\ \A q \in Plays : q # p => step'[q] = step[q]
      /\ subId' \in [Plays -> Id] /\ subs' \subseteq Subscription /\ nextId' \in Id
      /\ initTrackSubscriptionId' \in Id /\ videoTrackSubscriptionId' \in Id
      /\ initSegment' \in BOOLEAN
      /\ UNCHANGED <<renderVars, logVars, plays, emitted, interrupted>>
  <2>1. CASE InitSubscribed(p) \/ VideoSubscribed(p)
    <3>1. step[p] # "idle" /\ step' \in [Plays -> Steps]
      BY <2>1 DEF InitSubscribed, VideoSubscribed, TypeOK, Steps, SettingUp
    <3>2. \A q \in Plays : q # p => step'[q] = step[q]
      BY <2>1 DEF InitSubscribed, VideoSubscribed, TypeOK
    <3>3. initTrackSubscriptionId' \in Id /\ videoTrackSubscriptionId' \in Id
      BY <2>1 DEF InitSubscribed, VideoSubscribed, TypeOK
    <3>4. initSegment' \in BOOLEAN BY <2>1 DEF InitSubscribed, VideoSubscribed, TypeOK
    <3>5. UNCHANGED <<renderVars, logVars, plays, emitted, interrupted, subId, subs, nextId>>
      BY <2>1 DEF InitSubscribed, VideoSubscribed
    <3> QED BY <3>1, <3>2, <3>3, <3>4, <3>5 DEF TypeOK
  <2>2. CASE InitSegmentRead(p)
    <3>1. Subscribe(p, "video") /\ step[p] # "idle" BY <2>2 DEF InitSegmentRead
    <3> QED BY <2>2, <3>1, SubscribeType DEF InitSegmentRead, TypeOK
  <2>3. CASE SetupFailed(p)
    <3>1. step[p] # "idle" /\ step' \in [Plays -> Steps]
      BY <2>3 DEF SetupFailed, TypeOK, Steps, SettingUp
    <3>2. \A q \in Plays : q # p => step'[q] = step[q] BY <2>3 DEF SetupFailed, TypeOK
    <3>3. initSegment' \in BOOLEAN BY <2>3, Zenon DEF SetupFailed, TypeOK
    <3> QED BY <2>3, <3>1, <3>2, <3>3 DEF SetupFailed, TypeOK
  <2> QED BY <2>1, <2>2, <2>3 DEF Setup
<1>2. isRebuffering' \in BOOLEAN /\ enabled' \in BOOLEAN
  BY <1>1 DEF renderVars, logVars, TypeOK
<1>3. TypeOK' BY <1>1, <1>2 DEF TypeOK, renderVars, logVars
<1>4. LoopBound' BY <1>1 DEF LoopBound, renderVars
<1>5. NotYetPlayed'
  <2>1. ASSUME NEW q \in Plays, q > plays PROVE step'[q] = "idle"
    BY <1>1, <2>1 DEF NotYetPlayed
  <2> QED BY <1>1, <2>1 DEF NotYetPlayed, renderVars
<1>6. FirstPlayInOrder' BY <1>1 DEF FirstPlayInOrder, renderVars
<1> QED BY <1>3, <1>4, <1>5, <1>6

\* A click on "Stop stream".
LEMMA StopInv == IInv /\ StopWatching => IInv'
<1> SUFFICES ASSUME IInv, StopWatching PROVE IInv' OBVIOUS
<1> USE DEF IInv, StopWatching
<1>1. isRebuffering' \in BOOLEAN /\ initSegment' \in BOOLEAN /\ enabled' \in BOOLEAN
  BY DEF TypeOK
<1>2. TypeOK' BY <1>1 DEF TypeOK
<1>3. LoopBound' BY DEF LoopBound
<1>4. NotYetPlayed' BY DEF NotYetPlayed
<1>5. FirstPlayInOrder' BY DEF FirstPlayInOrder
<1> QED BY <1>2, <1>3, <1>4, <1>5

\* A decoded frame in order after everything that came before it.
LEMMA EmitFacts ==
  ASSUME IInv, NEW p \in Plays, NEW pts \in Frames, Emit(p, pts)
  PROVE  /\ emitted' \in [Plays -> 0..MaxPts]
         /\ plays # 0
         /\ plays <= 1 => p = 1 /\ emitted[1] < pts /\ emitted'[1] = pts
         /\ emitted[p] \in Nat
<1> USE DEF IInv, Emit
<1>1. emitted' \in [Plays -> 0..MaxPts] /\ emitted'[p] = pts /\ emitted[p] \in Nat
  BY DEF TypeOK
<1>2. p <= plays
  <2>1. step[p] # "idle" OBVIOUS
  <2> QED BY <2>1 DEF NotYetPlayed, TypeOK
<1>3. plays \in Nat BY DEF TypeOK
<1> QED BY <1>1, <1>2, <1>3

\* The decoder hands a frame to write(): dropped, buffered, or the one that starts
\* playback.
LEMMA WriteInv == ASSUME IInv, NEW p \in Plays, NEW pts \in Frames, Write(p, pts) PROVE IInv'
<1> USE DEF IInv
<1>0. Emit(p, pts) BY DEF Write, WritePaused, WriteBuffers, WriteResumes
<1>1. /\ emitted' \in [Plays -> 0..MaxPts] /\ plays # 0 /\ emitted[p] \in Nat
      /\ plays <= 1 => p = 1 /\ emitted[1] < pts /\ emitted'[1] = pts
  BY <1>0, EmitFacts
<1>2. UNCHANGED <<setupVars, enabled, lastRendered>>
  BY DEF Write, WritePaused, WriteBuffers, WriteResumes, renderVars, logVars
<1>3. buffer \in Seq(Frames) /\ held \in Seq(Frames) /\ plays \in Nat /\ lastRendered \in Nat
  BY DEF TypeOK
<1>4. initSegment' \in BOOLEAN /\ enabled' \in BOOLEAN BY <1>2 DEF TypeOK, setupVars
<1>5. NotYetPlayed'
  BY <1>1, <1>2 DEF NotYetPlayed, setupVars
<1>6. CASE WritePaused(p, pts)
  <2>1. UNCHANGED <<renderVars, logVars>> BY <1>6 DEF WritePaused
  <2>2. isRebuffering' \in BOOLEAN BY <2>1 DEF TypeOK, renderVars
  <2>3. TypeOK' BY <1>1, <1>2, <1>4, <2>1, <2>2 DEF TypeOK, renderVars, logVars, setupVars
  <2>4. LoopBound' BY <1>2, <2>1 DEF LoopBound, renderVars, setupVars
  <2>5. FirstPlayInOrder'
    <3>1. \A k \in DOMAIN held : held[k] \in Nat BY <1>3
    <3>2. \A k \in DOMAIN buffer : buffer[k] \in Nat BY <1>3
    <3> QED BY <1>1, <1>2, <1>3, <2>1, <3>1, <3>2 DEF FirstPlayInOrder, renderVars, setupVars
  <2> QED BY <1>5, <2>3, <2>4, <2>5
<1>7. CASE WriteBuffers(p, pts)
  <2> DEFINE q == Append(buffer, pts)
  <2>1. buffer' = q /\ UNCHANGED <<playerState, held, isRebuffering, lastRendered, logVars>>
    BY <1>7 DEF WriteBuffers
  <2>2. isRebuffering' \in BOOLEAN BY <2>1 DEF TypeOK
  <2>3. TypeOK'
    <3>1. buffer' \in Seq(Frames) BY <1>3, <2>1
    <3> QED BY <1>1, <1>2, <1>4, <2>1, <2>2, <3>1 DEF TypeOK, logVars, setupVars
  <2>4. LoopBound' BY <1>2, <2>1 DEF LoopBound, setupVars
  <2>5. FirstPlayInOrder'
    <3>1. SUFFICES ASSUME plays <= 1 PROVE FirstPlayInOrder'
      BY <1>2 DEF FirstPlayInOrder, setupVars
    <3>2. \A k \in DOMAIN held : held[k] \in Nat /\ held[k] < pts
      BY <1>1, <1>3, <3>1 DEF FirstPlayInOrder
    <3>3. \A k \in DOMAIN buffer : buffer[k] \in Nat /\ buffer[k] < pts
      BY <1>1, <1>3, <3>1 DEF FirstPlayInOrder
    <3>4. lastRendered < pts BY <1>1, <1>3, <3>1 DEF FirstPlayInOrder
    <3>5. \A k \in DOMAIN q : \/ k \in DOMAIN buffer /\ q[k] = buffer[k] /\ k <= Len(buffer)
                              \/ k = Len(buffer) + 1 /\ q[k] = pts
      <4>1. /\ \A k \in DOMAIN buffer : q[k] = buffer[k] /\ k \in 1..Len(buffer)
            /\ q[Len(buffer) + 1] = pts /\ Len(buffer) \in Nat
            /\ \A k \in DOMAIN q : k \in DOMAIN buffer \/ k = Len(buffer) + 1
        BY <1>3, AppendFacts
      <4> HIDE DEF q
      <4> QED BY <4>1
    <3>6. \A j, k \in DOMAIN q : j < k => q[j] <= q[k]
      <4>1. /\ \A j, k \in DOMAIN buffer : j < k => buffer[j] <= buffer[k]
            /\ \A k \in DOMAIN buffer : buffer[k] < pts /\ buffer[k] \in Nat /\ k \in 1..Len(buffer)
            /\ Len(buffer) \in Nat /\ pts \in Nat
        BY <1>3, <3>1, <3>3, PlayerAssumption DEF FirstPlayInOrder
      <4> HIDE DEF q
      <4> QED BY <3>5, <4>1
    <3> HIDE DEF q
    <3>7. \A k \in DOMAIN q : /\ q[k] \in Nat /\ lastRendered <= q[k] /\ q[k] <= pts
                             /\ \A h \in DOMAIN held : held[h] <= q[k]
      <4>1. pts \in Nat BY PlayerAssumption
      <4>2. \A k \in DOMAIN buffer : /\ lastRendered <= buffer[k]
                                     /\ \A h \in DOMAIN held : held[h] <= buffer[k]
        BY <3>1 DEF FirstPlayInOrder
      <4>3. lastRendered <= pts /\ \A h \in DOMAIN held : held[h] <= pts
        BY <1>3, <3>2, <3>4, <4>1
      <4>4. \A k \in DOMAIN buffer : buffer[k] <= pts BY <3>3, <4>1
      <4> QED BY <3>3, <3>5, <4>1, <4>2, <4>3, <4>4
    <3>8. \A k \in DOMAIN held : lastRendered <= held[k] BY <3>1 DEF FirstPlayInOrder
    <3>9. buffer' = q /\ held' = held /\ lastRendered' = lastRendered BY <2>1
    <3>10. \A r \in Plays : r = 1 =>
             /\ lastRendered' <= emitted'[r]
             /\ \A k \in DOMAIN held' : held'[k] <= emitted'[r]
             /\ \A j \in DOMAIN buffer' : buffer'[j] <= emitted'[r]
      BY <1>1, <1>3, <3>1, <3>2, <3>4, <3>7, <3>9
    <3> QED BY <3>6, <3>7, <3>8, <3>9, <3>10 DEF FirstPlayInOrder
  <2> QED BY <1>5, <2>3, <2>4, <2>5
<1>8. CASE WriteResumes(p, pts)
  <2> DEFINE q == Append(buffer, pts)
  <2>1. /\ buffer' = Tail(q) /\ held' = Append(held, q[1]) /\ playerState = "BUFFERING"
        /\ playerState' = "PLAYING" /\ isRebuffering' = TRUE /\ LogEvent("end")
    BY <1>8 DEF WriteResumes
  <2>2. bufferingEvents' \in Seq({"start", "end"}) BY <2>1, LogEventType
  <2>3. /\ q[1] \in Frames /\ Tail(q) \in Seq(Frames) /\ held' \in Seq(Frames)
        /\ Len(held') = Len(held) + 1 /\ Len(held) \in Nat
    BY <1>3, <2>1, AppendFacts
  <2>4. TypeOK'
    <3>1. isRebuffering' \in BOOLEAN BY <2>1
    <3> QED BY <1>1, <1>2, <1>4, <2>1, <2>2, <2>3, <3>1 DEF TypeOK, setupVars
  <2>5. LoopBound'
    <3>1. held' # <<>> BY <2>3
    <3> QED BY <1>2, <1>3, <2>1, <2>3, <3>1 DEF LoopBound, setupVars
  <2>6. FirstPlayInOrder'
    <3>1. SUFFICES ASSUME plays <= 1 PROVE FirstPlayInOrder'
      BY <1>2 DEF FirstPlayInOrder, setupVars
    <3>2. held = <<>> BY <1>3, <2>1, <2>3, <3>1 DEF LoopBound
    <3>3. \A k \in DOMAIN held' : held'[k] = q[1] BY <2>1, <3>2
    <3>4. \A k \in DOMAIN buffer : buffer[k] \in Nat /\ buffer[k] < pts /\ k \in 1..Len(buffer)
      BY <1>1, <1>3, <3>1 DEF FirstPlayInOrder
    <3>5. \A k \in DOMAIN q : \/ k \in DOMAIN buffer /\ q[k] = buffer[k]
                              \/ k = Len(buffer) + 1 /\ q[k] = pts
      <4>1. /\ \A k \in DOMAIN buffer : q[k] = buffer[k] /\ k \in 1..Len(buffer)
            /\ q[Len(buffer) + 1] = pts /\ Len(buffer) \in Nat
            /\ \A k \in DOMAIN q : k \in DOMAIN buffer \/ k = Len(buffer) + 1
        BY <1>3, AppendFacts
      <4> HIDE DEF q
      <4> QED BY <4>1
    <3>6. \A j, k \in DOMAIN q : j < k => q[j] <= q[k]
      <4>1. /\ \A j, k \in DOMAIN buffer : j < k => buffer[j] <= buffer[k]
            /\ \A k \in DOMAIN buffer : buffer[k] < pts /\ buffer[k] \in Nat /\ k \in 1..Len(buffer)
            /\ Len(buffer) \in Nat /\ pts \in Nat
        BY <1>3, <3>1, <3>4, PlayerAssumption DEF FirstPlayInOrder
      <4> HIDE DEF q
      <4> QED BY <3>5, <4>1
    <3>7. \A k \in DOMAIN q : q[k] \in Nat /\ lastRendered <= q[k] /\ q[k] <= pts
      BY <1>1, <1>3, <3>1, <3>4, <3>5 DEF FirstPlayInOrder
    <3>8. /\ 1 \in DOMAIN q
          /\ \A k \in DOMAIN buffer' :
               k \in Nat \ {0} /\ k + 1 \in DOMAIN q /\ buffer'[k] = q[k + 1]
      BY <1>3, <2>1, AppendFacts
    <3>9. lastRendered <= pts BY <1>1, <1>3, <3>1 DEF FirstPlayInOrder
    <3>10. \A j, k \in DOMAIN buffer' : j < k => buffer'[j] <= buffer'[k]
      <4> TAKE j, k \in DOMAIN buffer'
      <4>1. j + 1 \in DOMAIN q /\ k + 1 \in DOMAIN q /\ j \in Nat /\ k \in Nat BY <3>8
      <4> QED BY <3>6, <3>8, <4>1
    <3>11. \A k \in DOMAIN buffer' :
             q[1] <= buffer'[k] /\ lastRendered <= buffer'[k] /\ buffer'[k] <= pts
      <4> TAKE k \in DOMAIN buffer'
      <4>1. k + 1 \in DOMAIN q /\ buffer'[k] = q[k + 1] /\ 1 < k + 1 /\ 1 \in DOMAIN q
        BY <3>8
      <4>2. q[1] <= q[k + 1] BY <3>6, <4>1
      <4>3. lastRendered <= q[k + 1] /\ q[k + 1] <= pts BY <3>7, <4>1
      <4> QED BY <4>1, <4>2, <4>3
    <3> HIDE DEF q
    <3> QED BY <1>1, <1>2, <1>3, <3>1, <3>3, <3>7, <3>8, <3>9, <3>10, <3>11
            DEF FirstPlayInOrder, setupVars
  <2> QED BY <1>5, <2>4, <2>5, <2>6
<1> QED BY <1>6, <1>7, <1>8 DEF Write

\* A timer fires: its call stops, starts buffering or takes the next frame.
LEMMA TimerInv == ASSUME IInv, NEW i \in DOMAIN held, Timer(i) PROVE IInv'
<1> USE DEF IInv
<1>1. lastRendered' = held[i] /\ UNCHANGED <<isRebuffering, enabled, setupVars, emitted>>
  BY DEF Timer, RenderStops, RenderUnderruns, RenderQueuesNext, Render
<1>2. /\ buffer \in Seq(Frames) /\ held \in Seq(Frames) /\ plays \in Nat
      /\ lastRendered \in Nat /\ Len(held) \in Nat
      /\ emitted \in [Plays -> 0..MaxPts]
  BY DEF TypeOK
<1>3. held[i] \in Frames /\ lastRendered' \in 0..MaxPts /\ Len(held) # 0
  BY <1>1, <1>2
<1>4. /\ initSegment' \in BOOLEAN /\ enabled' \in BOOLEAN /\ isRebuffering' \in BOOLEAN
  BY <1>1 DEF TypeOK, setupVars
<1>5. plays # 0 BY <1>2, <1>3 DEF NotYetPlayed
<1>6. NotYetPlayed' BY <1>1, <1>5 DEF NotYetPlayed, setupVars
<1>7. ASSUME plays <= 1
      PROVE  /\ Len(held) = 1 /\ i = 1
             /\ \A j \in DOMAIN buffer : buffer[j] \in Nat /\ held[i] <= buffer[j]
             /\ \A p \in Plays : p = 1 => held[i] <= emitted[p]
  <2>1. Len(held) <= plays BY DEF LoopBound
  <2>2. Len(held) = 1
    <3>1. plays = 1 BY <1>2, <1>5, <1>7
    <3>2. Len(held) \in Nat BY <1>2
    <3>3. Len(held) # 0 BY <1>3
    <3>4. Len(held) <= 1 BY <2>1, <3>1
    <3>5. \A n \in Nat : n # 0 /\ n <= 1 => n = 1 OBVIOUS
    <3> QED BY <3>2, <3>3, <3>4, <3>5
  <2>3. i \in 1..Len(held) BY <1>2
  <2>4. i = 1 BY <2>2, <2>3
  <2>5. \A j \in DOMAIN buffer : buffer[j] \in Nat BY <1>2
  <2> QED BY <1>7, <2>2, <2>4, <2>5 DEF FirstPlayInOrder
<1>8. CASE RenderStops(i) \/ RenderUnderruns(i)
  <2>1. /\ held' = RemoveAt(held, i) /\ UNCHANGED buffer
        /\ \/ playerState = "PAUSED" /\ UNCHANGED <<playerState, bufferingEvents>>
           \/ playerState' = "BUFFERING" /\ LogEvent("start")
    BY <1>8 DEF RenderStops, RenderUnderruns
  <2>2. held' \in Seq(Frames) /\ Len(held') = Len(held) - 1
    BY <1>2, <2>1, RemoveAtFacts
  <2>3. bufferingEvents' \in Seq({"start", "end"}) BY <2>1, LogEventType DEF TypeOK
  <2>4. TypeOK'
    <3>1. playerState' \in {"PAUSED", "BUFFERING", "PLAYING"} BY <2>1
    <3> QED BY <1>1, <1>3, <1>4, <2>1, <2>2, <2>3, <3>1 DEF TypeOK, setupVars
  <2>5. LoopBound'
    <3>1. plays' = plays BY <1>1 DEF setupVars
    <3> QED BY <1>2, <1>5, <2>1, <2>2, <3>1 DEF LoopBound
  <2>6. FirstPlayInOrder'
    <3>1. SUFFICES ASSUME plays <= 1 PROVE FirstPlayInOrder'
      BY <1>1 DEF FirstPlayInOrder, setupVars
    <3>2. held' = <<>> BY <1>7, <2>2, <3>1
    <3> QED BY <1>1, <1>7, <2>1, <3>1, <3>2 DEF FirstPlayInOrder
  <2> QED BY <1>6, <2>4, <2>5, <2>6
<1>9. CASE RenderQueuesNext(i)
  <2>1. /\ buffer # <<>> /\ held' = [held EXCEPT ![i] = Head(buffer)] /\ buffer' = Tail(buffer)
        /\ UNCHANGED <<playerState, bufferingEvents>>
    BY <1>9 DEF RenderQueuesNext
  <2>2. /\ Head(buffer) \in Frames /\ Head(buffer) = buffer[1] /\ 1 \in DOMAIN buffer
        /\ buffer' \in Seq(Frames)
        /\ \A k \in DOMAIN buffer' :
             k \in Nat \ {0} /\ k + 1 \in DOMAIN buffer /\ buffer'[k] = buffer[k + 1]
    <3>1. buffer \in Seq(Frames) /\ buffer # <<>>
      BY <1>2, <2>1
    <3>2. PICK S, q : S = Frames /\ q = buffer
      OBVIOUS
    <3>3. q \in Seq(S) /\ q # <<>>
      BY <3>1, <3>2
    <3>4. /\ Head(q) \in S /\ Head(q) = q[1] /\ 1 \in DOMAIN q /\ Tail(q) \in Seq(S)
          /\ \A k \in DOMAIN Tail(q) :
               k \in Nat \ {0} /\ k + 1 \in DOMAIN q /\ Tail(q)[k] = q[k + 1]
      BY ONLY <3>3, ShiftFacts
    <3> QED BY <2>1, <3>2, <3>4
  <2>3. /\ held' \in Seq(Frames) /\ Len(held') = Len(held)
        /\ \A j \in 1..Len(held) : held'[j] = IF j = i THEN Head(buffer) ELSE held[j]
    <3>1. i \in 1..Len(held) BY <1>2
    <3>2. held' = [held EXCEPT ![i] = Head(buffer)] BY <2>1
    <3>3. held \in Seq(Frames) /\ Head(buffer) \in Frames BY <1>2, <2>2
    <3>4. /\ [held EXCEPT ![i] = Head(buffer)] \in Seq(Frames)
          /\ Len([held EXCEPT ![i] = Head(buffer)]) = Len(held)
          /\ \A j \in 1..Len(held) :
               [held EXCEPT ![i] = Head(buffer)][j] = IF j = i THEN Head(buffer) ELSE held[j]
      BY <3>1, <3>3, ExceptSeq
    <3> QED BY <3>2, <3>4
  <2>4. TypeOK' BY <1>1, <1>3, <1>4, <2>1, <2>2, <2>3 DEF TypeOK, setupVars
  <2>5. LoopBound'
    <3>1. held' # <<>> BY <1>3, <2>3
    <3> QED BY <1>1, <2>1, <2>3, <3>1 DEF LoopBound, setupVars
  <2>6. FirstPlayInOrder'
    <3>1. SUFFICES ASSUME plays <= 1 PROVE FirstPlayInOrder'
      BY <1>1 DEF FirstPlayInOrder, setupVars
    <3>2. \A k \in DOMAIN held' : held'[k] = buffer[1] BY <1>7, <2>2, <2>3, <3>1
    <3>3. \A j, k \in DOMAIN buffer : j < k => buffer[j] <= buffer[k]
      BY <3>1 DEF FirstPlayInOrder
    <3>4. \A k \in DOMAIN buffer' : buffer[1] <= buffer'[k]
      <4> TAKE k \in DOMAIN buffer'
      <4>1. 1 < k + 1 /\ k + 1 \in DOMAIN buffer /\ buffer'[k] = buffer[k + 1] BY <2>2
      <4> QED BY <2>2, <3>3, <4>1
    <3>5. \A j, k \in DOMAIN buffer' : j < k => buffer'[j] <= buffer'[k]
      <4> TAKE j, k \in DOMAIN buffer'
      <4>1. j < k => j + 1 < k + 1 BY <2>2
      <4> QED BY <2>2, <3>3, <4>1
    <3>6. \A p \in Plays : p = 1 =>
            /\ held[i] <= emitted[p]
            /\ \A j \in DOMAIN buffer : buffer[j] <= emitted[p]
      BY <1>7, <3>1 DEF FirstPlayInOrder
    <3>7. held[i] <= buffer[1] /\ \A k \in DOMAIN buffer' : held[i] <= buffer'[k]
      BY <1>7, <2>2, <3>1
    <3>8. emitted' = emitted /\ lastRendered' = held[i] BY <1>1
    <3>9. \A p \in Plays : p = 1 =>
            /\ buffer[1] <= emitted[p]
            /\ \A k \in DOMAIN buffer' : buffer'[k] <= emitted[p]
      BY <2>2, <3>6
    <3> QED BY <3>2, <3>4, <3>5, <3>6, <3>7, <3>8, <3>9 DEF FirstPlayInOrder
  <2> QED BY <1>6, <2>4, <2>5, <2>6
<1> QED BY <1>8, <1>9 DEF Timer

\* Every step, and every stuttering step, keeps the invariant.
LEMMA NextInv == IInv /\ [Next]_vars => IInv'
<1> SUFFICES ASSUME IInv, [Next]_vars PROVE IInv' OBVIOUS
<1>1. CASE StartWatching BY <1>1, StartInv
<1>2. CASE StopWatching BY <1>2, StopInv
<1>3. ASSUME NEW p \in Plays, Setup(p) PROVE IInv' BY <1>3, SetupInv
<1>4. ASSUME NEW p \in Plays, NEW pts \in Frames, Write(p, pts) PROVE IInv' BY <1>4, WriteInv
<1>5. ASSUME NEW i \in DOMAIN held, Timer(i) PROVE IInv' BY <1>5, TimerInv
<1>6. CASE UNCHANGED vars
  <2> USE <1>6 DEF vars, renderVars, logVars, setupVars, IInv
  <2>1. isRebuffering' \in BOOLEAN /\ initSegment' \in BOOLEAN /\ enabled' \in BOOLEAN
    BY DEF TypeOK
  <2>2. TypeOK' BY <2>1 DEF TypeOK
  <2>3. LoopBound' /\ NotYetPlayed' BY DEF LoopBound, NotYetPlayed
  <2>4. FirstPlayInOrder' BY DEF FirstPlayInOrder
  <2> QED BY <2>2, <2>3, <2>4
<1> QED BY <1>1, <1>2, <1>3, <1>4, <1>5, <1>6 DEF Next

\* The inductive invariant holds in every reachable state.
THEOREM Invariance == Spec => []IInv
  BY InitInv, NextInv, PTL DEF Spec

\* Every variable of the player keeps its type, whatever the clicks, answers, frames
\* and timers.
THEOREM TypeCorrect == Spec => []TypeOK
<1>1. IInv => TypeOK BY DEF IInv
<1> QED BY <1>1, Invariance, PTL

\* However often the player is stopped and restarted, there is never more than one
\* queueNextFrame call per play(), and at least one while the player is PLAYING.
THEOREM LoopsBounded == Spec => []LoopBound
<1>1. IInv => LoopBound BY DEF IInv
<1> QED BY <1>1, Invariance, PTL

\* A player that was not restarted renders in presentation order.
THEOREM InOrderRendering == Spec => RenderedInOrder
<1>1. IInv /\ [Next]_vars => [plays' = 1 => lastRendered' >= lastRendered]_vars
  <2> SUFFICES ASSUME IInv, [Next]_vars, plays' = 1 PROVE lastRendered' >= lastRendered
    OBVIOUS
  <2> USE DEF IInv
  <2>1. lastRendered \in Nat BY DEF TypeOK
  <2>2. ASSUME NEW i \in DOMAIN held, Timer(i) PROVE lastRendered' >= lastRendered
    <3>1. lastRendered' = held[i] /\ plays' = plays
      BY <2>2 DEF Timer, RenderStops, RenderUnderruns, RenderQueuesNext, Render, setupVars
    <3>2. held[i] \in Nat BY DEF TypeOK
    <3> QED BY <2>1, <3>1, <3>2 DEF FirstPlayInOrder
  <2>3. ASSUME NEW p \in Plays, Setup(p) PROVE lastRendered' = lastRendered
    BY <2>3 DEF Setup, InitSubscribed, InitSegmentRead, VideoSubscribed, SetupFailed, renderVars
  <2>4. ASSUME NEW p \in Plays, NEW pts \in Frames, Write(p, pts)
        PROVE lastRendered' = lastRendered
    BY <2>4 DEF Write, WritePaused, WriteBuffers, WriteResumes, renderVars
  <2>5. CASE StartWatching \/ StopWatching \/ UNCHANGED vars
    BY <2>1, <2>5 DEF StartWatching, StopWatching, vars, renderVars
  <2> QED BY <2>1, <2>2, <2>3, <2>4, <2>5 DEF Next
<1> QED BY <1>1, Invariance, PTL DEF Spec, RenderedInOrder

-----------------------------------------------------------------------------
(* What pause() leaves behind.                                             *)

\* Fewer subscriptions, or more interrupted calls, keep the bound.
LEMMA CountKept ==
  ASSUME NEW A, NEW B, NEW A1, NEW B1, IsFiniteSet(A), IsFiniteSet(B1),
         A1 \subseteq A, B \subseteq B1, Cardinality(A) <= Cardinality(B)
  PROVE  Cardinality(A1) <= Cardinality(B1)
<1>1. IsFiniteSet(A1) /\ Cardinality(A1) <= Cardinality(A) BY FS_Subset
<1>2. IsFiniteSet(B) /\ Cardinality(B) <= Cardinality(B1) BY FS_Subset
<1>3. /\ Cardinality(A) \in Nat /\ Cardinality(A1) \in Nat
      /\ Cardinality(B) \in Nat /\ Cardinality(B1) \in Nat
  BY <1>1, <1>2, FS_CardinalityType
<1> QED BY <1>1, <1>2, <1>3

\* One more of each keeps the bound.
LEMMA CountGrows ==
  ASSUME NEW A, NEW B, NEW A1, NEW B1, NEW x, NEW y, IsFiniteSet(A), IsFiniteSet(B1),
         A1 \subseteq A \cup {x}, B \cup {y} \subseteq B1, y \notin B,
         Cardinality(A) <= Cardinality(B)
  PROVE  Cardinality(A1) <= Cardinality(B1)
<1>1. IsFiniteSet(A \cup {x}) /\ Cardinality(A \cup {x}) <= Cardinality(A) + 1
  <2>1. Cardinality(A) \in Nat BY FS_CardinalityType
  <2>2. /\ IsFiniteSet(A \cup {x})
        /\ Cardinality(A \cup {x}) = IF x \in A THEN Cardinality(A) ELSE Cardinality(A) + 1
    BY FS_AddElement
  <2> QED BY <2>1, <2>2
<1>2. IsFiniteSet(B) BY FS_Subset
<1>3. Cardinality(B \cup {y}) = Cardinality(B) + 1 BY <1>2, FS_AddElement
<1>4. Cardinality(A \cup {x}) <= Cardinality(B \cup {y})
  <2>1. Cardinality(A) \in Nat /\ Cardinality(B) \in Nat /\ Cardinality(A \cup {x}) \in Nat
    BY <1>1, <1>2, FS_CardinalityType
  <2> QED BY <1>1, <1>3, <2>1
<1> QED BY <1>1, <1>4, CountKept

\* The sets that are counted are finite.
LEMMA CountedFinite ==
  ASSUME TypeOK, VideoSubsKnown
  PROVE  /\ IsFiniteSet(SettledSubs) /\ IsFiniteSet(Counted)
         /\ IsFiniteSet(interrupted \cap Settled)
<1>1. SettledSubs \subseteq subs /\ Counted \subseteq subs
  BY DEF SettledSubs, Counted, VideoSubs
<1>2. IsFiniteSet(Plays) BY FS_Interval
<1>3. interrupted \cap Settled \subseteq Plays BY DEF TypeOK
<1> QED BY <1>1, <1>2, <1>3, FS_Subset DEF VideoSubsKnown

\* A call makes at most one video subscription, and while it waits for the answer the
\* ids of its SUBSCRIBE and of the subscription agree; a new one has a new id.
LEMMA SubscribeKnown ==
  ASSUME TypeOK, VideoSubsKnown, NEW p \in Plays, NEW t \in {"init", "video"},
         Subscribe(p, t), t = "video" => nextId > NoId,
         step[p] \in {"idle", "initRead"}
  PROVE  /\ VideoSubsKnown'
         /\ nextId' > NoId
         /\ VideoSubs \subseteq VideoSubs'
         /\ \A s \in VideoSubs' : s \in VideoSubs \/ s.play = p
<1> DEFINE new == [id |-> nextId, track |-> t, play |-> p]
<1>1. /\ step' = [step EXCEPT ![p] = IF t = "init" THEN "initSub" ELSE "videoSub"]
      /\ subId' = [subId EXCEPT ![p] = nextId]
      /\ subs' = subs \cup {new} /\ nextId' = nextId + 1
  BY DEF Subscribe
<1>2. nextId \in Nat /\ step \in [Plays -> Steps] /\ subId \in [Plays -> Nat]
  BY DEF TypeOK
<1>3. \A s \in VideoSubs : /\ s \in subs /\ s.id \in Nat /\ s.play \in Plays
                           /\ NoId < s.id /\ s.id < nextId /\ s.play # p
  BY DEF VideoSubs, TypeOK, Subscription, VideoSubsKnown
<1>4. \A s \in VideoSubs' : s \in VideoSubs \/ (s = new /\ t = "video")
  <2>1. new.track = t /\ subs' = subs \cup {new} BY <1>1
  <2> HIDE DEF new
  <2> QED BY <2>1 DEF VideoSubs
<1>5. IsFiniteSet(subs') BY <1>1, FS_AddElement DEF VideoSubsKnown
<1>6. ASSUME NEW s \in VideoSubs'
      PROVE  /\ NoId < s.id /\ s.id < nextId'
             /\ step'[s.play] \notin {"idle", "initSub", "initRead"}
             /\ step'[s.play] = "videoSub" => s.id = subId'[s.play]
  <2>1. CASE s \in VideoSubs
    <3>1. step'[s.play] = step[s.play] /\ subId'[s.play] = subId[s.play]
      BY <1>1, <1>2, <1>3, <2>1
    <3> QED BY <1>1, <1>2, <1>3, <2>1, <3>1 DEF VideoSubsKnown
  <2>2. CASE s = new /\ t = "video"
    <3>1. step'[p] = "videoSub" /\ subId'[p] = nextId BY <1>1, <1>2, <2>2
    <3> QED BY <1>1, <1>2, <2>2, <3>1
  <2> QED BY <1>4, <2>1, <2>2
<1>7. \A s, u \in VideoSubs' : s.id = u.id => s = u
  <2>1. new.id = nextId OBVIOUS
  <2> HIDE DEF new
  <2> QED BY <1>2, <1>3, <1>4, <2>1 DEF VideoSubsKnown
<1>8. VideoSubsKnown' BY <1>5, <1>6, <1>7 DEF VideoSubsKnown
<1>9. VideoSubs \subseteq VideoSubs' BY <1>1 DEF VideoSubs
<1> QED BY <1>1, <1>2, <1>4, <1>8, <1>9

\* A click on "Watch stream": every other call is settled or was interrupted.
LEMMA StartLeak == ASSUME IInv, LeakIInv, StartWatching PROVE LeakIInv'
<1>0. PICK p \in Plays : p = plays + 1
  BY DEF IInv, TypeOK, StartWatching
<1> DEFINE t == IF initSegment THEN "video" ELSE "init"
<1>1. /\ plays \in Nat /\ step[p] = "idle" /\ nextId \in Nat
      /\ step \in [Plays -> Steps] /\ interrupted \subseteq Plays
  BY <1>0 DEF IInv, TypeOK, NotYetPlayed
<1>2. p \notin interrupted
  <2>1. \A q \in interrupted : q <= plays BY DEF LeakIInv, IdsStarted
  <2> QED BY <1>0, <1>1, <2>1
<1>3. /\ playerState = "PAUSED" /\ playerState' = "BUFFERING" /\ plays' = p
      /\ Subscribe(p, t) /\ interrupted' = interrupted
  BY <1>0 DEF StartWatching
<1>4. t \in {"init", "video"} /\ (t = "video" => nextId > NoId)
  BY <1>1 DEF LeakIInv, IdsStarted
<1>5. step'[p] \in SettingUp /\ \A q \in Plays : q # p => step'[q] = step[q]
  BY <1>1, <1>3 DEF Subscribe, SettingUp
<1> HIDE DEF t
<1>6. /\ VideoSubsKnown' /\ nextId' > NoId
      /\ \A s \in VideoSubs' : s \in VideoSubs \/ s.play = p
  BY <1>1, <1>3, <1>4, SubscribeKnown DEF IInv, LeakIInv
<1>7. IdsStarted'
  <2>1. \A q \in interrupted : q <= p /\ q \in Nat BY <1>0, <1>1 DEF LeakIInv, IdsStarted
  <2>2. p \in Nat /\ p > 0 BY <1>0, <1>1
  <2> QED BY <1>3, <1>6, <2>1, <2>2 DEF IdsStarted
<1>8. Uninterrupted(p)' /\ \A q \in Plays : Uninterrupted(q)' => q = p
  <2>1. \A q \in Plays : ~ Uninterrupted(q)
    BY <1>3 DEF LeakIInv, OnlyNewestUninterrupted
  <2> QED BY <1>1, <1>2, <1>3, <1>5, <2>1 DEF Uninterrupted
<1>9. OnlyNewestUninterrupted' BY <1>3, <1>8 DEF OnlyNewestUninterrupted
<1>10. LeftBehind'
  <2>1. Counted = SettledSubs /\ Counted' = SettledSubs'
    BY <1>1, <1>3, <1>8 DEF Counted
  <2>2. Settled' = Settled \ {p}
    BY <1>1, <1>5 DEF Settled
  <2>3. SettledSubs' \subseteq SettledSubs
    BY <1>6, <2>2 DEF SettledSubs
  <2>4. interrupted \cap Settled \subseteq interrupted' \cap Settled'
    BY <1>2, <1>3, <2>2
  <2>5. IsFiniteSet(SettledSubs) /\ IsFiniteSet(interrupted' \cap Settled')
    <3>1. IsFiniteSet(SettledSubs) /\ IsFiniteSet(interrupted \cap Settled)
      BY CountedFinite DEF IInv, LeakIInv
    <3>2. interrupted' \cap Settled' \subseteq interrupted \cap Settled BY <1>3, <2>2
    <3> QED BY <3>1, <3>2, FS_Subset
  <2>6. Cardinality(SettledSubs) <= Cardinality(interrupted \cap Settled)
    BY <2>1 DEF LeakIInv, LeftBehind
  <2>7. Cardinality(SettledSubs') <= Cardinality(interrupted' \cap Settled')
    BY <2>3, <2>4, <2>5, <2>6, CountKept
  <2> QED BY <2>1, <2>7 DEF LeftBehind
<1> QED BY <1>6, <1>7, <1>9, <1>10 DEF LeakIInv

\* A step that settles no call, and leaves the ids and the player's state alone.
LEMMA UnsettledLeak ==
  ASSUME IInv, LeakIInv, VideoSubsKnown', IdsStarted', TypeOK',
         UNCHANGED <<playerState, plays, interrupted, videoTrackSubscriptionId>>,
         \A q \in Plays : step'[q] \in SettingUp <=> step[q] \in SettingUp,
         SettledSubs' \subseteq SettledSubs
  PROVE  LeakIInv'
<1>1. \A q \in Plays : Uninterrupted(q)' <=> Uninterrupted(q) BY DEF Uninterrupted
<1>2. OnlyNewestUninterrupted' BY <1>1 DEF LeakIInv, OnlyNewestUninterrupted
<1>3. Settled' = Settled BY DEF Settled
<1>4. Counted' \subseteq Counted
  <2>1. SettledSubs' \ Cancelled' \subseteq SettledSubs \ Cancelled
    BY DEF Cancelled, SettledSubs
  <2> QED BY <1>1, <2>1 DEF Counted
<1>5. IsFiniteSet(Counted) /\ IsFiniteSet(interrupted \cap Settled)
  BY CountedFinite DEF IInv, LeakIInv
<1>6. Cardinality(Counted) <= Cardinality(interrupted \cap Settled)
  BY DEF LeakIInv, LeftBehind
<1>7. Cardinality(Counted') <= Cardinality(interrupted' \cap Settled')
  BY <1>3, <1>4, <1>5, <1>6, CountKept
<1> QED BY <1>2, <1>7 DEF LeakIInv, LeftBehind

\* The init track answers, and its first object is read.
LEMMA InitTrackLeak ==
  ASSUME IInv, LeakIInv, TypeOK', NEW p \in Plays, InitSubscribed(p) \/ InitSegmentRead(p)
  PROVE  LeakIInv'
<1>1. p <= plays /\ plays > 0 /\ nextId > NoId /\ plays \in Nat /\ step \in [Plays -> Steps]
  <2>1. step[p] # "idle" BY DEF InitSubscribed, InitSegmentRead
  <2>2. plays \in Nat /\ step \in [Plays -> Steps] BY DEF IInv, TypeOK
  <2>3. p <= plays BY <2>1, <2>2 DEF IInv, NotYetPlayed
  <2> QED BY <2>2, <2>3 DEF LeakIInv, IdsStarted
<1>2. CASE InitSubscribed(p)
  <2>1. /\ step[p] = "initSub" /\ step' = [step EXCEPT ![p] = "initRead"]
        /\ UNCHANGED <<playerState, plays, interrupted, videoTrackSubscriptionId, subs,
                       subId, nextId, initSegment>>
    BY <1>2 DEF InitSubscribed, renderVars
  <2>2. VideoSubs' = VideoSubs BY <2>1 DEF VideoSubs
  <2>3. \A s \in VideoSubs : s.play \in Plays /\ s.play # p
    BY <2>1 DEF VideoSubs, LeakIInv, VideoSubsKnown, IInv, TypeOK, Subscription
  <2>4. \A s \in VideoSubs : step'[s.play] = step[s.play] BY <1>1, <2>1, <2>3
  <2>5. VideoSubsKnown' BY <2>1, <2>2, <2>4 DEF LeakIInv, VideoSubsKnown
  <2>6. \A q \in Plays : step'[q] \in SettingUp <=> step[q] \in SettingUp
    BY <1>1, <2>1 DEF SettingUp
  <2>7. SettledSubs' \subseteq SettledSubs BY <2>2, <2>6 DEF SettledSubs, Settled
  <2>8. IdsStarted' BY <2>1 DEF LeakIInv, IdsStarted
  <2> QED BY <2>1, <2>5, <2>6, <2>7, <2>8, UnsettledLeak
<1>3. CASE InitSegmentRead(p)
  <2>1. /\ step[p] = "initRead" /\ Subscribe(p, "video")
        /\ UNCHANGED <<playerState, plays, interrupted, videoTrackSubscriptionId>>
    BY <1>3 DEF InitSegmentRead, renderVars
  <2>2. /\ VideoSubsKnown' /\ nextId' > NoId
        /\ \A s \in VideoSubs' : s \in VideoSubs \/ s.play = p
    BY <1>1, <2>1, SubscribeKnown DEF IInv, LeakIInv
  <2>3. step'[p] = "videoSub" /\ \A q \in Plays : q # p => step'[q] = step[q]
    BY <1>1, <2>1 DEF Subscribe
  <2>4. \A q \in Plays : step'[q] \in SettingUp <=> step[q] \in SettingUp
    BY <2>1, <2>3 DEF SettingUp
  <2>5. SettledSubs' \subseteq SettledSubs
    BY <2>2, <2>3, <2>4 DEF SettledSubs, Settled, SettingUp
  <2>6. IdsStarted' BY <1>1, <2>1, <2>2 DEF LeakIInv, IdsStarted
  <2> QED BY <2>1, <2>2, <2>4, <2>5, <2>6, UnsettledLeak
<1> QED BY <1>2, <1>3

\* The answer to the video SUBSCRIBE of a call, which may have been interrupted, sets the
\* id that the next pause() cancels.
LEMMA VideoTrackLeak ==
  ASSUME IInv, LeakIInv, NEW p \in Plays, VideoSubscribed(p)
  PROVE  LeakIInv'
<1>1. /\ step[p] = "videoSub" /\ step' = [step EXCEPT ![p] = "streaming"]
      /\ videoTrackSubscriptionId' = subId[p]
      /\ UNCHANGED <<playerState, plays, subId, initSegment, subs, nextId, interrupted>>
  BY DEF VideoSubscribed, renderVars
<1>2. /\ step'[p] = "streaming" /\ \A q \in Plays : q # p => step'[q] = step[q]
  BY <1>1 DEF IInv, TypeOK
<1>3. \A s \in VideoSubs : s.play \in Plays /\ (s.play = p => s.id = subId[p])
  BY <1>1 DEF LeakIInv, VideoSubsKnown, VideoSubs, IInv, TypeOK, Subscription
<1>4. \A s, u \in VideoSubs : s.id = u.id => s = u BY DEF LeakIInv, VideoSubsKnown
<1>5. VideoSubs' = VideoSubs BY <1>1 DEF VideoSubs
<1>6. VideoSubsKnown'
  <2>1. \A s \in VideoSubs : /\ step'[s.play] \notin {"idle", "initSub", "initRead"}
                             /\ step'[s.play] = "videoSub" => s.id = subId[s.play]
    BY <1>2, <1>3 DEF LeakIInv, VideoSubsKnown
  <2> QED BY <1>1, <1>5, <2>1 DEF LeakIInv, VideoSubsKnown
<1>7. IdsStarted' BY <1>1 DEF LeakIInv, IdsStarted
<1>8. \A q \in Plays : Uninterrupted(q)' <=> Uninterrupted(q) /\ q # p
  BY <1>1, <1>2 DEF Uninterrupted, SettingUp
<1>9. OnlyNewestUninterrupted' BY <1>1, <1>8 DEF LeakIInv, OnlyNewestUninterrupted
<1>10. Settled' = Settled \cup {p} /\ p \notin Settled
  BY <1>1, <1>2 DEF Settled, SettingUp
<1>11. \A s \in SettledSubs' : s \in VideoSubs /\ (s \in SettledSubs \/ s.play = p)
  BY <1>5, <1>10 DEF SettledSubs
<1>12. SettledSubs' \ Cancelled' \subseteq SettledSubs
  BY <1>1, <1>3, <1>5, <1>11 DEF Cancelled
<1>13. /\ IsFiniteSet(SettledSubs) /\ IsFiniteSet(Counted)
       /\ IsFiniteSet(interrupted \cap Settled)
  BY CountedFinite DEF IInv, LeakIInv
<1>14. IsFiniteSet(interrupted' \cap Settled')
  <2>1. IsFiniteSet((interrupted \cap Settled) \cup {p}) BY <1>13, FS_AddElement
  <2>2. interrupted' \cap Settled' \subseteq (interrupted \cap Settled) \cup {p}
    BY <1>1, <1>10
  <2> QED BY <2>1, <2>2, FS_Subset
<1>15. Cardinality(Counted) <= Cardinality(interrupted \cap Settled)
  BY DEF LeakIInv, LeftBehind
<1>16. CASE p \notin interrupted
  <2>1. Uninterrupted(p) BY <1>1, <1>16 DEF Uninterrupted, SettingUp
  <2>2. playerState # "PAUSED" /\ \A q \in Plays : Uninterrupted(q) => q = p
    BY <2>1 DEF LeakIInv, OnlyNewestUninterrupted
  <2>3. Counted = SettledSubs BY <2>1 DEF Counted
  <2>4. Counted' = SettledSubs' \ Cancelled'
    <3>1. playerState' # "PAUSED" /\ \A q \in Plays : ~ Uninterrupted(q)'
      BY <1>1, <1>8, <2>2
    <3> QED BY <3>1 DEF Counted
  <2>5. Cardinality(Counted') <= Cardinality(interrupted' \cap Settled')
    <3>1. Counted' \subseteq Counted BY <1>12, <2>3, <2>4
    <3>2. interrupted \cap Settled \subseteq interrupted' \cap Settled' BY <1>1, <1>10
    <3> QED BY <1>13, <1>14, <1>15, <3>1, <3>2, CountKept
  <2> QED BY <1>6, <1>7, <1>9, <2>5 DEF LeakIInv, LeftBehind
<1>17. CASE p \in interrupted
  <2>1. \E x : Counted' \subseteq Counted \cup {x}
    <3>1. \A q \in Plays : Uninterrupted(q)' <=> Uninterrupted(q)
      BY <1>8, <1>17 DEF Uninterrupted
    <3>2. CASE playerState = "PAUSED" \/ \E q \in Plays : Uninterrupted(q)
      <4>1. Counted = SettledSubs /\ Counted' = SettledSubs'
        BY <1>1, <3>1, <3>2 DEF Counted
      <4>2. CASE \E s \in VideoSubs : s.play = p
        <5>1. PICK s \in VideoSubs : s.play = p BY <4>2
        <5>2. \A u \in SettledSubs' : u \in SettledSubs \/ u = s
          BY <1>3, <1>4, <1>11, <5>1
        <5> QED BY <4>1, <5>2
      <4>3. CASE ~ \E s \in VideoSubs : s.play = p BY <1>11, <4>1, <4>3
      <4> QED BY <4>2, <4>3
    <3>3. CASE ~ (playerState = "PAUSED" \/ \E q \in Plays : Uninterrupted(q))
      <4>1. Counted = SettledSubs \ Cancelled
        BY <3>3 DEF Counted
      <4>2. Counted' = SettledSubs' \ Cancelled'
        BY <1>1, <3>1, <3>3 DEF Counted
      <4>3. CASE \E s \in VideoSubs : s \in Cancelled
        <5>1. PICK s \in VideoSubs : s \in Cancelled BY <4>3
        <5>2. \A u \in Cancelled : u = s BY <1>4, <5>1 DEF Cancelled
        <5> QED BY <1>12, <4>1, <4>2, <5>2
      <4>4. CASE ~ \E s \in VideoSubs : s \in Cancelled
        <5>1. Cancelled = {} BY <4>4 DEF Cancelled
        <5> QED BY <1>12, <4>1, <4>2, <5>1
      <4> QED BY <4>3, <4>4
    <3> QED BY <3>2, <3>3
  <2>2. PICK x : Counted' \subseteq Counted \cup {x} BY <2>1
  <2>3. p \notin interrupted \cap Settled BY <1>10
  <2>4. (interrupted \cap Settled) \cup {p} \subseteq interrupted' \cap Settled'
    BY <1>1, <1>10, <1>17
  <2>5. Cardinality(Counted') <= Cardinality(interrupted' \cap Settled')
    BY <1>13, <1>14, <1>15, <2>2, <2>3, <2>4, CountGrows
  <2> QED BY <1>6, <1>7, <1>9, <2>5 DEF LeakIInv, LeftBehind
<1> QED BY <1>16, <1>17

\* A call that fails takes the subscription it waits for along.
LEMMA FailedLeak ==
  ASSUME IInv, LeakIInv, NEW p \in Plays, SetupFailed(p)
  PROVE  LeakIInv'
<1>1. /\ step[p] \in SettingUp /\ step' = [step EXCEPT ![p] = "failed"]
      /\ initSegment' \in {initSegment, FALSE}
      /\ subs' = {s \in subs : s.id # subId[p]}
      /\ UNCHANGED <<playerState, plays, subId, videoTrackSubscriptionId, nextId, interrupted>>
  BY DEF SetupFailed, renderVars
<1>2. step'[p] = "failed" /\ \A q \in Plays : q # p => step'[q] = step[q]
  BY <1>1 DEF IInv, TypeOK
<1>3. \A s \in VideoSubs' : s \in VideoSubs /\ s.id # subId[p] /\ s.play \in Plays
  BY <1>1 DEF VideoSubs, IInv, TypeOK, Subscription
<1>4. \A s \in VideoSubs' : s.play # p
  BY <1>1, <1>3 DEF LeakIInv, VideoSubsKnown, SettingUp
<1>5. VideoSubsKnown'
  <2>1. IsFiniteSet(subs') BY <1>1, FS_Subset DEF LeakIInv, VideoSubsKnown
  <2>2. \A s \in VideoSubs' : step'[s.play] = step[s.play] BY <1>2, <1>3, <1>4
  <2> QED BY <1>1, <1>3, <2>1, <2>2 DEF LeakIInv, VideoSubsKnown
<1>6. IdsStarted'
  <2>1. initSegment' => initSegment BY <1>1
  <2> QED BY <1>1, <2>1 DEF LeakIInv, IdsStarted
<1>7. \A q \in Plays : Uninterrupted(q)' => Uninterrupted(q)
  BY <1>1, <1>2 DEF Uninterrupted, SettingUp
<1>8. OnlyNewestUninterrupted' BY <1>1, <1>7 DEF LeakIInv, OnlyNewestUninterrupted
<1>9. Settled' = Settled \cup {p}
  BY <1>1, <1>2 DEF Settled, SettingUp
<1>10. SettledSubs' \subseteq SettledSubs BY <1>3, <1>4, <1>9 DEF SettledSubs
<1>11. Counted' \subseteq Counted
  <2>1. SettledSubs' \ Cancelled' \subseteq SettledSubs \ Cancelled
    BY <1>1, <1>10 DEF Cancelled, SettledSubs
  <2> QED BY <1>1, <1>7, <1>10, <2>1 DEF Counted
<1>12. interrupted \cap Settled \subseteq interrupted' \cap Settled' BY <1>1, <1>9
<1>13. IsFiniteSet(Counted) /\ IsFiniteSet(interrupted' \cap Settled')
  <2>1. IsFiniteSet(Counted) /\ IsFiniteSet(interrupted \cap Settled)
    BY CountedFinite DEF IInv, LeakIInv
  <2>2. IsFiniteSet((interrupted \cap Settled) \cup {p}) BY <2>1, FS_AddElement
  <2>3. interrupted' \cap Settled' \subseteq (interrupted \cap Settled) \cup {p}
    BY <1>1, <1>9
  <2> QED BY <2>1, <2>2, <2>3, FS_Subset
<1>14. Cardinality(Counted) <= Cardinality(interrupted \cap Settled)
  BY DEF LeakIInv, LeftBehind
<1>15. Cardinality(Counted') <= Cardinality(interrupted' \cap Settled')
  BY <1>11, <1>12, <1>13, <1>14, CountKept
<1> QED BY <1>5, <1>6, <1>8, <1>15 DEF LeakIInv, LeftBehind

\* A click on "Stop stream" cancels the one subscription that is not accounted for.
LEMMA StopLeak == ASSUME IInv, LeakIInv, StopWatching PROVE LeakIInv'
<1>1. /\ playerState' = "PAUSED"
      /\ subs' = {s \in subs : \/ s.id = NoId
                               \/ s.id \notin {initTrackSubscriptionId,
                                               videoTrackSubscriptionId}}
      /\ interrupted' = interrupted \cup {p \in Plays : step[p] \in SettingUp}
      /\ UNCHANGED <<plays, step, subId, initSegment, nextId, videoTrackSubscriptionId>>
  BY DEF StopWatching
<1>2. \A s \in VideoSubs' : s \in VideoSubs \ Cancelled
  <2>1. \A s \in VideoSubs : s.id # NoId
    BY DEF LeakIInv, VideoSubsKnown, VideoSubs, IInv, TypeOK, Subscription
  <2>2. \A s \in VideoSubs' : s \in VideoSubs BY <1>1 DEF VideoSubs
  <2>3. \A s \in VideoSubs' : s.id = NoId \/ s.id # videoTrackSubscriptionId
    BY <1>1 DEF VideoSubs
  <2> QED BY <2>1, <2>2, <2>3 DEF Cancelled
<1>3. VideoSubsKnown'
  <2>1. IsFiniteSet(subs') BY <1>1, FS_Subset DEF LeakIInv, VideoSubsKnown
  <2> QED BY <1>1, <1>2, <2>1 DEF LeakIInv, VideoSubsKnown
<1>4. IdsStarted'
  <2>1. \A q \in Plays : step[q] \in SettingUp => q <= plays
    <3> SUFFICES ASSUME NEW q \in Plays, step[q] \in SettingUp PROVE q <= plays OBVIOUS
    <3>1. step[q] # "idle" BY DEF SettingUp
    <3> QED BY <3>1 DEF IInv, NotYetPlayed, TypeOK
  <2> QED BY <1>1, <2>1 DEF LeakIInv, IdsStarted
<1>5. OnlyNewestUninterrupted'
  <2>1. \A q \in Plays : ~ Uninterrupted(q)' BY <1>1 DEF Uninterrupted
  <2> QED BY <2>1 DEF OnlyNewestUninterrupted
<1>6. Settled' = Settled BY <1>1 DEF Settled
<1>7. Counted' \subseteq Counted
  <2>1. Counted' = SettledSubs' BY <1>1 DEF Counted
  <2>2. SettledSubs' \subseteq SettledSubs \ Cancelled BY <1>2, <1>6 DEF SettledSubs
  <2>3. SettledSubs \ Cancelled \subseteq Counted BY DEF Counted
  <2> QED BY <2>1, <2>2, <2>3
<1>8. interrupted \cap Settled = interrupted' \cap Settled' BY <1>1, <1>6 DEF Settled
<1>9. IsFiniteSet(Counted) /\ IsFiniteSet(interrupted \cap Settled)
  BY CountedFinite DEF IInv, LeakIInv
<1>10. Cardinality(Counted) <= Cardinality(interrupted \cap Settled)
  BY DEF LeakIInv, LeftBehind
<1>11. Cardinality(Counted') <= Cardinality(interrupted' \cap Settled')
  BY <1>7, <1>8, <1>9, <1>10, CountKept
<1> QED BY <1>3, <1>4, <1>5, <1>11 DEF LeakIInv, LeftBehind

\* Frames and timers neither pause nor subscribe.
LEMMA FramesLeak ==
  ASSUME LeakIInv, UNCHANGED setupVars, playerState' = "PAUSED" <=> playerState = "PAUSED"
  PROVE  LeakIInv'
<1> USE DEF setupVars
<1>1. IdsStarted' BY DEF LeakIInv, IdsStarted
<1>2. VideoSubsKnown' BY DEF LeakIInv, VideoSubsKnown, VideoSubs
<1>3. OnlyNewestUninterrupted' BY DEF LeakIInv, OnlyNewestUninterrupted, Uninterrupted
<1>4. Counted' = Counted
  BY DEF Counted, SettledSubs, Settled, Cancelled, VideoSubs, Uninterrupted
<1>5. LeftBehind' BY <1>4 DEF LeakIInv, LeftBehind, Settled
<1> QED BY <1>1, <1>2, <1>3, <1>5 DEF LeakIInv

\* At first nothing is subscribed to.
LEMMA InitLeak == Init => LeakIInv
<1> SUFFICES ASSUME Init PROVE LeakIInv OBVIOUS
<1>1. subs = {} /\ VideoSubs = {} /\ interrupted = {} /\ plays = 0 /\ ~ initSegment
  BY DEF Init, VideoSubs
<1>2. \A p \in Plays : step[p] = "idle" BY DEF Init
<1>3. IdsStarted BY <1>1 DEF IdsStarted
<1>4. VideoSubsKnown BY <1>1, FS_EmptySet DEF VideoSubsKnown
<1>5. OnlyNewestUninterrupted
  BY <1>2 DEF OnlyNewestUninterrupted, Uninterrupted, SettingUp
<1>6. Counted = {} BY <1>1 DEF Counted, SettledSubs
<1>7. LeftBehind
  <2>1. interrupted \cap Settled = {} BY <1>1
  <2> QED BY <1>6, <2>1, FS_EmptySet DEF LeftBehind
<1> QED BY <1>3, <1>4, <1>5, <1>7 DEF LeakIInv

\* Every step keeps the count.
LEMMA NextLeak == ASSUME IInv, LeakIInv, [Next]_vars PROVE LeakIInv'
<1>1. IInv' BY NextInv
<1>2. CASE StartWatching BY <1>2, StartLeak
<1>3. CASE StopWatching BY <1>3, StopLeak
<1>4. ASSUME NEW p \in Plays, Setup(p) PROVE LeakIInv'
  <2>1. TypeOK' BY <1>1 DEF IInv
  <2> QED BY <1>4, <2>1, InitTrackLeak, VideoTrackLeak, FailedLeak DEF Setup
<1>5. ASSUME NEW p \in Plays, NEW pts \in Frames, Write(p, pts) PROVE LeakIInv'
  <2>1. UNCHANGED setupVars /\ (playerState' = "PAUSED" <=> playerState = "PAUSED")
    BY <1>5 DEF Write, WritePaused, WriteBuffers, WriteResumes, renderVars
  <2> QED BY <2>1, FramesLeak
<1>6. ASSUME NEW i \in DOMAIN held, Timer(i) PROVE LeakIInv'
  <2>1. UNCHANGED setupVars /\ (playerState' = "PAUSED" <=> playerState = "PAUSED")
    BY <1>6 DEF Timer, RenderStops, RenderUnderruns, RenderQueuesNext, Render
  <2> QED BY <2>1, FramesLeak
<1>7. CASE UNCHANGED vars
  <2>1. UNCHANGED setupVars /\ playerState' = playerState BY <1>7 DEF vars, renderVars
  <2> QED BY <2>1, FramesLeak
<1> QED BY <1>2, <1>3, <1>4, <1>5, <1>6, <1>7 DEF Next

\* However often play() and pause() overtake one another, a paused player with no call
\* setting up has left at most one video subscription behind for each interrupted call.
THEOREM LeaksBounded == Spec => []LeakBound
<1>1. IInv /\ LeakIInv => LeakBound
  <2> SUFFICES ASSUME IInv, LeakIInv, playerState = "PAUSED",
                      \A p \in Plays : step[p] \notin SettingUp
      PROVE  Cardinality(VideoSubs) <= Cardinality(interrupted)
    BY DEF LeakBound
  <2>1. Settled = Plays BY DEF Settled
  <2>2. Counted = VideoSubs
    BY <2>1 DEF Counted, SettledSubs, VideoSubs, IInv, TypeOK, Subscription
  <2>3. interrupted \cap Settled = interrupted BY <2>1 DEF IInv, TypeOK
  <2> QED BY <2>2, <2>3 DEF LeakIInv, LeftBehind
<1>2. IInv /\ LeakIInv /\ [Next]_vars => LeakIInv' BY NextLeak
<1> QED BY <1>1, <1>2, InitLeak, Invariance, PTL DEF Spec

-----------------------------------------------------------------------------
(* What calculateMetrics measures.                                         *)

\* A set of natural numbers has a least one.
LEMMA LeastNumber ==
  ASSUME NEW T, T \subseteq Nat, T # {}
  PROVE  \E m \in T : \A n \in T : m <= n
<1> DEFINE R == {ss \in Nat \X Nat : ss[1] < ss[2]}
<1>1. IsWellFoundedOn(R, Nat) BY NatLessThanWellFounded DEF OpToRel
<1>2. \E m \in T : \A n \in T : ~ (<<n, m>> \in R)
  <2> HIDE DEF R
  <2> QED BY <1>1, WFMin
<1>3. PICK m \in T : \A n \in T : ~ (<<n, m>> \in R) BY <1>2
<1>4. \A n \in T : ~ (n < m)
  <2> TAKE n \in T
  <2>1. <<n, m>> \in Nat \X Nat /\ <<n, m>>[1] = n /\ <<n, m>>[2] = m OBVIOUS
  <2> QED BY <1>3, <2>1
<1> QED BY <1>4

\* A set of places in the log has a greatest one.
LEMMA MaxPlace ==
  ASSUME NEW n \in Nat, NEW s \in SUBSET (1..n), s # {}
  PROVE  Max(s) \in s /\ \A i \in s : i <= Max(s)
<1> DEFINE T == {n - i : i \in s}
<1>1. T \subseteq Nat /\ T # {} OBVIOUS
<1>2. PICK d \in T : \A e \in T : d <= e
  <2> HIDE DEF T
  <2> QED BY <1>1, LeastNumber
<1>3. PICK m \in s : d = n - m BY <1>2
<1>4. \A i \in s : m >= i
  <2> TAKE i \in s
  <2>1. n - i \in T OBVIOUS
  <2>2. d <= n - i BY <1>2, <2>1
  <2> QED BY <1>3, <2>2
<1>5. \E x \in s : \A i \in s : x >= i BY <1>4
<1>6. Max(s) \in s /\ \A i \in s : Max(s) >= i BY <1>5 DEF Max
<1>7. Max(s) \in 1..n BY <1>6
<1> QED BY <1>6, <1>7

\* The waits among the events at the places s, each from a bufferingStart to the next
\* event there, a bufferingEnd; the number of bufferingStarts; and the last event's place
\* if it is a bufferingStart.
WaitsAt(s) ==
  {w \in s \X s : /\ bufferingEvents[w[1]] = "start" /\ bufferingEvents[w[2]] # "start"
                  /\ w[1] < w[2] /\ \A j \in s : j <= w[1] \/ w[2] <= j}
StartsAt(s) == {k \in s : bufferingEvents[k] = "start"}
StartedAt(s) ==
  IF s # {} /\ bufferingEvents[Max(s)] = "start" THEN Max(s) ELSE 0
MeasuredAt(s) ==
  [waits |-> WaitsAt(s), count |-> Cardinality(StartsAt(s)), started |-> StartedAt(s)]

\* One more event is measured as MeasureEvent does.
LEMMA MeasuredNext ==
  ASSUME TypeOK, NEW s \in SUBSET DOMAIN bufferingEvents, s # {}
  PROVE  MeasuredAt(s) = MeasureEvent(MeasuredAt(s \ {Max(s)}), Max(s))
<1> DEFINE m == Max(s)
           t == s \ {m}
<1>1. Len(bufferingEvents) \in Nat /\ DOMAIN bufferingEvents = 1..Len(bufferingEvents)
  BY LenProperties DEF TypeOK
<1>2. m \in s /\ (\A i \in s : i <= m) /\ s \subseteq Nat \ {0}
  <2>1. s \in SUBSET (1..Len(bufferingEvents)) BY <1>1
  <2>2. Max(s) \in s /\ \A i \in s : i <= Max(s) BY <1>1, <2>1, MaxPlace
  <2> QED BY <2>1, <2>2
<1>3. t \in SUBSET DOMAIN bufferingEvents /\ s = t \cup {m} /\ m \notin t
      /\ (\A i \in t : i < m) /\ t \subseteq Nat \ {0} /\ m \in Nat \ {0}
  BY <1>2
<1>4. t # {} => Max(t) \in t /\ \A i \in t : i <= Max(t)
  BY <1>1, <1>3, MaxPlace
<1>5. IsFiniteSet(StartsAt(t)) /\ m \notin StartsAt(t)
  <2>1. IsFiniteSet(1..Len(bufferingEvents)) BY <1>1, FS_Interval
  <2>2. StartsAt(t) \subseteq 1..Len(bufferingEvents) BY <1>1, <1>3 DEF StartsAt
  <2> QED BY <1>3, <2>1, <2>2, FS_Subset DEF StartsAt
<1> HIDE DEF m, t
<1>6. CASE bufferingEvents[m] = "start"
  <2>1. WaitsAt(s) = WaitsAt(t)
    <3>1. \A w \in WaitsAt(s) : w \in WaitsAt(t) BY <1>3, <1>6 DEF WaitsAt
    <3>2. \A w \in WaitsAt(t) : w \in WaitsAt(s) BY <1>3, <1>6 DEF WaitsAt
    <3> QED BY <3>1, <3>2
  <2>2. Cardinality(StartsAt(s)) = Cardinality(StartsAt(t)) + 1
    <3>1. StartsAt(s) = StartsAt(t) \cup {m} BY <1>3, <1>6 DEF StartsAt
    <3> QED BY <1>5, <3>1, FS_AddElement
  <2>3. StartedAt(s) = m BY <1>2, <1>6 DEF StartedAt, m
  <2> QED BY <1>6, <2>1, <2>2, <2>3 DEF MeasuredAt, MeasureEvent, m, t
<1>7. CASE bufferingEvents[m] # "start"
  <2>1. StartsAt(s) = StartsAt(t) BY <1>3, <1>7 DEF StartsAt
  <2>2. StartedAt(s) = 0 BY <1>7 DEF StartedAt, m
  <2>3. WaitsAt(s) = WaitsAt(t) \cup (IF StartedAt(t) = 0 THEN {} ELSE {<<StartedAt(t), m>>})
    <3>1. WaitsAt(t) \subseteq WaitsAt(s) BY <1>3 DEF WaitsAt
    <3>2. \A w \in WaitsAt(s) : w[2] # m => w \in WaitsAt(t) BY <1>3, <1>7 DEF WaitsAt
    <3>3. \A w \in WaitsAt(s) : w[2] = m =>
            /\ w[1] \in t /\ bufferingEvents[w[1]] = "start"
            /\ (\A j \in t : j <= w[1]) /\ w = <<w[1], m>>
      BY <1>3 DEF WaitsAt
    <3>4. \A w \in WaitsAt(s) : w[2] = m => StartedAt(t) # 0 /\ w = <<StartedAt(t), m>>
      BY <1>3, <1>4, <3>3 DEF StartedAt
    <3>5. StartedAt(t) # 0 => <<StartedAt(t), m>> \in WaitsAt(s)
      <4> SUFFICES ASSUME StartedAt(t) # 0 PROVE <<StartedAt(t), m>> \in WaitsAt(s) OBVIOUS
      <4>1. /\ StartedAt(t) \in t /\ bufferingEvents[StartedAt(t)] = "start"
            /\ \A j \in t : j <= StartedAt(t)
        BY <1>4 DEF StartedAt
      <4>2. <<StartedAt(t), m>> \in s \X s BY <1>3, <4>1
      <4>3. StartedAt(t) < m BY <1>3, <4>1
      <4>4. \A j \in s : j <= StartedAt(t) \/ m <= j BY <1>3, <4>1
      <4> QED BY <1>7, <4>1, <4>2, <4>3, <4>4 DEF WaitsAt
    <3> QED BY <3>1, <3>2, <3>4, <3>5
  <2> QED BY <1>7, <2>1, <2>2, <2>3 DEF MeasuredAt, MeasureEvent, m, t
<1> QED BY <1>6, <1>7

\* The function that FoldLeftDomain chooses to fold the log with.
Indices == [i \in DOMAIN bufferingEvents |-> i]
Folds(g) ==
  g = [s \in SUBSET DOMAIN Indices |->
         IF s = {} THEN [waits |-> {}, count |-> 0, started |-> 0]
         ELSE MeasureEvent(g[s \ {Max(s)}], Indices[Max(s)])]

\* What FoldLeftDomain stands for.
LEMMA MetricsFold == Metrics = (CHOOSE g : Folds(g))[DOMAIN Indices]
  BY Zenon DEF Metrics, FoldLeftDomain, FoldLeft, MapThenFoldSet, Folds, Indices

\* Every such function measures the events at every set of places: a smallest set that
\* it measures otherwise would have a greatest place, and be no smallest one.
LEMMA FoldMeasures ==
  ASSUME TypeOK, NEW g, Folds(g)
  PROVE  \A s \in SUBSET DOMAIN bufferingEvents : g[s] = MeasuredAt(s)
<1> DEFINE n == Len(bufferingEvents)
           Wrong == {s \in SUBSET (1..n) : g[s] # MeasuredAt(s)}
           Sizes == {Cardinality(s) : s \in Wrong}
<1>1. n \in Nat /\ DOMAIN bufferingEvents = 1..n BY LenProperties DEF TypeOK
<1>2. DOMAIN Indices = 1..n /\ \A i \in 1..n : Indices[i] = i BY <1>1 DEF Indices
<1>3. \A s \in SUBSET (1..n) :
        g[s] = IF s = {} THEN [waits |-> {}, count |-> 0, started |-> 0]
               ELSE MeasureEvent(g[s \ {Max(s)}], Indices[Max(s)])
  BY <1>2 DEF Folds
<1>4. \A s \in SUBSET (1..n) : IsFiniteSet(s) /\ Cardinality(s) \in Nat
  <2>1. IsFiniteSet(1..n) BY <1>1, FS_Interval
  <2> QED BY <2>1, FS_Subset, FS_CardinalityType
<1>5. ASSUME Wrong # {} PROVE FALSE
  <2>1. Sizes \subseteq Nat /\ Sizes # {} BY <1>4, <1>5
  <2>2. \E c \in Sizes : \A d \in Sizes : c <= d
    <3> HIDE DEF Sizes
    <3> QED BY <2>1, LeastNumber
  <2>3. PICK s \in Wrong : \A r \in Wrong : Cardinality(s) <= Cardinality(r) BY <2>2
  <2>4. s \in SUBSET (1..n) /\ g[s] # MeasuredAt(s) OBVIOUS
  <2>5. CASE s = {}
    <3>1. WaitsAt({}) = {} /\ StartsAt({}) = {} /\ StartedAt({}) = 0
      BY DEF WaitsAt, StartsAt, StartedAt
    <3>2. MeasuredAt({}) = [waits |-> {}, count |-> 0, started |-> 0]
      BY <3>1, FS_EmptySet DEF MeasuredAt
    <3> QED BY <1>3, <2>4, <2>5, <3>2
  <2>6. CASE s # {}
    <3>1. Max(s) \in s BY <1>1, <2>4, <2>6, MaxPlace
    <3>2. Cardinality(s \ {Max(s)}) = Cardinality(s) - 1
      BY <1>4, <2>4, <3>1, FS_RemoveElement
    <3>3. s \ {Max(s)} \in SUBSET (1..n) BY <2>4
    <3>4. s \ {Max(s)} \notin Wrong BY <1>4, <2>3, <2>4, <3>2, <3>3
    <3>5. g[s \ {Max(s)}] = MeasuredAt(s \ {Max(s)}) BY <3>3, <3>4
    <3>6. Indices[Max(s)] = Max(s) BY <1>2, <2>4, <3>1
    <3>7. g[s] = MeasureEvent(MeasuredAt(s \ {Max(s)}), Max(s))
      BY <1>3, <2>4, <2>6, <3>5, <3>6
    <3>8. MeasuredAt(s) = MeasureEvent(MeasuredAt(s \ {Max(s)}), Max(s))
      BY <1>1, <2>4, <2>6, MeasuredNext
    <3> QED BY <2>4, <3>7, <3>8
  <2> QED BY <2>5, <2>6
<1> QED BY <1>1, <1>5

\* Such a function exists, for MeasuredAt is one.
LEMMA MetricsMeasure == TypeOK => Metrics = MeasuredAt(DOMAIN bufferingEvents)
<1> SUFFICES ASSUME TypeOK PROVE Metrics = MeasuredAt(DOMAIN bufferingEvents) OBVIOUS
<1> DEFINE n == Len(bufferingEvents)
           G == [s \in SUBSET (1..n) |-> MeasuredAt(s)]
<1>1. n \in Nat /\ DOMAIN bufferingEvents = 1..n BY LenProperties DEF TypeOK
<1>2. DOMAIN Indices = 1..n /\ \A i \in 1..n : Indices[i] = i BY <1>1 DEF Indices
<1>3. ASSUME NEW s \in SUBSET (1..n)
      PROVE  MeasuredAt(s) = IF s = {} THEN [waits |-> {}, count |-> 0, started |-> 0]
                             ELSE MeasureEvent(G[s \ {Max(s)}], Indices[Max(s)])
  <2>1. CASE s = {}
    <3>1. WaitsAt({}) = {} /\ StartsAt({}) = {} /\ StartedAt({}) = 0
      BY DEF WaitsAt, StartsAt, StartedAt
    <3> QED BY <2>1, <3>1, FS_EmptySet DEF MeasuredAt
  <2>2. CASE s # {}
    <3>1. Max(s) \in 1..n BY <1>1, <2>2, MaxPlace
    <3>2. Indices[Max(s)] = Max(s) BY <1>2, <3>1
    <3>3. G[s \ {Max(s)}] = MeasuredAt(s \ {Max(s)}) OBVIOUS
    <3>4. MeasuredAt(s) = MeasureEvent(MeasuredAt(s \ {Max(s)}), Max(s))
      BY <1>1, <2>2, MeasuredNext
    <3> QED BY <2>2, <3>2, <3>3, <3>4
  <2> QED BY <2>1, <2>2
<1>4. Folds(G)
  <2>1. G = [s \in SUBSET DOMAIN Indices |->
               IF s = {} THEN [waits |-> {}, count |-> 0, started |-> 0]
               ELSE MeasureEvent(G[s \ {Max(s)}], Indices[Max(s)])]
    BY <1>2, <1>3
  <2> QED BY <2>1 DEF Folds
<1> HIDE DEF G
<1>5. Folds(CHOOSE g : Folds(g)) BY <1>4
<1>6. (CHOOSE g : Folds(g))[DOMAIN bufferingEvents] = MeasuredAt(DOMAIN bufferingEvents)
  BY <1>5, FoldMeasures
<1> QED BY <1>1, <1>2, <1>6, MetricsFold

-----------------------------------------------------------------------------
(* The waits of a session.                                                 *)

\* In a log in which an end follows a start, every end but the first event's closes a
\* wait; if a start follows an end too, the waits are the starts but the last event.
LEMMA WaitsCounted ==
  TypeOK /\ WaitsAlternate => WaitsMeasured
<1> SUFFICES ASSUME TypeOK, WaitsAlternate PROVE WaitsMeasured OBVIOUS
<1> DEFINE n == Len(bufferingEvents)
           D == 1..n
           W == WaitsAt(D)
           Starts == Places("start")
           Ends == Places("end")
<1>1. n \in Nat /\ DOMAIN bufferingEvents = D BY LenProperties DEF TypeOK
<1>2. \A k \in D : bufferingEvents[k] \in {"start", "end"} BY <1>1, ElementOfSeq DEF TypeOK
<1>3. Metrics = MeasuredAt(D) BY <1>1, MetricsMeasure
<1>4. /\ Metrics.waits = W /\ Metrics.count = Cardinality(StartsAt(D))
      /\ Metrics.started = StartedAt(D)
  BY <1>3 DEF MeasuredAt
<1>5. StartsAt(D) = Starts BY <1>1 DEF StartsAt, Places
<1>6. Starts \subseteq D /\ Ends \subseteq D BY <1>1 DEF Places
<1>7. IsFiniteSet(D) /\ IsFiniteSet(Starts) /\ IsFiniteSet(Ends) /\ IsFiniteSet(W)
  <2>1. IsFiniteSet(D) BY <1>1, FS_Interval
  <2>2. IsFiniteSet(D \X D) BY <2>1, FS_Product
  <2>3. W \subseteq D \X D BY DEF WaitsAt
  <2> QED BY <1>6, <2>1, <2>2, <2>3, FS_Subset
<1>8. \A k \in D : k + 1 \in D =>
        (<<k, k + 1>> \in W <=> bufferingEvents[k] = "start" /\ bufferingEvents[k + 1] # "start")
  BY <1>1 DEF WaitsAt
<1>9. \A w \in W : /\ w[1] \in D /\ w[1] + 1 \in D /\ w = <<w[1], w[1] + 1>>
                   /\ bufferingEvents[w[1]] = "start"
  <2> SUFFICES ASSUME NEW w \in W
      PROVE  /\ w[1] \in D /\ w[1] + 1 \in D /\ w = <<w[1], w[1] + 1>>
             /\ bufferingEvents[w[1]] = "start"
    OBVIOUS
  <2>1. /\ w \in D \X D /\ w[1] < w[2] /\ bufferingEvents[w[1]] = "start"
        /\ \A j \in D : j <= w[1] \/ w[2] <= j
    BY DEF WaitsAt
  <2>2. w[1] \in D /\ w[2] \in D /\ w = <<w[1], w[2]>> BY <2>1
  <2>3. w[1] + 1 \in D BY <1>1, <2>1, <2>2
  <2>4. w[2] = w[1] + 1 BY <1>1, <2>1, <2>2, <2>3
  <2> QED BY <2>1, <2>2, <2>3, <2>4
<1> HIDE DEF W, Starts, Ends
<1>10. Cardinality(W) >= Cardinality(Ends) - 1
  <2> DEFINE f == [k \in Ends \ {1} |-> <<k - 1, k>>]
  <2>1. \A k \in Ends \ {1} : k - 1 \in D /\ <<k - 1, k>> \in W
    <3> SUFFICES ASSUME NEW k \in Ends \ {1} PROVE k - 1 \in D /\ <<k - 1, k>> \in W OBVIOUS
    <3>1. k \in D /\ k - 1 \in D /\ (k - 1) + 1 = k BY <1>1, <1>6
    <3>2. bufferingEvents[k] = "end" BY DEF Ends, Places
    <3>3. bufferingEvents[k - 1] = "start" BY <1>1, <3>1, <3>2 DEF WaitsAlternate
    <3> QED BY <1>8, <3>1, <3>2, <3>3
  <2>2. f \in Injection(Ends \ {1}, W)
    <3>1. f \in [Ends \ {1} -> W] BY <2>1
    <3>2. \A k, j \in Ends \ {1} : f[k] = f[j] => k = j OBVIOUS
    <3> QED BY <3>1, <3>2 DEF Injection, IsInjective
  <2>3. Cardinality(Ends \ {1}) <= Cardinality(W) BY <1>7, <2>2, FS_Injection
  <2>4. /\ IsFiniteSet(Ends \ {1})
        /\ Cardinality(Ends \ {1}) = IF 1 \in Ends THEN Cardinality(Ends) - 1
                                     ELSE Cardinality(Ends)
    BY <1>7, FS_RemoveElement
  <2>5. Cardinality(Ends) \in Nat /\ Cardinality(W) \in Nat BY <1>7, FS_CardinalityType
  <2> QED BY <2>3, <2>4, <2>5
<1>11. ASSUME plays = 1
       PROVE  /\ W = {<<k, k + 1>> : k \in Starts \ {n}}
              /\ Cardinality(Starts) = Cardinality(W) + (IF StartedAt(D) = 0 THEN 0 ELSE 1)
  <2> DEFINE S == Starts \ {n}
  <2>1. \A k \in S : k \in Nat /\ k \in D /\ k + 1 \in D /\ bufferingEvents[k] = "start"
    BY <1>1, <1>6 DEF Starts, Places
  <2>2. \A k \in S : <<k, k + 1>> \in W
    <3> SUFFICES ASSUME NEW k \in S PROVE <<k, k + 1>> \in W OBVIOUS
    <3>1. /\ k \in Nat /\ k \in D /\ k + 1 \in D \ {1}
          /\ bufferingEvents[k] = "start"
      BY <1>1, <2>1
    <3>2. PICK j \in D \ {1} : j = k + 1 BY <3>1
    <3>3. bufferingEvents[j] # "start"
      <4>1. j - 1 = k BY <3>1, <3>2
      <4>2. bufferingEvents[j] = "start" => bufferingEvents[j - 1] = "end"
        BY <1>1, <1>11 DEF WaitsAlternate
      <4> QED BY <3>1, <4>1, <4>2
    <3> QED BY <1>8, <3>1, <3>2, <3>3
  <2>3. \A w \in W : w[1] \in S /\ w = <<w[1], w[1] + 1>>
    BY <1>1, <1>9 DEF Starts, Places
  <2>4. W = {<<k, k + 1>> : k \in S}
    <3> HIDE DEF S
    <3> QED BY <2>2, <2>3
  <2>5. Cardinality(W) = Cardinality(S)
    <3> DEFINE f == [k \in S |-> <<k, k + 1>>]
    <3>1. f \in [S -> W] BY <2>2
    <3>2. \A k, j \in S : f[k] = f[j] => k = j OBVIOUS
    <3>3. \A w \in W : \E k \in S : f[k] = w BY <2>3
    <3>4. f \in Bijection(S, W)
      <4> HIDE DEF f, S
      <4> QED BY <3>1, <3>2, <3>3 DEF Bijection, Injection, Surjection, IsInjective
    <3>5. IsFiniteSet(S) BY <1>7, FS_RemoveElement
    <3> QED BY <3>4, <3>5, FS_Bijection DEF ExistsBijection
  <2>6. Cardinality(S) = IF n \in Starts THEN Cardinality(Starts) - 1 ELSE Cardinality(Starts)
    BY <1>7, FS_RemoveElement
  <2>7. Cardinality(Starts) \in Nat BY <1>7, FS_CardinalityType
  <2>8. n \in Starts <=> StartedAt(D) # 0
    <3>1. CASE D = {} BY <1>6, <3>1 DEF StartedAt
    <3>2. CASE D # {}
      <4>1. Max(D) \in D /\ \A i \in D : i <= Max(D) BY <1>1, <3>2, MaxPlace
      <4>2. n \in D /\ n # 0 BY <1>1, <3>2
      <4>3. Max(D) = n BY <1>1, <4>1, <4>2
      <4> QED BY <1>1, <3>2, <4>2, <4>3 DEF StartedAt, Starts, Places
    <3> QED BY <3>1, <3>2
  <2> QED BY <2>4, <2>5, <2>6, <2>7, <2>8
<1>12. Cardinality(Metrics.waits) >= Cardinality(Ends) - 1 BY <1>4, <1>10
<1>13. plays = 1 =>
         /\ Metrics.waits = {<<k, k + 1>> : k \in Starts \ {Len(bufferingEvents)}}
         /\ Metrics.count = Cardinality(Metrics.waits) + (IF Metrics.started = 0 THEN 0 ELSE 1)
  BY <1>4, <1>5, <1>11
<1> QED BY <1>12, <1>13 DEF WaitsMeasured, Starts, Ends

\* One more event in the log.
LEMMA LogGrows ==
  ASSUME IInv, LogIInv, NEW e \in {"start", "end"}, LogEvent(e), plays' = plays,
         enabled' = enabled,
         e = "end" => playerState = "BUFFERING" /\ playerState' = "PLAYING",
         e = "start" => /\ playerState' = "BUFFERING"
                        /\ plays <= 1 => playerState = "PLAYING"
  PROVE  LogIInv'
<1>1. bufferingEvents \in Seq({"start", "end"}) BY DEF IInv, TypeOK
<1>2. CASE enabled
  <2> DEFINE n == Len(bufferingEvents)
  <2>1. bufferingEvents' = Append(bufferingEvents, e) BY <1>2 DEF LogEvent
  <2>2. /\ n \in Nat /\ DOMAIN bufferingEvents = 1..n
        /\ DOMAIN bufferingEvents' = 1..(n + 1) /\ Len(bufferingEvents') = n + 1
        /\ bufferingEvents'[n + 1] = e
        /\ \A k \in 1..n : bufferingEvents'[k] = bufferingEvents[k]
    BY <1>1, <2>1
  <2>3. n # 0 => /\ bufferingEvents[n] \in {"start", "end"}
                 /\ bufferingEvents[n] = "end" => playerState = "PLAYING"
                 /\ plays <= 1 /\ bufferingEvents[n] = "start" => playerState = "BUFFERING"
    <3>1. n # 0 => n \in 1..n /\ bufferingEvents # <<>> BY <1>1, <2>2
    <3>2. n # 0 => bufferingEvents[n] \in {"start", "end"} BY <1>1, <2>2, <3>1, ElementOfSeq
    <3> QED BY <1>2, <3>1, <3>2 DEF LogIInv, LogInStep
  <2>4. WaitsAlternate'
    <3> SUFFICES ASSUME NEW k \in 2..(n + 1)
        PROVE /\ bufferingEvents'[k] = "end" => bufferingEvents'[k - 1] = "start"
              /\ plays <= 1 /\ bufferingEvents'[k] = "start" => bufferingEvents'[k - 1] = "end"
      BY <2>2 DEF WaitsAlternate
    <3>1. CASE k = n + 1
      <4>1. n # 0 /\ n \in 1..n /\ k - 1 = n BY <2>2, <3>1
      <4>2. bufferingEvents'[k] = e /\ bufferingEvents'[k - 1] = bufferingEvents[n]
        BY <2>2, <3>1, <4>1
      <4> QED BY <2>3, <4>1, <4>2
    <3>2. CASE k # n + 1
      <4>1. k \in (1..n) \ {1} /\ k - 1 \in 1..n BY <2>2, <3>2
      <4> QED BY <2>2, <4>1 DEF LogIInv, WaitsAlternate
    <3> QED BY <3>1, <3>2
  <2>5. LogInStep' BY <2>2 DEF LogInStep
  <2> QED BY <2>4, <2>5 DEF LogIInv
<1>3. CASE ~ enabled
  <2>1. bufferingEvents' = bufferingEvents BY <1>3 DEF LogEvent
  <2>2. WaitsAlternate' BY <2>1 DEF LogIInv, WaitsAlternate
  <2>3. LogInStep' BY <1>3 DEF LogInStep
  <2> QED BY <2>2, <2>3 DEF LogIInv
<1> QED BY <1>2, <1>3

\* The log is as it was, of a player that is as it was or of a session that has ended.
LEMMA LogKept ==
  ASSUME LogIInv, bufferingEvents' = bufferingEvents, plays' = plays,
         ~ enabled' \/ (enabled' = enabled /\ playerState' = playerState)
  PROVE  LogIInv'
<1>1. WaitsAlternate' BY DEF LogIInv, WaitsAlternate
<1>2. LogInStep' BY DEF LogIInv, LogInStep
<1> QED BY <1>1, <1>2 DEF LogIInv

\* Every step keeps the log in step with the player.
LEMMA NextLog == ASSUME IInv, LogIInv, [Next]_vars PROVE LogIInv'
<1>1. CASE StartWatching
  <2>1. bufferingEvents' = <<>> BY <1>1 DEF StartWatching
  <2> QED BY <2>1 DEF LogIInv, WaitsAlternate, LogInStep
<1>2. CASE StopWatching BY <1>2, LogKept DEF StopWatching
<1>3. ASSUME NEW p \in Plays, Setup(p) PROVE LogIInv'
  <2>1. UNCHANGED <<renderVars, logVars, plays>>
    BY <1>3 DEF Setup, InitSubscribed, InitSegmentRead, VideoSubscribed, SetupFailed
  <2> QED BY <2>1, LogKept DEF renderVars, logVars
<1>4. ASSUME NEW p \in Plays, NEW pts \in Frames, Write(p, pts) PROVE LogIInv'
  <2>1. CASE WritePaused(p, pts) \/ WriteBuffers(p, pts)
    <3>1. UNCHANGED <<playerState, logVars, plays>>
      BY <2>1 DEF WritePaused, WriteBuffers, renderVars, setupVars
    <3> QED BY <3>1, LogKept DEF logVars
  <2>2. CASE WriteResumes(p, pts)
    <3>1. LogEvent("end") /\ plays' = plays /\ enabled' = enabled
          /\ playerState = "BUFFERING" /\ playerState' = "PLAYING"
      BY <2>2 DEF WriteResumes, setupVars
    <3> QED BY <3>1, LogGrows
  <2> QED BY <1>4, <2>1, <2>2 DEF Write
<1>5. ASSUME NEW i \in DOMAIN held, Timer(i) PROVE LogIInv'
  <2>1. CASE RenderStops(i) \/ RenderQueuesNext(i)
    <3>1. UNCHANGED <<playerState, bufferingEvents, enabled, plays>>
      BY <2>1 DEF RenderStops, RenderQueuesNext, Render, setupVars
    <3> QED BY <3>1, LogKept
  <2>2. CASE RenderUnderruns(i)
    <3>1. /\ LogEvent("start") /\ plays' = plays /\ enabled' = enabled
          /\ playerState # "PAUSED" /\ playerState' = "BUFFERING"
      BY <2>2 DEF RenderUnderruns, Render, setupVars
    <3>2. plays <= 1 => playerState = "PLAYING"
      <4>1. Len(held) \in Nat /\ Len(held) # 0 /\ plays \in Nat
        BY <1>5, EmptySeq, LenProperties DEF IInv, TypeOK
      <4>2. playerState = "BUFFERING" => Len(held) < plays BY DEF IInv, LoopBound
      <4> QED BY <3>1, <4>1, <4>2 DEF IInv, TypeOK
    <3> QED BY <3>1, <3>2, LogGrows
  <2> QED BY <1>5, <2>1, <2>2 DEF Timer
<1>6. CASE UNCHANGED vars
  <2>1. UNCHANGED <<playerState, logVars, plays>> BY <1>6 DEF vars, renderVars, setupVars
  <2> QED BY <2>1, LogKept DEF logVars
<1> QED BY <1>1, <1>2, <1>3, <1>4, <1>5, <1>6 DEF Next

\* However long a session and however often the player was restarted, every bufferingEnd
\* but the first closes a wait of its own, and until a restart the waits measured are
\* those from each bufferingStart to the event behind it.
THEOREM WaitsMeasuredAlways == Spec => []WaitsMeasured
<1>1. Init => LogIInv BY DEF Init, LogIInv, WaitsAlternate, LogInStep
<1>2. IInv /\ LogIInv /\ [Next]_vars => LogIInv' BY NextLog
<1>3. IInv /\ LogIInv => WaitsMeasured BY WaitsCounted DEF IInv, LogIInv
<1> QED BY <1>1, <1>2, <1>3, Invariance, PTL DEF Spec
=============================================================================
