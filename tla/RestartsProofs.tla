--------------------------- MODULE RestartsProofs ---------------------------
(***************************************************************************)
(* Proofs about Restarts: for any number of frames, GoPs and calls of      *)
(* play(), what they share keeps frames and RawFrames together.            *)
(***************************************************************************)
EXTENDS Restarts, SequenceTheorems, TLAPS

\* The decoder's microseconds give the key back, whichever way they were cut.
LEMMA KeyRecovered ==
  ASSUME NEW pts \in Nat, NEW q \in Truncations(pts)
  PROVE  Key(q) = pts
<1> DEFINE n == q * Timescale
<1>1. q \in Int /\ q * Timescale <= pts * Second /\ pts * Second <= (q + 1) * Timescale
  BY TimestampsAssumption DEF Truncations
<1>2. n \in Int /\ n <= pts * Second /\ pts * Second <= n + Timescale
  BY <1>1, TimestampsAssumption
<1> HIDE DEF n
<1>3. pts * (2 * Second) <= 2 * n + Second
  BY <1>2, TimestampsAssumption
<1>4. 2 * n + Second < (pts + 1) * (2 * Second)
  BY <1>2, TimestampsAssumption
<1>5. ASSUME NEW d \in Nat \ {0}, NEW x \in Int, pts * d <= x, x < (pts + 1) * d
      PROVE  x \div d = pts
  BY <1>5, Z3
<1>6. (2 * n + Second) \div (2 * Second) = pts
  BY <1>2, <1>3, <1>4, <1>5, TimestampsAssumption
<1> QED BY <1>6 DEF Round, Key, n

LEMMA RestartsInit == Init => IInv
<1> SUFFICES ASSUME Init PROVE IInv
  OBVIOUS
<1>1. <<>> \in Seq(RawFrame)
  OBVIOUS
<1>2. TypeOK
  <2>1. /\ plays \in 0..MaxPlays /\ sink \in 0..MaxPlays /\ 0 \in 0..MaxFrames
        /\ 0 \in 0..MaxPlays
    BY RestartsAssumption DEF Init, NoPlay
  <2>2. /\ answered \in [Plays -> 0..MaxPlays] /\ first \in [Plays -> 0..MaxFrames]
        /\ received \in [Plays -> 0..MaxFrames]
    BY <2>1 DEF Init
  <2>3. /\ decoding \in [Plays -> SUBSET Chunk] /\ fed \in [Plays -> Seq(RawFrame)]
    BY <1>1 DEF Init
  <2> QED BY <1>1, <2>1, <2>2, <2>3 DEF Init, TypeOK
<1>3. PlayStates
  BY RestartsAssumption DEF Init, PlayStates, NoPlay, Plays
<1>4. SamplesPaired /\ OneToken /\ MissedOnlyTwice
  BY DEF Init, SamplesPaired, Waiting, OneToken, MissedOnlyTwice
<1>5. OwnFed /\ CleanRestart
  BY DEF Init, OwnFed, CleanRestart, NoPlay, Plays
<1> QED BY <1>2, <1>3, <1>4, <1>5 DEF IInv

-----------------------------------------------------------------------------
\* Types of what the invariant talks about.
LEMMA RawFrameType ==
  ASSUME TypeOK
  PROVE  /\ \A k \in DOMAIN queue : queue[k] \in RawFrame
         /\ \A k \in DOMAIN file : file[k] \in RawFrame
         /\ \A p \in Plays : \A c \in decoding[p] :
              c \in Chunk /\ c.data \in RawFrame /\ c.pts \in Frames
         /\ \A f \in RawFrame : f.pts \in Frames /\ f.play \in Plays
         /\ \A p \in Plays : \A k \in DOMAIN fed[p] : fed[p][k] \in RawFrame
<1>1. \A k \in DOMAIN queue : queue[k] \in RawFrame
  BY DEF TypeOK
<1>2. \A k \in DOMAIN file : file[k] \in RawFrame
  BY DEF TypeOK
<1>3. ASSUME NEW p \in Plays, NEW c \in decoding[p]
      PROVE  c \in Chunk /\ c.data \in RawFrame /\ c.pts \in Frames
  BY <1>3 DEF TypeOK, Chunk
<1>4. \A f \in RawFrame : f.pts \in Frames /\ f.play \in Plays
  BY DEF RawFrame
<1>5. ASSUME NEW p \in Plays, NEW k \in DOMAIN fed[p] PROVE fed[p][k] \in RawFrame
  <2>1. fed[p] \in Seq(RawFrame)
    BY DEF TypeOK
  <2> QED BY <2>1
<1> QED BY <1>1, <1>2, <1>3, <1>4, <1>5

\* A subscription stays what it is, and its frames are counted upwards.
Grows == \A p \in Plays : first[p] > 0 => first'[p] = first[p] /\ received[p] <= received'[p]

LEMMA Monotone ==
  ASSUME TypeOK, TypeOK', Grows, NEW pts \in Frames
  PROVE  /\ Parsed(pts) => Parsed(pts)'
         /\ DeliveredTwice(pts) => DeliveredTwice(pts)'
<1>1. ASSUME NEW p \in Plays, first[p] \in 1..pts, pts <= received[p]
      PROVE  first'[p] \in 1..pts /\ pts <= received'[p]
  <2>1. first[p] \in Nat /\ received[p] \in Nat /\ received'[p] \in Nat /\ pts \in Nat
    BY RestartsAssumption DEF TypeOK, Frames
  <2> QED BY <1>1, <2>1 DEF Grows
<1> QED BY <1>1 DEF Parsed, DeliveredTwice

\* Steps of play() and pause() before a SUBSCRIBE is answered.
LEMMA Untouched ==
  ASSUME IInv, UNCHANGED <<first, received, answered, queue, decodeVars, processing, missed>>
  PROVE  OneToken' /\ MissedOnlyTwice' /\ CleanRestart'
<1>1. OneToken'
  BY DEF IInv, OneToken, Parsed, InMap, DeliveredTwice, decodeVars
<1>2. MissedOnlyTwice' /\ CleanRestart'
  BY DEF IInv, MissedOnlyTwice, DeliveredTwice, CleanRestart, decodeVars
<1> QED BY <1>1, <1>2

LEMMA PauseInv == ASSUME IInv, Pause PROVE IInv'
<1>1. /\ UNCHANGED <<plays, step, first, answered, received, processing, queue, file, sink,
                     lost, decodeVars, missed>>
      /\ paused' = TRUE
  BY DEF Pause, parserVars
<1>2. TypeOK'
  BY <1>1 DEF IInv, TypeOK, decodeVars
<1>3. PlayStates' /\ SamplesPaired' /\ OwnFed'
  BY <1>1 DEF IInv, PlayStates, SamplesPaired, Waiting, OwnFed, decodeVars
<1>4. OneToken' /\ MissedOnlyTwice' /\ CleanRestart'
  BY <1>1, Untouched
<1> QED BY <1>2, <1>3, <1>4 DEF IInv

LEMMA SubscribeFailsInv == ASSUME IInv, NEW p \in Plays, SubscribeFails(p) PROVE IInv'
<1>1. /\ UNCHANGED <<plays, paused, first, answered, received, processing, queue, file, sink,
                     lost, decodeVars, missed>>
      /\ step[p] = "subscribing" /\ step' = [step EXCEPT ![p] = "failed"]
  BY DEF SubscribeFails, parserVars
<1>2. TypeOK'
  BY <1>1 DEF IInv, TypeOK, decodeVars
<1>3. \A q \in Plays : step'[q] = IF q = p THEN "failed" ELSE step[q]
  BY <1>1 DEF IInv, TypeOK
<1>4. SamplesPaired' /\ OwnFed'
  BY <1>1, <1>3 DEF IInv, SamplesPaired, Waiting, OwnFed, decodeVars
<1>5. PlayStates'
  <2>1. TypeOK /\ PlayStates
    BY DEF IInv
  <2>2. sink # NoPlay => sink \in Plays /\ sink # p
    <3>1. sink # NoPlay => step[sink] \in {"streaming", "broken", "unpiped"}
      BY <2>1 DEF PlayStates
    <3>2. sink # NoPlay => sink \in Plays
      BY <2>1, RestartsAssumption DEF TypeOK, Plays, NoPlay
    <3> QED BY <1>1, <3>1, <3>2
  <2>3. fed' = fed
    BY <1>1 DEF decodeVars
  <2>4. ASSUME NEW q \in Plays
        PROVE  /\ q > plays' => step'[q] = "idle"
               /\ step'[q] \in {"idle", "subscribing", "failed"} =>
                    first'[q] = 0 /\ fed'[q] = <<>>
               /\ step'[q] \in {"streaming", "broken", "unpiped"} =>
                    first'[q] > 0 /\ first'[q] <= received'[q] + 1
               /\ step'[q] = "unpiped" => fed'[q] = <<>>
    <3>1. CASE q = p
      BY <1>1, <1>3, <2>1, <2>3, <3>1 DEF PlayStates
    <3>2. CASE q # p
      BY <1>1, <1>3, <2>1, <2>3, <3>2 DEF PlayStates
    <3> QED BY <3>1, <3>2
  <2>5. sink' # NoPlay =>
          answered'[sink'] = plays' /\ step'[sink'] \in {"streaming", "broken", "unpiped"}
    BY <1>1, <1>3, <2>1, <2>2 DEF PlayStates
  <2>6. \A k \in DOMAIN file' : file'[k].play <= plays' /\ first'[file'[k].play] > 0
    BY <1>1, <2>1 DEF PlayStates
  <2> QED BY <2>4, <2>5, <2>6 DEF PlayStates
<1>6. OneToken' /\ MissedOnlyTwice' /\ CleanRestart'
  BY <1>1, Untouched
<1> QED BY <1>2, <1>4, <1>5, <1>6 DEF IInv

LEMMA ConfigureInv == ASSUME IInv, Configure PROVE IInv'
<1> DEFINE n == plays + 1
<1>1. /\ plays \in 0..MaxPlays /\ MaxPlays \in Nat /\ plays < MaxPlays
      /\ n \in Plays /\ plays' = n /\ paused' = FALSE
      /\ step' = [step EXCEPT ![n] = "subscribing"]
      /\ file' = <<>> /\ sink' = NoPlay /\ lost' = (lost \/ Waiting # <<>>)
      /\ UNCHANGED <<first, answered, received, processing, queue, decodeVars, missed>>
  BY RestartsAssumption DEF Configure, IInv, TypeOK, Plays
<1> HIDE DEF n
<1>2. TypeOK /\ PlayStates /\ SamplesPaired
  BY DEF IInv
<1>3. TypeOK'
  <2>1. lost' \in BOOLEAN /\ sink' \in 0..MaxPlays /\ plays' \in 0..MaxPlays
    BY <1>1, <1>2 DEF NoPlay, Plays, TypeOK
  <2>2. paused' \in BOOLEAN /\ file' \in Seq(RawFrame)
    BY <1>1, EmptySeq
  <2>3. step' \in [Plays ->
                     {"idle", "subscribing", "streaming", "failed", "broken", "unpiped"}]
    BY <1>1, <1>2 DEF TypeOK
  <2> QED BY <1>1, <1>2, <2>1, <2>2, <2>3 DEF TypeOK, decodeVars
<1>4. SamplesPaired'
  <2>1. Waiting' = <<>> /\ queue' = queue /\ decoding' = decoding
    BY <1>1 DEF Waiting, decodeVars
  <2>2. Len(queue) \in Nat
    BY <1>2 DEF TypeOK
  <2>3. Len(Waiting') <= Len(queue')
    BY <2>1, <2>2
  <2>4. ~lost' => ~lost /\ Waiting = <<>>
    BY <1>1
  <2> QED BY <1>2, <2>1, <2>3, <2>4 DEF SamplesPaired
<1>5. PlayStates'
  <2>1. \A p \in Plays : step'[p] = IF p = n THEN "subscribing" ELSE step[p]
    BY <1>1, <1>2 DEF TypeOK
  <2>2. n > plays /\ \A p \in Plays : p > n => p > plays /\ p # n
    BY <1>1 DEF n, Plays
  <2>3. fed' = fed /\ step[n] = "idle"
    BY <1>1, <1>2, <2>2 DEF decodeVars, PlayStates
  <2>4. ASSUME NEW p \in Plays
        PROVE  /\ p > plays' => step'[p] = "idle"
               /\ step'[p] \in {"idle", "subscribing", "failed"} =>
                    first'[p] = 0 /\ fed'[p] = <<>>
               /\ step'[p] \in {"streaming", "broken", "unpiped"} =>
                    first'[p] > 0 /\ first'[p] <= received'[p] + 1
               /\ step'[p] = "unpiped" => fed'[p] = <<>>
    <3>1. CASE p = n
      <4>1. first[n] = 0 /\ fed[n] = <<>>
        BY <1>1, <1>2, <2>3 DEF PlayStates
      <4>2. ~(n > n)
        BY <1>1 DEF Plays
      <4> QED BY <1>1, <2>1, <2>3, <3>1, <4>1, <4>2
    <3>2. CASE p # n
      BY <1>1, <1>2, <2>1, <2>2, <2>3, <3>2 DEF PlayStates
    <3> QED BY <3>1, <3>2
  <2>5. DOMAIN file' = {}
    BY <1>1
  <2> QED BY <1>1, <2>4, <2>5 DEF PlayStates
<1>6. OwnFed'
  BY <1>1 DEF OwnFed, NoPlay, Plays
<1>7. OneToken' /\ MissedOnlyTwice' /\ CleanRestart'
  BY <1>1, Untouched
<1> QED BY <1>3, <1>4, <1>5, <1>6, <1>7 DEF IInv

-----------------------------------------------------------------------------
(* RawFrames and samples on their way.                                     *)

\* OneToken, of any queue and any decoders.
Tokens(qu, dec) ==
  /\ \A k \in DOMAIN qu :
       /\ Parsed(qu[k].pts)
       /\ InMap(qu[k].pts) \/ DeliveredTwice(qu[k].pts)
       /\ \A j \in DOMAIN qu :
            j # k /\ qu[j].pts = qu[k].pts => DeliveredTwice(qu[k].pts)
       /\ \A p \in Plays : \A c \in dec[p] :
            c.pts = qu[k].pts => DeliveredTwice(c.pts)
  /\ \A p \in Plays : \A c \in dec[p] :
       /\ Parsed(c.pts)
       /\ InMap(c.pts) \/ DeliveredTwice(c.pts)
       /\ \A q \in Plays : \A d \in dec[q] :
            (p # q \/ c # d) /\ c.pts = d.pts => DeliveredTwice(c.pts)

LEMMA KeepTokens ==
  ASSUME IInv, TypeOK', Grows, processing' = processing,
         NEW qu, qu = queue, NEW dec, dec = decoding
  PROVE  Tokens(qu, dec)'
<1>1. TypeOK
  BY DEF IInv
<1>2. \A x \in Frames : /\ Parsed(x) => Parsed(x)'
                        /\ DeliveredTwice(x) => DeliveredTwice(x)'
                        /\ InMap(x) => InMap(x)'
  BY <1>1, Monotone DEF InMap
<1>3. /\ \A k \in DOMAIN qu : qu[k].pts \in Frames
      /\ \A p \in Plays : \A c \in dec[p] : c.pts \in Frames
  BY <1>1, RawFrameType
<1> QED BY <1>2, <1>3 DEF IInv, OneToken, Tokens

\* The chunk made of the k-th sample and the k-th RawFrame.
Made(data, qu, k) == [data |-> data[k], pts |-> qu[k].pts]

\* The first n of the queue went to the decoder of s, if it took them.
Moved(qu, dec, n, s, data) ==
  /\ queue = SubSeq(qu, n + 1, Len(qu))
  /\ \A p \in Plays : \A c \in decoding[p] :
       \/ c \in dec[p]
       \/ p = s /\ \E k \in 1..n : c = Made(data, qu, k)

LEMMA MoveTokens ==
  ASSUME NEW qu \in Seq(RawFrame), NEW dec \in [Plays -> SUBSET Chunk], Tokens(qu, dec)',
         NEW n \in Nat, n <= Len(qu), NEW s \in Plays, NEW data \in Seq(RawFrame),
         Moved(qu, dec, n, s, data)'
  PROVE  OneToken'
<1>0. /\ queue' = SubSeq(qu, n + 1, Len(qu))
      /\ \A p \in Plays : \A c \in decoding'[p] :
           \/ c \in dec[p]
           \/ p = s /\ \E k \in 1..n : c = Made(data, qu, k)
  BY DEF Moved
<1>1. Len(qu) \in Nat /\ DOMAIN qu = 1..Len(qu) /\ \A k \in 1..Len(qu) : qu[k] \in RawFrame
  BY LenProperties, ElementOfSeq
<1>2. /\ Len(queue') = Len(qu) - n /\ DOMAIN queue' = 1..(Len(qu) - n)
      /\ \A k \in 1..(Len(qu) - n) : queue'[k] = qu[k + n]
  <2> DEFINE m == Len(qu)
             t == SubSeq(qu, n + 1, m)
  <2>1. /\ t \in Seq(RawFrame)
        /\ Len(t) = IF n + 1 <= m THEN m - (n + 1) + 1 ELSE 0
        /\ \A i \in 1..(m - (n + 1) + 1) : t[i] = qu[n + 1 + i - 1]
    <3>1. \A i \in (n + 1)..m : qu[i] \in RawFrame
      BY <1>1
    <3> QED BY <1>1, <3>1, SubSeqProperties
  <2>2. DOMAIN t = 1..Len(t)
    BY <2>1, LenProperties
  <2>3. m \in Nat /\ n <= m /\ queue' = t
    BY <1>0, <1>1
  <2> HIDE DEF m, t
  <2>4. Len(t) = m - n
    BY <2>1, <2>3
  <2>5. ASSUME NEW i \in 1..(m - n) PROVE t[i] = qu[i + n]
    <3>1. n + 1 + i - 1 = i + n /\ i \in 1..(m - (n + 1) + 1)
      BY <2>3
    <3> QED BY <2>1, <3>1
  <2> QED BY <2>2, <2>3, <2>4, <2>5 DEF m
<1>3. ASSUME NEW k \in DOMAIN queue'
      PROVE  k + n \in DOMAIN qu /\ k + n > n /\ queue'[k] = qu[k + n]
  BY <1>1, <1>2
<1>4. ASSUME NEW p \in Plays, NEW c \in decoding'[p]
      PROVE  c \in dec[p] \/ (p = s /\ \E k \in 1..n : c = Made(data, qu, k) /\ k \in DOMAIN qu)
  BY <1>0, <1>1
<1>5. \A k : Made(data, qu, k).pts = qu[k].pts
  BY DEF Made
<1>6. ASSUME NEW k \in DOMAIN queue'
      PROVE  /\ Parsed(queue[k].pts)'
             /\ InMap(queue[k].pts)' \/ DeliveredTwice(queue[k].pts)'
             /\ \A j \in DOMAIN queue' :
                  j # k /\ queue'[j].pts = queue'[k].pts => DeliveredTwice(queue[k].pts)'
             /\ \A p \in Plays : \A c \in decoding'[p] :
                  c.pts = queue'[k].pts => DeliveredTwice(c.pts)'
  <2> DEFINE x == queue'[k].pts
  <2>1. x = qu[k + n].pts /\ k + n \in DOMAIN qu /\ k + n > n
    BY <1>3
  <2>2. Parsed(qu[k + n].pts)' /\ (InMap(qu[k + n].pts)' \/ DeliveredTwice(qu[k + n].pts)')
    BY <2>1 DEF Tokens
  <2>3. ASSUME NEW j \in DOMAIN queue', j # k, queue'[j].pts = queue'[k].pts
        PROVE  DeliveredTwice(queue[k].pts)'
    <3>1. j + n # k + n /\ j + n \in DOMAIN qu /\ qu[j + n].pts = qu[k + n].pts
      BY <1>2, <1>3, <2>3
    <3>2. DeliveredTwice(qu[k + n].pts)'
      BY <2>1, <3>1 DEF Tokens
    <3>3. queue[k].pts' = qu[k + n].pts
      BY <2>1
    <3> QED BY <3>2, <3>3
  <2>4. ASSUME NEW p \in Plays, NEW c \in decoding'[p], c.pts = queue'[k].pts
        PROVE  DeliveredTwice(c.pts)'
    <3>1. CASE c \in dec[p]
      BY <2>1, <2>4, <3>1 DEF Tokens
    <3>2. CASE \E i \in 1..n : c = Made(data, qu, i) /\ i \in DOMAIN qu
      <4>1. PICK i \in 1..n : c = Made(data, qu, i) /\ i \in DOMAIN qu
        BY <3>2
      <4>2. i # k + n /\ qu[i].pts = qu[k + n].pts /\ c.pts = qu[i].pts
        BY <1>1, <1>5, <2>1, <2>4, <4>1
      <4> QED BY <2>1, <4>1, <4>2 DEF Tokens
    <3> QED BY <1>4, <3>1, <3>2
  <2> QED BY <1>3, <2>2, <2>3, <2>4
<1>7. ASSUME NEW p \in Plays, NEW c \in decoding'[p]
      PROVE  /\ Parsed(c.pts)'
             /\ InMap(c.pts)' \/ DeliveredTwice(c.pts)'
             /\ \A q \in Plays : \A d \in decoding'[q] :
                  (p # q \/ c # d) /\ c.pts = d.pts => DeliveredTwice(c.pts)'
  <2>1. CASE c \in dec[p]
    <3>1. Parsed(c.pts)' /\ (InMap(c.pts)' \/ DeliveredTwice(c.pts)')
      BY <2>1 DEF Tokens
    <3>2. ASSUME NEW q \in Plays, NEW d \in decoding'[q], p # q \/ c # d, c.pts = d.pts
          PROVE  DeliveredTwice(c.pts)'
      <4>1. CASE d \in dec[q]
        BY <2>1, <3>2, <4>1 DEF Tokens
      <4>2. CASE \E i \in 1..n : d = Made(data, qu, i) /\ i \in DOMAIN qu
        BY <1>5, <2>1, <3>2, <4>2 DEF Tokens
      <4> QED BY <1>4, <4>1, <4>2
    <3> QED BY <3>1, <3>2
  <2>2. CASE p = s /\ \E k \in 1..n : c = Made(data, qu, k) /\ k \in DOMAIN qu
    <3>1. PICK k \in 1..n : c = Made(data, qu, k) /\ k \in DOMAIN qu
      BY <2>2
    <3>2. c.pts = qu[k].pts
      BY <1>5, <3>1
    <3>3. Parsed(c.pts)' /\ (InMap(c.pts)' \/ DeliveredTwice(c.pts)')
      BY <3>1, <3>2 DEF Tokens
    <3>4. ASSUME NEW q \in Plays, NEW d \in decoding'[q], p # q \/ c # d, c.pts = d.pts
          PROVE  DeliveredTwice(c.pts)'
      <4>1. CASE d \in dec[q]
        <5>1. DeliveredTwice(d.pts)'
          BY <3>1, <3>2, <3>4, <4>1 DEF Tokens
        <5> QED BY <3>4, <5>1
      <4>2. CASE q = s /\ \E i \in 1..n : d = Made(data, qu, i) /\ i \in DOMAIN qu
        <5>1. PICK i \in 1..n : d = Made(data, qu, i) /\ i \in DOMAIN qu
          BY <4>2
        <5>2. i # k /\ qu[i].pts = qu[k].pts
          BY <1>5, <2>2, <3>1, <3>2, <3>4, <4>2, <5>1
        <5> QED BY <3>1, <3>2, <5>1, <5>2 DEF Tokens
      <4> QED BY <1>4, <4>1, <4>2
    <3> QED BY <3>3, <3>4
  <2> QED BY <1>4, <2>1, <2>2
<1> QED BY <1>6, <1>7 DEF OneToken

\* What start() does whether or not it throws, the pipeline of p aside.
LEMMA ServedFacts ==
  ASSUME IInv, NEW p \in Plays, NEW k \in Keyframes, Served(p, k),
         received' = [received EXCEPT ![p] = k - 1]
  PROVE  /\ step[p] = "subscribing" /\ first[p] = 0 /\ fed[p] = <<>> /\ p <= plays
         /\ first' = [first EXCEPT ![p] = k] /\ answered' = [answered EXCEPT ![p] = plays]
         /\ sink' = p /\ p # NoPlay
         /\ UNCHANGED <<plays, paused, processing, file, lost, missed>>
         /\ first' \in [Plays -> 0..MaxFrames] /\ received' \in [Plays -> 0..MaxFrames]
         /\ answered' \in [Plays -> 0..MaxPlays] /\ sink' \in 0..MaxPlays
         /\ first'[p] = k /\ received'[p] = k - 1 /\ answered'[p] = plays
         /\ \A q \in Plays : q # p => /\ first'[q] = first[q] /\ received'[q] = received[q]
                                      /\ answered'[q] = answered[q]
         /\ k \in 1..MaxFrames /\ MaxFrames \in Nat /\ plays \in Nat
         /\ Grows
<1>1. /\ step[p] = "subscribing"
      /\ first' = [first EXCEPT ![p] = k] /\ answered' = [answered EXCEPT ![p] = plays]
      /\ sink' = p
      /\ UNCHANGED <<plays, paused, processing, file, lost, missed>>
  BY DEF Served
<1>2. TypeOK /\ PlayStates
  BY DEF IInv
<1>3. k \in 1..MaxFrames /\ MaxFrames \in Nat /\ MaxPlays \in Nat /\ plays \in 0..MaxPlays
      /\ p \in 1..MaxPlays
  BY <1>2, RestartsAssumption DEF TypeOK, Plays
<1>4. first[p] = 0 /\ fed[p] = <<>> /\ p <= plays
  BY <1>1, <1>2, <1>3 DEF PlayStates
<1>5. /\ first' \in [Plays -> 0..MaxFrames] /\ received' \in [Plays -> 0..MaxFrames]
      /\ answered' \in [Plays -> 0..MaxPlays] /\ sink' \in 0..MaxPlays
  BY <1>1, <1>2, <1>3 DEF TypeOK
<1>6. /\ first'[p] = k /\ received'[p] = k - 1 /\ answered'[p] = plays
      /\ \A q \in Plays : q # p => /\ first'[q] = first[q] /\ received'[q] = received[q]
                                   /\ answered'[q] = answered[q]
  BY <1>1, <1>2 DEF TypeOK
<1>7. Grows
  BY <1>2, <1>3, <1>4, <1>6 DEF Grows, TypeOK
<1> QED BY <1>1, <1>3, <1>4, <1>5, <1>6, <1>7 DEF NoPlay

LEMMA ServedStates ==
  ASSUME IInv, NEW p \in Plays, NEW k \in Keyframes, Served(p, k),
         received' = [received EXCEPT ![p] = k - 1], NEW to,
         to \in {"streaming", "broken", "unpiped"}, step' = [step EXCEPT ![p] = to],
         \A q \in Plays : q # p => fed'[q] = fed[q],
         to = "unpiped" => fed'[p] = <<>>
  PROVE  PlayStates'
<1>1. TypeOK /\ PlayStates
  BY DEF IInv
<1>2. \A q \in Plays : step'[q] = IF q = p THEN to ELSE step[q]
  BY <1>1 DEF TypeOK
<1>3. /\ p <= plays /\ plays' = plays /\ file' = file /\ sink' = p
      /\ first'[p] = k /\ received'[p] = k - 1 /\ answered'[p] = plays
      /\ \A q \in Plays : q # p => first'[q] = first[q] /\ received'[q] = received[q]
      /\ k \in 1..MaxFrames /\ MaxFrames \in Nat /\ plays \in Nat
  BY ServedFacts
<1>4. ASSUME NEW q \in Plays
      PROVE  /\ q > plays' => step'[q] = "idle"
             /\ step'[q] \in {"idle", "subscribing", "failed"} =>
                  first'[q] = 0 /\ fed'[q] = <<>>
             /\ step'[q] \in {"streaming", "broken", "unpiped"} =>
                  first'[q] > 0 /\ first'[q] <= received'[q] + 1
             /\ step'[q] = "unpiped" => fed'[q] = <<>>
  <2>1. CASE q = p
    <3>1. p \in Nat /\ ~(p > plays) /\ k > 0 /\ k <= (k - 1) + 1
      BY <1>3 DEF Plays
    <3> QED BY <1>2, <1>3, <2>1, <3>1
  <2>2. CASE q # p
    BY <1>1, <1>2, <1>3, <2>2 DEF PlayStates
  <2> QED BY <2>1, <2>2
<1>5. answered'[sink'] = plays' /\ step'[sink'] \in {"streaming", "broken", "unpiped"}
  BY <1>2, <1>3
<1>6. ASSUME NEW i \in DOMAIN file'
      PROVE  file'[i].play <= plays' /\ first'[file'[i].play] > 0
  <2>1. file[i].play \in Plays /\ file[i].play <= plays /\ first[file[i].play] > 0
    BY <1>1, <1>3, <1>6, RawFrameType DEF PlayStates
  <2>2. CASE file[i].play = p
    BY <1>3, <2>1, <2>2
  <2>3. CASE file[i].play # p
    BY <1>3, <2>1, <2>3
  <2> QED BY <2>2, <2>3
<1> QED BY <1>4, <1>5, <1>6 DEF PlayStates

LEMMA StartInv ==
  ASSUME IInv, NEW p \in Plays, NEW k \in Keyframes, Start(p, k) PROVE IInv'
<1> DEFINE n == Len(file)
           to == IF Refuses(p, file) THEN "broken" ELSE "streaming"
<1>1. /\ Served(p, k) /\ n <= Len(queue)
      /\ received' = [received EXCEPT ![p] = k - 1]
      /\ queue' = SubSeq(queue, n + 1, Len(queue))
      /\ Decode(p, file, queue)
      /\ step' = [step EXCEPT ![p] = to]
  BY DEF Start
<1>2. TypeOK /\ PlayStates /\ SamplesPaired /\ CleanRestart /\ MissedOnlyTwice
  BY DEF IInv
<1>3. /\ step[p] = "subscribing" /\ first[p] = 0 /\ fed[p] = <<>> /\ p <= plays
      /\ sink' = p /\ p # NoPlay
      /\ UNCHANGED <<plays, paused, processing, file, lost, missed>>
      /\ first' \in [Plays -> 0..MaxFrames] /\ received' \in [Plays -> 0..MaxFrames]
      /\ answered' \in [Plays -> 0..MaxPlays] /\ sink' \in 0..MaxPlays
      /\ first'[p] = k /\ received'[p] = k - 1 /\ answered'[p] = plays
      /\ \A q \in Plays : q # p => /\ first'[q] = first[q] /\ received'[q] = received[q]
                                   /\ answered'[q] = answered[q]
      /\ k \in 1..MaxFrames /\ MaxFrames \in Nat /\ plays \in Nat
      /\ Grows
  BY <1>1, ServedFacts
<1>4. /\ file \in Seq(RawFrame) /\ queue \in Seq(RawFrame)
      /\ n \in Nat /\ DOMAIN file = 1..n /\ Len(queue) \in Nat
      /\ DOMAIN queue = 1..Len(queue)
      /\ \A i \in 1..n : file[i] \in RawFrame /\ queue[i] \in RawFrame
  <2>1. file \in Seq(RawFrame) /\ queue \in Seq(RawFrame)
    BY <1>2 DEF TypeOK
  <2> QED BY <1>1, <2>1, LenProperties, ElementOfSeq
<1>6. fed \in [Plays -> Seq(RawFrame)] /\ decoding \in [Plays -> SUBSET Chunk]
  BY <1>2 DEF TypeOK
<1>7. /\ Refuses(p, file) =>
           /\ n > 0 /\ fed' = [fed EXCEPT ![p] = <<file[1]>>] /\ decoding' = decoding
      /\ ~Refuses(p, file) =>
           /\ fed' = [fed EXCEPT ![p] = file]
           /\ decoding' = [decoding EXCEPT ![p] =
                @ \cup {[data |-> file[i], pts |-> queue[i].pts] : i \in 1..n}]
  <2>1. <<>> \o file = file
    BY <1>4, ConcatEmptySeq
  <2>2. file # <<>> => n > 0
    BY <1>4, EmptySeq
  <2>3. CASE Refuses(p, file)
    BY <1>1, <2>2, <2>3 DEF Decode, Refuses
  <2>4. CASE ~Refuses(p, file)
    <3>1. fed' = [fed EXCEPT ![p] = fed[p] \o file]
      BY <1>1, <1>6, <2>4 DEF Decode
    <3>2. fed' = [fed EXCEPT ![p] = file]
      BY <1>3, <2>1, <3>1
    <3> QED BY <1>1, <1>4, <2>4, <3>2 DEF Decode
  <2> QED BY <2>3, <2>4
<1> HIDE DEF n, to
<1>8. fed' = [fed EXCEPT ![p] = fed'[p]] /\ fed'[p] \in Seq(RawFrame)
      /\ (fed'[p] = file \/ (n > 0 /\ fed'[p] = <<file[1]>>))
  <2>1. n > 0 => <<file[1]>> \in Seq(RawFrame)
    <3>1. n > 0 => file[1] \in RawFrame
      BY <1>4
    <3> QED BY <3>1
  <2>2. CASE Refuses(p, file)
    BY <1>6, <1>7, <2>1, <2>2
  <2>3. CASE ~Refuses(p, file)
    BY <1>4, <1>6, <1>7, <2>3
  <2> QED BY <2>2, <2>3
<1>9. /\ Len(queue') = Len(queue) - n /\ queue' \in Seq(RawFrame)
  <2>1. \A i \in (n + 1)..Len(queue) : queue[i] \in RawFrame
    BY <1>4, ElementOfSeq
  <2>2. /\ SubSeq(queue, n + 1, Len(queue)) \in Seq(RawFrame)
        /\ Len(SubSeq(queue, n + 1, Len(queue))) =
             IF n + 1 <= Len(queue) THEN Len(queue) - (n + 1) + 1 ELSE 0
    BY <1>4, <2>1, SubSeqProperties
  <2> QED BY <1>1, <1>4, <2>2, SMTT(30)
<1>10. TypeOK'
  <2>2. step' \in [Plays ->
                     {"idle", "subscribing", "streaming", "failed", "broken", "unpiped"}]
    BY <1>1, <1>2 DEF TypeOK, to
  <2>3. decoding' \in [Plays -> SUBSET Chunk]
    <3>1. \A i \in 1..n : [data |-> file[i], pts |-> queue[i].pts] \in Chunk
      BY <1>4 DEF RawFrame, Chunk
    <3> QED BY <1>6, <1>7, <3>1
  <2>4. fed' \in [Plays -> Seq(RawFrame)]
    BY <1>6, <1>8
  <2> QED BY <1>2, <1>3, <1>9, <2>2, <2>3, <2>4 DEF TypeOK
<1>11. PlayStates'
  <2>1. to \in {"streaming", "broken", "unpiped"} /\ to # "unpiped"
    BY DEF to
  <2>2. \A q \in Plays : q # p => fed'[q] = fed[q]
    BY <1>6, <1>8
  <2> QED BY <1>1, <2>1, <2>2, ServedStates
<1>12. SamplesPaired'
  <2>1. lost' = lost /\ Waiting' = <<>>
    BY <1>3 DEF Waiting
  <2>2. ~lost => queue' = <<>> /\ (queue = file \/ n = 0)
    <3>1. CASE sink = NoPlay
      <4>1. ~lost => queue = file
        BY <1>2, <3>1 DEF SamplesPaired, Waiting
      <4>2. ~lost => Len(queue') = 0
        BY <1>4, <1>9, <4>1 DEF n
      <4> QED BY <1>9, <4>1, <4>2, EmptySeq
    <3>2. CASE sink # NoPlay
      <4>1. ~lost => queue = <<>>
        BY <1>2, <3>2 DEF SamplesPaired, Waiting
      <4>2. ~lost => Len(queue) = 0
        BY <4>1
      <4>3. ~lost => n = 0 /\ Len(queue') = 0
        BY <1>1, <1>4, <1>9, <4>2
      <4> QED BY <1>9, <4>3, EmptySeq
    <3> QED BY <3>1, <3>2
  <2>3. ASSUME ~lost, NEW q \in Plays, NEW c \in decoding'[q]
        PROVE  c.data.pts = c.pts
    <3>2. CASE c \in decoding[q]
      BY <1>2, <2>3, <3>2 DEF SamplesPaired
    <3>3. CASE c \notin decoding[q]
      <4>1. q = p /\ ~Refuses(p, file)
        BY <1>6, <1>7, <2>3, <3>3
      <4>2. PICK i \in 1..n : c = [data |-> file[i], pts |-> queue[i].pts]
        BY <1>6, <1>7, <2>3, <3>3, <4>1
      <4>3. queue = file
        BY <1>4, <2>2, <2>3, <4>2
      <4> QED BY <4>2, <4>3
    <3> QED BY <3>2, <3>3
  <2>4. Len(Waiting') <= Len(queue')
    <3>1. Len(Waiting') = 0
      BY <2>1
    <3>2. Len(queue') \in Nat
      BY <1>9, LenProperties
    <3> QED BY <3>1, <3>2
  <2> QED BY <2>1, <2>2, <2>3, <2>4 DEF SamplesPaired
<1>14. OneToken'
  <2>1. PICK qu, dec : qu = queue /\ dec = decoding
    OBVIOUS
  <2>2. Tokens(qu, dec)'
    BY <1>3, <1>10, <2>1, KeepTokens
  <2>3. PICK data \in Seq(RawFrame) : data = file
    BY <1>4
  <2>4. \/ decoding' = dec
        \/ decoding' = [dec EXCEPT ![p] =
                          @ \cup {[data |-> data[i], pts |-> qu[i].pts] : i \in 1..n}]
    BY <1>7, <2>1, <2>3
  <2>5. n <= Len(qu) /\ qu \in Seq(RawFrame) /\ dec \in [Plays -> SUBSET Chunk]
    BY <1>1, <1>4, <1>6, <2>1
  <2>6. PICK m \in Nat : m = n
    BY <1>4
  <2>7. queue' = SubSeq(qu, m + 1, Len(qu)) /\ m <= Len(qu)
    BY <1>1, <2>1, <2>5, <2>6
  <2>8. \A q \in Plays : \A c \in decoding'[q] :
          \/ c \in dec[q]
          \/ q = p /\ \E i \in 1..m : c = [data |-> data[i], pts |-> qu[i].pts]
    BY <2>4, <2>5, <2>6
  <2>9. Moved(qu, dec, m, p, data)'
    BY <2>7, <2>8 DEF Moved, Made
  <2> QED BY <2>2, <2>5, <2>7, <2>9, MoveTokens
<1>15. MissedOnlyTwice'
  BY <1>2, <1>3, <1>10, Monotone DEF MissedOnlyTwice, TypeOK
<1>16. \A i \in DOMAIN fed'[p] : i \in 1..n /\ fed'[p][i] = file[i]
  <2>1. CASE fed'[p] = file
    BY <1>4, <2>1
  <2>2. CASE n > 0 /\ fed'[p] = <<file[1]>>
    BY <1>4, <2>2
  <2> QED BY <1>8, <2>1, <2>2
<1>17. \A i \in DOMAIN fed'[p] : fed'[p][i].play <= plays /\ fed'[p][i].play # p
  BY <1>2, <1>3, <1>4, <1>16 DEF PlayStates
<1>18. CleanRestart'
  <2>1. \A q \in Plays : q # p =>
          fed'[q] = fed[q] /\ first'[q] = first[q] /\ answered'[q] = answered[q]
    BY <1>3, <1>6, <1>8
  <2>2. ASSUME \A i \in DOMAIN fed'[p] : fed'[p][i].play = p
        PROVE  \A i \in DOMAIN fed'[p] : fed'[p][i].pts = first'[p] + i - 1
    BY <1>17, <2>2
  <2>3. \A i \in DOMAIN fed'[p] : fed'[p][i].play <= answered'[p]
    BY <1>3, <1>17
  <2> QED BY <1>2, <2>1, <2>2, <2>3 DEF CleanRestart
<1>19. OwnFed'
  <2>1. ASSUME NEW q \in Plays, sink' = q, \A i \in DOMAIN fed'[q] : fed'[q][i].play = q
        PROVE  Len(fed'[q]) = received'[q] - first'[q] + 1
    <3>1. q = p
      BY <1>3, <2>1
    <3>2. DOMAIN fed'[p] = {}
      BY <1>17, <2>1, <3>1
    <3>3. Len(fed'[p]) = 0
      <4>1. Len(fed'[p]) \in Nat /\ DOMAIN fed'[p] = 1..Len(fed'[p])
        BY <1>8, LenProperties
      <4>2. 1 \notin 1..Len(fed'[p])
        BY <3>2, <4>1
      <4> QED BY <4>1, <4>2
    <3> QED BY <1>3, <3>1, <3>3
  <2> QED BY <2>1 DEF OwnFed
<1> QED BY <1>10, <1>11, <1>12, <1>14, <1>15, <1>18, <1>19 DEF IInv

LEMMA StartThrowsInv ==
  ASSUME IInv, NEW p \in Plays, NEW k \in Keyframes, StartThrows(p, k) PROVE IInv'
<1>1. /\ Served(p, k) /\ received' = [received EXCEPT ![p] = k - 1]
      /\ queue' = <<>> /\ step' = [step EXCEPT ![p] = "unpiped"]
      /\ decoding' = decoding /\ fed' = fed
  BY DEF StartThrows, decodeVars
<1>2. TypeOK /\ SamplesPaired /\ CleanRestart /\ MissedOnlyTwice
  BY DEF IInv
<1>3. /\ fed[p] = <<>> /\ sink' = p /\ p # NoPlay
      /\ UNCHANGED <<plays, paused, processing, file, lost, missed>>
      /\ first' \in [Plays -> 0..MaxFrames] /\ received' \in [Plays -> 0..MaxFrames]
      /\ answered' \in [Plays -> 0..MaxPlays] /\ sink' \in 0..MaxPlays
      /\ \A q \in Plays : q # p => first'[q] = first[q] /\ answered'[q] = answered[q]
      /\ Grows
  BY <1>1, ServedFacts
<1>4. TypeOK'
  <2>1. step' \in [Plays ->
                     {"idle", "subscribing", "streaming", "failed", "broken", "unpiped"}]
    BY <1>1, <1>2 DEF TypeOK
  <2>2. queue' \in Seq(RawFrame)
    BY <1>1
  <2> QED BY <1>1, <1>2, <1>3, <2>1, <2>2 DEF TypeOK
<1>5. PlayStates'
  <2>1. PICK to : to = "unpiped"
    OBVIOUS
  <2> QED BY <1>1, <1>3, <2>1, ServedStates
<1>6. SamplesPaired'
  <2>1. Waiting' = <<>> /\ Len(queue') = 0 /\ Len(Waiting') = 0
    BY <1>1, <1>3 DEF Waiting
  <2> QED BY <1>1, <1>2, <1>3, <2>1 DEF SamplesPaired
<1>7. OneToken'
  <2>1. PICK qu, dec : qu = queue /\ dec = decoding
    OBVIOUS
  <2>2. Tokens(qu, dec)'
    BY <1>3, <1>4, <2>1, KeepTokens
  <2>3. DOMAIN queue' = {} /\ decoding' = dec
    BY <1>1, <2>1
  <2> QED BY <2>2, <2>3 DEF OneToken, Tokens
<1>8. MissedOnlyTwice'
  BY <1>2, <1>3, <1>4, Monotone DEF MissedOnlyTwice, TypeOK
<1>9. CleanRestart' /\ OwnFed'
  <2>1. DOMAIN fed[p] = {}
    BY <1>3
  <2>2. CleanRestart'
    BY <1>1, <1>2, <1>3, <2>1 DEF CleanRestart
  <2>3. step'[p] = "unpiped"
    BY <1>1, <1>2 DEF TypeOK
  <2> QED BY <1>3, <2>2, <2>3 DEF OwnFed
<1> QED BY <1>4, <1>5, <1>6, <1>7, <1>8, <1>9 DEF IInv

-----------------------------------------------------------------------------
(* The pipelines.                                                          *)

LEMMA ParseFacts ==
  ASSUME IInv, NEW p \in Plays, NEW f \in RawFrame, Parse(p, f)
  PROVE  /\ step[p] = "streaming" /\ p <= plays /\ plays \in Nat
         /\ f.pts = received[p] + 1 /\ f.play = p
         /\ first[p] \in 1..f.pts /\ received[p] \in Nat
         /\ received'[p] = f.pts
         /\ \A q \in Plays : q # p => received'[q] = received[q]
         /\ received' \in [Plays -> 0..MaxFrames] /\ processing' \subseteq RawFrame
         /\ processing' = {g \in processing : g.pts # f.pts} \cup {f}
         /\ file' = Append(file, f) /\ file' \in Seq(RawFrame)
         /\ UNCHANGED <<plays, paused, first, answered, sink, lost, missed>>
         /\ Grows
         /\ sink # NoPlay => /\ sink \in Plays /\ answered[sink] = plays
                             /\ step[sink] \in {"streaming", "broken", "unpiped"}
<1>1. /\ step[p] = "streaming" /\ f = [pts |-> received[p] + 1, play |-> p]
      /\ received' = [received EXCEPT ![p] = f.pts]
      /\ processing' = {g \in processing : g.pts # f.pts} \cup {f}
      /\ file' = Append(file, f)
      /\ UNCHANGED <<plays, paused, first, answered, sink, lost, missed>>
  BY DEF Parse
<1>2. TypeOK /\ PlayStates
  BY DEF IInv
<1>3. f.pts \in 1..MaxFrames /\ MaxFrames \in Nat /\ MaxPlays \in Nat /\ p \in 1..MaxPlays
  BY RestartsAssumption DEF RawFrame, Frames, Plays
<1>4. /\ plays \in 0..MaxPlays /\ sink \in 0..MaxPlays
      /\ received \in [Plays -> 0..MaxFrames] /\ first \in [Plays -> 0..MaxFrames]
      /\ processing \subseteq RawFrame /\ file \in Seq(RawFrame)
  BY <1>2 DEF TypeOK
<1>5. f.pts = received[p] + 1 /\ f.play = p
  BY <1>1
<1>6. p <= plays
  <2>1. p > plays => step[p] = "idle"
    BY <1>2 DEF PlayStates
  <2>2. ~(p > plays)
    BY <1>1, <2>1
  <2> QED BY <1>3, <1>4, <2>2
<1>7. first[p] > 0 /\ first[p] <= received[p] + 1
  BY <1>1, <1>2 DEF PlayStates
<1>8. /\ first[p] \in 1..f.pts /\ received[p] \in Nat /\ received'[p] = f.pts
      /\ \A q \in Plays : q # p => received'[q] = received[q]
      /\ received' \in [Plays -> 0..MaxFrames]
  BY <1>1, <1>3, <1>4, <1>5, <1>7
<1>9. Grows
  BY <1>1, <1>4, <1>5, <1>8 DEF Grows
<1>10. sink # NoPlay => /\ sink \in Plays /\ answered[sink] = plays
                        /\ step[sink] \in {"streaming", "broken", "unpiped"}
  BY <1>2, <1>3, <1>4 DEF PlayStates, NoPlay, Plays
<1>11. processing' \subseteq RawFrame /\ file' \in Seq(RawFrame)
  BY <1>1, <1>4
<1> QED BY <1>1, <1>3, <1>4, <1>5, <1>6, <1>8, <1>9, <1>10, <1>11

\* A pipeline that parses, and may break one that gets samples.
LEMMA ParseStates ==
  ASSUME IInv, NEW p \in Plays, NEW f \in RawFrame, Parse(p, f),
         \A q \in Plays : \/ step'[q] = step[q]
                          \/ step[q] = "streaming" /\ step'[q] \in {"streaming", "broken"},
         \A q \in Plays : fed'[q] = fed[q] \/ step[q] = "streaming"
  PROVE  PlayStates'
<1>1. TypeOK /\ PlayStates
  BY DEF IInv
<1>2. /\ step[p] = "streaming" /\ p <= plays /\ f.play = p /\ f \in RawFrame
      /\ received' \in [Plays -> 0..MaxFrames]
      /\ \A q \in Plays : q # p => received'[q] = received[q]
      /\ received'[p] = received[p] + 1
      /\ file' = Append(file, f)
      /\ UNCHANGED <<plays, paused, first, answered, sink, lost, missed>>
      /\ sink # NoPlay => sink \in Plays
  BY ParseFacts
<1>3. \A q \in Plays : first[q] <= received[q] + 1 => first[q] <= received'[q] + 1
  <2>1. \A q \in Plays : first[q] \in Nat /\ received[q] \in Nat /\ received'[q] \in Nat
    BY <1>1, <1>2, RestartsAssumption DEF TypeOK
  <2> QED BY <1>2, <2>1
<1>4. ASSUME NEW q \in Plays
      PROVE  /\ q > plays' => step'[q] = "idle"
             /\ step'[q] \in {"idle", "subscribing", "failed"} =>
                  first'[q] = 0 /\ fed'[q] = <<>>
             /\ step'[q] \in {"streaming", "broken", "unpiped"} =>
                  first'[q] > 0 /\ first'[q] <= received'[q] + 1
             /\ step'[q] = "unpiped" => fed'[q] = <<>>
  <2>1. CASE step'[q] = step[q]
    BY <1>1, <1>2, <1>3, <2>1 DEF PlayStates
  <2>2. CASE step[q] = "streaming" /\ step'[q] \in {"streaming", "broken"}
    BY <1>1, <1>2, <1>3, <2>2 DEF PlayStates
  <2> QED BY <2>1, <2>2
<1>5. sink' # NoPlay =>
        answered'[sink'] = plays' /\ step'[sink'] \in {"streaming", "broken", "unpiped"}
  BY <1>1, <1>2 DEF PlayStates
<1>6. ASSUME NEW k \in DOMAIN file'
      PROVE  file'[k].play <= plays' /\ first'[file'[k].play] > 0
  <2>1. file \in Seq(RawFrame)
    BY <1>1 DEF TypeOK
  <2>2. CASE k \in DOMAIN file
    <3>1. file'[k] = file[k]
      BY <1>2, <2>1, <2>2
    <3> QED BY <1>1, <1>2, <2>2, <3>1 DEF PlayStates
  <2>3. CASE k \notin DOMAIN file
    <3>1. file'[k] = f
      BY <1>2, <1>6, <2>1, <2>3
    <3>2. first[p] > 0
      BY <1>1, <1>2 DEF PlayStates
    <3> QED BY <1>2, <3>1, <3>2
  <2> QED BY <2>2, <2>3
<1> QED BY <1>4, <1>5, <1>6 DEF PlayStates

\* The new RawFrame joins the queue.  Should its frame have been parsed before, by
\* another play, then the frame was delivered twice.
LEMMA ParseTokens ==
  ASSUME IInv, NEW p \in Plays, NEW f \in RawFrame, Parse(p, f), TypeOK',
         NEW qu, qu = Append(queue, f), NEW dec, dec = decoding
  PROVE  Tokens(qu, dec)'
<1>1. /\ f.pts = received[p] + 1 /\ first[p] \in 1..f.pts /\ received[p] \in Nat
      /\ received'[p] = f.pts /\ Grows
      /\ \A q \in Plays : q # p => received'[q] = received[q]
      /\ processing' = {g \in processing : g.pts # f.pts} \cup {f}
  BY ParseFacts
<1>2. first' = first /\ TypeOK /\ OneToken
  BY DEF Parse, IInv
<1>3. f.pts \in Frames
  BY DEF RawFrame
<1>4. \A x \in Frames : /\ Parsed(x) => Parsed(x)'
                        /\ DeliveredTwice(x) => DeliveredTwice(x)'
                        /\ InMap(x) => InMap(x)'
  <2>1. \A x \in Frames : InMap(x) => InMap(x)'
    BY <1>1 DEF InMap
  <2>2. ASSUME NEW x \in Frames
        PROVE  /\ Parsed(x) => Parsed(x)'
               /\ DeliveredTwice(x) => DeliveredTwice(x)'
    BY <1>1, <1>2, Monotone
  <2> QED BY <2>1, <2>2
<1>5. Parsed(f.pts)' /\ InMap(f.pts)'
  BY <1>1, <1>2 DEF Parsed, InMap
<1>6. Parsed(f.pts) => DeliveredTwice(f.pts)'
  <2> SUFFICES ASSUME NEW q \in Plays, first[q] \in 1..f.pts, f.pts <= received[q]
               PROVE  DeliveredTwice(f.pts)'
    BY DEF Parsed
  <2>1. q # p
    BY <1>1
  <2>2. first'[q] \in 1..f.pts /\ f.pts <= received'[q]
    BY <1>1, <1>2, <2>1
  <2>3. first'[p] \in 1..f.pts /\ f.pts <= received'[p]
    BY <1>1, <1>2
  <2> QED BY <2>1, <2>2, <2>3 DEF DeliveredTwice
<1>7. /\ queue \in Seq(RawFrame)
      /\ Len(queue) \in Nat /\ DOMAIN queue = 1..Len(queue)
      /\ DOMAIN qu = 1..(Len(queue) + 1)
      /\ \A k \in DOMAIN queue : qu[k] = queue[k]
      /\ qu[Len(queue) + 1] = f
  <2>1. queue \in Seq(RawFrame)
    BY <1>2 DEF TypeOK
  <2> QED BY <2>1
<1>8. /\ \A k \in DOMAIN queue : queue[k].pts \in Frames
      /\ \A q \in Plays : \A c \in dec[q] : c.pts \in Frames
  BY <1>2, RawFrameType
<1>9. ASSUME NEW k \in DOMAIN qu
      PROVE  \/ k \in DOMAIN queue /\ qu[k] = queue[k] /\ qu[k].pts \in Frames
             \/ k \notin DOMAIN queue /\ k = Len(queue) + 1 /\ qu[k] = f
  BY <1>7, <1>8
<1>10. ASSUME NEW k \in DOMAIN qu
       PROVE  /\ Parsed(qu[k].pts)'
              /\ InMap(qu[k].pts)' \/ DeliveredTwice(qu[k].pts)'
              /\ \A j \in DOMAIN qu :
                   j # k /\ qu[j].pts = qu[k].pts => DeliveredTwice(qu[k].pts)'
              /\ \A q \in Plays : \A c \in dec[q] :
                   c.pts = qu[k].pts => DeliveredTwice(c.pts)'
  <2>1. CASE k \in DOMAIN queue
    <3>1. qu[k] = queue[k] /\ qu[k].pts \in Frames
      BY <1>9, <2>1
    <3>2. Parsed(qu[k].pts) /\ (InMap(qu[k].pts) \/ DeliveredTwice(qu[k].pts))
      BY <1>2, <2>1, <3>1 DEF OneToken
    <3>3. ASSUME NEW j \in DOMAIN qu, j # k, qu[j].pts = qu[k].pts
          PROVE  DeliveredTwice(qu[k].pts)'
      <4>1. CASE j \in DOMAIN queue
        <5>1. qu[j] = queue[j]
          BY <1>9, <4>1
        <5>2. DeliveredTwice(qu[k].pts)
          BY <1>2, <2>1, <3>1, <3>3, <4>1, <5>1 DEF OneToken
        <5> QED BY <1>4, <3>1, <5>2
      <4>2. CASE j \notin DOMAIN queue
        <5>1. qu[k].pts = f.pts
          BY <1>9, <3>3, <4>2
        <5> QED BY <1>6, <3>2, <5>1
      <4> QED BY <4>1, <4>2
    <3>4. ASSUME NEW q \in Plays, NEW c \in dec[q], c.pts = qu[k].pts
          PROVE  DeliveredTwice(c.pts)'
      <4>1. DeliveredTwice(c.pts)
        BY <1>2, <2>1, <3>1, <3>4 DEF OneToken
      <4> QED BY <1>4, <1>8, <4>1
    <3> QED BY <1>4, <3>1, <3>2, <3>3, <3>4
  <2>2. CASE k \notin DOMAIN queue
    <3>1. qu[k] = f
      BY <1>9, <2>2
    <3>2. ASSUME NEW j \in DOMAIN qu, j # k, qu[j].pts = qu[k].pts
          PROVE  DeliveredTwice(qu[k].pts)'
      <4>1. j \in DOMAIN queue /\ queue[j].pts = f.pts
        BY <1>9, <2>2, <3>1, <3>2
      <4>2. Parsed(f.pts)
        BY <1>2, <4>1 DEF OneToken
      <4> QED BY <1>6, <3>1, <4>2
    <3>3. ASSUME NEW q \in Plays, NEW c \in dec[q], c.pts = qu[k].pts
          PROVE  DeliveredTwice(c.pts)'
      <4>1. Parsed(c.pts)
        BY <1>2, <3>3 DEF OneToken
      <4> QED BY <1>6, <3>1, <3>3, <4>1
    <3> QED BY <1>5, <3>1, <3>2, <3>3
  <2> QED BY <2>1, <2>2
<1>11. ASSUME NEW q \in Plays, NEW c \in dec[q]
       PROVE  /\ Parsed(c.pts)'
              /\ InMap(c.pts)' \/ DeliveredTwice(c.pts)'
              /\ \A r \in Plays : \A d \in dec[r] :
                   (q # r \/ c # d) /\ c.pts = d.pts => DeliveredTwice(c.pts)'
  BY <1>2, <1>4, <1>8 DEF OneToken
<1> QED BY <1>10, <1>11 DEF Tokens

\* What the three outcomes have in common.
LEMMA ParseKeeps ==
  ASSUME IInv, NEW p \in Plays, NEW f \in RawFrame, Parse(p, f), TypeOK'
  PROVE  MissedOnlyTwice'
<1>1. missed \subseteq Frames
  BY DEF IInv, TypeOK
<1>2. Grows /\ missed' = missed
  BY ParseFacts DEF Parse
<1> QED BY <1>1, <1>2, Monotone DEF IInv, MissedOnlyTwice

LEMMA TransformWaitsInv ==
  ASSUME IInv, NEW p \in Plays, NEW f \in RawFrame, TransformWaits(p, f) PROVE IInv'
<1>1. /\ Parse(p, f) /\ sink = NoPlay /\ queue' = Append(queue, f)
      /\ step' = step /\ decoding' = decoding /\ fed' = fed
  BY DEF TransformWaits, decodeVars
<1>2. TypeOK /\ PlayStates /\ SamplesPaired /\ CleanRestart
  BY DEF IInv
<1>3. /\ received' \in [Plays -> 0..MaxFrames] /\ processing' \subseteq RawFrame
      /\ file' = Append(file, f) /\ file' \in Seq(RawFrame)
      /\ UNCHANGED <<plays, paused, first, answered, sink, lost, missed>>
  BY <1>1, ParseFacts
<1>4. /\ queue \in Seq(RawFrame) /\ file \in Seq(RawFrame)
      /\ queue' \in Seq(RawFrame)
      /\ Len(queue') = Len(queue) + 1 /\ Len(file') = Len(file) + 1
      /\ Len(queue) \in Nat /\ Len(file) \in Nat
  BY <1>1, <1>2, <1>3 DEF TypeOK
<1>5. TypeOK'
  BY <1>1, <1>2, <1>3, <1>4 DEF TypeOK
<1>6. PlayStates'
  BY <1>1, ParseStates
<1>7. SamplesPaired'
  <2>1. Waiting = file /\ Waiting' = file'
    BY <1>1, <1>3 DEF Waiting
  <2>2. Len(Waiting') <= Len(queue')
    BY <1>2, <1>4, <2>1 DEF SamplesPaired
  <2>3. ~lost => queue' = Waiting'
    BY <1>1, <1>2, <1>3, <2>1 DEF SamplesPaired
  <2> QED BY <1>1, <1>2, <1>3, <2>2, <2>3 DEF SamplesPaired
<1>8. OneToken'
  <2>1. PICK qu, dec : qu = Append(queue, f) /\ dec = decoding
    OBVIOUS
  <2>2. Tokens(qu, dec)'
    BY <1>1, <1>5, <2>1, ParseTokens
  <2>3. queue' = qu /\ decoding' = dec
    BY <1>1, <2>1
  <2> QED BY <2>2, <2>3 DEF Tokens, OneToken
<1>9. MissedOnlyTwice'
  BY <1>1, <1>5, ParseKeeps
<1>10. OwnFed' /\ CleanRestart'
  BY <1>1, <1>2, <1>3 DEF OwnFed, CleanRestart, NoPlay, Plays
<1> QED BY <1>5, <1>6, <1>7, <1>8, <1>9, <1>10 DEF IInv

\* A sample that goes to a pipeline which is errored, or was never made.
LEMMA TransformLostInv ==
  ASSUME IInv, NEW p \in Plays, NEW f \in RawFrame,
         TransformThrows(p, f) \/ TransformUnread(p, f)
  PROVE  IInv'
<1>1. /\ Parse(p, f) /\ sink # NoPlay /\ step[sink] \in {"broken", "unpiped"}
      /\ queue' = Tail(Append(queue, f))
      /\ step' = step \/ step' = [step EXCEPT ![p] = "broken"]
      /\ decoding' = decoding /\ fed' = fed
  BY DEF TransformThrows, TransformUnread, decodeVars
<1>2. TypeOK /\ PlayStates /\ SamplesPaired /\ CleanRestart
  BY DEF IInv
<1>3. /\ step[p] = "streaming" /\ sink \in Plays
      /\ received' \in [Plays -> 0..MaxFrames] /\ processing' \subseteq RawFrame
      /\ file' \in Seq(RawFrame)
      /\ UNCHANGED <<plays, paused, first, answered, sink, lost, missed>>
  BY <1>1, ParseFacts
<1>4. PICK qu, dec : qu = Append(queue, f) /\ dec = decoding
  OBVIOUS
<1>5. /\ queue \in Seq(RawFrame) /\ qu \in Seq(RawFrame)
      /\ Len(qu) = Len(queue) + 1 /\ Len(queue) \in Nat
      /\ queue' = SubSeq(qu, 1 + 1, Len(qu))
      /\ queue' \in Seq(RawFrame) /\ Len(queue') = Len(queue)
  <2>1. queue \in Seq(RawFrame)
    BY <1>2 DEF TypeOK
  <2> QED BY <1>1, <1>4, <2>1
<1>6. \A q \in Plays : step'[q] = step[q] \/ (q = p /\ step'[q] = "broken")
  BY <1>1, <1>2 DEF TypeOK
<1>7. TypeOK'
  <2>1. step' \in [Plays ->
                     {"idle", "subscribing", "streaming", "failed", "broken", "unpiped"}]
    BY <1>1, <1>2 DEF TypeOK
  <2> QED BY <1>1, <1>2, <1>3, <1>5, <2>1 DEF TypeOK
<1>8. PlayStates'
  <2>1. \A q \in Plays : \/ step'[q] = step[q]
                         \/ step[q] = "streaming" /\ step'[q] \in {"streaming", "broken"}
    BY <1>3, <1>6
  <2>2. \A q \in Plays : fed'[q] = fed[q]
    BY <1>1
  <2> QED BY <1>1, <2>1, <2>2, ParseStates
<1>9. SamplesPaired'
  <2>1. Waiting = <<>> /\ Waiting' = <<>>
    BY <1>1, <1>3 DEF Waiting
  <2>2. ~lost => queue = <<>> /\ Len(queue) = 0
    BY <1>2, <2>1 DEF SamplesPaired
  <2>3. ~lost => queue' = <<>>
    BY <1>5, <2>2, EmptySeq
  <2>4. Len(Waiting') <= Len(queue')
    BY <1>5, <2>1
  <2> QED BY <1>1, <1>2, <1>3, <2>1, <2>3, <2>4 DEF SamplesPaired
<1>10. OneToken'
  <2>1. Tokens(qu, dec)'
    BY <1>1, <1>4, <1>7, ParseTokens
  <2>2. dec \in [Plays -> SUBSET Chunk] /\ decoding' = dec
    BY <1>1, <1>2, <1>4 DEF TypeOK
  <2>3. PICK n \in Nat : n = 1
    OBVIOUS
  <2>4. n <= Len(qu) /\ queue' = SubSeq(qu, n + 1, Len(qu)) /\ qu \in Seq(RawFrame)
    BY <1>5, <2>3
  <2>5. PICK data \in Seq(RawFrame) : data = qu
    BY <1>5
  <2>6. \A q \in Plays : \A c \in decoding'[q] :
          \/ c \in dec[q]
          \/ q = p /\ \E k \in 1..n : c = [data |-> data[k], pts |-> qu[k].pts]
    BY <2>2
  <2>7. Moved(qu, dec, n, p, data)'
    BY <2>4, <2>6 DEF Moved, Made
  <2> QED BY <2>1, <2>2, <2>4, <2>7, MoveTokens
<1>11. MissedOnlyTwice'
  BY <1>1, <1>7, ParseKeeps
<1>12. OwnFed'
  <2>1. step'[sink] # "streaming"
    BY <1>1, <1>3, <1>6
  <2> QED BY <1>3, <2>1 DEF OwnFed
<1>13. CleanRestart'
  BY <1>1, <1>2, <1>3 DEF CleanRestart
<1> QED BY <1>7, <1>8, <1>9, <1>10, <1>11, <1>12, <1>13 DEF IInv

LEMMA TransformExtractsInv ==
  ASSUME IInv, NEW p \in Plays, NEW f \in RawFrame, TransformExtracts(p, f) PROVE IInv'
<1>1. /\ Parse(p, f) /\ sink # NoPlay /\ step[sink] = "streaming"
      /\ queue' = Tail(Append(queue, f))
      /\ Decode(sink, <<f>>, Append(queue, f))
      /\ step' = [step EXCEPT ![sink] = IF Refuses(sink, <<f>>) THEN "broken" ELSE @]
  BY DEF TransformExtracts
<1>2. TypeOK /\ PlayStates /\ SamplesPaired /\ CleanRestart /\ OwnFed
  BY DEF IInv
<1>3. /\ step[p] = "streaming" /\ p <= plays /\ plays \in Nat /\ p \in Nat
      /\ sink \in Plays /\ answered[sink] = plays
      /\ file' \in Seq(RawFrame)
      /\ UNCHANGED <<plays, paused, first, answered, sink, lost, missed>>
      /\ f.play = p /\ f.pts = received[p] + 1
      /\ received' \in [Plays -> 0..MaxFrames] /\ processing' \subseteq RawFrame
      /\ \A q \in Plays : q # p => received'[q] = received[q]
      /\ received'[p] = received[p] + 1 /\ first[p] \in Nat /\ received[p] \in Nat
  BY <1>1, ParseFacts DEF Plays
<1>4. PICK qu, dec : qu = Append(queue, f) /\ dec = decoding
  OBVIOUS
<1>5. queue \in Seq(RawFrame) /\ decoding \in [Plays -> SUBSET Chunk]
      /\ fed \in [Plays -> Seq(RawFrame)]
  BY <1>2 DEF TypeOK
<1>6. /\ qu \in Seq(RawFrame) /\ 1 \in 1..Len(qu)
      /\ Len(qu) = Len(queue) + 1 /\ Len(queue) \in Nat
      /\ queue' = SubSeq(qu, 1 + 1, Len(qu))
      /\ queue' \in Seq(RawFrame) /\ Len(queue') = Len(queue)
  BY <1>1, <1>4, <1>5
<1>7. qu[1] \in RawFrame
  BY <1>6, ElementOfSeq
<1>8. fed' = [fed EXCEPT ![sink] = Append(fed[sink], f)]
  <2>1. fed[sink] \in Seq(RawFrame)
    BY <1>3, <1>5
  <2>2. CASE Refuses(sink, <<f>>)
    <3>1. fed[sink] = <<>> /\ fed' = [fed EXCEPT ![sink] = <<f>>]
      BY <1>1, <2>2 DEF Decode, Refuses
    <3>2. Append(fed[sink], f) = <<f>>
      BY <3>1
    <3> QED BY <3>1, <3>2
  <2>3. CASE ~Refuses(sink, <<f>>)
    <3>1. fed' = [fed EXCEPT ![sink] = fed[sink] \o <<f>>]
      BY <1>1, <2>3 DEF Decode
    <3>2. fed[sink] \o <<f>> = Append(fed[sink], f)
      BY <2>1
    <3> QED BY <3>1, <3>2
  <2> QED BY <2>2, <2>3
<1>9. \/ decoding' = decoding
      \/ decoding' = [decoding EXCEPT ![sink] = @ \cup {[data |-> f, pts |-> qu[1].pts]}]
  <2>1. CASE Refuses(sink, <<f>>)
    BY <1>1, <2>1 DEF Decode
  <2>2. CASE ~Refuses(sink, <<f>>)
    <3>1. decoding' = [decoding EXCEPT ![sink] = @ \cup
            {[data |-> <<f>>[k], pts |-> qu[k].pts] : k \in DOMAIN <<f>>}]
      BY <1>1, <1>4, <2>2 DEF Decode
    <3>2. {[data |-> <<f>>[k], pts |-> qu[k].pts] : k \in DOMAIN <<f>>}
            = {[data |-> f, pts |-> qu[1].pts]}
      OBVIOUS
    <3> QED BY <3>1, <3>2
  <2> QED BY <2>1, <2>2
<1>10. TypeOK'
  <2>1. step' \in [Plays ->
                     {"idle", "subscribing", "streaming", "failed", "broken", "unpiped"}]
    BY <1>1, <1>2, <1>3 DEF TypeOK
  <2>2. decoding' \in [Plays -> SUBSET Chunk]
    <3>1. [data |-> f, pts |-> qu[1].pts] \in Chunk
      BY <1>7 DEF RawFrame, Chunk
    <3> DEFINE new == [data |-> f, pts |-> qu[1].pts]
    <3>2. decoding' = decoding \/ decoding' = [decoding EXCEPT ![sink] = @ \cup {new}]
      BY <1>9
    <3> HIDE DEF new
    <3>3. new \in Chunk
      BY <3>1 DEF new
    <3> QED BY <1>3, <1>5, <3>2, <3>3
  <2>3. fed' \in [Plays -> Seq(RawFrame)]
    <3>1. Append(fed[sink], f) \in Seq(RawFrame)
      BY <1>3, <1>5
    <3> QED BY <1>3, <1>5, <1>8, <3>1
  <2> QED BY <1>1, <1>2, <1>3, <1>6, <2>1, <2>2, <2>3 DEF TypeOK
<1>11. PlayStates'
  <2>1. \A q \in Plays : \/ step'[q] = step[q]
                         \/ step[q] = "streaming" /\ step'[q] \in {"streaming", "broken"}
    BY <1>1, <1>2, <1>3 DEF TypeOK
  <2>2. \A q \in Plays : fed'[q] = fed[q] \/ step[q] = "streaming"
    BY <1>1, <1>3, <1>5, <1>8
  <2> QED BY <1>1, <2>1, <2>2, ParseStates
<1>12. SamplesPaired'
  <2>1. Waiting = <<>> /\ Waiting' = <<>>
    BY <1>1, <1>3 DEF Waiting
  <2>2. ~lost => queue = <<>> /\ queue' = <<>>
    BY <1>2, <1>5, <1>6, <2>1, EmptySeq DEF SamplesPaired
  <2>3. ~lost => qu[1] = f
    BY <1>4, <2>2
  <2>4. ASSUME ~lost, NEW q \in Plays, NEW c \in decoding'[q]
        PROVE  c.data.pts = c.pts
    <3>1. CASE c \in decoding[q]
      BY <1>2, <2>4, <3>1 DEF SamplesPaired
    <3>2. CASE c \notin decoding[q]
      <4> DEFINE new == [data |-> f, pts |-> qu[1].pts]
      <4>1. decoding' = decoding \/ decoding' = [decoding EXCEPT ![sink] = @ \cup {new}]
        BY <1>9
      <4>2. new.data.pts = new.pts
        BY <2>3, <2>4
      <4> HIDE DEF new
      <4>3. c = new
        BY <1>3, <1>5, <2>4, <3>2, <4>1
      <4> QED BY <4>2, <4>3
    <3> QED BY <3>1, <3>2
  <2>5. Len(Waiting') <= Len(queue')
    BY <1>6, <2>1
  <2> QED BY <1>3, <2>1, <2>2, <2>4, <2>5 DEF SamplesPaired
<1>13. OneToken'
  <2>1. Tokens(qu, dec)'
    BY <1>1, <1>4, <1>10, ParseTokens
  <2>2. dec \in [Plays -> SUBSET Chunk]
    BY <1>4, <1>5
  <2>3. PICK n \in Nat : n = 1
    OBVIOUS
  <2>4. n <= Len(qu) /\ queue' = SubSeq(qu, n + 1, Len(qu)) /\ qu \in Seq(RawFrame)
    BY <1>6, <2>3
  <2>5. PICK data \in Seq(RawFrame), s \in Plays : data = <<f>> /\ s = sink
    <3>1. <<f>> \in Seq(RawFrame)
      OBVIOUS
    <3> QED BY <1>3, <3>1
  <2>6. \A q \in Plays : \A c \in decoding'[q] :
          \/ c \in dec[q]
          \/ q = s /\ \E k \in 1..n : c = [data |-> data[k], pts |-> qu[k].pts]
    <3> SUFFICES ASSUME NEW q \in Plays, NEW c \in decoding'[q], c \notin dec[q]
                 PROVE  q = s /\ c = [data |-> data[1], pts |-> qu[1].pts]
      BY <2>3
    <3>1. c \notin decoding[q] /\ c \in decoding'[q]
      BY <1>4
    <3> DEFINE new == [data |-> f, pts |-> qu[1].pts]
    <3>2. decoding' = decoding \/ decoding' = [decoding EXCEPT ![sink] = @ \cup {new}]
      BY <1>9
    <3> HIDE DEF new
    <3>3. q = sink /\ c = new
      <4>1. sink \in Plays /\ decoding \in [Plays -> SUBSET Chunk]
        BY <1>3, <1>5
      <4>2. decoding' # decoding
        BY <3>1
      <4>3. decoding'[q] = IF q = sink THEN decoding[q] \cup {new} ELSE decoding[q]
        BY <3>2, <4>1, <4>2
      <4> QED BY <3>1, <4>3
    <3> QED BY <2>5, <3>3 DEF new
  <2>7. Moved(qu, dec, n, s, data)'
    BY <2>4, <2>6 DEF Moved, Made
  <2> QED BY <2>1, <2>2, <2>4, <2>7, MoveTokens
<1>14. MissedOnlyTwice'
  BY <1>1, <1>10, ParseKeeps
<1>15. /\ fed[sink] \in Seq(RawFrame) /\ Len(fed[sink]) \in Nat
       /\ DOMAIN fed[sink] = 1..Len(fed[sink])
       /\ fed'[sink] = Append(fed[sink], f)
       /\ \A q \in Plays : q # sink => fed'[q] = fed[q]
  BY <1>3, <1>5, <1>8
<1>16. /\ Len(fed'[sink]) = Len(fed[sink]) + 1
       /\ DOMAIN fed'[sink] = 1..(Len(fed[sink]) + 1)
       /\ \A k \in DOMAIN fed[sink] : fed'[sink][k] = fed[sink][k]
       /\ fed'[sink][Len(fed[sink]) + 1] = f
  BY <1>15
<1>17. ASSUME \A k \in DOMAIN fed'[sink] : fed'[sink][k].play = sink
       PROVE  /\ p = sink /\ Len(fed[sink]) = received[p] - first[p] + 1
              /\ \A k \in DOMAIN fed[sink] : fed[sink][k].play = sink
  <2>1. p = sink
    BY <1>3, <1>15, <1>16, <1>17
  <2>2. \A k \in DOMAIN fed[sink] : fed[sink][k].play = sink
    BY <1>15, <1>16, <1>17
  <2> QED BY <1>2, <1>3, <2>1, <2>2 DEF OwnFed
<1>18. OwnFed'
  <2> SUFFICES ASSUME \A k \in DOMAIN fed'[sink] : fed'[sink][k].play = sink
               PROVE  Len(fed'[sink]) = received'[sink] - first'[sink] + 1
    BY <1>3 DEF OwnFed
  <2> QED BY <1>3, <1>16, <1>17
<1>19. CleanRestart'
  <2>1. \A k \in DOMAIN fed'[sink] : fed'[sink][k].play <= answered[sink]
    <3>1. f.play <= answered[sink]
      BY <1>2, <1>3 DEF PlayStates, TypeOK, Plays
    <3>2. \A k \in DOMAIN fed[sink] : fed[sink][k].play <= answered[sink]
      BY <1>2, <1>3 DEF CleanRestart
    <3>3. \A k \in DOMAIN fed'[sink] : k \in DOMAIN fed[sink] \/ k = Len(fed[sink]) + 1
      BY <1>15, <1>16
    <3> QED BY <1>16, <3>1, <3>2, <3>3
  <2>2. ASSUME \A k \in DOMAIN fed'[sink] : fed'[sink][k].play = sink,
               NEW k \in DOMAIN fed'[sink]
        PROVE  fed'[sink][k].pts = first'[sink] + k - 1
    <3>1. /\ p = sink /\ Len(fed[sink]) = received[p] - first[p] + 1
          /\ \A j \in DOMAIN fed[sink] : fed[sink][j].play = sink
      BY <1>17, <2>2
    <3>2. CASE k \in DOMAIN fed[sink]
      <4>1. fed[sink][k].pts = first[sink] + k - 1
        BY <1>2, <1>3, <3>1, <3>2 DEF CleanRestart
      <4> QED BY <1>3, <1>16, <3>2, <4>1
    <3>3. CASE k \notin DOMAIN fed[sink]
      <4>1. k = Len(fed[sink]) + 1 /\ fed'[sink][k] = f
        BY <1>15, <1>16, <2>2, <3>3
      <4> QED BY <1>3, <3>1, <4>1
    <3> QED BY <3>2, <3>3
  <2>3. ASSUME NEW q \in Plays
        PROVE  /\ \A k \in DOMAIN fed'[q] : fed'[q][k].play <= answered'[q]
               /\ (\A k \in DOMAIN fed'[q] : fed'[q][k].play = q) =>
                    \A k \in DOMAIN fed'[q] : fed'[q][k].pts = first'[q] + k - 1
    <3>1. CASE q = sink
      BY <1>3, <2>1, <2>2, <3>1
    <3>2. CASE q # sink
      BY <1>2, <1>3, <1>15, <3>2 DEF CleanRestart
    <3> QED BY <3>1, <3>2
  <2> QED BY <2>3 DEF CleanRestart
<1> QED BY <1>10, <1>11, <1>12, <1>13, <1>14, <1>18, <1>19 DEF IInv

LEMMA OutputInv ==
  ASSUME IInv, NEW p \in Plays, NEW c \in decoding[p], NEW t \in Truncations(c.pts),
         Output(p, c, t)
  PROVE  IInv'
<1>1. TypeOK /\ SamplesPaired /\ OneToken /\ MissedOnlyTwice
  BY DEF IInv
<1>2. Key(t) = c.pts /\ c \in Chunk
  <2>1. c.pts \in Nat /\ c \in Chunk
    BY <1>1, RawFrameType DEF Frames
  <2> QED BY <2>1, KeyRecovered
<1>3. /\ decoding' = [decoding EXCEPT ![p] = @ \ {c}]
      /\ processing' = {f \in processing : f.pts # c.pts}
      /\ missed' = IF InMap(c.pts) THEN missed ELSE missed \cup {c.pts}
      /\ UNCHANGED <<plays, paused, step, first, answered, received, queue, file, sink, lost,
                     fed>>
  BY <1>2 DEF Output, InMap, playVars, parserVars
<1>4. /\ decoding \in [Plays -> SUBSET Chunk]
      /\ \A q \in Plays : decoding'[q] \subseteq decoding[q]
      /\ c \notin decoding'[p]
  BY <1>1, <1>3 DEF TypeOK
<1>5. TypeOK'
  <2>1. decoding' \in [Plays -> SUBSET Chunk] /\ missed' \subseteq Frames
    BY <1>1, <1>2, <1>3, <1>4 DEF TypeOK, Chunk
  <2> QED BY <1>1, <1>3, <2>1 DEF TypeOK
<1>6. PlayStates' /\ OwnFed' /\ CleanRestart'
  BY <1>3 DEF IInv, PlayStates, OwnFed, CleanRestart
<1>7. SamplesPaired'
  BY <1>1, <1>3, <1>4 DEF SamplesPaired, Waiting
<1>8. \A x : /\ Parsed(x) => Parsed(x)'
             /\ DeliveredTwice(x) => DeliveredTwice(x)'
             /\ x # c.pts /\ InMap(x) => InMap(x)'
  BY <1>3 DEF Parsed, DeliveredTwice, InMap
<1>9. OneToken'
  <2>1. ASSUME NEW k \in DOMAIN queue
        PROVE  /\ Parsed(queue[k].pts)'
               /\ InMap(queue[k].pts)' \/ DeliveredTwice(queue[k].pts)'
               /\ \A j \in DOMAIN queue :
                    j # k /\ queue[j].pts = queue[k].pts => DeliveredTwice(queue[k].pts)'
               /\ \A q \in Plays : \A d \in decoding'[q] :
                    d.pts = queue[k].pts => DeliveredTwice(d.pts)'
    <3>1. queue[k].pts = c.pts => DeliveredTwice(queue[k].pts)
      BY <1>1 DEF OneToken
    <3>2. queue'[k] = queue[k]
      BY <1>3
    <3> QED BY <1>1, <1>4, <1>8, <3>1, <3>2 DEF OneToken
  <2>2. ASSUME NEW q \in Plays, NEW d \in decoding'[q]
        PROVE  /\ Parsed(d.pts)'
               /\ InMap(d.pts)' \/ DeliveredTwice(d.pts)'
               /\ \A r \in Plays : \A e \in decoding'[r] :
                    (q # r \/ d # e) /\ d.pts = e.pts => DeliveredTwice(d.pts)'
    <3>1. d \in decoding[q] /\ (q # p \/ d # c)
      BY <1>4
    <3>2. d.pts = c.pts => DeliveredTwice(d.pts)
      BY <1>1, <3>1 DEF OneToken
    <3>3. \A r \in Plays : \A e \in decoding'[r] : e \in decoding[r]
      BY <1>4
    <3> QED BY <1>1, <1>8, <3>1, <3>2, <3>3 DEF OneToken
  <2> QED BY <1>3, <2>1, <2>2 DEF OneToken
<1>10. MissedOnlyTwice'
  <2>1. ~InMap(c.pts) => DeliveredTwice(c.pts)
    BY <1>1 DEF OneToken
  <2> QED BY <1>1, <1>3, <1>8, <2>1 DEF MissedOnlyTwice
<1> QED BY <1>5, <1>6, <1>7, <1>9, <1>10 DEF IInv

-----------------------------------------------------------------------------
LEMMA NextInv == IInv /\ [Next]_vars => IInv'
<1> SUFFICES ASSUME IInv, [Next]_vars PROVE IInv'
  OBVIOUS
<1>1. CASE UNCHANGED vars
  <2>1. UNCHANGED <<plays, paused, step, first, answered, received, processing, queue, file,
                    sink, lost, decodeVars, missed>>
    BY <1>1 DEF vars, playVars, parserVars
  <2>2. OneToken' /\ MissedOnlyTwice' /\ CleanRestart'
    BY <2>1, Untouched
  <2>3. TypeOK' /\ PlayStates' /\ SamplesPaired' /\ OwnFed'
    BY <2>1 DEF IInv, TypeOK, PlayStates, SamplesPaired, Waiting, OwnFed, decodeVars
  <2> QED BY <2>2, <2>3 DEF IInv
<1>2. CASE Configure \/ Pause
  BY <1>2, ConfigureInv, PauseInv
<1>3. CASE \E p \in Plays : \/ SubscribeFails(p)
                            \/ \E k \in Keyframes : Start(p, k) \/ StartThrows(p, k)
  BY <1>3, SubscribeFailsInv, StartInv, StartThrowsInv
<1>4. CASE \E p \in Plays, f \in RawFrame : Transform(p, f)
  BY <1>4, TransformWaitsInv, TransformExtractsInv, TransformLostInv DEF Transform
<1>5. CASE \E p \in Plays : \E c \in decoding[p] : \E t \in Truncations(c.pts) :
             Output(p, c, t)
  BY <1>5, OutputInv
<1> QED BY <1>1, <1>2, <1>3, <1>4, <1>5 DEF Next

\* The inductive invariant, types included: however often play() and pause() are called,
\* and however the old and the new pipelines interleave.
THEOREM Invariance == Spec => []IInv
<1> QED BY RestartsInit, NextInv, PTL DEF Spec

\* As long as play() is not called again while samples wait in the file, the parser pairs
\* each sample with the RawFrame of its own frame (Mp4Parser.ts:50-66), whichever calls
\* of play() overlap.
THEOREM SamplesPairedAlways == Spec => []SamplesPaired
<1>1. IInv => SamplesPaired
  BY DEF IInv
<1> QED BY <1>1, Invariance, PTL

\* "frame not in processing map" (Player.ts:172) happens only to a frame delivered twice.
THEOREM MissedOnlyTwiceAlways == Spec => []MissedOnlyTwice
<1>1. IInv => MissedOnlyTwice
  BY DEF IInv
<1> QED BY <1>1, Invariance, PTL

\* The decoder of a play starts with the first frame of its subscription and misses
\* none, unless frames of another play reach it; frames of a play() called after its
\* SUBSCRIBE was answered do not.
THEOREM CleanRestartAlways == Spec => []CleanRestart
<1>1. IInv => CleanRestart
  BY DEF IInv
<1> QED BY <1>1, Invariance, PTL

\* The key of the processing map comes back from the decoder's microseconds
\* (Player.ts:167), for every timescale below half a megahertz.
THEOREM KeysRecovered == \A pts \in Nat : \A t \in Truncations(pts) : Key(t) = pts
<1> QED BY KeyRecovered
=============================================================================
