------------------------- MODULE GopPipelineProofs -------------------------
(* Proofs about GopPipeline, for every MaxFrames: the inductive invariant, *)
(* one lemma per action, the refinement of DecodeOrder, and what it means  *)
(* for the decoder.                                                        *)
EXTENDS GopPipeline, TLAPS

USE MaxFramesAssumption DEF Groups, Number

\* What the proofs need to know of frames.
LEMMA FrameFacts ==
  /\ \A f \in Frame : f.gop \in Groups /\ f.idx \in Groups /\ f.dts \in Groups
  /\ NoFrame.gop = 0 /\ NoFrame.idx = 0 /\ NoFrame \notin Frame
  BY DEF Frame, NoFrame

\* The invariant holds before the first frame.
LEMMA InitInv == Init => IInv
<1> SUFFICES ASSUME Init PROVE IInv OBVIOUS
<1> USE DEF Init
<1>1. TypeOK
  <2>1. serverUp \in BOOLEAN /\ decoderError \in BOOLEAN OBVIOUS
  <2>2. delivered \in [Groups -> Number] OBVIOUS
  <2> QED BY <2>1, <2>2 DEF TypeOK
<1>2. WrittenInOrder /\ ClientFrames /\ QueueSorted
  BY DEF WrittenInOrder, ClientFrames, QueueSorted
<1>3. QueueContiguous BY FrameFacts DEF QueueContiguous, Enqueued
<1>4. FedInOrder /\ OnePlace BY DEF FedInOrder, OnePlace
<1>5. ProcessingAccounted /\ DecoderFindsFrame
  BY DEF ProcessingAccounted, InPipeline, DecoderFindsFrame
<1>6. AnchorWaits /\ LatencyAnchor BY DEF AnchorWaits, LatencyAnchor
<1> QED BY <1>1, <1>2, <1>3, <1>4, <1>5, <1>6 DEF IInv

\* A step that leaves the client alone keeps the client's part of the invariant.
LEMMA ClientUnchanged ==
  ASSUME IInv, written \subseteq written',
         UNCHANGED <<delivered, parseVars, skipVars, decodeVars>>
  PROVE  /\ ClientFrames' /\ QueueSorted' /\ QueueContiguous' /\ FedInOrder'
         /\ OnePlace' /\ ProcessingAccounted' /\ DecoderFindsFrame'
         /\ AnchorWaits' /\ LatencyAnchor'
<1> USE DEF IInv, parseVars, skipVars, decodeVars
<1>1. ClientFrames' BY DEF ClientFrames
<1>2. QueueSorted' /\ OnePlace' BY DEF QueueSorted, OnePlace
<1>3. QueueContiguous' BY DEF QueueContiguous, Enqueued
<1>4. FedInOrder' BY DEF FedInOrder
<1>5. ProcessingAccounted' /\ DecoderFindsFrame'
  BY DEF ProcessingAccounted, InPipeline, DecoderFindsFrame
<1>6. AnchorWaits' /\ LatencyAnchor' BY DEF AnchorWaits, LatencyAnchor
<1> QED BY <1>1, <1>2, <1>3, <1>4, <1>5, <1>6

\* Writing the next frame of the current group, or the first of a new one.
LEMMA WriteInv ==
  ASSUME IInv, NEW f \in Frame, WriteFrame(f), f.dts = clock + 1,
         \/ f.gop = group + 1 /\ f.idx = 1
         \/ f.gop = group /\ f.idx = count + 1,
         UNCHANGED <<serverUp, subVars, parseVars, skipVars, decodeVars>>
  PROVE  IInv'
<1> USE DEF IInv, WriteFrame, subVars
<1>1. TypeOK'
  <2>1. f.gop \in Number /\ f.idx \in Number /\ f.dts \in Number BY FrameFacts
  <2>2. serverUp' \in BOOLEAN /\ decoderError' \in BOOLEAN BY DEF TypeOK, decodeVars
  <2> QED BY <2>1, <2>2 DEF TypeOK, parseVars, skipVars, decodeVars
<1>2. WrittenInOrder'
  <2>1. \A e \in written \cup {f} : e.gop \in Groups /\ e.idx \in Groups /\ e.dts \in Groups
    BY FrameFacts DEF TypeOK
  <2>2. group \in Nat /\ count \in Nat /\ clock \in Nat BY DEF TypeOK
  <2>3. \A e \in written : e.gop < f.gop \/ (e.gop = f.gop /\ e.idx < f.idx)
    BY <2>1, <2>2 DEF WrittenInOrder
  <2>4. \A e \in written : e.dts < f.dts BY <2>1, <2>2 DEF WrittenInOrder
  <2> QED BY <2>1, <2>2, <2>3, <2>4 DEF WrittenInOrder
<1> QED BY <1>1, <1>2, ClientUnchanged

\* The server's three outcomes for a frame.
LEMMA ServerInv == IInv /\ Server => IInv'
<1> SUFFICES ASSUME IInv, Server PROVE IInv' OBVIOUS
<1>1. CASE StreamKeyframe
  <2> DEFINE f == [gop |-> group + 1, idx |-> 1, dts |-> clock + 1]
  <2>1. group + 1 \in Groups /\ 1 \in Groups /\ clock + 1 \in Groups
    BY <1>1 DEF StreamKeyframe, IInv, TypeOK, WrittenInOrder
  <2>2. f \in Frame BY <2>1 DEF Frame
  <2> QED BY <1>1, <2>2, WriteInv DEF StreamKeyframe
<1>2. CASE StreamDelta
  <2> DEFINE f == [gop |-> group, idx |-> count + 1, dts |-> clock + 1]
  <2>1. group \in Groups /\ count + 1 \in Groups /\ clock + 1 \in Groups
    BY <1>2 DEF StreamDelta, IInv, TypeOK, WrittenInOrder
  <2>2. f \in Frame BY <2>1 DEF Frame
  <2> QED BY <1>2, <2>2, WriteInv DEF StreamDelta
<1>3. CASE StreamNoGroup
  <2> USE <1>3 DEF StreamNoGroup, IInv, subVars
  <2>1. serverUp' \in BOOLEAN /\ decoderError' \in BOOLEAN BY DEF TypeOK, decodeVars
  <2>2. TypeOK' BY <2>1 DEF TypeOK, parseVars, skipVars, decodeVars
  <2>3. WrittenInOrder' BY DEF WrittenInOrder
  <2> QED BY <2>2, <2>3, ClientUnchanged
<1> QED BY <1>1, <1>2, <1>3 DEF Server

\* Subscribing only fixes the first group served.
LEMMA SubscribeInv == ASSUME IInv, NEW g \in Groups, Subscribe(g) PROVE IInv'
<1> USE DEF Subscribe, IInv, serverVars
<1>1. serverUp' \in BOOLEAN /\ decoderError' \in BOOLEAN BY DEF TypeOK, decodeVars
<1>2. TypeOK' BY <1>1 DEF TypeOK, parseVars, skipVars, decodeVars
<1>3. WrittenInOrder' BY DEF WrittenInOrder
<1> QED BY <1>2, <1>3, ClientUnchanged

\* parseRawFrames appends the next frame of a group to the queue.
LEMMA ParseInv == ASSUME IInv, NEW g \in Groups, ParseRawFrame(g) PROVE IInv'
<1> USE DEF IInv
<1>1. PICK f \in written :
        /\ f.gop = g /\ f.idx = delivered[g] + 1
        /\ delivered' = [delivered EXCEPT ![g] = f.idx]
        /\ firstFrame' = IF firstFrame = NoFrame THEN f ELSE firstFrame
        /\ parsed' = Append(parsed, f)
        /\ processing' = processing \cup {f}
  BY DEF ParseRawFrame
<1>2. UNCHANGED <<serverVars, start, skipVars, decodeVars>>
  BY DEF ParseRawFrame
<1> USE DEF serverVars, skipVars, decodeVars
<1>3. /\ f \in Frame /\ parsed \in Seq(Frame) /\ f \in written'
      /\ delivered \in [Groups -> Number] /\ f.idx \in Number
  <2>1. f \in Frame /\ parsed \in Seq(Frame) /\ delivered \in [Groups -> Number]
    BY DEF TypeOK
  <2>2. f \in written' BY <1>2
  <2> QED BY <2>1, <2>2, FrameFacts
<1>4. /\ Len(parsed') = Len(parsed) + 1
      /\ parsed'[Len(parsed) + 1] = f
      /\ DOMAIN parsed' = DOMAIN parsed \cup {Len(parsed) + 1}
      /\ Len(parsed) \in Nat
      /\ \A k \in DOMAIN parsed :
           k \in 1..Len(parsed) /\ parsed'[k] = parsed[k] /\ parsed[k] \in Frame
  BY <1>1, <1>3
<1>5. TypeOK'
  <2>1. serverUp' \in BOOLEAN /\ decoderError' \in BOOLEAN BY <1>2 DEF TypeOK
  <2>2. delivered' \in [Groups -> Number] BY <1>1, <1>3
  <2>3. parsed' \in Seq(Frame) /\ processing' \subseteq Frame
    BY <1>1, <1>3 DEF TypeOK
  <2> QED BY <1>1, <1>2, <1>3, <2>1, <2>2, <2>3 DEF TypeOK
<1>6. WrittenInOrder' BY <1>2 DEF WrittenInOrder
<1>7. \A h \in Groups : h # g => delivered'[h] = delivered[h]
  BY <1>1, <1>3
<1>8. delivered'[g] = delivered[g] + 1 /\ delivered[g] \in Number BY <1>1, <1>3
<1>9. ClientFrames'
  <2>1. \A e \in Frame : e.idx <= delivered[e.gop] => e.idx <= delivered'[e.gop]
    <3> TAKE e \in Frame
    <3>1. e.gop \in Groups /\ e.idx \in Nat /\ delivered[e.gop] \in Nat
      BY <1>3, FrameFacts
    <3>2. delivered'[e.gop] = delivered[e.gop] \/ delivered'[e.gop] = delivered[e.gop] + 1
      BY <1>7, <1>8, <3>1
    <3> QED BY <3>1, <3>2
  <2>2. \A k \in DOMAIN parsed' : parsed'[k] \in written'
    BY <1>2, <1>3, <1>4 DEF ClientFrames
  <2>3. \A k \in DOMAIN parsed' : parsed'[k].idx <= delivered'[parsed'[k].gop]
    BY <1>1, <1>3, <1>4, <1>8, <2>1 DEF ClientFrames
  <2>4. \A e \in dropped \cup decoding : e.idx <= delivered'[e.gop]
    BY <2>1 DEF ClientFrames, TypeOK
  <2> QED BY <1>2, <2>2, <2>3, <2>4 DEF ClientFrames
<1>10. QueueSorted'
  <2>1. \A k \in DOMAIN parsed : parsed[k].gop = f.gop => parsed[k].idx < f.idx
    BY <1>1, <1>3, <1>4, <1>8, FrameFacts DEF ClientFrames
  <2> QED BY <1>4, <2>1 DEF QueueSorted
<1>11. QueueContiguous'
  <2>1. \A h : Enqueued(h)' = Enqueued(h) BY <1>2 DEF Enqueued
  <2>2. ASSUME NEW k \in DOMAIN parsed', parsed'[k].gop >= lastEnqueued.gop
        PROVE  \/ parsed'[k].idx = Enqueued(parsed'[k].gop) + 1
               \/ \E j \in DOMAIN parsed' :
                    /\ j < k /\ parsed'[j].gop = parsed'[k].gop
                    /\ parsed'[j].idx + 1 = parsed'[k].idx
    <3>1. CASE k \in DOMAIN parsed
      BY <1>4, <2>2, <3>1 DEF QueueContiguous
    <3>2. CASE k = Len(parsed) + 1
      <4>1. parsed'[k] = f /\ g >= lastEnqueued.gop BY <1>1, <1>4, <2>2, <3>2
      <4>2. CASE delivered[g] = Enqueued(g) BY <1>1, <4>1, <4>2
      <4>3. ASSUME NEW j \in DOMAIN parsed, parsed[j].gop = g, parsed[j].idx = delivered[g]
            PROVE  /\ j \in DOMAIN parsed' /\ j < k /\ parsed'[j].gop = f.gop
                   /\ parsed'[j].idx + 1 = f.idx
        BY <1>1, <1>4, <3>2, <4>3
      <4> QED BY <4>1, <4>2, <4>3 DEF QueueContiguous
    <3> QED BY <1>4, <2>2, <3>1, <3>2
  <2>3. ASSUME NEW h \in Groups, h >= lastEnqueued.gop
        PROVE  \/ delivered'[h] = Enqueued(h)
               \/ \E k \in DOMAIN parsed' : parsed'[k].gop = h /\ parsed'[k].idx = delivered'[h]
    <3>1. CASE h = g BY <1>1, <1>4, <1>8, <3>1
    <3>2. CASE h # g
      BY <1>4, <1>7, <2>3, <3>2 DEF QueueContiguous
    <3> QED BY <3>1, <3>2
  <2> QED BY <1>2, <2>1, <2>2, <2>3 DEF QueueContiguous
<1>12. FedInOrder' BY <1>2 DEF FedInOrder
<1>13. f \notin decoding \cup dropped
  <2>1. ~ f.idx <= delivered[f.gop] BY <1>1, <1>8
  <2> QED BY <2>1 DEF ClientFrames
<1>14. OnePlace' BY <1>2, <1>4, <1>13 DEF OnePlace
<1>15. ProcessingAccounted'
  <2>1. InPipeline' = InPipeline \cup {f} BY <1>2, <1>4 DEF InPipeline
  <2> QED BY <1>1, <1>2, <1>13, <2>1 DEF ProcessingAccounted
<1>16. DecoderFindsFrame' BY <1>2 DEF DecoderFindsFrame
<1>17. AnchorWaits' /\ LatencyAnchor'
  <2>1. f # NoFrame /\ parsed' # <<>> BY <1>3, <1>4, FrameFacts
  <2>2. CASE firstFrame = NoFrame
    BY <1>1, <1>2, <1>3, <1>4, <2>1, <2>2 DEF AnchorWaits, LatencyAnchor
  <2>3. CASE firstFrame # NoFrame
    BY <1>1, <1>2, <1>3, <1>4, <2>1, <2>3 DEF AnchorWaits, LatencyAnchor
  <2> QED BY <2>2, <2>3
<1> QED BY <1>5, <1>6, <1>9, <1>10, <1>11, <1>12, <1>14, <1>15, <1>16, <1>17

\* Taking the head off the queue renumbers what is left.
LEMMA TailFacts ==
  ASSUME NEW S, NEW q \in Seq(S), q # <<>>
  PROVE  /\ Tail(q) \in Seq(S) /\ Head(q) = q[1] /\ 1 \in DOMAIN q /\ q[1] \in S
         /\ \A k \in DOMAIN q : k # 1 => k - 1 \in DOMAIN Tail(q) /\ Tail(q)[k - 1] = q[k]
         /\ \A k \in DOMAIN Tail(q) :
              k \in Nat \ {0} /\ k + 1 \in DOMAIN q /\ Tail(q)[k] = q[k + 1]
  OBVIOUS

\* Appending puts one element at the end and moves nothing.
LEMMA AppendFacts ==
  ASSUME NEW S, NEW q \in Seq(S), NEW e \in S
  PROVE  /\ Append(q, e) \in Seq(S) /\ Append(q, e) # <<>>
         /\ Append(q, e)[Len(Append(q, e))] = e
         /\ \A k \in DOMAIN Append(q, e) :
              \/ Append(q, e)[k] = e
              \/ k \in DOMAIN q /\ Append(q, e)[k] = q[k]
  OBVIOUS

\* A queue holds its head and what is left behind it.
LEMMA QueueHead ==
  ASSUME NEW S, NEW q \in Seq(S), q # <<>>
  PROVE  {q[k] : k \in DOMAIN q} = {q[1]} \cup {Tail(q)[k] : k \in DOMAIN Tail(q)}
<1>1. \A k \in DOMAIN q : q[k] = q[1] \/ \E j \in DOMAIN Tail(q) : q[k] = Tail(q)[j]
  <2> TAKE k \in DOMAIN q
  <2>1. k # 1 => k - 1 \in DOMAIN Tail(q) /\ Tail(q)[k - 1] = q[k] BY TailFacts
  <2> QED BY <2>1
<1>2. \A k \in DOMAIN Tail(q) : \E j \in DOMAIN q : Tail(q)[k] = q[j] BY TailFacts
<1> QED BY <1>1, <1>2, TailFacts

\* SkipOldGops drops the head of its queue exactly if its GoP is superseded.
LEMMA LateIsOlder ==
  ASSUME IInv, parsed # <<>>
  PROVE  Late(Head(parsed)) <=> parsed[1].gop < lastEnqueued.gop
<1> USE DEF IInv
<1>1. /\ Head(parsed) = parsed[1] /\ 1 \in DOMAIN parsed /\ parsed[1] \in written
      /\ parsed[1] \in Frame /\ \A j \in DOMAIN parsed : ~ (j < 1)
  BY DEF TypeOK, ClientFrames
<1>2. CASE lastEnqueued = NoFrame
  BY <1>1, <1>2, FrameFacts DEF Late
<1>3. CASE lastEnqueued # NoFrame
  <2>1. lastEnqueued \in written /\ lastEnqueued \in Frame
    BY <1>3 DEF ClientFrames, TypeOK
  <2>2. CASE parsed[1].gop < lastEnqueued.gop
    BY <1>1, <1>3, <2>1, <2>2 DEF Late, WrittenInOrder
  <2>3. CASE parsed[1].gop >= lastEnqueued.gop
    <3>1. parsed[1].idx = Enqueued(parsed[1].gop) + 1
      BY <1>1, <2>3 DEF QueueContiguous
    <3>2. \/ lastEnqueued.gop < parsed[1].gop
          \/ lastEnqueued.gop = parsed[1].gop /\ lastEnqueued.idx < parsed[1].idx
      BY <1>1, <2>1, <2>3, <3>1, FrameFacts DEF Enqueued
    <3>3. lastEnqueued.dts < parsed[1].dts
      BY <1>1, <2>1, <3>2 DEF WrittenInOrder
    <3> QED BY <1>1, <2>1, <2>3, <3>3, FrameFacts DEF Late
  <2> QED BY <1>1, <2>1, <2>2, <2>3, FrameFacts
<1> QED BY <1>2, <1>3

\* SkipOldGops takes the head: the rest stays sorted, and no frame is queued twice.
LEMMA Dequeue ==
  ASSUME IInv, parsed # <<>>, parsed' = Tail(parsed)
  PROVE  /\ parsed \in Seq(Frame) /\ parsed' \in Seq(Frame) /\ Head(parsed) = parsed[1]
         /\ 1 \in DOMAIN parsed /\ parsed[1] \in Frame
         /\ \A k \in DOMAIN parsed :
              k # 1 => k - 1 \in DOMAIN parsed' /\ parsed'[k - 1] = parsed[k]
         /\ \A k \in DOMAIN parsed' :
              k \in Nat \ {0} /\ k + 1 \in DOMAIN parsed /\ parsed'[k] = parsed[k + 1]
         /\ QueueSorted'
         /\ \A k \in DOMAIN parsed' : parsed'[k] # parsed[1]
         /\ {parsed[k] : k \in DOMAIN parsed}
              = {parsed[1]} \cup {parsed'[k] : k \in DOMAIN parsed'}
<1> USE DEF IInv
<1>1. parsed \in Seq(Frame) BY DEF TypeOK
<1>2. /\ parsed' \in Seq(Frame) /\ Head(parsed) = parsed[1]
      /\ 1 \in DOMAIN parsed /\ parsed[1] \in Frame
      /\ \A k \in DOMAIN parsed :
           k # 1 => k - 1 \in DOMAIN parsed' /\ parsed'[k - 1] = parsed[k]
      /\ \A k \in DOMAIN parsed' :
           k \in Nat \ {0} /\ k + 1 \in DOMAIN parsed /\ parsed'[k] = parsed[k + 1]
  BY <1>1, TailFacts
<1>3. QueueSorted'
  <2>1. SUFFICES ASSUME NEW j \in DOMAIN parsed', NEW k \in DOMAIN parsed', j < k,
                        parsed'[j].gop = parsed'[k].gop
                 PROVE  parsed'[j].idx < parsed'[k].idx
    BY DEF QueueSorted
  <2>2. /\ j + 1 \in DOMAIN parsed /\ k + 1 \in DOMAIN parsed /\ j + 1 < k + 1
        /\ parsed'[j] = parsed[j + 1] /\ parsed'[k] = parsed[k + 1]
    BY <1>2, <2>1
  <2> QED BY <2>1, <2>2 DEF QueueSorted
<1>4. ASSUME NEW k \in DOMAIN parsed' PROVE parsed'[k] # parsed[1]
  <2>1. k + 1 \in DOMAIN parsed /\ 1 < k + 1 /\ parsed'[k] = parsed[k + 1] BY <1>2
  <2>2. parsed[1].idx \in Groups BY <1>2, FrameFacts
  <2>3. parsed[1].gop = parsed[k + 1].gop => parsed[1].idx < parsed[k + 1].idx
    BY <1>2, <2>1 DEF QueueSorted
  <2> QED BY <2>1, <2>2, <2>3
<1>5. {parsed[k] : k \in DOMAIN parsed}
        = {parsed[1]} \cup {parsed'[k] : k \in DOMAIN parsed'}
  BY <1>1, QueueHead
<1> QED BY <1>1, <1>2, <1>3, <1>4, <1>5

\* SkipOldGops drops the head: GoPs it still accepts lose nothing.
LEMMA SkipInv == ASSUME IInv, SkipLate PROVE IInv'
<1> USE DEF IInv
<1>1. /\ parsed # <<>> /\ Late(Head(parsed))
      /\ dropped' = dropped \cup {Head(parsed)} /\ parsed' = Tail(parsed)
      /\ UNCHANGED <<serverVars, subVars, firstFrame, processing, lastEnqueued,
                     fed, decodeVars>>
  BY DEF SkipLate
<1> USE DEF serverVars, subVars, decodeVars
<1>2. /\ parsed \in Seq(Frame) /\ parsed' \in Seq(Frame) /\ Head(parsed) = parsed[1]
      /\ 1 \in DOMAIN parsed /\ parsed[1] \in Frame
      /\ \A k \in DOMAIN parsed :
           k # 1 => k - 1 \in DOMAIN parsed' /\ parsed'[k - 1] = parsed[k]
      /\ \A k \in DOMAIN parsed' :
           k \in Nat \ {0} /\ k + 1 \in DOMAIN parsed /\ parsed'[k] = parsed[k + 1]
  BY <1>1, Dequeue
<1>3. parsed[1].gop < lastEnqueued.gop BY <1>1, LateIsOlder
<1>4. TypeOK'
  <2>1. serverUp' \in BOOLEAN /\ decoderError' \in BOOLEAN BY <1>1 DEF TypeOK
  <2>2. dropped' \subseteq Frame BY <1>1, <1>2 DEF TypeOK
  <2> QED BY <1>1, <1>2, <2>1, <2>2 DEF TypeOK
<1>5. WrittenInOrder' BY <1>1 DEF WrittenInOrder
<1>6. ClientFrames' BY <1>1, <1>2 DEF ClientFrames
<1>7. QueueSorted' BY <1>1, Dequeue
<1>9. QueueContiguous'
  <2>1. \A h : Enqueued(h)' = Enqueued(h) BY <1>1 DEF Enqueued
  <2>2. \A k \in DOMAIN parsed : parsed[k].gop >= lastEnqueued.gop => k # 1
    BY <1>2, <1>3, FrameFacts DEF TypeOK
  <2>3. ASSUME NEW k \in DOMAIN parsed', parsed'[k].gop >= lastEnqueued.gop
        PROVE  \/ parsed'[k].idx = Enqueued(parsed'[k].gop) + 1
               \/ \E j \in DOMAIN parsed' :
                    /\ j < k /\ parsed'[j].gop = parsed'[k].gop
                    /\ parsed'[j].idx + 1 = parsed'[k].idx
    <3>1. k + 1 \in DOMAIN parsed /\ parsed'[k] = parsed[k + 1] /\ k \in Nat
      BY <1>2
    <3>2. CASE parsed[k + 1].idx = Enqueued(parsed[k + 1].gop) + 1
      BY <3>1, <3>2
    <3>3. ASSUME NEW j \in DOMAIN parsed, j < k + 1,
                 parsed[j].gop = parsed[k + 1].gop, parsed[j].idx + 1 = parsed[k + 1].idx
          PROVE  \E i \in DOMAIN parsed' :
                    /\ i < k /\ parsed'[i].gop = parsed'[k].gop
                    /\ parsed'[i].idx + 1 = parsed'[k].idx
      <4>1. j # 1 /\ j \in Nat BY <1>2, <2>2, <2>3, <3>1, <3>3
      <4>2. /\ j - 1 \in DOMAIN parsed' /\ parsed'[j - 1] = parsed[j] /\ j - 1 < k
        BY <1>2, <3>1, <3>3, <4>1
      <4> QED BY <3>1, <3>3, <4>2
    <3> QED BY <2>3, <3>1, <3>2, <3>3 DEF QueueContiguous
  <2>4. ASSUME NEW h \in Groups, h >= lastEnqueued.gop
        PROVE  \/ delivered[h] = Enqueued(h)
               \/ \E k \in DOMAIN parsed' : parsed'[k].gop = h /\ parsed'[k].idx = delivered[h]
    <3>1. ASSUME NEW k \in DOMAIN parsed, parsed[k].gop = h, parsed[k].idx = delivered[h]
          PROVE  \E i \in DOMAIN parsed' : parsed'[i].gop = h /\ parsed'[i].idx = delivered[h]
      <4>1. k # 1 BY <2>2, <2>4, <3>1
      <4> QED BY <1>2, <3>1, <4>1
    <3> QED BY <2>4, <3>1 DEF QueueContiguous
  <2> QED BY <1>1, <2>1, <2>3, <2>4 DEF QueueContiguous
<1>10. FedInOrder' BY <1>1 DEF FedInOrder
<1>11. OnePlace' BY <1>1, <1>2 DEF OnePlace
<1>12. ProcessingAccounted'
  <2>1. InPipeline = InPipeline' \cup {parsed[1]} BY <1>1, Dequeue DEF InPipeline
  <2>2. parsed[1] \notin InPipeline' BY <1>1, <1>2, Dequeue DEF InPipeline, OnePlace
  <2> QED BY <1>1, <1>2, <2>1, <2>2 DEF ProcessingAccounted
<1>13. DecoderFindsFrame' BY <1>1 DEF DecoderFindsFrame
<1>14. AnchorWaits' /\ LatencyAnchor'
  <2>1. lastEnqueued # NoFrame BY <1>1 DEF Late
  <2>2. fed # <<>> BY <2>1 DEF FedInOrder
  <2>3. firstFrame # NoFrame BY <2>2 DEF AnchorWaits
  <2> QED BY <1>1, <2>2, <2>3 DEF AnchorWaits, LatencyAnchor
<1> QED BY <1>4, <1>5, <1>6, <1>7, <1>9, <1>10, <1>11, <1>12, <1>13, <1>14

\* What SkipOldGops enqueues is decodable: the next frame of the GoP being fed, or
\* the first frame of a newer one.
LEMMA HeadDecodable ==
  ASSUME IInv, parsed # <<>>, ~ Late(Head(parsed))
  PROVE  /\ parsed[1].gop >= lastEnqueued.gop
         /\ \/ parsed[1].gop > lastEnqueued.gop /\ parsed[1].idx = 1
            \/ /\ lastEnqueued # NoFrame /\ parsed[1].gop = lastEnqueued.gop
               /\ parsed[1].idx = lastEnqueued.idx + 1
<1> USE DEF IInv
<1>1. /\ 1 \in DOMAIN parsed /\ parsed[1] \in Frame
      /\ \A j \in DOMAIN parsed : ~ (j < 1)
  BY DEF TypeOK
<1>2. /\ lastEnqueued.gop \in Number /\ lastEnqueued.idx \in Number
      /\ lastEnqueued.gop = 0 => lastEnqueued = NoFrame
  BY FrameFacts DEF TypeOK
<1>3. parsed[1].gop >= lastEnqueued.gop BY <1>1, <1>2, LateIsOlder, FrameFacts
<1>4. parsed[1].idx = Enqueued(parsed[1].gop) + 1
  BY <1>1, <1>3 DEF QueueContiguous
<1> QED BY <1>1, <1>2, <1>3, <1>4, FrameFacts DEF Enqueued

\* SkipOldGops enqueues the head and hands it to the decoder.
LEMMA EnqueueInv == ASSUME IInv, EnqueueFrame PROVE IInv'
<1> DEFINE f == parsed[1]
           E(h) == IF f.gop = h THEN f.idx ELSE 0
<1> USE DEF IInv
<1>1. /\ parsed # <<>> /\ ~ Late(Head(parsed)) /\ parsed' = Tail(parsed)
      /\ lastEnqueued' = Head(parsed) /\ fed' = Append(fed, Head(parsed))
      /\ decoding' = decoding \cup {Head(parsed)}
      /\ UNCHANGED <<serverVars, subVars, firstFrame, processing, dropped, decoderError>>
  BY DEF EnqueueFrame
<1> USE DEF serverVars, subVars
<1>2. /\ parsed \in Seq(Frame) /\ parsed' \in Seq(Frame) /\ Head(parsed) = f
      /\ 1 \in DOMAIN parsed /\ f \in Frame
      /\ \A k \in DOMAIN parsed :
           k # 1 => k - 1 \in DOMAIN parsed' /\ parsed'[k - 1] = parsed[k]
      /\ \A k \in DOMAIN parsed' :
           k \in Nat \ {0} /\ k + 1 \in DOMAIN parsed /\ parsed'[k] = parsed[k + 1]
  BY <1>1, Dequeue
<1>3. /\ f.gop >= lastEnqueued.gop
      /\ \/ f.gop > lastEnqueued.gop /\ f.idx = 1
         \/ f.gop = lastEnqueued.gop /\ f.idx = lastEnqueued.idx + 1
  BY <1>1, HeadDecodable
<1>4. /\ lastEnqueued.gop \in Number /\ lastEnqueued.idx \in Number
      /\ f.gop \in Groups /\ f.idx \in Groups
      /\ \A k \in DOMAIN parsed : parsed[k].gop \in Groups /\ parsed[k].idx \in Groups
  BY <1>2, FrameFacts, SMTT(30) DEF TypeOK
<1>5. TypeOK'
  <2>1. serverUp' \in BOOLEAN /\ decoderError' \in BOOLEAN BY <1>1 DEF TypeOK
  <2>2. fed' \in Seq(Frame) /\ decoding' \subseteq Frame BY <1>1, <1>2 DEF TypeOK
  <2> QED BY <1>1, <1>2, <2>1, <2>2 DEF TypeOK
<1>6. WrittenInOrder' BY <1>1 DEF WrittenInOrder
<1>7. ClientFrames'
  <2>1. f \in written /\ f.idx <= delivered[f.gop] BY <1>2 DEF ClientFrames
  <2> QED BY <1>1, <1>2, <2>1 DEF ClientFrames
<1>8. QueueSorted' BY <1>1, Dequeue
<1>9. \A h \in Groups : h >= f.gop =>
        \/ h = f.gop /\ E(h) = f.idx /\ Enqueued(h) + 1 = f.idx
        \/ h > f.gop /\ E(h) = 0 /\ Enqueued(h) = 0
  BY <1>1, <1>2, <1>3, <1>4, FrameFacts DEF Enqueued
<1>10. QueueContiguous'
  <2>1. ASSUME NEW k \in DOMAIN parsed', parsed'[k].gop >= f.gop
        PROVE  \/ parsed'[k].idx = E(parsed'[k].gop) + 1
               \/ \E j \in DOMAIN parsed' :
                    /\ j < k /\ parsed'[j].gop = parsed'[k].gop
                    /\ parsed'[j].idx + 1 = parsed'[k].idx
    <3>1. k + 1 \in DOMAIN parsed /\ parsed'[k] = parsed[k + 1] /\ k \in Nat \ {0}
      BY <1>2
    <3>2. parsed[k + 1].gop = f.gop => f.idx < parsed[k + 1].idx
      <4>1. 1 < k + 1 BY <3>1
      <4> QED BY <1>2, <3>1, <4>1 DEF QueueSorted
    <3>3. CASE parsed[k + 1].idx = Enqueued(parsed[k + 1].gop) + 1
      BY <1>4, <1>9, <2>1, <3>1, <3>2, <3>3
    <3>4. ASSUME NEW j \in DOMAIN parsed, j < k + 1,
                 parsed[j].gop = parsed[k + 1].gop, parsed[j].idx + 1 = parsed[k + 1].idx
          PROVE  \/ parsed'[k].idx = E(parsed'[k].gop) + 1
                 \/ \E i \in DOMAIN parsed' :
                      /\ i < k /\ parsed'[i].gop = parsed'[k].gop
                      /\ parsed'[i].idx + 1 = parsed'[k].idx
      <4>1. CASE j = 1 BY <1>4, <1>9, <2>1, <3>1, <3>4, <4>1
      <4>2. CASE j # 1
        <5>1. /\ j - 1 \in DOMAIN parsed' /\ parsed'[j - 1] = parsed[j] /\ j - 1 < k
          BY <1>2, <3>1, <3>4, <4>2
        <5> QED BY <3>1, <3>4, <5>1
      <4> QED BY <4>1, <4>2
    <3>5. parsed[k + 1].gop >= lastEnqueued.gop BY <1>3, <1>4, <2>1, <3>1
    <3> QED BY <3>1, <3>3, <3>4, <3>5 DEF QueueContiguous
  <2>2. ASSUME NEW h \in Groups, h >= f.gop
        PROVE  \/ delivered[h] = E(h)
               \/ \E k \in DOMAIN parsed' : parsed'[k].gop = h /\ parsed'[k].idx = delivered[h]
    <3>1. CASE delivered[h] = Enqueued(h)
      <4>1. h = f.gop => f.idx <= delivered[h] BY <1>2 DEF ClientFrames
      <4>2. delivered[h] \in Number BY DEF TypeOK
      <4> QED BY <1>4, <1>9, <2>2, <3>1, <4>1, <4>2
    <3>2. ASSUME NEW k \in DOMAIN parsed, parsed[k].gop = h, parsed[k].idx = delivered[h]
          PROVE  \/ delivered[h] = E(h)
                 \/ \E i \in DOMAIN parsed' : parsed'[i].gop = h /\ parsed'[i].idx = delivered[h]
      <4>1. CASE k = 1 BY <1>4, <1>9, <2>2, <3>2, <4>1
      <4>2. CASE k # 1 BY <1>2, <3>2, <4>2
      <4> QED BY <4>1, <4>2
    <3>3. h >= lastEnqueued.gop BY <1>3, <1>4, <2>2
    <3> QED BY <3>1, <3>2, <3>3 DEF QueueContiguous
  <2> QED BY <1>1, <1>2, <2>1, <2>2 DEF QueueContiguous, Enqueued
<1>11. FedInOrder'
  <2>1. fed \in Seq(Frame) BY DEF TypeOK
  <2>2. \A k \in DOMAIN fed : fed[k].gop \in Groups BY <2>1, FrameFacts
  <2>3. f # NoFrame BY <1>2, FrameFacts
  <2>4. /\ fed' \in Seq(Frame) /\ fed' # <<>> /\ fed'[Len(fed')] = f
        /\ \A k \in DOMAIN fed' : fed'[k] = f \/ (k \in DOMAIN fed /\ fed'[k] = fed[k])
    <3>1. fed' = Append(fed, f) BY <1>1, <1>2
    <3> QED BY <1>2, <2>1, <3>1, AppendFacts
  <2>5. \A k \in DOMAIN fed' : fed'[k].gop <= f.gop
    BY <1>3, <1>4, <2>2, <2>4 DEF FedInOrder
  <2> QED BY <1>1, <1>2, <2>3, <2>4, <2>5 DEF FedInOrder
<1>12. OnePlace'
  <2>1. \A k \in DOMAIN parsed' : parsed'[k] # f BY <1>1, Dequeue
  <2> QED BY <1>1, <1>2, <2>1 DEF OnePlace
<1>13. ProcessingAccounted'
  <2>1. InPipeline' = InPipeline
    <3>1. {parsed[k] : k \in DOMAIN parsed} = {f} \cup {parsed'[k] : k \in DOMAIN parsed'}
      BY <1>1, Dequeue
    <3> QED BY <1>1, <1>2, <3>1 DEF InPipeline
  <2> QED BY <1>1, <2>1 DEF ProcessingAccounted
<1>14. DecoderFindsFrame' BY <1>1 DEF DecoderFindsFrame
<1>15. AnchorWaits' /\ LatencyAnchor'
  <2>1. firstFrame # NoFrame BY <1>1 DEF AnchorWaits
  <2>2. fed' # <<>> /\ fed'[1] = IF fed = <<>> THEN f ELSE fed[1]
    BY <1>1, <1>2 DEF TypeOK
  <2> QED BY <1>1, <2>1, <2>2 DEF AnchorWaits, LatencyAnchor
<1> QED BY <1>5, <1>6, <1>7, <1>8, <1>10, <1>11, <1>12, <1>13, <1>14, <1>15

\* The decoder's output callback finds the frame and removes it.
LEMMA OutputInv == ASSUME IInv, NEW f \in decoding, DecoderOutput(f) PROVE IInv'
<1> USE DEF IInv
<1>1. /\ decoding' = decoding \ {f} /\ decoderError' = (decoderError \/ f \notin processing)
      /\ processing' = processing \ {f}
      /\ UNCHANGED <<serverVars, subVars, firstFrame, parsed, skipVars>>
  BY DEF DecoderOutput
<1> USE DEF serverVars, subVars, skipVars
<1>2. f \in processing BY DEF ProcessingAccounted, InPipeline
<1>3. decoderError' = FALSE BY <1>1, <1>2 DEF DecoderFindsFrame
<1>4. TypeOK'
  <2>1. serverUp' \in BOOLEAN /\ decoderError' \in BOOLEAN BY <1>1 DEF TypeOK
  <2> QED BY <1>1, <2>1 DEF TypeOK
<1>5. WrittenInOrder' BY <1>1 DEF WrittenInOrder
<1>6. ClientFrames' BY <1>1 DEF ClientFrames
<1>7. QueueSorted' /\ OnePlace' BY <1>1 DEF QueueSorted, OnePlace
<1>8. QueueContiguous' BY <1>1 DEF QueueContiguous, Enqueued
<1>9. FedInOrder' BY <1>1 DEF FedInOrder
<1>10. ProcessingAccounted'
  <2>1. InPipeline' = InPipeline \ {f} BY <1>1 DEF InPipeline, OnePlace
  <2>2. f \notin dropped BY DEF ProcessingAccounted, InPipeline
  <2> QED BY <1>1, <2>1, <2>2 DEF ProcessingAccounted
<1>11. DecoderFindsFrame' BY <1>3 DEF DecoderFindsFrame
<1>12. AnchorWaits' /\ LatencyAnchor' BY <1>1 DEF AnchorWaits, LatencyAnchor
<1> QED BY <1>4, <1>5, <1>6, <1>7, <1>8, <1>9, <1>10, <1>11, <1>12

\* Every step, and every stuttering step, keeps the invariant.
LEMMA NextInv == IInv /\ [Next]_vars => IInv'
<1> SUFFICES ASSUME IInv, [Next]_vars PROVE IInv' OBVIOUS
<1>1. CASE Server BY <1>1, ServerInv
<1>2. ASSUME NEW g \in Groups, Subscribe(g) PROVE IInv' BY <1>2, SubscribeInv
<1>3. ASSUME NEW g \in Groups, ParseRawFrame(g) PROVE IInv' BY <1>3, ParseInv
<1>4. CASE SkipLate BY <1>4, SkipInv
<1>5. CASE EnqueueFrame BY <1>5, EnqueueInv
<1>6. ASSUME NEW f \in decoding, DecoderOutput(f) PROVE IInv' BY <1>6, OutputInv
<1>7. CASE UNCHANGED vars
  <2> USE <1>7 DEF vars, serverVars, subVars, IInv
  <2>1. serverUp' \in BOOLEAN /\ decoderError' \in BOOLEAN BY DEF TypeOK, decodeVars
  <2>2. TypeOK' BY <2>1 DEF TypeOK, parseVars, skipVars, decodeVars
  <2>3. WrittenInOrder' BY DEF WrittenInOrder
  <2> QED BY <2>2, <2>3, ClientUnchanged
<1> QED BY <1>1, <1>2, <1>3, <1>4, <1>5, <1>6, <1>7 DEF Next, Client

\* The inductive invariant holds in every reachable state, and with it the type
\* invariant, the queue that continues where the decoder stopped and FIFO order.
THEOREM Invariance == Spec => []IInv
  BY InitInv, NextInv, PTL DEF Spec

\* Every variable of the pipeline keeps its type; in particular no group number,
\* index or decode time leaves the range of the frames written.
THEOREM TypeCorrect == Spec => []TypeOK
<1>1. IInv => TypeOK BY DEF IInv
<1> QED BY <1>1, Invariance, PTL

\* The decoder's output callback never throws "frame not in processing map"
\* (Player.ts:172).
THEOREM DecoderNeverThrows == Spec => []DecoderFindsFrame
<1>1. IInv => DecoderFindsFrame BY DEF IInv
<1> QED BY <1>1, Invariance, PTL

\* The processing map holds exactly the frames in the pipeline and those dropped.
THEOREM ProcessingCorrect == Spec => []ProcessingAccounted
<1>1. IInv => ProcessingAccounted BY DEF IInv
<1> QED BY <1>1, Invariance, PTL

\* The frame whose availability time anchors the latency is the first one decoded.
THEOREM AnchorCorrect == Spec => []LatencyAnchor
<1>1. IInv => LatencyAnchor BY DEF IInv
<1> QED BY <1>1, Invariance, PTL

\* Every step of the pipeline feeds the decoder a frame it can decode, or none.
LEMMA StepRefines == IInv /\ [Next]_vars => [Order!Next]_fed
<1> SUFFICES ASSUME IInv, [Next]_vars PROVE [Order!Next]_fed OBVIOUS
<1>1. CASE EnqueueFrame
  <2> DEFINE f == parsed[1]
  <2>1. parsed # <<>> /\ ~ Late(Head(parsed)) /\ fed' = Append(fed, Head(parsed))
    BY <1>1 DEF EnqueueFrame
  <2>2. f \in Frame /\ Head(parsed) = f BY <2>1 DEF IInv, TypeOK
  <2>3. CASE f.gop > lastEnqueued.gop /\ f.idx = 1
    <3>1. fed \in Seq(Frame) /\ f.gop \in Groups /\ lastEnqueued.gop \in Number
      BY <2>2, FrameFacts DEF IInv, TypeOK
    <3>2. \A k \in DOMAIN fed : fed[k].gop \in Groups BY <3>1, FrameFacts
    <3>3. \A k \in DOMAIN fed : fed[k].gop < f.gop
      BY <2>3, <3>1, <3>2 DEF IInv, FedInOrder
    <3> QED BY <2>1, <2>2, <2>3, <3>3 DEF Order!Next, Order!Feed, Order!NewGop
  <2>4. CASE lastEnqueued # NoFrame /\ f.gop = lastEnqueued.gop /\ f.idx = lastEnqueued.idx + 1
    <3>1. fed # <<>> /\ fed[Len(fed)] = lastEnqueued BY <2>4 DEF IInv, FedInOrder
    <3> QED BY <2>1, <2>2, <2>4, <3>1 DEF Order!Next, Order!Feed, Order!NextInGop
  <2> QED BY <2>1, <2>3, <2>4, HeadDecodable
<1>2. CASE ~ EnqueueFrame
  <2>1. fed' = fed
    BY <1>2 DEF Next, Server, Client, StreamKeyframe, StreamDelta, StreamNoGroup,
       Subscribe, ParseRawFrame, SkipLate, DecoderOutput, vars, skipVars
  <2> QED BY <2>1
<1> QED BY <1>1, <1>2

\* The pipeline implements DecodeOrder: however the network interleaves the groups,
\* what reaches the decoder is decodable.
THEOREM Refinement == Spec => DecodableOrder
<1>1. Init => Order!Init BY DEF Init, Order!Init
<1> QED BY <1>1, StepRefines, Invariance, PTL DEF Spec, DecodableOrder, Order!Spec

\* One more frame that DecodeOrder allows leaves no hole and steps forward.
LEMMA OrderStep ==
  ASSUME fed \in Seq(Frame), Order!NoHole, Order!Forward, [Order!Next]_fed
  PROVE  Order!NoHole' /\ Order!Forward'
<1>1. CASE UNCHANGED fed BY <1>1 DEF Order!NoHole, Order!Forward
<1>2. CASE Order!Next
  <2> DEFINE n == Len(fed)
  <2>1. PICK f \in Frame : /\ Order!NewGop(f) \/ Order!NextInGop(f)
                           /\ fed' = Append(fed, f)
    BY <1>2 DEF Order!Next, Order!Feed
  <2>2. /\ n \in Nat /\ DOMAIN fed = 1..n /\ DOMAIN fed' = 1..(n + 1) /\ fed'[n + 1] = f
        /\ \A k \in 1..n : fed'[k] = fed[k]
    BY <2>1
  <2>3. f.gop \in Nat /\ f.idx \in Nat /\ \A k \in 1..n : fed[k].gop \in Nat /\ fed[k].idx \in Nat
    <3>1. \A k \in 1..n : fed[k] \in Frame BY <2>2
    <3> QED BY <2>1, <3>1, FrameFacts DEF Frame, Groups
  <2> HIDE DEF n
  <2>4. \A k \in 1..n : k # n =>
          fed[k].gop < fed[n].gop \/ (fed[k].gop = fed[n].gop /\ fed[k].idx < fed[n].idx)
    <3> SUFFICES ASSUME NEW k \in 1..n, k # n
        PROVE fed[k].gop < fed[n].gop \/ (fed[k].gop = fed[n].gop /\ fed[k].idx < fed[n].idx)
      OBVIOUS
    <3>1. k < n /\ k \in DOMAIN fed /\ n \in DOMAIN fed BY <2>2
    <3> QED BY <3>1 DEF Order!Forward
  <2>5. CASE Order!NewGop(f)
    <3>1. f.idx = 1 /\ \A k \in 1..n : fed[k].gop < f.gop BY <2>2, <2>5 DEF Order!NewGop
    <3>2. Order!NoHole' BY <2>2, <3>1 DEF Order!NoHole
    <3>3. Order!Forward' BY <2>2, <2>3, <3>1 DEF Order!Forward
    <3> QED BY <3>2, <3>3
  <2>6. CASE Order!NextInGop(f)
    <3>1. n # 0 /\ n \in 1..n /\ fed[n].gop = f.gop /\ f.idx = fed[n].idx + 1
      BY <2>2, <2>6 DEF Order!NextInGop, n
    <3>2. Order!NoHole' BY <2>2, <3>1 DEF Order!NoHole
    <3>3. \A k \in 1..n : fed[k].gop < f.gop \/ (fed[k].gop = f.gop /\ fed[k].idx < f.idx)
      <4> SUFFICES ASSUME NEW k \in 1..n
          PROVE fed[k].gop < f.gop \/ (fed[k].gop = f.gop /\ fed[k].idx < f.idx)
        OBVIOUS
      <4>1. CASE k = n BY <2>3, <3>1, <4>1
      <4>2. CASE k # n
        <5>1. fed[k].gop < fed[n].gop \/ (fed[k].gop = fed[n].gop /\ fed[k].idx < fed[n].idx)
          BY <2>4, <4>2
        <5>2. fed[k].idx \in Nat /\ fed[n].idx \in Nat BY <2>3, <3>1
        <5> QED BY <3>1, <5>1, <5>2
      <4> QED BY <4>1, <4>2
    <3>4. ASSUME NEW j \in 1..(n + 1), NEW k \in 1..(n + 1), j < k
          PROVE  \/ fed'[j].gop < fed'[k].gop
                 \/ fed'[j].gop = fed'[k].gop /\ fed'[j].idx < fed'[k].idx
      <4>1. j \in 1..n /\ (k \in 1..n \/ k = n + 1) BY <2>2, <3>4
      <4>2. CASE k = n + 1 BY <2>2, <3>3, <4>1, <4>2
      <4>3. CASE k \in 1..n BY <2>2, <3>4, <4>1, <4>3 DEF Order!Forward
      <4> QED BY <4>1, <4>2, <4>3
    <3>5. Order!Forward' BY <2>2, <3>4 DEF Order!Forward
    <3> QED BY <3>2, <3>5
  <2> QED BY <2>1, <2>5, <2>6
<1> QED BY <1>1, <1>2

\* The decoder is fed every frame after the frame it is decoded from, in the order of
\* time and once, however the network interleaves the groups.
THEOREM NoHoleNoStepBack == Spec => [](Order!NoHole /\ Order!Forward)
<1>1. Init => Order!NoHole /\ Order!Forward BY DEF Init, Order!NoHole, Order!Forward
<1>2. IInv /\ [Next]_vars /\ Order!NoHole /\ Order!Forward => Order!NoHole' /\ Order!Forward'
  <2>1. IInv => fed \in Seq(Frame) BY DEF IInv, TypeOK
  <2> QED BY <2>1, StepRefines, OrderStep
<1> QED BY <1>1, <1>2, Invariance, PTL DEF Spec
=============================================================================
