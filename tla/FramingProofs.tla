--------------------------- MODULE FramingProofs ---------------------------
(***************************************************************************)
(* Theorems about Framing: for every payload size and number of items, and *)
(* whatever pieces the stream arrives in, the server cuts out exactly the  *)
(* items that were written.                                                *)
(***************************************************************************)
EXTENDS Framing, TLAPS

Items == InitSegment \cup Frame

\* Serialiser, test and parser mean the same length.
LEMMA Lengths ==
  ASSUME NEW i \in Items
  PROVE  /\ i.at \in Nat /\ i.size \in Nat
         /\ WireLength(i) \in Nat /\ WireLength(i) > 2
         /\ ParsedLength(i) = WireLength(i)
         /\ WireLength(i) = 1 + HeaderOnly(i) + i.size
         /\ HeaderOnly(i) \in Nat
<1>1. i.size \in Nat /\ i.at \in Nat
  BY FramingAssumption DEF Items, InitSegment, Frame
<1>2. CASE i.kind = "init"
  BY <1>1, <1>2 DEF WireLength, ParsedLength, HeaderOnly
<1>3. CASE i.kind # "init"
  BY <1>1, <1>3 DEF WireLength, ParsedLength, HeaderOnly, FRAME_HEADER
<1> QED BY <1>1, <1>2, <1>3

LEMMA Ends ==
  ASSUME NEW i \in Items
  PROVE  EndOf(i) \in Nat /\ EndOf(i) = i.at + WireLength(i) /\ EndOf(i) > i.at + 2
  BY Lengths DEF EndOf

\* A complete item is an item all of whose bytes are in the buffer.
LEMMA CompleteMeans ==
  ASSUME NEW i \in Items, arrived \in Nat, consumed \in Nat
  PROVE  Complete(i) <=> arrived - consumed >= WireLength(i)
<1> DEFINE h == HeaderOnly(i)
<1>1. h \in Nat /\ i.size \in Nat /\ WireLength(i) = 1 + h + i.size
  BY Lengths
<1> HIDE DEF h
<1> QED BY <1>1 DEF Complete, h

\* The item at the parser's position is the first one not yet delivered.
LEMMA HeadIsNext ==
  ASSUME IInv, pc # "failed", NEW k \in DOMAIN sent, AtHead(sent[k])
  PROVE  k = Len(items) + 1
<1>1. /\ sent \in Seq(Items) /\ items \in Seq(Items) /\ Len(items) <= Len(sent)
      /\ consumed = IF items = <<>> THEN 0 ELSE EndOf(sent[Len(items)])
      /\ sent[k].at = consumed
      /\ \A j, l \in DOMAIN sent : j < l => EndOf(sent[j]) <= sent[l].at
  BY DEF IInv, TypeOK, InStep, Contiguous, AtHead, Items
<1>2. \A j \in DOMAIN sent :
        sent[j].at \in Nat /\ EndOf(sent[j]) \in Nat /\ EndOf(sent[j]) > sent[j].at + 2
  <2> SUFFICES ASSUME NEW j \in DOMAIN sent
               PROVE  sent[j].at \in Nat /\ EndOf(sent[j]) \in Nat
                      /\ EndOf(sent[j]) > sent[j].at + 2
    OBVIOUS
  <2>1. sent[j] \in Items
    BY <1>1
  <2> QED BY <2>1, Lengths, Ends
<1>3. k > Len(items)
  <2> SUFFICES ASSUME k <= Len(items) PROVE FALSE
    BY <1>1
  <2>1. Len(items) \in DOMAIN sent /\ consumed = EndOf(sent[Len(items)])
    BY <1>1
  <2>2. sent[k].at < EndOf(sent[k])
    BY <1>2
  <2>3. EndOf(sent[k]) <= EndOf(sent[Len(items)])
    <3>1. CASE k = Len(items)  BY <3>1, <2>1, <1>2
    <3>2. CASE k < Len(items)
      BY <3>2, <2>1, <1>1, <1>2
    <3> QED BY <3>1, <3>2, <1>1
  <2> QED BY <1>1, <1>2, <2>1, <2>2, <2>3
<1>4. k <= Len(items) + 1
  <2> SUFFICES ASSUME k > Len(items) + 1 PROVE FALSE
    BY <1>1
  <2> DEFINE n == Len(items) + 1
  <2>1. n \in DOMAIN sent /\ n < k
    BY <1>1
  <2>2. EndOf(sent[n]) <= sent[k].at
    BY <2>1, <1>1
  <2>3. sent[n].at >= consumed
    <3>1. CASE items = <<>>  BY <3>1, <2>1, <1>1, <1>2
    <3>2. CASE items # <<>>
      <4>1. Len(items) \in DOMAIN sent /\ Len(items) < n
        BY <3>2, <1>1
      <4> QED BY <4>1, <3>2, <2>1, <1>1
    <3> QED BY <3>1, <3>2
  <2> HIDE DEF n
  <2> QED BY <1>1, <1>2, <2>1, <2>2, <2>3
<1> QED BY <1>1, <1>3, <1>4

LEMMA InitHolds == Init => IInv /\ NothingHeldBack
<1> SUFFICES ASSUME Init PROVE IInv /\ NothingHeldBack
  OBVIOUS
<1>1. TypeOK
  <2>1. \A S : <<>> \in Seq(S)
    OBVIOUS
  <2> QED BY <2>1 DEF Init, TypeOK
<1>2. DOMAIN sent = {} /\ DOMAIN items = {} /\ sent = <<>> /\ items = <<>>
      /\ Len(sent) = 0 /\ Len(items) = 0
      /\ consumed = 0 /\ arrived = 0 /\ written = 0
  BY DEF Init
<1>3. Contiguous /\ Delivery /\ NothingHeldBack
  BY <1>2 DEF Contiguous, Delivery, NothingHeldBack
<1>4. InStep /\ NoOverread
  BY <1>2 DEF InStep, NoOverread
<1> QED BY <1>1, <1>2, <1>3, <1>4 DEF IInv

\* Writing an item behind the others keeps the invariant.
LEMMA WriteStep ==
  ASSUME IInv, NEW i \in Items, i.at = written, Write(i)
  PROVE  IInv'
<1>1. /\ sent \in Seq(Items) /\ sent' = Append(sent, i)
      /\ written' = written + WireLength(i) /\ written \in Nat
      /\ ~closed /\ written = IF sent = <<>> THEN 0 ELSE EndOf(sent[Len(sent)])
      /\ UNCHANGED <<closed, arrived, consumed, items, pc>>
  BY DEF IInv, TypeOK, Contiguous, Write, Items
<1>2. /\ sent' \in Seq(Items) /\ Len(sent') = Len(sent) + 1
      /\ sent'[Len(sent) + 1] = i
      /\ \A k \in DOMAIN sent : k \in DOMAIN sent' /\ sent'[k] = sent[k]
      /\ \A k \in DOMAIN sent' : k \in DOMAIN sent \/ k = Len(sent) + 1
  BY <1>1
<1>3. /\ \A k \in DOMAIN sent' : sent'[k].at \in Nat /\ EndOf(sent'[k]) \in Nat
                                 /\ sent'[k].at < EndOf(sent'[k])
      /\ EndOf(i) = written + WireLength(i) /\ WireLength(i) \in Nat
  <2>1. i.at = written /\ EndOf(i) = written + WireLength(i) /\ WireLength(i) \in Nat
    BY Ends, Lengths
  <2> SUFFICES ASSUME NEW k \in DOMAIN sent'
               PROVE  sent'[k].at \in Nat /\ EndOf(sent'[k]) \in Nat
                      /\ sent'[k].at < EndOf(sent'[k])
    BY <2>1
  <2>2. sent'[k] \in Items
    BY <1>2
  <2> QED BY <2>2, Lengths, Ends
<1>4. TypeOK'
  BY <1>1, <1>2, <1>3 DEF IInv, TypeOK, Items
<1>5. (\A k \in DOMAIN sent : k > 1 => sent[k].at = EndOf(sent[k - 1]))'
  BY <1>1, <1>2 DEF IInv, Contiguous
<1>6. \A j \in DOMAIN sent : EndOf(sent[j]) <= written
  <2> SUFFICES ASSUME NEW j \in DOMAIN sent PROVE EndOf(sent[j]) <= written
    OBVIOUS
  <2>1. Len(sent) \in DOMAIN sent /\ written = EndOf(sent[Len(sent)])
    BY <1>1
  <2>2. CASE j = Len(sent)  BY <2>1, <2>2, <1>1
  <2>3. CASE j < Len(sent)
    <3>1. EndOf(sent[j]) <= sent[Len(sent)].at
      BY <2>1, <2>3 DEF IInv, Contiguous
    <3> QED BY <3>1, <2>1, <1>2, <1>3
  <2> QED BY <2>2, <2>3, <1>1
<1>7. (\A j, k \in DOMAIN sent : j < k => EndOf(sent[j]) <= sent[k].at)'
  <2> SUFFICES ASSUME NEW j \in DOMAIN sent', NEW k \in DOMAIN sent', j < k
               PROVE  EndOf(sent'[j]) <= sent'[k].at
    BY DEF EndOf
  <2>1. j \in DOMAIN sent /\ sent'[j] = sent[j]
    BY <1>1, <1>2
  <2>2. CASE k = Len(sent) + 1  BY <2>1, <2>2, <1>2, <1>6, <1>1
  <2>3. CASE k \in DOMAIN sent
    BY <2>1, <2>3, <1>2 DEF IInv, Contiguous
  <2> QED BY <2>2, <2>3, <1>2
<1>8. Contiguous'
  <2>1. (sent # <<>> => sent[1].at = 0)'
    BY <1>1, <1>2 DEF IInv, Contiguous
  <2>2. written' = EndOf(sent'[Len(sent')])
    BY <1>1, <1>2, <1>3
  <2>3. EndOf(sent[Len(sent)])' = EndOf(sent'[Len(sent')])
    BY DEF EndOf
  <2> QED BY <1>2, <1>5, <1>7, <2>1, <2>2, <2>3 DEF Contiguous
<1>9. Delivery'
  BY <1>1, <1>2 DEF IInv, Delivery, TypeOK
<1>10. InStep'
  BY <1>1, <1>2 DEF IInv, InStep, TypeOK, EndOf
<1>11. NoOverread' /\ (arrived <= written)'
  BY <1>1, <1>3 DEF IInv, NoOverread, TypeOK
<1> QED BY <1>4, <1>8, <1>9, <1>10, <1>11 DEF IInv

LEMMA WritesAreItems ==
  ASSUME IInv, NEW n \in Sizes
  PROVE  /\ WriteInit(n) => \E i \in Items : i.at = written /\ Write(i)
         /\ \A t \in SliceTypes :
              WriteFrame(n, t) => \E i \in Items : i.at = written /\ Write(i)
<1>1. written \in Nat
  BY DEF IInv, TypeOK
<1>2. [kind |-> "init", size |-> n, type |-> 0, at |-> written] \in Items
  BY <1>1 DEF Items, InitSegment
<1>3. \A t \in SliceTypes :
        [kind |-> "frame", size |-> n, type |-> t, at |-> written] \in Items
  BY <1>1 DEF Items, Frame
<1> QED BY <1>2, <1>3 DEF WriteInit, WriteFrame

\* Taking the item at the parser's position keeps it in step.
LEMMA StreamItemStep ==
  ASSUME IInv, NEW k \in DOMAIN sent, StreamItem(sent[k])
  PROVE  IInv'
<1> DEFINE i == sent[k]
<1>1. k = Len(items) + 1 /\ pc = "streaming"
  BY HeadIsNext DEF StreamItem
<1>2. /\ sent \in Seq(Items) /\ i \in Items /\ items \in Seq(Items)
      /\ items' = Append(items, i) /\ consumed' = consumed + ParsedLength(i)
      /\ i.at = consumed /\ Complete(i) /\ ~Invalid(i)
      /\ arrived \in Nat /\ consumed \in Nat
      /\ UNCHANGED <<sent, written, closed, arrived, pc>>
  BY DEF IInv, TypeOK, StreamItem, AtHead, Items
<1>3. i \in InitSegment \cup {f \in Frame : f.type \in 0..2}
  BY <1>2, FramingAssumption DEF Items, Invalid, Frame, InitSegment
<1>4. ParsedLength(i) = WireLength(i) /\ WireLength(i) \in Nat
  BY <1>2, Lengths
<1>5. arrived - consumed >= WireLength(i)
  BY <1>2, CompleteMeans
<1>6. Len(items') = k /\ items'[k] = i /\ items' # <<>>
      /\ \A j \in DOMAIN items : items'[j] = items[j]
      /\ DOMAIN items' = DOMAIN items \cup {k} /\ k <= Len(sent)
  BY <1>1, <1>2
<1>7. TypeOK'
  <2>1. (items \in Seq(InitSegment \cup {f \in Frame : f.type \in 0..2}))'
    BY <1>2, <1>3 DEF IInv, TypeOK, InitSegment, Frame
  <2> QED BY <1>2, <1>4, <2>1 DEF IInv, TypeOK, InitSegment, Frame
<1>8. Contiguous'
  BY <1>2 DEF IInv, Contiguous, EndOf
<1>9. Delivery'
  BY <1>2, <1>6 DEF IInv, Delivery
<1>10. InStep'
  <2>1. consumed' = EndOf(sent'[Len(items')])
    BY <1>2, <1>4, <1>6 DEF EndOf
  <2> QED BY <2>1, <1>6, <1>2 DEF InStep, EndOf
<1>11. NoOverread' /\ (arrived <= written)'
  BY <1>2, <1>4, <1>5 DEF IInv, NoOverread
<1> QED BY <1>7, <1>8, <1>9, <1>10, <1>11 DEF IInv

LEMMA StepHolds == IInv /\ [Next]_vars => IInv'
<1> SUFFICES ASSUME IInv, [Next]_vars PROVE IInv'
  OBVIOUS
<1>1. CASE UNCHANGED vars
  BY <1>1 DEF vars, IInv, TypeOK, Contiguous, Delivery, InStep, NoOverread, EndOf,
              InitSegment, Frame
<1>2. ASSUME NEW n \in Sizes, WriteInit(n) PROVE IInv'
  BY <1>2, WritesAreItems, WriteStep
<1>3. ASSUME NEW n \in Sizes, NEW t \in SliceTypes, WriteFrame(n, t) PROVE IInv'
  BY <1>3, WritesAreItems, WriteStep
<1>4. ASSUME NEW n \in arrived..written, Exit(n) PROVE IInv'
  BY <1>4 DEF Exit, IInv, TypeOK, Contiguous, Delivery, InStep, NoOverread, EndOf,
              InitSegment, Frame
<1>5. ASSUME NEW n \in (arrived + 1)..written, Read(n) PROVE IInv'
  BY <1>5 DEF Read, IInv, TypeOK, Contiguous, Delivery, InStep, NoOverread, EndOf,
              InitSegment, Frame
<1>6. ASSUME ReadEof PROVE IInv'
  BY <1>6 DEF ReadEof, IInv, TypeOK, Contiguous, Delivery, InStep, NoOverread, EndOf,
              InitSegment, Frame
<1>7. ASSUME NEW k \in DOMAIN sent, StreamItem(sent[k]) PROVE IInv'
  BY <1>7, StreamItemStep
<1>8. ASSUME NEW k \in DOMAIN sent, StreamInvalid(sent[k]) PROVE IInv'
  <2>1. sent[k] \in Items /\ arrived \in Nat /\ consumed \in Nat
    BY DEF IInv, TypeOK, Items
  <2>2. arrived - consumed > 2
    BY <1>8, <2>1, CompleteMeans, Lengths DEF StreamInvalid
  <2> QED
    BY <1>8, <2>1, <2>2 DEF StreamInvalid, IInv, TypeOK, Contiguous, Delivery,
              InStep, NoOverread, EndOf, InitSegment, Frame
<1>9. ASSUME NeedMore PROVE IInv'
  BY <1>9 DEF NeedMore, IInv, TypeOK, Contiguous, Delivery, InStep, NoOverread, EndOf,
              InitSegment, Frame
<1> QED BY <1>1, <1>2, <1>3, <1>4, <1>5, <1>6, <1>7, <1>8, <1>9
           DEF Next, Splitter, Server

\* While the server waits, the next item is incomplete: its loop has gone on
\* for as long as it could.
LEMMA WaitStep == IInv /\ IInv' /\ NothingHeldBack /\ [Next]_vars => NothingHeldBack'
<1> SUFFICES ASSUME IInv, IInv', NothingHeldBack, [Next]_vars PROVE NothingHeldBack'
  OBVIOUS
<1>1. CASE UNCHANGED vars
  BY <1>1 DEF vars, NothingHeldBack, EndOf
<1>2. ASSUME NEW i \in Items, i.at = written, Write(i) PROVE NothingHeldBack'
  <2>1. /\ sent \in Seq(Items) /\ sent' = Append(sent, i)
        /\ arrived \in Nat /\ written \in Nat /\ arrived <= written
        /\ UNCHANGED <<arrived, items, pc>>
    BY <1>2 DEF IInv, TypeOK, Write, Items
  <2>2. EndOf(i) > arrived
    BY <1>2, <2>1, Ends
  <2> QED BY <2>1, <2>2 DEF NothingHeldBack, EndOf
<1>3. ASSUME NEW n \in Sizes, WriteInit(n) PROVE NothingHeldBack'
  BY <1>3, <1>2, WritesAreItems
<1>4. ASSUME NEW n \in Sizes, NEW t \in SliceTypes, WriteFrame(n, t)
      PROVE NothingHeldBack'
  BY <1>4, <1>2, WritesAreItems
<1>5. ASSUME NEW n \in arrived..written, Exit(n) PROVE NothingHeldBack'
  BY <1>5 DEF Exit, NothingHeldBack, EndOf
<1>6. ASSUME NEW n \in (arrived + 1)..written, Read(n) PROVE NothingHeldBack'
  BY <1>6 DEF Read, NothingHeldBack
<1>7. ASSUME ReadEof PROVE NothingHeldBack'
  BY <1>7 DEF ReadEof, NothingHeldBack
<1>8. ASSUME NEW k \in DOMAIN sent, StreamItem(sent[k]) PROVE NothingHeldBack'
  BY <1>8 DEF StreamItem, NothingHeldBack
<1>9. ASSUME NEW k \in DOMAIN sent, StreamInvalid(sent[k]) PROVE NothingHeldBack'
  BY <1>9 DEF StreamInvalid, NothingHeldBack
<1>10. ASSUME NeedMore PROVE NothingHeldBack'
  <2>1. /\ sent \in Seq(Items) /\ items \in Seq(Items) /\ Len(items) <= Len(sent)
        /\ arrived \in Nat /\ consumed \in Nat
        /\ consumed = IF items = <<>> THEN 0 ELSE EndOf(sent[Len(items)])
        /\ UNCHANGED <<sent, arrived, items>>
        /\ \A k \in DOMAIN sent : sent[k].at = consumed => ~Complete(sent[k])
    BY <1>10 DEF NeedMore, IInv, TypeOK, InStep, AtHead, Items
  <2> SUFFICES ASSUME NEW k \in DOMAIN sent, k > Len(items)
               PROVE  EndOf(sent[k]) > arrived
    BY <2>1 DEF NothingHeldBack, EndOf
  <2>2. PICK n : n = Len(items) + 1
    OBVIOUS
  <2>3. n \in DOMAIN sent /\ n <= k
    BY <2>1, <2>2
  <2>4. sent[n].at = consumed
    BY <2>1, <2>2, <2>3 DEF IInv, Contiguous
  <2>5. PICK i \in Items, j \in Items : i = sent[n] /\ j = sent[k]
    BY <2>1, <2>3
  <2>6. arrived - consumed < WireLength(i)
    <3>1. ~Complete(i)
      BY <2>1, <2>3, <2>4, <2>5
    <3>2. WireLength(i) \in Nat /\ (Complete(i) <=> arrived - consumed >= WireLength(i))
      BY <2>1, CompleteMeans, Lengths
    <3> QED BY <2>1, <3>1, <3>2
  <2>7. EndOf(i) = consumed + WireLength(i) /\ WireLength(i) \in Nat
    <3>1. i.at = consumed
      BY <2>4, <2>5
    <3> QED BY <3>1, Ends, Lengths
  <2>8. n = k \/ EndOf(i) <= j.at
    <3>1. k \in DOMAIN sent /\ n \in Int /\ k \in Int /\ (n < k \/ n = k)
      BY <2>1, <2>3
    <3>2. n < k => EndOf(sent[n]) <= sent[k].at
      BY <2>3, <3>1 DEF IInv, Contiguous
    <3> QED BY <3>1, <3>2, <2>5
  <2>9. j.at \in Nat /\ EndOf(j) \in Nat /\ EndOf(j) > j.at + 2
    BY Ends, Lengths
  <2> QED BY <2>1, <2>5, <2>6, <2>7, <2>8, <2>9, SMTT(30)
<1> QED BY <1>1, <1>3, <1>4, <1>5, <1>6, <1>7, <1>8, <1>9, <1>10
           DEF Next, Splitter, Server

\* Every step of the pipe is a step of the stream of items, or invisible in it.
LEMMA StreamStep ==
  ASSUME IInv, IInv', [Next]_vars
  PROVE  [Stream!Next]_<<sent, items, pc = "failed">>
<1>1. CASE UNCHANGED vars
  BY <1>1 DEF vars
<1>2. ASSUME NEW i \in Items, Write(i) PROVE Stream!Put
  <2>1. /\ sent \in Seq(Items) /\ sent' = Append(sent, i)
        /\ UNCHANGED <<items, pc>>
    BY <1>2 DEF IInv, TypeOK, Write, Items
  <2> QED BY <2>1 DEF Stream!Put, Items
<1>3. ASSUME NEW n \in Sizes, WriteInit(n) PROVE Stream!Put
  BY <1>3, <1>2, WritesAreItems
<1>4. ASSUME NEW n \in Sizes, NEW t \in SliceTypes, WriteFrame(n, t)
      PROVE Stream!Put
  BY <1>4, <1>2, WritesAreItems
<1>5. ASSUME NEW k \in DOMAIN sent, StreamItem(sent[k]) PROVE Stream!Take
  <2>1. k = Len(items) + 1 /\ k <= Len(sent)
    BY <1>5, HeadIsNext DEF StreamItem, IInv, TypeOK
  <2> QED BY <1>5, <2>1 DEF StreamItem, Stream!Take, Stream!Waiting, Stream!NextItem,
                            IInv, TypeOK
<1>6. ASSUME NEW k \in DOMAIN sent, StreamInvalid(sent[k]) PROVE Stream!Refuse
  <2>1. k = Len(items) + 1 /\ k <= Len(sent)
    BY <1>6, HeadIsNext DEF StreamInvalid, IInv, TypeOK
  <2> QED BY <1>6, <2>1 DEF StreamInvalid, Stream!Refuse, Stream!Waiting,
                            Stream!NextItem, IInv, TypeOK
<1>7. ASSUME \/ \E n \in arrived..written : Exit(n)
             \/ \E n \in (arrived + 1)..written : Read(n)
             \/ ReadEof \/ NeedMore
      PROVE  UNCHANGED <<sent, items, pc = "failed">>
  BY <1>7 DEF Exit, Read, ReadEof, NeedMore
<1> QED BY <1>1, <1>3, <1>4, <1>5, <1>6, <1>7 DEF Next, Splitter, Server, Stream!Next

\* The inductive invariant holds: the parser is in step with the serialiser.
THEOREM Invariance == Spec => []IInv
<1>1. Init => IInv
  BY InitHolds
<1> QED BY <1>1, StepHolds, PTL DEF Spec

\* video.rs never takes a wrong number of bytes for an item ...
THEOREM ParserInStep == Spec => []InStep
  BY Invariance, PTL DEF IInv

\* ... nor more bytes than have arrived.
THEOREM ParserNeverOverreads == Spec => []NoOverread
  BY Invariance, PTL DEF IInv

\* Type correctness of the pipe.
THEOREM TypeCorrect == Spec => []TypeOK
  BY Invariance, PTL DEF IInv

\* stream() leaves its loop only when it needs more input.
THEOREM LoopRunsDry == Spec => []NothingHeldBack
<1>1. Init => NothingHeldBack
  BY InitHolds
<1> QED BY <1>1, WaitStep, Invariance, PTL DEF Spec

\* The pipe implements a stream of whole items.
THEOREM Refinement == Spec => InOrderOnce
<1>1. Init => Stream!Init
  BY DEF Init, Stream!Init
<1>2. IInv /\ IInv' /\ [Next]_vars => [Stream!Next]_<<sent, items, pc = "failed">>
  BY StreamStep
<1> QED BY <1>1, <1>2, Invariance, PTL DEF Spec, InOrderOnce, Stream!Spec
=============================================================================
