------------------------------ MODULE Framing ------------------------------
(***************************************************************************)
(* The ingest pipe: the splitter (server/mp4-parser/main.go) serialises    *)
(* items, an init segment and then frames, into a byte stream; the server  *)
(* (main.rs, video.rs) reads that stream in pieces of any size and cuts    *)
(* the items out again.  Bytes are counted, not spelled out: an item is    *)
(* its kind, payload size, slice type and the offset of its first byte.    *)
(*                                                                         *)
(* Three places have to agree on the length of an item and are translated  *)
(* separately: the serialiser (WireLength), the test for a complete item   *)
(* (Complete) and the parser (ParsedLength).                               *)
(***************************************************************************)
EXTENDS Integers, Sequences

CONSTANTS
  Sizes,         \* payload sizes
  SliceTypes,    \* slice types that the splitter finds in the video
  MaxItems       \* bound: items written

\* avc.SliceType is 0 (P), 1 (B), 2 (I), 3 (SP) or 4 (SI).
ASSUME FramingAssumption ==
  Sizes \subseteq Nat /\ SliceTypes \subseteq 0..4 /\ MaxItems \in Nat

VARIABLES
  sent,          \* items the splitter has serialised
  written,       \* bytes that are or will be in the pipe
  closed,        \* the splitter has exited
  arrived,       \* bytes read_buf has appended to buf, in all
  consumed,      \* bytes the parser has taken from buf, in all
  items,         \* items handed to the mapping
  pc             \* read_video is "reading", in stream()'s loop, or "failed"

vars == <<sent, written, closed, arrived, consumed, items, pc>>

InitSegment == [kind : {"init"}, size : Sizes, type : {0}, at : Nat]
Frame == [kind : {"frame"}, size : Sizes, type : SliceTypes, at : Nat]

\* serializeInit, serializeEncodedFrame: every field they write.
WireLength(i) ==
  IF i.kind = "init" THEN 1 + 4 + i.size
                     ELSE 1 + 1 + 1 + 8 + 8 + 8 + 4 + i.size

FRAME_HEADER == 1 + 1 + 8 + 8 + 8 + 4

\* next_item on the remaining bytes, the first of which is i's tag.  Mistakes:
\* a header that leaves out the length field, or counts the tag again.
HeaderWithoutLength(i) == IF i.kind = "init" THEN 4 ELSE FRAME_HEADER - 4
HeaderAndTag(i) == IF i.kind = "init" THEN 4 ELSE FRAME_HEADER + 1

HeaderOnly(i) == IF i.kind = "init" THEN 4 ELSE FRAME_HEADER
Complete(i) ==
  LET remaining == arrived - consumed IN
  /\ remaining >= 1
  /\ remaining - 1 >= HeaderOnly(i)
  /\ remaining - 1 - HeaderOnly(i) >= i.size

\* FrameType::try_from.
Invalid(i) == i.kind = "frame" /\ i.type \notin 0..2

\* parse_item, parse_frame: every field they read.  A mistake: no slice type.
ParsedLengthUntyped(i) ==
  IF i.kind = "init" THEN 1 + 4 + i.size
                     ELSE 1 + (1 + 8 + 8 + 8 + 4) + i.size

ParsedLength(i) ==
  IF i.kind = "init" THEN 1 + 4 + i.size
                     ELSE 1 + (1 + 1 + 8 + 8 + 8 + 4) + i.size

TypeOK ==
  /\ sent \in Seq(InitSegment \cup Frame)
  /\ written \in Nat /\ arrived \in Nat /\ consumed \in Nat
  /\ closed \in BOOLEAN
  /\ items \in Seq(InitSegment \cup {f \in Frame : f.type \in 0..2})
  /\ pc \in {"reading", "streaming", "failed"}

Init ==
  /\ sent = <<>> /\ items = <<>>
  /\ written = 0 /\ arrived = 0 /\ consumed = 0
  /\ closed = FALSE
  /\ pc = "reading"

-----------------------------------------------------------------------------
\* The splitter.

Write(i) ==
  /\ ~closed /\ Len(sent) < MaxItems
  /\ sent' = Append(sent, i)
  /\ written' = written + WireLength(i)
  /\ UNCHANGED <<closed, arrived, consumed, items, pc>>

WriteInit(n) ==
  /\ sent = <<>>
  /\ Write([kind |-> "init", size |-> n, type |-> 0, at |-> written])

WriteFrame(n, t) ==
  /\ sent # <<>>
  /\ Write([kind |-> "frame", size |-> n, type |-> t, at |-> written])

\* It exits or panics; what its writer has not flushed is lost, which may cut
\* an item, or several, anywhere.
Exit(n) ==
  /\ ~closed
  /\ closed' = TRUE
  /\ written' = n
  /\ UNCHANGED <<sent, arrived, consumed, items, pc>>

-----------------------------------------------------------------------------
\* read_video and the loop of stream().

\* read_buf returns with some of the bytes in the pipe ...
Read(n) ==
  /\ pc = "reading"
  /\ arrived' = n
  /\ pc' = "streaming"
  /\ UNCHANGED <<sent, written, closed, consumed, items>>

\* ... or, at the end of input, with none, again and again.
ReadEof ==
  /\ pc = "reading" /\ closed /\ arrived = written
  /\ pc' = "streaming"
  /\ UNCHANGED <<sent, written, closed, arrived, consumed, items>>

\* The item whose tag is the first unread byte.
AtHead(i) == i.at = consumed

\* A mistake: `if next_item` for `while next_item`.
StreamItemOnce(i) ==
  /\ pc = "streaming" /\ AtHead(i) /\ Complete(i) /\ ~Invalid(i)
  /\ items' = Append(items, i)
  /\ consumed' = consumed + ParsedLength(i)
  /\ pc' = "reading"
  /\ UNCHANGED <<sent, written, closed, arrived>>

StreamItem(i) ==
  /\ pc = "streaming" /\ AtHead(i) /\ Complete(i) /\ ~Invalid(i)
  /\ items' = Append(items, i)
  /\ consumed' = consumed + ParsedLength(i)
  /\ UNCHANGED <<sent, written, closed, arrived, pc>>

\* parse_frame fails after the tag, the keyframe flag and the type.  A mistake:
\* the frame is skipped instead.
StreamInvalidSkips(i) ==
  /\ pc = "streaming" /\ AtHead(i) /\ Complete(i) /\ Invalid(i)
  /\ consumed' = consumed + ParsedLength(i)
  /\ UNCHANGED <<sent, written, closed, arrived, items, pc>>

StreamInvalid(i) ==
  /\ pc = "streaming" /\ AtHead(i) /\ Complete(i) /\ Invalid(i)
  /\ pc' = "failed"
  /\ consumed' = consumed + 3
  /\ UNCHANGED <<sent, written, closed, arrived, items>>

NeedMore ==
  /\ pc = "streaming"
  /\ \A k \in DOMAIN sent : AtHead(sent[k]) => ~Complete(sent[k])
  /\ pc' = "reading"
  /\ UNCHANGED <<sent, written, closed, arrived, consumed, items>>

Splitter ==
  \/ \E n \in Sizes : WriteInit(n) \/ \E t \in SliceTypes : WriteFrame(n, t)
  \/ \E n \in arrived..written : Exit(n)

Server ==
  \/ \E n \in (arrived + 1)..written : Read(n)
  \/ ReadEof
  \/ \E k \in DOMAIN sent : StreamItem(sent[k]) \/ StreamInvalid(sent[k])
  \/ NeedMore

Next == Splitter \/ Server

Spec == Init /\ [][Next]_vars

\* read_buf completes while there is input; nothing else in read_video waits.
FairSpec == Spec /\ WF_vars(Server)

-----------------------------------------------------------------------------
\* Properties.

EndOf(i) == i.at + WireLength(i)

\* After k items the parser stands exactly behind the k-th one: serialiser,
\* completeness test and parser agree, however the stream was cut up.
InStep ==
  pc # "failed" =>
    /\ Len(items) <= Len(sent)
    /\ consumed = IF items = <<>> THEN 0 ELSE EndOf(sent[Len(items)])

\* get_u8, get_u64 and split_to panic when they are asked for more bytes than
\* buf holds: the test for a complete item must have prevented it.
NoOverread == consumed <= arrived

\* When the server waits for input, what it holds is less than one item: no
\* frame that has arrived waits for the next one to push it out.
NothingHeldBack ==
  pc = "reading" =>
    \A k \in DOMAIN sent : k > Len(items) => EndOf(sent[k]) > arrived

\* The items that reach the mapping are those that were written, in order and
\* each once, up to the first one with a slice type that the server refuses.
Stream == INSTANCE ItemStream WITH
  Item <- InitSegment \cup Frame, Refused <- Invalid,
  input <- sent, output <- items, ended <- pc = "failed"
InOrderOnce == Stream!Spec

\* Every item that stays completely in the pipe reaches the mapping, unless
\* the server has failed.
Delivered ==
  \A k \in 1..MaxItems :
    <>[](Len(sent) >= k /\ EndOf(sent[k]) <= written)
      => <>(Len(items) >= k \/ pc = "failed")

-----------------------------------------------------------------------------
\* The inductive invariant.

\* Items lie one behind the other in the stream ...
Contiguous ==
  /\ sent # <<>> => sent[1].at = 0
  /\ \A k \in DOMAIN sent : k > 1 => sent[k].at = EndOf(sent[k - 1])
  /\ \A j, k \in DOMAIN sent : j < k => EndOf(sent[j]) <= sent[k].at
  /\ ~closed => written = IF sent = <<>> THEN 0 ELSE EndOf(sent[Len(sent)])

\* ... and the delivered ones are the first of them.
Delivery == \A k \in DOMAIN items : k <= Len(sent) /\ items[k] = sent[k]

IInv ==
  /\ TypeOK /\ Contiguous /\ Delivery /\ InStep /\ NoOverread
  /\ arrived <= written

=============================================================================
