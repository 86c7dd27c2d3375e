---------------------------- MODULE DecodeOrder ----------------------------
(***************************************************************************)
(* What a video decoder may be fed.  Frames come in groups of pictures     *)
(* (GoPs); the first frame of a GoP is a keyframe, every other frame of it *)
(* is decoded from the frames before it in the same GoP.  A decoder can    *)
(* therefore be fed the frame that follows the last one in its GoP, or the *)
(* keyframe of a later GoP, and nothing else: a hole inside a GoP, a step  *)
(* back in time or a start in the middle of a GoP is garbage on screen.    *)
(*                                                                         *)
(* This is the promise of the StreamPerGop client (gop.rs, SkipOldGops.ts) *)
(* to its VideoDecoder; GopPipeline is shown to implement it.              *)
(***************************************************************************)
EXTENDS Integers, Sequences

CONSTANT Frame          \* records with at least the fields gop and idx

VARIABLE fed            \* the frames handed to the decoder, oldest first

NewGop(f) == f.idx = 1 /\ \A k \in DOMAIN fed : fed[k].gop < f.gop

NextInGop(f) ==
  /\ fed # <<>>
  /\ fed[Len(fed)].gop = f.gop
  /\ f.idx = fed[Len(fed)].idx + 1

Init == fed = <<>>

Feed(f) ==
  /\ NewGop(f) \/ NextInGop(f)
  /\ fed' = Append(fed, f)

Next == \E f \in Frame : Feed(f)

Spec == Init /\ [][Next]_fed

-----------------------------------------------------------------------------
(* What the promise is worth to the decoder.                               *)

\* Every frame is a keyframe or directly follows the one it is decoded from.
NoHole ==
  \A k \in DOMAIN fed :
    \/ fed[k].idx = 1
    \/ /\ k > 1 /\ fed[k - 1].gop = fed[k].gop
       /\ fed[k].idx = fed[k - 1].idx + 1

\* Time never goes back and no frame comes twice.
Forward ==
  \A j, k \in DOMAIN fed :
    j < k => \/ fed[j].gop < fed[k].gop
             \/ fed[j].gop = fed[k].gop /\ fed[j].idx < fed[k].idx
=============================================================================
