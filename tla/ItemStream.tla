----------------------------- MODULE ItemStream -----------------------------
(***************************************************************************)
(* What the pipe between the fMP4 splitter and the origin server promises: *)
(* the items go in one at a time and come out whole, in order, each once.  *)
(* An item that the server refuses ends the stream.  Framing, which cuts   *)
(* the items out of a byte stream, is shown to implement it.               *)
(***************************************************************************)
EXTENDS Integers, Sequences

CONSTANTS
  Item,          \* what may be put in
  Refused(_)     \* the items that the server does not accept

VARIABLES
  input,         \* items put in
  output,        \* items taken out
  ended          \* the server has refused an item

Waiting == ~ended /\ Len(output) < Len(input)

NextItem == input[Len(output) + 1]

Init == input = <<>> /\ output = <<>> /\ ended = FALSE

Put ==
  /\ input' \in Seq(Item) /\ Len(input') = Len(input) + 1
  /\ \A k \in 1..Len(input) : input'[k] = input[k]
  /\ UNCHANGED <<output, ended>>

Take ==
  /\ Waiting /\ ~Refused(NextItem)
  /\ output' = Append(output, NextItem)
  /\ UNCHANGED <<input, ended>>

Refuse ==
  /\ Waiting /\ Refused(NextItem)
  /\ ended' = TRUE
  /\ UNCHANGED <<input, output>>

Next == Put \/ Take \/ Refuse

Spec == Init /\ [][Next]_<<input, output, ended>>
=============================================================================
