---------------------------- MODULE BFrameMapper ----------------------------
(***************************************************************************)
(* The StreamPerBFrame mapping of the origin server                        *)
(* (server/src/mappings/bframe.rs): I- and P-frames go to the video track, *)
(* one QUIC stream per GoP, all at the same priority; every B-frame is an  *)
(* object and a stream of its own on the b-frames track, with a priority   *)
(* computed from two counters.                                             *)
(*                                                                         *)
(* A "B-group" is what lies between two frames that are not B-frames.  The *)
(* priority is (b_group << 6) | (63 - b_frame_index); since 63 fills the   *)
(* six low bits, the shift is a product and the "or" a sum.  A larger      *)
(* number is sent first ("higher value <=> higher priority", bframe.rs:95).*)
(*                                                                         *)
(* A frame is its decode timestamp, counted in frame durations.            *)
(***************************************************************************)
EXTENDS Integers

CONSTANTS
  MaxBGroup,    \* max_b_group, 0x1FFFFFF
  MaxBIndex,    \* max_b_frame_index, 0x3F
  MaxU32,       \* u32::MAX, the limit of checked_add
  MaxFrames     \* bound: frames the encoder produces

ASSUME MapperAssumption ==
  /\ MaxBGroup \in Nat /\ MaxBIndex \in Nat /\ MaxU32 \in Nat /\ MaxFrames \in Nat
  /\ MaxBGroup < MaxU32

VARIABLES
  serverUp,      \* read_video has not returned an error
  clock,         \* decode time of the last frame read from the encoder
  current,       \* group number that moq-rs gave to the current group
  count,         \* frames written to the current group
  group_id, b_group, b_frame_index, obj_id,   \* the counters of StreamPerBFrame
  video,         \* frames written to the video track
  bFrames        \* objects written to the b-frames track

counterVars == <<group_id, b_group, b_frame_index, obj_id>>
mapperVars  == <<serverUp, clock, current, count, counterVars, video, bFrames>>

Timestamp == 1..MaxFrames

\* i32::MAX, the priority of every group of the video track: with the limits of
\* the code, 2^25 * 2^6 - 1.
VideoPriority == (MaxBGroup + 1) * (MaxBIndex + 1) - 1

TypeOK ==
  /\ serverUp \in BOOLEAN
  /\ clock \in 0..MaxFrames /\ current \in Nat /\ count \in Nat
  /\ group_id \in Nat /\ b_group \in 0..MaxU32
  /\ b_frame_index \in 0..(MaxBIndex + 1) /\ obj_id \in Nat
  /\ video \subseteq [dts : Timestamp, group : Nat, idx : Nat]
  /\ bFrames \subseteq [dts : Timestamp, group : Nat, object : Nat, priority : Nat]

\* StreamPerBFrame::new has already appended group 0, which stays empty when the
\* first frame is a keyframe.
Init ==
  /\ serverUp = TRUE /\ clock = 0 /\ current = 0 /\ count = 0
  /\ group_id = 0 /\ b_group = 0 /\ b_frame_index = 0 /\ obj_id = 0
  /\ video = {} /\ bFrames = {}

-----------------------------------------------------------------------------
(* One iteration of the loop in StreamPerBFrame::stream.                   *)

\* Mutant: group_id is not counted with the groups of the video track.
OpenGroupForgets ==
  /\ current' = current + 1
  /\ group_id' = group_id

\* A keyframe opens a new group (moq-rs numbers the groups of a track from 0).
OpenGroup ==
  /\ current' = current + 1
  /\ group_id' = group_id + 1

\* An I- or P-frame goes to the current group and starts a new B-group.
WriteReference(g, i) ==
  /\ serverUp /\ clock < MaxFrames
  /\ b_group < MaxU32
  /\ clock' = clock + 1
  /\ count' = i
  /\ b_group' = b_group + 1
  /\ b_frame_index' = 0
  /\ video' = video \cup {[dts |-> clock + 1, group |-> g, idx |-> i]}
  /\ UNCHANGED <<serverUp, obj_id, bFrames>>

StreamKeyframe == OpenGroup /\ WriteReference(current + 1, 1)

StreamP == WriteReference(current, count + 1) /\ UNCHANGED <<current, group_id>>

\* "P-group counter overflow": read_video returns, and main with it.
GroupCounterOverflows(key) ==
  /\ serverUp /\ clock < MaxFrames
  /\ b_group = MaxU32
  /\ serverUp' = FALSE
  /\ IF key THEN OpenGroup /\ count' = 0 ELSE UNCHANGED <<current, group_id, count>>
  /\ UNCHANGED <<clock, b_group, b_frame_index, obj_id, video, bFrames>>

\* Mutant: newer B-groups get the smaller numbers (bframe.rs:94).
PriorityInverted(g, i) == (MaxBGroup - g) * (MaxBIndex + 1) + i

Priority(g, i) == g * (MaxBIndex + 1) + (MaxBIndex - i)

\* Mutant: b_group may reach its limit.
WithinLimitsLoose == b_group <= MaxBGroup /\ b_frame_index <= MaxBIndex

WithinLimits == b_group < MaxBGroup /\ b_frame_index <= MaxBIndex

StreamB ==
  /\ serverUp /\ clock < MaxFrames
  /\ WithinLimits
  /\ clock' = clock + 1
  /\ bFrames' = bFrames \cup
       {[dts |-> clock + 1, group |-> group_id, object |-> obj_id,
         priority |-> Priority(b_group, b_frame_index)]}
  /\ obj_id' = obj_id + 1
  /\ b_frame_index' = b_frame_index + 1
  /\ UNCHANGED <<serverUp, current, count, group_id, b_group, video>>

\* "Max value ... exceeded": read_video returns, and main with it.
StreamBFails ==
  /\ serverUp /\ clock < MaxFrames
  /\ ~ WithinLimits
  /\ serverUp' = FALSE
  /\ UNCHANGED <<clock, current, count, counterVars, video, bFrames>>

Next ==
  \/ StreamKeyframe
  \/ StreamP
  \/ \E key \in BOOLEAN : GroupCounterOverflows(key)
  \/ StreamB
  \/ StreamBFails

Spec == Init /\ [][Next]_mapperVars

-----------------------------------------------------------------------------
(* Properties                                                              *)

SameBGroup(b, c) == \A v \in video : ~ (b.dts < v.dts /\ v.dts < c.dts)

\* "prioritize newer B-groups over older ones, and prioritize older B-frames over
\* newer ones within the same B-group" (bframe.rs:84-85): of two B-frames the later
\* one has the larger priority exactly when an I- or P-frame lies between them.
PriorityOrder ==
  \A b, c \in bFrames :
    b.dts < c.dts =>
      IF SameBGroup(b, c) THEN b.priority > c.priority ELSE b.priority < c.priority

\* No B-frame is ever sent before an I- or P-frame for its priority: the two packed
\* counters stay below i32::MAX, whatever the length of the stream.
BelowVideo == \A b \in bFrames : b.priority < VideoPriority

\* A B-frame carries the number of the group that holds the frames before it, so
\* that subscriptions to both tracks from one group on get B-frames with the frames
\* they need: the mapping's own count of groups agrees with that of the track.
GroupAgreement ==
  \A b \in bFrames :
    /\ \A v \in video : v.dts < b.dts => v.group <= b.group
    /\ \A v \in video : v.dts > b.dts => v.group >= b.group
    /\ b.group > 0 =>
         \E v \in video : v.group = b.group /\ v.idx = 1 /\ v.dts < b.dts

-----------------------------------------------------------------------------
(* The inductive invariant behind these properties.                        *)

\* Frames are numbered in decode order, and the track's groups by group_id.
Counting ==
  /\ group_id = current
  /\ b_frame_index > 0 => \E b \in bFrames : b.dts = clock
  /\ \A v \in video : v.dts <= clock /\ v.group <= current
  /\ \A b \in bFrames : b.dts <= clock /\ b.group <= current
  /\ current > 0 /\ serverUp => \E v \in video : v.group = current /\ v.idx = 1

\* Every B-frame's priority is that of a B-group and an index already used.
PrioritiesUsed ==
  \A b \in bFrames :
    \E g \in 0..b_group, i \in 0..MaxBIndex :
      /\ b.priority = Priority(g, i) /\ g < MaxBGroup
      /\ IF \E v \in video : v.dts > b.dts THEN g < b_group
                                           ELSE g = b_group /\ i < b_frame_index

IInv ==
  TypeOK /\ Counting /\ PrioritiesUsed /\ PriorityOrder /\ BelowVideo /\ GroupAgreement
=============================================================================
