------------------------ MODULE BFramePipelineProofs ------------------------
(***************************************************************************)
(* Proofs about BFrameMapper, for all values of its limits, and about      *)
(* BFramePipeline with a network that reorders at will: what priorities    *)
(* and groups the mapping writes, that the reorder buffer stays sorted and *)
(* holds no I- or P-frame for longer than its target, and that a B-frame   *)
(* follows its references while these arrive in order.                     *)
(***************************************************************************)
EXTENDS BFramePipeline, SequenceTheorems, WellFoundedInduction, TLAPS

(* The mapping.                                                            *)

K == MaxBIndex + 1

\* Products with the same positive factor keep the order.
LEMMA ScaledOrder ==
  ASSUME NEW g \in Nat, NEW h \in Nat, NEW k \in Nat, g < h
  PROVE  g * k + k <= h * k
<1>1. PICK d \in Nat : h = g + 1 + d
  <2>1. h - g - 1 \in Nat /\ h = g + 1 + (h - g - 1) OBVIOUS
  <2> QED BY <2>1
<1>2. h * k = g * k + k + d * k BY <1>1
<1>3. d * k >= 0 /\ d * k \in Int OBVIOUS
<1>4. g * k \in Int OBVIOUS
<1> QED BY <1>2, <1>3, <1>4

\* The packed number orders B-groups first, and indices within a B-group backwards.
LEMMA PriorityFacts ==
  ASSUME NEW g \in Nat, NEW i \in 0..MaxBIndex
  PROVE  /\ Priority(g, i) \in Nat
         /\ \A j \in 0..MaxBIndex : j < i => Priority(g, i) < Priority(g, j)
         /\ \A h \in Nat, j \in 0..MaxBIndex : g < h => Priority(g, i) < Priority(h, j)
         /\ g < MaxBGroup => Priority(g, i) < VideoPriority
<1>0. MaxBIndex \in Nat /\ MaxBGroup \in Nat /\ K \in Nat BY MapperAssumption DEF K
<1>1. Priority(g, i) = g * K + (MaxBIndex - i) BY DEF Priority, K
<1>2. g * K \in Nat
  <2>1. g * K \in Int /\ g * K >= 0 BY <1>0
  <2> QED BY <2>1
<1>3. Priority(g, i) \in Nat BY <1>0, <1>1, <1>2
<1>4. ASSUME NEW j \in 0..MaxBIndex, j < i PROVE Priority(g, i) < Priority(g, j)
  <2>1. Priority(g, j) = g * K + (MaxBIndex - j) BY DEF Priority, K
  <2> QED BY <1>0, <1>1, <1>2, <1>4, <2>1
<1>5. ASSUME NEW h \in Nat, NEW j \in 0..MaxBIndex, g < h
      PROVE  Priority(g, i) < Priority(h, j)
  <2>1. Priority(h, j) = h * K + (MaxBIndex - j) BY DEF Priority, K
  <2>2. g * K + K <= h * K BY <1>0, <1>5, ScaledOrder
  <2>3. h * K \in Int BY <1>0
  <2>4. MaxBIndex - i < K /\ MaxBIndex - j >= 0 /\ MaxBIndex - i \in Int /\ MaxBIndex - j \in Int
    BY <1>0 DEF K
  <2> QED BY <1>0, <1>1, <1>2, <2>1, <2>2, <2>3, <2>4
<1>6. ASSUME g < MaxBGroup PROVE Priority(g, i) < VideoPriority
  <2>1. VideoPriority = (MaxBGroup + 1) * K - 1 BY DEF VideoPriority, K
  <2>2. g * K + K <= MaxBGroup * K BY <1>0, <1>6, ScaledOrder
  <2>3. MaxBGroup * K + K <= (MaxBGroup + 1) * K BY <1>0, ScaledOrder
  <2>4. MaxBGroup * K \in Int /\ (MaxBGroup + 1) * K \in Int BY <1>0
  <2>5. MaxBIndex - i < K /\ MaxBIndex - i \in Int /\ K >= 1 BY <1>0 DEF K
  <2> QED BY <1>0, <1>1, <1>2, <2>1, <2>2, <2>3, <2>4, <2>5
<1> QED BY <1>3, <1>4, <1>5, <1>6

\* The mapping starts in its invariant.
LEMMA InitInv == Init => IInv
<1> SUFFICES ASSUME Init PROVE IInv
  OBVIOUS
<1>1. serverUp \in BOOLEAN /\ clock = 0 /\ current = 0 /\ video = {} /\ bFrames = {}
  BY DEF Init
<1>2. TypeOK BY <1>1, MapperAssumption DEF Init, TypeOK, Timestamp
<1>3. Counting BY <1>1 DEF Init, Counting
<1>4. PrioritiesUsed /\ PriorityOrder /\ BelowVideo /\ GroupAgreement
  BY <1>1 DEF PrioritiesUsed, PriorityOrder, BelowVideo, GroupAgreement
<1> QED BY <1>2, <1>3, <1>4 DEF IInv

-----------------------------------------------------------------------------
\* An I- or P-frame, in the current group or opening the next one.
LEMMA ReferenceInv ==
  ASSUME IInv, NEW g \in Nat, NEW i \in Nat, WriteReference(g, i),
         current' = g, group_id' = g, g >= current,
         IF g = current THEN TRUE ELSE i = 1
  PROVE  IInv'
<1> USE DEF IInv
<1> DEFINE v0 == [dts |-> clock + 1, group |-> g, idx |-> i]
<1>1. /\ video' = video \cup {v0} /\ bFrames' = bFrames /\ clock' = clock + 1
      /\ count' = i /\ b_group' = b_group + 1 /\ b_frame_index' = 0
      /\ clock < MaxFrames /\ b_group < MaxU32 /\ UNCHANGED <<serverUp, obj_id>> /\ serverUp
  BY DEF WriteReference
<1>2. /\ clock \in Nat /\ current \in Nat /\ b_group \in Nat
      /\ video \subseteq [dts : Timestamp, group : Nat, idx : Nat]
      /\ bFrames \subseteq [dts : Timestamp, group : Nat, object : Nat, priority : Nat]
  BY DEF TypeOK, Timestamp
<1>3. /\ \A v \in video : v.dts \in Nat /\ v.group \in Nat
      /\ \A b \in bFrames : b.dts \in Nat /\ b.group \in Nat /\ b.priority \in Nat
  BY <1>2 DEF Timestamp
<1>4. v0.dts = clock + 1 /\ v0.group = g /\ v0.idx = i OBVIOUS
<1>5. /\ \A v \in video : v.dts <= clock /\ v.group <= current
      /\ \A b \in bFrames : b.dts <= clock /\ b.group <= current
      /\ current > 0 => \E v \in video : v.group = current /\ v.idx = 1
  BY <1>1 DEF Counting
<1>6. TypeOK'
  <2>1. v0 \in [dts : Timestamp, group : Nat, idx : Nat] BY <1>1, <1>2, MapperAssumption DEF Timestamp
  <2>2. video' \subseteq [dts : Timestamp, group : Nat, idx : Nat] BY <1>1, <1>2, <2>1
  <2>3. clock' \in 0..MaxFrames /\ b_group' \in 0..MaxU32 /\ b_frame_index' \in 0..(MaxBIndex + 1)
    BY <1>1, <1>2, MapperAssumption DEF Timestamp
  <2>4. serverUp' \in BOOLEAN BY <1>1
  <2> QED BY <1>1, <2>2, <2>3, <2>4 DEF TypeOK
<1> HIDE DEF v0
<1>7. Counting'
  <2>1. \A v \in video' : v.dts <= clock' /\ v.group <= current'
    BY <1>1, <1>2, <1>3, <1>4, <1>5
  <2>2. \A b \in bFrames' : b.dts <= clock' /\ b.group <= current'
    BY <1>1, <1>2, <1>3, <1>5
  <2>3. current' > 0 => \E v \in video' : v.group = current' /\ v.idx = 1
    BY <1>1, <1>4, <1>5
  <2> QED BY <1>1, <2>1, <2>2, <2>3 DEF Counting
<1>8. PrioritiesUsed'
  <2> SUFFICES ASSUME NEW b \in bFrames
      PROVE \E h \in 0..b_group', j \in 0..MaxBIndex :
              /\ b.priority = Priority(h, j) /\ h < MaxBGroup
              /\ IF \E v \in video' : v.dts > b.dts THEN h < b_group'
                                                 ELSE h = b_group' /\ j < b_frame_index'
    BY <1>1 DEF PrioritiesUsed, Priority
  <2>1. PICK h \in 0..b_group, j \in 0..MaxBIndex : b.priority = Priority(h, j) /\ h < MaxBGroup
    BY DEF PrioritiesUsed
  <2>2. v0 \in video' /\ v0.dts > b.dts BY <1>1, <1>2, <1>3, <1>4, <1>5
  <2>3. h \in 0..b_group' /\ h < b_group' BY <1>1, <1>2
  <2> QED BY <2>1, <2>2, <2>3
<1>9. PriorityOrder'
  <2>1. \A b, c \in bFrames : SameBGroup(b, c)' <=> SameBGroup(b, c)
    BY <1>1, <1>2, <1>3, <1>4, <1>5 DEF SameBGroup
  <2> QED BY <1>1, <2>1 DEF PriorityOrder
<1>10. BelowVideo' BY <1>1 DEF BelowVideo, VideoPriority
<1>11. GroupAgreement'
  <2> SUFFICES ASSUME NEW b \in bFrames
      PROVE /\ \A v \in video' : v.dts < b.dts => v.group <= b.group
            /\ \A v \in video' : v.dts > b.dts => v.group >= b.group
            /\ b.group > 0 =>
                 \E v \in video' : v.group = b.group /\ v.idx = 1 /\ v.dts < b.dts
    BY <1>1 DEF GroupAgreement
  <2>1. b.dts < v0.dts /\ b.group <= v0.group BY <1>2, <1>3, <1>4, <1>5
  <2> QED BY <1>1, <1>3, <1>4, <2>1, <1>2 DEF GroupAgreement
<1> QED BY <1>6, <1>7, <1>8, <1>9, <1>10, <1>11

\* The server stops: nothing is written, a group may have been opened.
LEMMA StopInv ==
  ASSUME IInv, serverUp' = FALSE, current' = group_id', current' \in {current, current + 1},
         count' \in {count, 0},
         UNCHANGED <<clock, b_group, b_frame_index, obj_id, video, bFrames>>
  PROVE  IInv'
<1> USE DEF IInv
<1>1. current \in Nat /\ count \in Nat BY DEF TypeOK
<1>2. current' \in Nat /\ current <= current' /\ count' \in Nat BY <1>1
<1>3. serverUp' \in BOOLEAN /\ ~ serverUp' OBVIOUS
<1>4. TypeOK' BY <1>2, <1>3 DEF TypeOK, Timestamp
<1>5. Counting'
  <2>1. /\ \A v \in video : v.group \in Nat
        /\ \A b \in bFrames : b.group \in Nat
    BY DEF TypeOK
  <2> QED BY <1>1, <1>2, <1>3, <2>1 DEF Counting
<1>6. PrioritiesUsed' BY DEF PrioritiesUsed, Priority
<1>7. PriorityOrder' /\ BelowVideo' /\ GroupAgreement'
  BY DEF PriorityOrder, SameBGroup, BelowVideo, VideoPriority, GroupAgreement
<1> QED BY <1>4, <1>5, <1>6, <1>7

\* A B-frame gets the next number of its B-group, above those of all earlier groups.
LEMMA StreamBInv == ASSUME IInv, StreamB PROVE IInv'
<1> USE DEF IInv
<1> DEFINE b0 == [dts |-> clock + 1, group |-> group_id, object |-> obj_id,
                  priority |-> Priority(b_group, b_frame_index)]
<1>1. /\ bFrames' = bFrames \cup {b0} /\ video' = video /\ clock' = clock + 1
      /\ obj_id' = obj_id + 1 /\ b_frame_index' = b_frame_index + 1
      /\ serverUp /\ clock < MaxFrames
      /\ b_group < MaxBGroup /\ b_frame_index <= MaxBIndex
      /\ UNCHANGED <<serverUp, current, count, group_id, b_group>>
  BY DEF StreamB, WithinLimits
<1>2. /\ clock \in Nat /\ current \in Nat /\ b_group \in Nat /\ group_id = current
      /\ b_frame_index \in 0..MaxBIndex /\ obj_id \in Nat
      /\ video \subseteq [dts : Timestamp, group : Nat, idx : Nat]
      /\ bFrames \subseteq [dts : Timestamp, group : Nat, object : Nat, priority : Nat]
  BY <1>1, MapperAssumption DEF TypeOK, Timestamp, Counting
<1>3. /\ \A v \in video : v.dts \in Nat /\ v.group \in Nat
      /\ \A b \in bFrames : b.dts \in Nat /\ b.group \in Nat /\ b.priority \in Nat
  BY <1>2 DEF Timestamp
<1>4. /\ b0.dts = clock + 1 /\ b0.group = current
      /\ b0.priority = Priority(b_group, b_frame_index)
  BY <1>2
<1>5. /\ \A v \in video : v.dts <= clock /\ v.group <= current
      /\ \A b \in bFrames : b.dts <= clock /\ b.group <= current
      /\ current > 0 => \E v \in video : v.group = current /\ v.idx = 1
  BY <1>1 DEF Counting
<1>6. /\ Priority(b_group, b_frame_index) \in Nat
      /\ Priority(b_group, b_frame_index) < VideoPriority
  BY <1>1, <1>2, PriorityFacts
<1>7. TypeOK'
  <2>1. b0 \in [dts : Timestamp, group : Nat, object : Nat, priority : Nat]
    BY <1>1, <1>2, <1>6, MapperAssumption DEF Timestamp
  <2>2. bFrames' \subseteq [dts : Timestamp, group : Nat, object : Nat, priority : Nat]
    BY <1>1, <1>2, <2>1
  <2>3. clock' \in 0..MaxFrames /\ b_frame_index' \in 0..(MaxBIndex + 1) /\ obj_id' \in Nat
    BY <1>1, <1>2, MapperAssumption DEF Timestamp
  <2>4. serverUp' \in BOOLEAN BY <1>1
  <2> QED BY <1>1, <2>2, <2>3, <2>4 DEF TypeOK
<1> HIDE DEF b0
<1>8. Counting'
  <2>1. \A b \in bFrames' : b.dts <= clock' /\ b.group <= current'
    BY <1>1, <1>2, <1>3, <1>4, <1>5
  <2>2. \A v \in video' : v.dts <= clock' /\ v.group <= current'
    BY <1>1, <1>2, <1>3, <1>5
  <2>3. b0 \in bFrames' /\ b0.dts = clock' BY <1>1, <1>4
  <2> QED BY <1>1, <1>2, <1>5, <2>1, <2>2, <2>3 DEF Counting
<1>9. ASSUME NEW b \in bFrames
      PROVE  \E h \in 0..b_group, j \in 0..MaxBIndex :
               /\ b.priority = Priority(h, j) /\ h < MaxBGroup
               /\ IF \E v \in video : v.dts > b.dts THEN h < b_group
                                                 ELSE h = b_group /\ j < b_frame_index
  BY DEF PrioritiesUsed
<1>10. PrioritiesUsed'
  <2> SUFFICES ASSUME NEW b \in bFrames'
      PROVE \E h \in 0..b_group, j \in 0..MaxBIndex :
              /\ b.priority = Priority(h, j) /\ h < MaxBGroup
              /\ IF \E v \in video : v.dts > b.dts THEN h < b_group
                                                ELSE h = b_group /\ j < b_frame_index'
    BY <1>1 DEF PrioritiesUsed, Priority
  <2>1. CASE b \in bFrames
    <3>1. PICK h \in 0..b_group, j \in 0..MaxBIndex :
            /\ b.priority = Priority(h, j) /\ h < MaxBGroup
            /\ IF \E v \in video : v.dts > b.dts THEN h < b_group
                                              ELSE h = b_group /\ j < b_frame_index
      BY <2>1, <1>9
    <3>2. j < b_frame_index => j < b_frame_index' BY <1>1, <1>2
    <3> QED BY <3>1, <3>2
  <2>2. CASE b = b0
    <3>1. ~ \E v \in video : v.dts > b.dts BY <1>2, <1>3, <1>4, <1>5, <2>2
    <3>2. b_group \in 0..b_group /\ b_frame_index < b_frame_index' BY <1>1, <1>2
    <3> QED BY <1>1, <1>2, <1>4, <2>2, <3>1, <3>2
  <2> QED BY <1>1, <2>1, <2>2
<1>11. \A b \in bFrames : IF SameBGroup(b, b0) THEN b.priority > b0.priority
                                            ELSE b.priority < b0.priority
  <2> SUFFICES ASSUME NEW b \in bFrames
      PROVE IF SameBGroup(b, b0) THEN b.priority > b0.priority
                                 ELSE b.priority < b0.priority
    OBVIOUS
  <2>1. PICK h \in 0..b_group, j \in 0..MaxBIndex :
          /\ b.priority = Priority(h, j) /\ h < MaxBGroup
          /\ IF \E v \in video : v.dts > b.dts THEN h < b_group
                                            ELSE h = b_group /\ j < b_frame_index
    BY <1>9
  <2>2. SameBGroup(b, b0) <=> ~ \E v \in video : v.dts > b.dts
    BY <1>2, <1>3, <1>4, <1>5 DEF SameBGroup
  <2>3. CASE SameBGroup(b, b0)
    <3>1. h = b_group /\ j < b_frame_index BY <2>1, <2>2, <2>3
    <3>2. Priority(b_group, b_frame_index) < Priority(b_group, j)
      BY <1>2, <3>1, PriorityFacts
    <3>3. b.priority = Priority(b_group, j) /\ b.priority \in Nat BY <1>3, <2>1, <3>1
    <3> QED BY <1>4, <1>6, <2>3, <3>2, <3>3
  <2>4. CASE ~ SameBGroup(b, b0)
    <3>1. h < b_group BY <2>1, <2>2, <2>4
    <3>2. Priority(h, j) < Priority(b_group, b_frame_index)
      <4>1. h \in Nat BY <1>2
      <4> QED BY <1>2, <3>1, <4>1, PriorityFacts
    <3> QED BY <1>4, <2>1, <2>4, <3>2
  <2> QED BY <2>3, <2>4
<1>12. PriorityOrder'
  <2> SUFFICES ASSUME NEW b \in bFrames', NEW c \in bFrames', b.dts < c.dts
      PROVE IF SameBGroup(b, c) THEN b.priority > c.priority ELSE b.priority < c.priority
    BY <1>1 DEF PriorityOrder, SameBGroup
  <2>1. b # b0 BY <1>1, <1>2, <1>3, <1>4, <1>5
  <2>2. b \in bFrames BY <1>1, <2>1
  <2> QED BY <1>1, <1>11, <2>2 DEF PriorityOrder
<1>13. BelowVideo' BY <1>1, <1>4, <1>6 DEF BelowVideo, VideoPriority
<1>14. GroupAgreement'
  <2>1. /\ \A v \in video : v.dts < b0.dts => v.group <= b0.group
        /\ \A v \in video : ~ (v.dts > b0.dts)
        /\ b0.group > 0 =>
             \E v \in video : v.group = b0.group /\ v.idx = 1 /\ v.dts < b0.dts
    BY <1>2, <1>3, <1>4, <1>5
  <2> QED BY <1>1, <2>1 DEF GroupAgreement
<1> QED BY <1>7, <1>8, <1>10, <1>12, <1>13, <1>14

-----------------------------------------------------------------------------
\* Every iteration of the loop keeps the invariant.
LEMMA NextInv == ASSUME IInv, [Next]_mapperVars PROVE IInv'
<1> USE DEF IInv
<1>1. current \in Nat /\ count \in Nat /\ group_id = current BY DEF TypeOK, Counting
<1>2. CASE StreamKeyframe
  <2>1. current' = current + 1 /\ group_id' = current + 1 /\ WriteReference(current + 1, 1)
    BY <1>1, <1>2 DEF StreamKeyframe, OpenGroup
  <2>2. current + 1 \in Nat /\ current + 1 >= current BY <1>1
  <2> QED BY <2>1, <2>2, ReferenceInv
<1>3. CASE StreamP
  <2>1. current' = current /\ group_id' = current /\ WriteReference(current, count + 1)
    BY <1>1, <1>3 DEF StreamP
  <2>2. count + 1 \in Nat /\ current >= current BY <1>1
  <2> QED BY <1>1, <2>1, <2>2, ReferenceInv
<1>4. ASSUME NEW key \in BOOLEAN, GroupCounterOverflows(key) PROVE IInv'
  <2>1. /\ serverUp' = FALSE
        /\ UNCHANGED <<clock, b_group, b_frame_index, obj_id, video, bFrames>>
    BY <1>4 DEF GroupCounterOverflows
  <2>2. CASE key
    <3>1. current' = current + 1 /\ group_id' = current + 1 /\ count' = 0
      BY <1>1, <1>4, <2>2 DEF GroupCounterOverflows, OpenGroup
    <3> QED BY <2>1, <3>1, StopInv
  <2>3. CASE ~ key
    <3>1. current' = current /\ group_id' = current /\ count' = count
      BY <1>1, <1>4, <2>3 DEF GroupCounterOverflows
    <3> QED BY <2>1, <3>1, StopInv
  <2> QED BY <2>2, <2>3
<1>5. CASE StreamB BY <1>5, StreamBInv
<1>6. CASE StreamBFails
  <2>1. /\ serverUp' = FALSE /\ current' = current /\ group_id' = current /\ count' = count
        /\ UNCHANGED <<clock, b_group, b_frame_index, obj_id, video, bFrames>>
    BY <1>1, <1>6 DEF StreamBFails, counterVars
  <2> QED BY <2>1, StopInv
<1>7. CASE UNCHANGED mapperVars
  <2>1. UNCHANGED <<serverUp, clock, current, count, group_id, b_group, b_frame_index, obj_id,
                    video, bFrames>>
    BY <1>7 DEF mapperVars, counterVars
  <2>2. serverUp' \in BOOLEAN BY <2>1 DEF TypeOK
  <2>3. TypeOK' BY <2>1, <2>2 DEF TypeOK, Timestamp
  <2>4. Counting' BY <2>1 DEF Counting
  <2>5. PrioritiesUsed' BY <2>1 DEF PrioritiesUsed, Priority
  <2>6. PriorityOrder' /\ BelowVideo' /\ GroupAgreement'
    BY <2>1 DEF PriorityOrder, SameBGroup, BelowVideo, VideoPriority, GroupAgreement
  <2> QED BY <2>3, <2>4, <2>5, <2>6
<1> QED BY <1>2, <1>3, <1>4, <1>5, <1>6, <1>7 DEF Next

\* The mapping keeps its invariant, whatever frames the encoder produces.
THEOREM Invariance == Spec => []IInv
BY InitInv, NextInv, PTL DEF Spec

\* Every variable of the mapping keeps its type, the u32 counters their width.
THEOREM TypeCorrect == Spec => []TypeOK
<1>1. IInv => TypeOK BY DEF IInv
<1> QED BY <1>1, Invariance, PTL

\* Newer B-groups come before older ones, and older B-frames first within a B-group:
\* the order of priorities that bframe.rs describes.
THEOREM PrioritiesCorrect == Spec => []PriorityOrder
<1>1. IInv => PriorityOrder BY DEF IInv
<1> QED BY <1>1, Invariance, PTL

\* No B-frame comes before the video track, up to the limits of both counters.
THEOREM VideoFirst == Spec => []BelowVideo
<1>1. IInv => BelowVideo BY DEF IInv
<1> QED BY <1>1, Invariance, PTL

\* The group number of a B-frame is that of the group its reference frames are in.
THEOREM GroupsAgree == Spec => []GroupAgreement
<1>1. IInv => GroupAgreement BY DEF IInv
<1> QED BY <1>1, Invariance, PTL

-----------------------------------------------------------------------------
(* The reorder buffer.                                                     *)

\* A piece of a sequence, as a sequence of its own.
LEMMA PieceFacts ==
  ASSUME NEW S, NEW q \in Seq(S), NEW a \in Int, NEW b \in Int, a >= 1, b <= Len(q)
  PROVE  /\ SubSeq(q, a, b) \in Seq(S)
         /\ Len(SubSeq(q, a, b)) = IF a <= b THEN b - a + 1 ELSE 0
         /\ \A k \in 1..(b - a + 1) : SubSeq(q, a, b)[k] = q[a + k - 1]
<1>1. \A k \in a..b : k \in 1..Len(q) BY LenProperties
<1>2. \A k \in a..b : q[k] \in S BY <1>1, ElementOfSeq
<1> QED BY <1>2, SubSeqProperties

\* InsertAt, with its definition as an equation.
LEMMA InsertAtIsConcat ==
  ASSUME NEW q, NEW i, NEW e
  PROVE  InsertAt(q, i, e) = (SubSeq(q, 1, i - 1) \o <<e>>) \o SubSeq(q, i, Len(q))
BY DEF InsertAt

\* A frame put behind the first n frames of the buffer.
LEMMA InsertFacts ==
  ASSUME NEW S, NEW q \in Seq(S), NEW e \in S, NEW n \in 0..Len(q)
  PROVE  /\ InsertAt(q, n + 1, e) \in Seq(S)
         /\ Len(InsertAt(q, n + 1, e)) = Len(q) + 1 /\ Len(q) \in Nat
         /\ \A k \in 1..n : InsertAt(q, n + 1, e)[k] = q[k]
         /\ InsertAt(q, n + 1, e)[n + 1] = e
         /\ \A k \in (n + 2)..(Len(q) + 1) : InsertAt(q, n + 1, e)[k] = q[k - 1]
<1> DEFINE a == SubSeq(q, 1, n)
           c == SubSeq(q, n + 1, Len(q))
           ae == a \o <<e>>
<1>1. Len(q) \in Nat /\ n \in Int /\ 0 <= n /\ n <= Len(q) BY LenProperties
<1>2. /\ a \in Seq(S) /\ Len(a) = n /\ \A k \in 1..n : a[k] = q[k]
  <2>1. /\ SubSeq(q, 1, n) \in Seq(S)
        /\ Len(SubSeq(q, 1, n)) = IF 1 <= n THEN n - 1 + 1 ELSE 0
        /\ \A k \in 1..(n - 1 + 1) : SubSeq(q, 1, n)[k] = q[1 + k - 1]
    BY <1>1, PieceFacts
  <2> HIDE DEF a
  <2>2. \A k \in 1..n : 1 + k - 1 = k /\ k \in 1..(n - 1 + 1) BY <1>1
  <2> QED BY <1>1, <2>1, <2>2 DEF a
<1>3. /\ c \in Seq(S) /\ Len(c) = Len(q) - n
      /\ \A k \in 1..(Len(q) - n) : c[k] = q[n + k]
  <2>1. /\ SubSeq(q, n + 1, Len(q)) \in Seq(S)
        /\ Len(SubSeq(q, n + 1, Len(q))) =
             IF n + 1 <= Len(q) THEN Len(q) - (n + 1) + 1 ELSE 0
        /\ \A k \in 1..(Len(q) - (n + 1) + 1) : SubSeq(q, n + 1, Len(q))[k] = q[n + 1 + k - 1]
    BY <1>1, PieceFacts
  <2>2. \A k \in 1..(Len(q) - n) : n + 1 + k - 1 = n + k /\ k \in 1..(Len(q) - (n + 1) + 1)
    BY <1>1
  <2> QED BY <1>1, <2>1, <2>2 DEF c
<1> HIDE DEF a, c
<1>4. <<e>> \in Seq(S) /\ Len(<<e>>) = 1 /\ <<e>>[1] = e OBVIOUS
<1>5. /\ ae \in Seq(S) /\ Len(ae) = n + 1
      /\ \A k \in 1..(n + 1) : ae[k] = IF k <= n THEN a[k] ELSE <<e>>[k - n]
  BY <1>2, <1>4, ConcatProperties
<1> HIDE DEF ae
<1>6. /\ ae \o c \in Seq(S) /\ Len(ae \o c) = Len(q) + 1
      /\ \A k \in 1..(Len(q) + 1) : (ae \o c)[k] = IF k <= n + 1 THEN ae[k] ELSE c[k - (n + 1)]
  BY <1>1, <1>3, <1>5, ConcatProperties
<1>7. InsertAt(q, n + 1, e) = ae \o c
  <2>1. PICK i \in Int : i = n + 1 BY <1>1
  <2>2. i - 1 = n BY <1>1, <2>1
  <2>3. InsertAt(q, i, e) = (SubSeq(q, 1, i - 1) \o <<e>>) \o SubSeq(q, i, Len(q))
    BY InsertAtIsConcat
  <2>4. InsertAt(q, i, e) = (SubSeq(q, 1, n) \o <<e>>) \o SubSeq(q, n + 1, Len(q))
    BY <2>1, <2>2, <2>3
  <2> QED BY <2>1, <2>4 DEF a, c, ae
<1>8. \A k \in 1..n : (ae \o c)[k] = q[k] BY <1>1, <1>2, <1>5, <1>6
<1>9. (ae \o c)[n + 1] = e
  <2>1. n + 1 \in 1..(n + 1) /\ n + 1 \in 1..(Len(q) + 1) /\ ~ (n + 1 <= n) /\ n + 1 - n = 1
    BY <1>1
  <2> QED BY <1>1, <1>4, <1>5, <1>6, <2>1
<1>10. \A k \in (n + 2)..(Len(q) + 1) : (ae \o c)[k] = q[k - 1]
  <2> TAKE k \in (n + 2)..(Len(q) + 1)
  <2>1. /\ k \in 1..(Len(q) + 1) /\ ~ (k <= n + 1) /\ k - (n + 1) \in 1..(Len(q) - n)
        /\ n + (k - (n + 1)) = k - 1
    BY <1>1
  <2> QED BY <1>3, <1>6, <2>1
<1> QED BY <1>1, <1>6, <1>7, <1>8, <1>9, <1>10

-----------------------------------------------------------------------------
\* The loop of transform(), started with a sorted buffer newer than all that left it,
\* never throws: it lets the first m frames go, and the rest stays.
LEMMA DrainFacts ==
  ASSUME NEW q \in Seq(RawFrame), q # <<>>, Drain(q), PipelineInv,
         arrived \subseteq arrived', arrived' \subseteq Timestamp,
         \A k \in DOMAIN q : q[k].dts \in arrived' /\ q[k].dts > lastEnqueued,
         \A j, k \in DOMAIN q : j < k => q[j].dts < q[k].dts
  PROVE  \E m \in 0..Len(q) :
           /\ \A k \in 1..m : Leaves(q, k)
           /\ m < Len(q) => ~ Leaves(q, m + 1)
           /\ status' = status
           /\ lastEnqueued' = IF m = 0 THEN lastEnqueued ELSE q[m].dts
           /\ buffer' \in Seq(RawFrame) /\ DOMAIN buffer' = 1..(Len(q) - m)
           /\ Len(buffer') = Len(q) - m
           /\ \A k \in 1..(Len(q) - m) : buffer'[k] = q[m + k]
           /\ enqueued' \in Seq(RawFrame) /\ DOMAIN enqueued' = 1..(Len(enqueued) + m)
           /\ \A k \in 1..Len(enqueued) : enqueued'[k] = enqueued[k]
           /\ \A k \in 1..m : enqueued'[Len(enqueued) + k] = q[k]
<1> USE DEF PipelineInv
<1>1. Len(q) \in Nat /\ DOMAIN q = 1..Len(q) BY LenProperties
<1>2. \A k \in 1..Len(q) : q[k] \in RawFrame /\ q[k].dts \in Nat /\ q[k].dts >= 1
  <2>1. \A k \in 1..Len(q) : q[k] \in RawFrame BY ElementOfSeq
  <2> QED BY <2>1 DEF RawFrame, Timestamp
<1>3. /\ enqueued \in Seq(RawFrame) /\ lastEnqueued \in Nat /\ Len(enqueued) \in Nat
      /\ DOMAIN enqueued = 1..Len(enqueued)
      /\ \A k \in 1..Len(enqueued) : enqueued[k].dts \in Nat
  <2>1. enqueued \in Seq(RawFrame) /\ lastEnqueued \in Nat
    BY MapperAssumption DEF ClientTypeOK
  <2>2. \A k \in 1..Len(enqueued) : enqueued[k] \in RawFrame BY <2>1, ElementOfSeq
  <2> QED BY <2>1, <2>2, LenProperties DEF RawFrame, Timestamp
<1>4. PICK m \in 0..Len(q) :
        /\ \A k \in 1..m : Leaves(q, k) /\ InOrder(q, k)
        /\ m < Len(q) => ~ (Leaves(q, m + 1) /\ InOrder(q, m + 1))
        /\ enqueued' = enqueued \o SubSeq(q, 1, m)
        /\ lastEnqueued' = IF m = 0 THEN lastEnqueued ELSE q[m].dts
        /\ LET thrown == m < Len(q) /\ Leaves(q, m + 1)
           IN  /\ buffer' = SubSeq(q, IF thrown THEN m + 2 ELSE m + 1, Len(q))
               /\ status' = IF thrown THEN "outOfOrder" ELSE status
  BY DEF Drain
<1>5. m < Len(q) => InOrder(q, m + 1)
  <2> SUFFICES ASSUME m < Len(q) PROVE InOrder(q, m + 1) OBVIOUS
  <2>1. CASE m = 0
    BY <1>1, <1>2, <1>3, <2>1 DEF InOrder, Previous
  <2>2. CASE m # 0
    <3>1. m \in DOMAIN q /\ m + 1 \in DOMAIN q /\ m < m + 1 /\ m + 1 # 1 /\ m + 1 - 1 = m
      BY <1>1, <2>2
    <3>2. q[m].dts < q[m + 1].dts BY <3>1
    <3> QED BY <1>1, <1>2, <3>1, <3>2 DEF InOrder, Previous
  <2> QED BY <2>1, <2>2
<1>6. m < Len(q) => ~ Leaves(q, m + 1) BY <1>4, <1>5
<1>7. buffer' = SubSeq(q, m + 1, Len(q)) /\ status' = status BY <1>4, <1>6
<1>8. /\ buffer' \in Seq(RawFrame) /\ Len(buffer') = Len(q) - m
      /\ DOMAIN buffer' = 1..(Len(q) - m)
      /\ \A k \in 1..(Len(q) - m) : buffer'[k] = q[m + k]
  <2>1. /\ SubSeq(q, m + 1, Len(q)) \in Seq(RawFrame)
        /\ Len(SubSeq(q, m + 1, Len(q))) =
             IF m + 1 <= Len(q) THEN Len(q) - (m + 1) + 1 ELSE 0
        /\ \A k \in 1..(Len(q) - (m + 1) + 1) : SubSeq(q, m + 1, Len(q))[k] = q[m + 1 + k - 1]
    BY <1>1, PieceFacts
  <2>2. \A k \in 1..(Len(q) - m) : m + 1 + k - 1 = m + k /\ k \in 1..(Len(q) - (m + 1) + 1)
    BY <1>1
  <2>3. Len(buffer') = Len(q) - m
    <3>1. \A l \in Nat : \A i \in 0..l :
            (IF i + 1 <= l THEN l - (i + 1) + 1 ELSE 0) = l - i
      OBVIOUS
    <3> QED BY <1>1, <1>7, <2>1, <3>1
  <2>4. buffer' \in Seq(RawFrame) BY <1>7, <2>1
  <2>5. DOMAIN buffer' = 1..(Len(q) - m) BY <2>3, <2>4, LenProperties
  <2> QED BY <1>7, <2>1, <2>2, <2>3, <2>4, <2>5
<1>9. /\ enqueued' \in Seq(RawFrame) /\ DOMAIN enqueued' = 1..(Len(enqueued) + m)
      /\ \A k \in 1..Len(enqueued) : enqueued'[k] = enqueued[k]
      /\ \A k \in 1..m : enqueued'[Len(enqueued) + k] = q[k]
  <2> DEFINE a == SubSeq(q, 1, m)
  <2>1. /\ SubSeq(q, 1, m) \in Seq(RawFrame)
        /\ Len(SubSeq(q, 1, m)) = IF 1 <= m THEN m - 1 + 1 ELSE 0
        /\ \A k \in 1..(m - 1 + 1) : SubSeq(q, 1, m)[k] = q[1 + k - 1]
    BY <1>1, PieceFacts
  <2>2. \A k \in 1..m : 1 + k - 1 = k /\ k \in 1..(m - 1 + 1) BY <1>1
  <2>3. a \in Seq(RawFrame) /\ Len(a) = m /\ \A k \in 1..m : a[k] = q[k]
    BY <1>1, <2>1, <2>2
  <2>4. enqueued' = enqueued \o a BY <1>4
  <2> HIDE DEF a
  <2>5. /\ enqueued' \in Seq(RawFrame) /\ Len(enqueued') = Len(enqueued) + m
        /\ \A k \in 1..(Len(enqueued) + m) :
             enqueued'[k] = IF k <= Len(enqueued) THEN enqueued[k] ELSE a[k - Len(enqueued)]
    BY <1>3, <2>3, <2>4, ConcatProperties
  <2>6. \A k \in 1..m : enqueued'[Len(enqueued) + k] = q[k]
    <3> TAKE k \in 1..m
    <3>1. /\ Len(enqueued) + k \in 1..(Len(enqueued) + m) /\ ~ (Len(enqueued) + k <= Len(enqueued))
          /\ Len(enqueued) + k - Len(enqueued) = k
      BY <1>1, <1>3
    <3> QED BY <2>3, <2>5, <3>1
  <2>7. \A k \in 1..Len(enqueued) : enqueued'[k] = enqueued[k] BY <1>1, <1>3, <2>5
  <2>8. DOMAIN enqueued' = 1..(Len(enqueued) + m) BY <2>5, LenProperties
  <2> QED BY <2>5, <2>6, <2>7, <2>8
<1> QED BY <1>4, <1>6, <1>7, <1>8, <1>9

\* What the loop lets go is in order, and what stays is sorted.
LEMMA DrainInv ==
  ASSUME NEW q \in Seq(RawFrame), q # <<>>, Drain(q), PipelineInv,
         arrived \subseteq arrived', arrived' \subseteq Timestamp,
         \A k \in DOMAIN q : q[k].dts \in arrived' /\ q[k].dts > lastEnqueued,
         \A j, k \in DOMAIN q : j < k => q[j].dts < q[k].dts,
         UNCHANGED <<videoFrom, bFrom>>
  PROVE  PipelineInv'
<1> USE DEF PipelineInv
<1>1. Len(q) \in Nat /\ DOMAIN q = 1..Len(q) BY LenProperties
<1>2. \A k \in 1..Len(q) : q[k] \in RawFrame /\ q[k].dts \in Nat /\ q[k].dts >= 1
  <2>1. \A k \in 1..Len(q) : q[k] \in RawFrame BY ElementOfSeq
  <2> QED BY <2>1 DEF RawFrame, Timestamp
<1>3. /\ enqueued \in Seq(RawFrame) /\ lastEnqueued \in Nat /\ Len(enqueued) \in Nat
      /\ DOMAIN enqueued = 1..Len(enqueued)
      /\ \A k \in 1..Len(enqueued) : enqueued[k].dts \in Nat
  <2>1. enqueued \in Seq(RawFrame) /\ lastEnqueued \in Nat
    BY MapperAssumption DEF ClientTypeOK
  <2>2. \A k \in 1..Len(enqueued) : enqueued[k] \in RawFrame BY <2>1, ElementOfSeq
  <2> QED BY <2>1, <2>2, LenProperties DEF RawFrame, Timestamp
<1>4. PICK m \in 0..Len(q) :
        /\ \A k \in 1..m : Leaves(q, k)
        /\ m < Len(q) => ~ Leaves(q, m + 1)
        /\ status' = status
        /\ lastEnqueued' = IF m = 0 THEN lastEnqueued ELSE q[m].dts
        /\ buffer' \in Seq(RawFrame) /\ DOMAIN buffer' = 1..(Len(q) - m)
        /\ Len(buffer') = Len(q) - m
        /\ \A k \in 1..(Len(q) - m) : buffer'[k] = q[m + k]
        /\ enqueued' \in Seq(RawFrame) /\ DOMAIN enqueued' = 1..(Len(enqueued) + m)
        /\ \A k \in 1..Len(enqueued) : enqueued'[k] = enqueued[k]
        /\ \A k \in 1..m : enqueued'[Len(enqueued) + k] = q[k]
  BY DrainFacts
<1>6. m < Len(q) => ~ Leaves(q, m + 1) BY <1>4
<1>7. status' = status BY <1>4
<1>8. /\ buffer' \in Seq(RawFrame) /\ Len(buffer') = Len(q) - m
      /\ DOMAIN buffer' = 1..(Len(q) - m)
      /\ \A k \in 1..(Len(q) - m) : buffer'[k] = q[m + k]
  BY <1>4
<1>9. /\ enqueued' \in Seq(RawFrame) /\ DOMAIN enqueued' = 1..(Len(enqueued) + m)
      /\ \A k \in 1..Len(enqueued) : enqueued'[k] = enqueued[k]
      /\ \A k \in 1..m : enqueued'[Len(enqueued) + k] = q[k]
  BY <1>4
<1>10. /\ lastEnqueued' \in 0..MaxFrames /\ lastEnqueued' >= lastEnqueued
       /\ lastEnqueued' # NoFrame => lastEnqueued' \in arrived'
       /\ \A k \in 1..m : q[k].dts <= lastEnqueued'
       /\ \A k \in (m + 1)..Len(q) : q[k].dts > lastEnqueued'
  <2>1. CASE m = 0
    <3>1. lastEnqueued' = lastEnqueued BY <1>4, <2>1
    <3>2. \A k \in (m + 1)..Len(q) : k \in DOMAIN q BY <1>1, <2>1
    <3>3. lastEnqueued' \in 0..MaxFrames BY <3>1 DEF ClientTypeOK
    <3>4. lastEnqueued' # NoFrame => lastEnqueued' \in arrived' BY <3>1 DEF LastIsNewest
    <3>5. \A k \in (m + 1)..Len(q) : q[k].dts > lastEnqueued' BY <3>1, <3>2
    <3>6. (1..m) = {} BY <2>1
    <3> QED BY <1>3, <3>1, <3>3, <3>4, <3>5, <3>6
  <2>2. CASE m # 0
    <3>1. m \in DOMAIN q /\ lastEnqueued' = q[m].dts BY <1>1, <1>4, <2>2
    <3>2. q[m].dts \in arrived' /\ q[m].dts > lastEnqueued /\ q[m].dts \in 1..MaxFrames
      BY <3>1 DEF Timestamp
    <3>3. \A k \in 1..m : k \in DOMAIN q /\ (k < m \/ k = m) BY <1>1
    <3>4. \A k \in 1..m : q[k].dts <= q[m].dts BY <1>1, <1>2, <3>1, <3>3
    <3>5. \A k \in (m + 1)..Len(q) : k \in DOMAIN q /\ m < k BY <1>1, <2>2
    <3>6. \A k \in (m + 1)..Len(q) : q[k].dts > q[m].dts BY <1>1, <1>2, <3>1, <3>5
    <3> QED BY <1>3, <3>1, <3>2, <3>4, <3>6, MapperAssumption
  <2> QED BY <2>1, <2>2
<1>11. ClientTypeOK' BY <1>7, <1>8, <1>9, <1>10 DEF ClientTypeOK
<1>12. \A k \in 1..(Len(q) - m) : m + k \in DOMAIN q /\ m + k \in (m + 1)..Len(q) /\ k \in Nat
  BY <1>1
<1>13. BufferSorted'
  <2>1. \A k \in DOMAIN buffer' : buffer'[k].dts \in arrived' /\ buffer'[k].dts > lastEnqueued'
    BY <1>8, <1>10, <1>12
  <2>2. \A j, k \in DOMAIN buffer' : j < k => buffer'[j].dts < buffer'[k].dts
    <3> SUFFICES ASSUME NEW j \in 1..(Len(q) - m), NEW k \in 1..(Len(q) - m), j < k
        PROVE buffer'[j].dts < buffer'[k].dts
      BY <1>8
    <3>1. m + j < m + k BY <1>1, <1>12
    <3> QED BY <1>8, <1>12, <3>1
  <2> QED BY <2>1, <2>2 DEF BufferSorted
<1>14. \A k \in DOMAIN enqueued' :
         \/ k \in DOMAIN enqueued /\ enqueued'[k] = enqueued[k]
         \/ \E i \in 1..m : k = Len(enqueued) + i /\ enqueued'[k] = q[i]
  <2> TAKE k \in DOMAIN enqueued'
  <2>1. k \in 1..Len(enqueued) \/ (k - Len(enqueued) \in 1..m /\ k = Len(enqueued) + (k - Len(enqueued)))
    BY <1>1, <1>3, <1>9
  <2> QED BY <1>3, <1>9, <2>1
<1>15. LastIsNewest'
  <2>1. \A k \in DOMAIN enqueued : enqueued[k].dts <= lastEnqueued BY DEF LastIsNewest
  <2>2. \A k \in DOMAIN enqueued : enqueued[k].dts <= lastEnqueued' BY <1>3, <1>10, <2>1
  <2> QED BY <1>10, <1>14, <2>2 DEF LastIsNewest
<1>16. SortedOutput'
  <2> SUFFICES ASSUME NEW j \in DOMAIN enqueued', NEW k \in DOMAIN enqueued', j < k
      PROVE enqueued'[j].dts < enqueued'[k].dts
    BY <1>7 DEF SortedOutput
  <2>1. CASE k \in DOMAIN enqueued /\ enqueued'[k] = enqueued[k]
    <3>1. j \in DOMAIN enqueued /\ enqueued'[j] = enqueued[j] BY <1>3, <1>9, <2>1
    <3> QED BY <2>1, <3>1 DEF SortedOutput
  <2>2. ASSUME NEW i \in 1..m, k = Len(enqueued) + i, enqueued'[k] = q[i]
        PROVE enqueued'[j].dts < enqueued'[k].dts
    <3>1. i \in DOMAIN q /\ q[i].dts > lastEnqueued BY <1>1
    <3>2. CASE j \in DOMAIN enqueued /\ enqueued'[j] = enqueued[j]
      <4>1. enqueued[j].dts <= lastEnqueued /\ enqueued[j].dts \in Nat
        BY <1>3, <3>2 DEF LastIsNewest
      <4> QED BY <1>1, <1>2, <1>3, <2>2, <3>1, <3>2, <4>1
    <3>3. ASSUME NEW h \in 1..m, j = Len(enqueued) + h, enqueued'[j] = q[h]
          PROVE enqueued'[j].dts < enqueued'[k].dts
      <4>1. h < i /\ h \in DOMAIN q BY <1>1, <1>3, <2>2, <3>3
      <4> QED BY <2>2, <3>1, <3>3, <4>1
    <3> QED BY <1>14, <3>2, <3>3
  <2> QED BY <1>14, <2>1, <2>2
<1>17. ReferenceNotHeld'
  <2> SUFFICES ASSUME NEW k \in 1..(Len(q) - m), ~ buffer'[k].isB
      PROVE buffer'[Len(buffer')].dts - buffer'[1].dts <= TargetSize
    BY <1>8 DEF ReferenceNotHeld
  <2>1. /\ m < Len(q) /\ m + 1 \in 1..Len(q) /\ 1 \in 1..(Len(q) - m)
        /\ Len(q) - m \in 1..(Len(q) - m) /\ m + (Len(q) - m) = Len(q) /\ Len(q) \in 1..Len(q)
    BY <1>1
  <2>2. buffer'[Len(buffer')] = q[Len(q)] /\ buffer'[1] = q[m + 1] BY <1>8, <2>1
  <2>3. ~ q[m + k].isB /\ (k = 1 \/ m + k \in (m + 1 + 1)..Len(q)) BY <1>1, <1>8
  <2>4. ~ (q[Len(q)].dts - q[m + 1].dts > TargetSize) BY <1>6, <2>1, <2>3 DEF Leaves
  <2>5. q[Len(q)].dts \in Nat /\ q[m + 1].dts \in Nat /\ TargetSize \in Nat
    BY <1>2, <2>1, TargetAssumption
  <2> QED BY <2>2, <2>4, <2>5
<1> QED BY <1>11, <1>13, <1>15, <1>16, <1>17

\* add() sorts a frame into the buffer, and the loop starts with the result.
LEMMA AddFacts ==
  ASSUME PipelineInv, NEW f \in RawFrame, f.dts \notin arrived,
         arrived' = arrived \cup {f.dts}, TransformAdds(f)
  PROVE  \E q \in Seq(RawFrame) :
           /\ q # <<>> /\ Drain(q)
           /\ \A k \in DOMAIN q : q[k].dts \in arrived' /\ q[k].dts > lastEnqueued
           /\ \A j, k \in DOMAIN q : j < k => q[j].dts < q[k].dts
           /\ \A k \in DOMAIN q : q[k] = f \/ \E j \in DOMAIN buffer : q[k] = buffer[j]
           /\ \E k \in DOMAIN q : q[k] = f
           /\ \A j \in DOMAIN buffer : \E k \in DOMAIN q : q[k] = buffer[j]
<1>1. ClientTypeOK /\ BufferSorted /\ LastIsNewest BY DEF PipelineInv
<1>2. f.dts \in Nat /\ f.dts >= 1 /\ f.dts \in Timestamp BY DEF RawFrame, Timestamp
<1>3. /\ buffer \in Seq(RawFrame) /\ lastEnqueued \in Nat /\ arrived \subseteq Timestamp
      /\ Len(buffer) \in Nat /\ DOMAIN buffer = 1..Len(buffer)
      /\ \A k \in 1..Len(buffer) : buffer[k].dts \in Nat
  <2>1. buffer \in Seq(RawFrame) /\ lastEnqueued \in Nat /\ arrived \subseteq Timestamp
    BY <1>1, MapperAssumption DEF ClientTypeOK
  <2>2. \A k \in 1..Len(buffer) : buffer[k] \in RawFrame BY <2>1, ElementOfSeq
  <2> QED BY <2>1, <2>2, LenProperties DEF RawFrame, Timestamp
<1>11. f.dts > lastEnqueued
  <2>1. lastEnqueued = NoFrame \/ f.dts >= lastEnqueued BY <1>2, <1>3 DEF TransformAdds, Late
  <2>2. lastEnqueued # NoFrame => f.dts # lastEnqueued BY <1>1 DEF LastIsNewest
  <2> QED BY <1>2, <1>3, <2>1, <2>2 DEF NoFrame
<1>12. PICK n \in 0..Len(buffer) : Place(f, n) /\ Drain(InsertAt(buffer, n + 1, f))
  BY DEF TransformAdds
<1> DEFINE q == InsertAt(buffer, n + 1, f)
<1>13. /\ q \in Seq(RawFrame) /\ Len(q) = Len(buffer) + 1
       /\ \A k \in 1..n : q[k] = buffer[k]
       /\ q[n + 1] = f
       /\ \A k \in (n + 2)..(Len(buffer) + 1) : q[k] = buffer[k - 1]
  <2> HIDE DEF q
  <2>1. buffer \in Seq(RawFrame) BY <1>3
  <2>2. q = InsertAt(buffer, n + 1, f) BY DEF q
  <2>3. /\ InsertAt(buffer, n + 1, f) \in Seq(RawFrame)
        /\ Len(InsertAt(buffer, n + 1, f)) = Len(buffer) + 1
    BY <2>1, InsertFacts
  <2>4. \A k \in 1..n : InsertAt(buffer, n + 1, f)[k] = buffer[k]
    BY <2>1, InsertFacts
  <2>5. /\ InsertAt(buffer, n + 1, f)[n + 1] = f
        /\ \A k \in (n + 2)..(Len(buffer) + 1) : 
             InsertAt(buffer, n + 1, f)[k] = buffer[k - 1]
    BY <2>1, InsertFacts
  <2> QED BY <2>2, <2>3, <2>4, <2>5
<1>14. Drain(q) BY <1>12
<1> HIDE DEF q
<1>15. DOMAIN q = 1..(Len(buffer) + 1) BY <1>13, LenProperties
<1>16. \A k \in DOMAIN q : \/ k \in 1..n /\ k \in DOMAIN buffer
                           \/ k = n + 1
                           \/ k \in (n + 2)..(Len(buffer) + 1) /\ k - 1 \in DOMAIN buffer
  BY <1>3, <1>15
<1>17. \A k \in DOMAIN buffer :
        /\ buffer[k].dts \in arrived /\ buffer[k].dts > lastEnqueued
        /\ buffer[k].dts \in Nat /\ buffer[k].dts # f.dts
  BY <1>1, <1>3 DEF BufferSorted
<1>18. /\ \A k \in 1..n : k \in DOMAIN buffer /\ buffer[k].dts < f.dts
       /\ \A k \in (n + 1)..Len(buffer) : k \in DOMAIN buffer /\ buffer[k].dts > f.dts
  <2>1. \A k \in 1..n : k \in DOMAIN buffer /\ buffer[k].dts <= f.dts
    BY <1>3, <1>12 DEF Place
  <2>2. \A k \in (n + 1)..Len(buffer) : k \in DOMAIN buffer /\ buffer[k].dts > f.dts
    BY <1>3, <1>12 DEF Place
  <2> QED BY <1>2, <1>17, <2>1, <2>2
<1>19. \A k \in DOMAIN q : q[k].dts \in arrived' /\ q[k].dts > lastEnqueued
  BY <1>11, <1>13, <1>16, <1>17
<1>20. \A j, k \in DOMAIN q : j < k => q[j].dts < q[k].dts
  <2> SUFFICES ASSUME NEW j \in DOMAIN q, NEW k \in DOMAIN q, j < k
      PROVE q[j].dts < q[k].dts
    OBVIOUS
  <2>0. \A a, b \in DOMAIN buffer : a < b => buffer[a].dts < buffer[b].dts
    BY <1>1 DEF BufferSorted
  <2>1. CASE k \in 1..n
    <3>1. j \in 1..n BY <1>3, <1>15, <2>1
    <3> QED BY <1>13, <1>18, <2>0, <2>1, <3>1
  <2>2. CASE k = n + 1
    <3>1. j \in 1..n BY <1>3, <1>15, <2>2
    <3> QED BY <1>13, <1>18, <2>2, <3>1
  <2>3. CASE k \in (n + 2)..(Len(buffer) + 1)
    <3>1. k - 1 \in (n + 1)..Len(buffer) /\ k - 1 \in DOMAIN buffer /\ q[k] = buffer[k - 1]
      BY <1>3, <1>13, <2>3
    <3>2. CASE j \in 1..n
      <4>1. j < k - 1 /\ j \in DOMAIN buffer BY <1>3, <3>1, <3>2
      <4> QED BY <1>13, <2>0, <3>1, <3>2, <4>1
    <3>3. CASE j = n + 1 BY <1>13, <1>18, <3>1, <3>3
    <3>4. CASE j \in (n + 2)..(Len(buffer) + 1)
      <4>1. j - 1 < k - 1 /\ j - 1 \in DOMAIN buffer /\ q[j] = buffer[j - 1]
        BY <1>3, <1>13, <2>3, <3>4
      <4> QED BY <2>0, <3>1, <4>1
    <3> QED BY <1>16, <3>2, <3>3, <3>4
  <2> QED BY <1>16, <2>1, <2>2, <2>3
<1>21. q # <<>> BY <1>3, <1>13
<1>22. \A k \in DOMAIN q : q[k] = f \/ \E j \in DOMAIN buffer : q[k] = buffer[j]
  BY <1>13, <1>16
<1>23. n + 1 \in DOMAIN q /\ q[n + 1] = f BY <1>3, <1>13, <1>15
<1>24. \A j \in DOMAIN buffer : \E k \in DOMAIN q : q[k] = buffer[j]
  <2> SUFFICES ASSUME NEW j \in DOMAIN buffer PROVE \E k \in DOMAIN q : q[k] = buffer[j]
    OBVIOUS
  <2>1. CASE j <= n
    <3>1. j \in DOMAIN q /\ q[j] = buffer[j] BY <1>3, <1>13, <1>15, <2>1
    <3> QED BY <3>1
  <2>2. CASE ~ (j <= n)
    <3>1. j + 1 \in (n + 2)..(Len(buffer) + 1) /\ j + 1 - 1 = j BY <1>3, <2>2
    <3>2. j + 1 \in DOMAIN q /\ q[j + 1] = buffer[j] BY <1>3, <1>13, <1>15, <3>1
    <3> QED BY <3>2
  <2> QED BY <2>1, <2>2
<1> QED BY <1>13, <1>14, <1>19, <1>20, <1>21, <1>22, <1>23, <1>24

\* A frame that arrives is dropped, ends the pipeline, or is sorted into the buffer.
LEMMA ArrivesInv ==
  ASSUME PipelineInv, NEW f \in RawFrame, Arrives(f)
  PROVE  PipelineInv'
<1> USE DEF PipelineInv
<1>1. /\ f.dts \notin arrived /\ arrived' = arrived \cup {f.dts} /\ status = "ok"
      /\ (TransformLate(f) \/ TransformAdds(f))
      /\ UNCHANGED <<videoFrom, bFrom>>
  BY DEF Arrives
<1>2. f.dts \in Nat /\ f.dts >= 1 /\ f.dts \in Timestamp BY DEF RawFrame, Timestamp
<1>3. /\ buffer \in Seq(RawFrame) /\ lastEnqueued \in Nat /\ arrived \subseteq Timestamp
      /\ Len(buffer) \in Nat /\ DOMAIN buffer = 1..Len(buffer)
      /\ \A k \in 1..Len(buffer) : buffer[k].dts \in Nat
  <2>1. buffer \in Seq(RawFrame) /\ lastEnqueued \in Nat /\ arrived \subseteq Timestamp
    BY MapperAssumption DEF ClientTypeOK
  <2>2. \A k \in 1..Len(buffer) : buffer[k] \in RawFrame BY <2>1, ElementOfSeq
  <2> QED BY <2>1, <2>2, LenProperties DEF RawFrame, Timestamp
<1>4. arrived \subseteq arrived' /\ arrived' \subseteq Timestamp BY <1>1, <1>2, <1>3
<1>5. UNCHANGED <<videoFrom, bFrom>> BY DEF Arrives
<1>6. CASE TransformLate(f)
  <2>1. /\ UNCHANGED <<buffer, lastEnqueued, enqueued>>
        /\ status' \in {"ok", "frameAhead"}
    BY <1>1, <1>6 DEF TransformLate
  <2>2. ClientTypeOK' BY <1>4, <1>5, <2>1 DEF ClientTypeOK
  <2>3. BufferSorted' /\ LastIsNewest' BY <1>4, <2>1 DEF BufferSorted, LastIsNewest
  <2>4. SortedOutput' /\ ReferenceNotHeld' BY <2>1 DEF SortedOutput, ReferenceNotHeld
  <2> QED BY <2>2, <2>3, <2>4
<1>7. CASE TransformAdds(f)
  <2>1. PICK q \in Seq(RawFrame) :
          /\ q # <<>> /\ Drain(q)
          /\ \A k \in DOMAIN q : q[k].dts \in arrived' /\ q[k].dts > lastEnqueued
          /\ \A j, k \in DOMAIN q : j < k => q[j].dts < q[k].dts
    BY <1>1, <1>7, AddFacts
  <2> QED BY <1>4, <1>5, <2>1, DrainInv
<1> QED BY <1>1, <1>6, <1>7 DEF Arrives

-----------------------------------------------------------------------------
(* References arrive, and leave, before the B-frames behind them.          *)

\* A set of natural numbers has a least one.
LEMMA LeastNumber ==
  ASSUME NEW T, T \subseteq Nat, T # {}
  PROVE  \E m \in T : \A n \in T : m <= n
<1> DEFINE R == {ss \in Nat \X Nat : ss[1] < ss[2]}
<1>1. IsWellFoundedOn(R, Nat) BY NatLessThanWellFounded DEF OpToRel
<1>2. \E m \in T : \A n \in T : ~ (<<n, m>> \in R)
  <2> HIDE DEF R
  <2> QED BY <1>1, WFMin
<1>3. PICK m \in T : \A n \in T : ~ (<<n, m>> \in R) BY <1>2
<1>4. \A n \in T : ~ (n < m)
  <2> TAKE n \in T
  <2>1. <<n, m>> \in Nat \X Nat /\ <<n, m>>[1] = n /\ <<n, m>>[2] = m OBVIOUS
  <2> QED BY <1>3, <2>1
<1> QED BY <1>4

\* The heart of ReferencesFirst: an I- or P-frame v that is no newer than one of the
\* m frames that the loop lets go has arrived.  The least of these m frames that is
\* not older than v left for one of four reasons, and each of them tells of an arrived
\* I- or P-frame behind v, or of a frame that left before and is not older than v.
LEMMA ReferenceArrived ==
  ASSUME NEW q \in Seq(RawFrame), NEW m \in 0..Len(q), NEW A, lastEnqueued \in Nat,
         \A k \in 1..m : Leaves(q, k),
         \A k \in DOMAIN q : q[k].dts \in A,
         \A j, k \in DOMAIN q : j < k => q[j].dts < q[k].dts,
         \A k \in DOMAIN q : ~ q[k].isB => \E w \in video : w.dts = q[k].dts,
         lastEnqueued = NoFrame =>
           \A k \in DOMAIN q : q[k].isB => \E w \in video, h \in DOMAIN q : w.dts = q[h].dts,
         NEW v \in video, v.dts \in Nat,
         \A w \in video : v.dts < w.dts /\ w.dts \in A => v.dts \in A,
         v.dts <= lastEnqueued => v.dts \in A,
         NEW l \in 1..m, v.dts <= q[l].dts
  PROVE  v.dts \in A
<1>1. Len(q) \in Nat /\ DOMAIN q = 1..Len(q) BY LenProperties
<1>2. \A k \in 1..Len(q) : q[k] \in RawFrame /\ q[k].dts \in Nat /\ q[k].dts >= 1
  <2>1. \A k \in 1..Len(q) : q[k] \in RawFrame BY ElementOfSeq
  <2> QED BY <2>1 DEF RawFrame, Timestamp
<1>3. PICK i \in 1..m : v.dts <= q[i].dts /\ \A h \in 1..m : v.dts <= q[h].dts => i <= h
  <2> DEFINE T == {h \in 1..m : v.dts <= q[h].dts}
  <2>1. T \subseteq Nat /\ T # {} BY <1>1
  <2>2. \E n \in T : \A h \in T : n <= h
    <3> HIDE DEF T
    <3> QED BY <2>1, LeastNumber
  <2> QED BY <2>2
<1>4. i \in DOMAIN q /\ i \in Nat /\ i >= 1 /\ i <= Len(q) BY <1>1
<1>5. CASE v.dts = q[i].dts BY <1>4, <1>5
<1>6. CASE v.dts < q[i].dts
  <2>1. CASE ~ q[i].isB
    <3>1. PICK w \in video : w.dts = q[i].dts BY <1>4, <2>1
    <3> QED BY <1>4, <1>6, <3>1
  <2>2. CASE q[i].isB /\ Previous(q, i) = NoFrame
    <3>1. i = 1 /\ lastEnqueued = NoFrame
      <4>1. i # 1 => q[i - 1].dts >= 1 BY <1>2, <1>4
      <4> QED BY <2>2, <4>1 DEF Previous, NoFrame
    <3>2. PICK w \in video, h \in DOMAIN q : w.dts = q[h].dts BY <1>4, <2>2, <3>1
    <3>3. q[i].dts <= q[h].dts
      <4>1. h = i \/ i < h BY <1>1, <3>1
      <4> QED BY <1>1, <1>2, <1>4, <4>1
    <3>4. v.dts < w.dts /\ w.dts \in A BY <1>1, <1>2, <1>4, <1>6, <3>2, <3>3
    <3> QED BY <3>4
  <2>3. CASE q[i].dts = Previous(q, i) + 1
    <3>1. CASE i = 1
      <4>1. v.dts <= lastEnqueued BY <1>6, <2>3, <3>1 DEF Previous
      <4> QED BY <4>1
    <3>2. CASE i # 1
      <4>1. i - 1 \in 1..m /\ i - 1 \in 1..Len(q) BY <1>1, <1>4, <3>2
      <4>2. v.dts <= q[i - 1].dts
        <5>1. q[i].dts = q[i - 1].dts + 1 BY <2>3, <3>2 DEF Previous
        <5>2. q[i - 1].dts \in Nat BY <1>2, <4>1
        <5> QED BY <1>6, <5>1, <5>2
      <4>3. i <= i - 1 BY <1>3, <4>1, <4>2
      <4> QED BY <1>4, <4>3
    <3> QED BY <3>1, <3>2
  <2>4. CASE \E j \in (i + 1)..Len(q) : ~ q[j].isB
    <3>1. PICK j \in (i + 1)..Len(q) : ~ q[j].isB BY <2>4
    <3>2. j \in DOMAIN q /\ i < j BY <1>1, <1>4
    <3>3. PICK w \in video : w.dts = q[j].dts BY <3>1, <3>2
    <3>4. q[i].dts < q[j].dts /\ q[i].dts \in Nat /\ q[j].dts \in Nat /\ q[j].dts \in A
      BY <1>1, <1>2, <1>4, <3>2
    <3> QED BY <1>6, <3>3, <3>4
  <2>5. Leaves(q, i) OBVIOUS
  <2> QED BY <2>1, <2>2, <2>3, <2>4, <2>5 DEF Leaves
<1> QED BY <1>2, <1>3, <1>4, <1>5, <1>6

\* What is known of a frame that arrives, from the track that it came from.
FrameKnown(f) ==
  /\ f.dts \notin arrived /\ f.dts <= clock /\ videoFrom # NoGroup
  /\ IF f.isB THEN \A v \in video : v.dts # f.dts
              ELSE \E v \in video : Served(v) /\ v.dts = f.dts
  /\ inOrder' =>
       /\ inOrder
       /\ ~ f.isB => \A w \in video : Served(w) /\ w.dts < f.dts => w.dts \in arrived
  /\ startedBlind \/ StartsBlind => startedBlind'

\* The two exceptions of NoFrameAhead and ReferencesFirst.
Regular == inOrder /\ ~ startedBlind

\* What holds of the frames that arrived, with one more.
LEMMA OneMoreArrived ==
  ASSUME ReferencesInv, PipelineInv, NEW f \in RawFrame, FrameKnown(f),
         arrived' = arrived \cup {f.dts}
  PROVE  /\ \A d \in arrived' : d <= clock
         /\ \A v \in video : v.dts \in arrived' => Served(v)
         /\ Regular' =>
              \A v \in video : Served(v) =>
                /\ \A w \in video : v.dts < w.dts /\ w.dts \in arrived' => v.dts \in arrived'
                /\ v.dts <= lastEnqueued => v.dts \in arrived
                /\ v.dts \in arrived => Buffered(v.dts) \/ Enqueued(v.dts)
         /\ ~ f.isB => \E v \in video : Served(v) /\ v.dts = f.dts
<1>1. TimesDistinct /\ ArrivedKnown /\ ReferencesComplete /\ StartedWithReference
  BY DEF ReferencesInv
<1>2. \A d \in arrived' : d <= clock BY <1>1 DEF ArrivedKnown, FrameKnown
<1>3. \A v \in video : v.dts = f.dts => Served(v)
  <2>1. CASE f.isB BY <2>1 DEF FrameKnown
  <2>2. CASE ~ f.isB
    <3>1. PICK w \in video : Served(w) /\ w.dts = f.dts BY <2>2 DEF FrameKnown
    <3>2. \A v \in video : v.dts = f.dts => v = w BY <1>1, <3>1 DEF TimesDistinct
    <3> QED BY <3>1, <3>2
  <2> QED BY <2>1, <2>2
<1>4. \A v \in video : v.dts \in arrived' => Served(v) BY <1>1, <1>3 DEF ArrivedKnown
<1>5. ASSUME Regular', NEW v \in video, Served(v)
      PROVE  /\ \A w \in video : v.dts < w.dts /\ w.dts \in arrived' => v.dts \in arrived'
             /\ v.dts <= lastEnqueued => v.dts \in arrived
             /\ v.dts \in arrived => Buffered(v.dts) \/ Enqueued(v.dts)
  <2>1. inOrder /\ inOrder' /\ ~ startedBlind BY <1>5 DEF FrameKnown, Regular
  <2>2. /\ \A w \in video : v.dts < w.dts /\ w.dts \in arrived => v.dts \in arrived
        /\ v.dts <= lastEnqueued => v.dts \in arrived
        /\ v.dts \in arrived => Buffered(v.dts) \/ Enqueued(v.dts)
    BY <1>1, <1>5, <2>1 DEF ReferencesComplete
  <2>3. ASSUME NEW w \in video, v.dts < w.dts, w.dts = f.dts PROVE v.dts \in arrived
    BY <1>5, <2>1, <2>3 DEF FrameKnown
  <2> QED BY <2>2, <2>3
<1>6. ~ f.isB => \E v \in video : Served(v) /\ v.dts = f.dts BY DEF FrameKnown
<1> QED BY <1>2, <1>4, <1>5, <1>6

\* A frame behind the last one enqueued is a B-frame, while references arrive in order.
LEMMA LateReferences ==
  ASSUME ReferencesInv, PipelineInv, PipelineInv', NEW f \in RawFrame, FrameKnown(f),
         arrived' = arrived \cup {f.dts}, TransformLate(f), status = "ok",
         UNCHANGED <<mapperVars, videoFrom>>
  PROVE  ReferencesInv'
<1>1. TimesDistinct /\ ArrivedKnown /\ ReferencesComplete /\ StartedWithReference
  BY DEF ReferencesInv
<1>2. UNCHANGED <<video, bFrames, clock, videoFrom, buffer, lastEnqueued, enqueued>>
  BY DEF mapperVars, TransformLate
<1>3. /\ \A d \in arrived' : d <= clock
      /\ \A v \in video : v.dts \in arrived' => Served(v)
      /\ Regular' =>
           \A v \in video : Served(v) =>
             /\ \A w \in video : v.dts < w.dts /\ w.dts \in arrived' => v.dts \in arrived'
             /\ v.dts <= lastEnqueued => v.dts \in arrived
             /\ v.dts \in arrived => Buffered(v.dts) \/ Enqueued(v.dts)
  BY OneMoreArrived
<1>4. Regular' => f.isB
  <2> SUFFICES ASSUME Regular', ~ f.isB PROVE FALSE
    OBVIOUS
  <2>1. PICK v \in video : Served(v) /\ v.dts = f.dts BY DEF FrameKnown
  <2>2. v.dts <= lastEnqueued
    <3>1. f.dts \in Nat /\ lastEnqueued \in Nat
      BY MapperAssumption DEF PipelineInv, ClientTypeOK, RawFrame, Timestamp
    <3> QED BY <2>1, <3>1 DEF TransformLate, Late
  <2> QED BY <1>3, <2>1, <2>2 DEF FrameKnown
<1>5. TimesDistinct' BY <1>1, <1>2 DEF TimesDistinct
<1>6. \A v \in video : Served(v)' <=> Served(v) BY <1>2 DEF Served
<1>7. \A d : Buffered(d)' <=> Buffered(d) BY <1>2 DEF Buffered
<1>8. \A d : Enqueued(d)' <=> Enqueued(d) BY <1>2 DEF Enqueued
<1>9. ArrivedKnown'
  <2>1. lastEnqueued' # NoFrame BY <1>2 DEF TransformLate, Late
  <2>2. videoFrom' # NoGroup BY <1>2 DEF FrameKnown
  <2>3. \A k \in DOMAIN buffer : ~ buffer[k].isB =>
          \E v \in video : Served(v) /\ v.dts = buffer[k].dts
    BY <1>1 DEF ArrivedKnown
  <2> QED BY <1>2, <1>3, <1>6, <2>1, <2>2, <2>3 DEF ArrivedKnown
<1>10. ReferencesComplete'
  <2>1. \A v \in video : Regular' /\ v.dts \in arrived' => v.dts \in arrived
    BY <1>4 DEF FrameKnown
  <2> QED BY <1>2, <1>3, <1>6, <1>7, <1>8, <2>1 DEF ReferencesComplete, Regular
<1>11. StartedWithReference' BY <1>1, <1>2 DEF StartedWithReference, FrameKnown
<1>12. NoFrameAhead' BY <1>4 DEF NoFrameAhead, TransformLate, Regular
<1> QED BY <1>5, <1>9, <1>10, <1>11, <1>12 DEF ReferencesInv

\* A frame that is sorted in, and the frames that the loop lets go then.
LEMMA AddReferences ==
  ASSUME ReferencesInv, PipelineInv, IInv, NEW f \in RawFrame, FrameKnown(f),
         arrived' = arrived \cup {f.dts}, TransformAdds(f), status = "ok",
         UNCHANGED <<mapperVars, videoFrom>>
  PROVE  ReferencesInv'
<1>1. TimesDistinct /\ ArrivedKnown /\ ReferencesComplete /\ StartedWithReference
  BY DEF ReferencesInv
<1>2. UNCHANGED <<video, bFrames, clock, videoFrom>> BY DEF mapperVars
<1>3. /\ \A d \in arrived' : d <= clock
      /\ \A v \in video : v.dts \in arrived' => Served(v)
      /\ Regular' =>
           \A v \in video : Served(v) =>
             /\ \A w \in video : v.dts < w.dts /\ w.dts \in arrived' => v.dts \in arrived'
             /\ v.dts <= lastEnqueued => v.dts \in arrived
             /\ v.dts \in arrived => Buffered(v.dts) \/ Enqueued(v.dts)
      /\ ~ f.isB => \E v \in video : Served(v) /\ v.dts = f.dts
  BY OneMoreArrived
<1>4. PICK q \in Seq(RawFrame) :
        /\ q # <<>> /\ Drain(q)
        /\ \A k \in DOMAIN q : q[k].dts \in arrived' /\ q[k].dts > lastEnqueued
        /\ \A j, k \in DOMAIN q : j < k => q[j].dts < q[k].dts
        /\ \A k \in DOMAIN q : q[k] = f \/ \E j \in DOMAIN buffer : q[k] = buffer[j]
        /\ \E k \in DOMAIN q : q[k] = f
        /\ \A j \in DOMAIN buffer : \E k \in DOMAIN q : q[k] = buffer[j]
  BY AddFacts DEF FrameKnown
<1>5. PICK m \in 0..Len(q) :
        /\ \A k \in 1..m : Leaves(q, k)
        /\ m < Len(q) => ~ Leaves(q, m + 1)
        /\ status' = status
        /\ lastEnqueued' = IF m = 0 THEN lastEnqueued ELSE q[m].dts
        /\ buffer' \in Seq(RawFrame) /\ DOMAIN buffer' = 1..(Len(q) - m)
        /\ Len(buffer') = Len(q) - m
        /\ \A k \in 1..(Len(q) - m) : buffer'[k] = q[m + k]
        /\ enqueued' \in Seq(RawFrame) /\ DOMAIN enqueued' = 1..(Len(enqueued) + m)
        /\ \A k \in 1..Len(enqueued) : enqueued'[k] = enqueued[k]
        /\ \A k \in 1..m : enqueued'[Len(enqueued) + k] = q[k]
  <2>1. arrived \subseteq arrived' /\ arrived' \subseteq Timestamp
    BY DEF PipelineInv, ClientTypeOK, RawFrame
  <2> QED BY <1>4, <2>1, DrainFacts
<1>6. /\ Len(q) \in Nat /\ DOMAIN q = 1..Len(q) /\ m \in Nat /\ m <= Len(q)
      /\ enqueued \in Seq(RawFrame) /\ lastEnqueued \in Nat /\ Len(enqueued) \in Nat
      /\ DOMAIN enqueued = 1..Len(enqueued)
  BY LenProperties, MapperAssumption DEF PipelineInv, ClientTypeOK
<1>7. \A k \in DOMAIN q : q[k].dts \in Nat /\ q[k].dts >= 1
  <2>1. \A k \in 1..Len(q) : q[k] \in RawFrame BY ElementOfSeq
  <2> QED BY <1>6, <2>1 DEF RawFrame, Timestamp
<1>8. \A v \in video : v.dts \in Nat BY DEF IInv, TypeOK, Timestamp
<1>9. \A k \in DOMAIN q : ~ q[k].isB => \E v \in video : Served(v) /\ v.dts = q[k].dts
  <2> SUFFICES ASSUME NEW k \in DOMAIN q, ~ q[k].isB
      PROVE \E v \in video : Served(v) /\ v.dts = q[k].dts
    OBVIOUS
  <2>1. CASE q[k] = f BY <1>3, <2>1
  <2>2. ASSUME NEW j \in DOMAIN buffer, q[k] = buffer[j]
        PROVE  \E v \in video : Served(v) /\ v.dts = q[k].dts
    BY <1>1, <2>2 DEF ArrivedKnown
  <2> QED BY <1>4, <2>1, <2>2
<1>10. ASSUME ~ startedBlind', lastEnqueued' # NoFrame PROVE \E v \in video : v.dts \in arrived'
  <2>1. ~ startedBlind /\ ~ StartsBlind BY <1>10 DEF FrameKnown
  <2>2. CASE lastEnqueued = NoFrame BY <1>10, <2>1, <2>2 DEF StartsBlind
  <2>3. CASE lastEnqueued # NoFrame BY <1>1, <2>1, <2>3 DEF StartedWithReference
  <2> QED BY <2>2, <2>3
<1>11. \A d : Buffered(d) => \E k \in DOMAIN q : q[k].dts = d BY <1>4 DEF Buffered
<1>12. lastEnqueued = NoFrame => \A d \in arrived' : \E k \in DOMAIN q : q[k].dts = d
  BY <1>1, <1>4, <1>11 DEF ArrivedKnown
<1>13. \A k \in DOMAIN q : Buffered(q[k].dts)' \/ Enqueued(q[k].dts)'
  <2> SUFFICES ASSUME NEW k \in DOMAIN q
      PROVE \/ \E j \in DOMAIN buffer' : buffer'[j].dts = q[k].dts
            \/ \E j \in DOMAIN enqueued' : enqueued'[j].dts = q[k].dts
    BY DEF Buffered, Enqueued
  <2>1. CASE k <= m
    <3>1. k \in 1..m /\ Len(enqueued) + k \in DOMAIN enqueued' BY <1>5, <1>6, <2>1
    <3> QED BY <1>5, <3>1
  <2>2. CASE ~ (k <= m)
    <3>1. k - m \in 1..(Len(q) - m) /\ m + (k - m) = k BY <1>6, <2>2
    <3>2. k - m \in DOMAIN buffer' /\ buffer'[k - m] = q[m + (k - m)] BY <1>5, <3>1
    <3> QED BY <3>1, <3>2
  <2> QED BY <2>1, <2>2
<1>14. \A d : Enqueued(d) => Enqueued(d)'
  <2>1. \A k \in DOMAIN enqueued : k \in DOMAIN enqueued' /\ enqueued'[k] = enqueued[k]
    BY <1>5, <1>6
  <2> QED BY <2>1 DEF Enqueued
<1>15. Regular' => \A v \in video : Served(v) /\ v.dts <= lastEnqueued' => v.dts \in arrived'
  <2> SUFFICES ASSUME Regular', NEW v \in video, Served(v), v.dts <= lastEnqueued'
      PROVE v.dts \in arrived'
    OBVIOUS
  <2>1. CASE m = 0 BY <1>3, <1>5, <2>1
  <2>2. CASE m # 0
    <3>1. m \in 1..m /\ v.dts <= q[m].dts BY <1>5, <1>6, <2>2
    <3>2. lastEnqueued = NoFrame =>
            \A k \in DOMAIN q : q[k].isB => \E w \in video, h \in DOMAIN q : w.dts = q[h].dts
      <4>1. q[m].dts >= 1 BY <1>6, <1>7, <2>2
      <4>2. lastEnqueued' # NoFrame BY <1>5, <2>2, <4>1 DEF NoFrame
      <4> QED BY <1>10, <1>12, <4>2 DEF Regular
    <3>3. \A k \in DOMAIN q : ~ q[k].isB => \E w \in video : w.dts = q[k].dts BY <1>9
    <3>4. /\ \A w \in video : v.dts < w.dts /\ w.dts \in arrived' => v.dts \in arrived'
          /\ v.dts <= lastEnqueued => v.dts \in arrived'
      BY <1>3
    <3> HIDE <1>3
    <3> QED BY <1>4, <1>5, <1>6, <1>8, <3>1, <3>2, <3>3, <3>4, ReferenceArrived
  <2> QED BY <2>1, <2>2
<1>16. TimesDistinct' BY <1>1, <1>2 DEF TimesDistinct
<1>17. \A v \in video : Served(v)' <=> Served(v) BY <1>2 DEF Served
<1>18. \A k \in DOMAIN buffer' : \E j \in DOMAIN q : j = m + k /\ buffer'[k] = q[j]
  BY <1>5, <1>6
<1>19. ArrivedKnown'
  <2>1. videoFrom' # NoGroup BY <1>2 DEF FrameKnown
  <2>2. \A k \in DOMAIN buffer' : ~ buffer'[k].isB =>
          \E v \in video : Served(v) /\ v.dts = buffer'[k].dts
    BY <1>9, <1>18
  <2>3. ASSUME lastEnqueued' = NoFrame, NEW d \in arrived' PROVE Buffered(d)'
    <3>1. m = 0 /\ lastEnqueued = NoFrame
      <4>1. m # 0 => q[m].dts >= 1 BY <1>6, <1>7
      <4> QED BY <1>5, <2>3, <4>1 DEF NoFrame
    <3>2. PICK k \in DOMAIN q : q[k].dts = d BY <1>12, <3>1
    <3>3. k \in DOMAIN buffer' /\ buffer'[k] = q[k] BY <1>5, <1>6, <3>1
    <3> QED BY <3>2, <3>3 DEF Buffered
  <2> QED BY <1>2, <1>3, <1>17, <2>1, <2>2, <2>3 DEF ArrivedKnown
<1>20. ReferencesComplete'
  <2>1. \A v \in video : Regular' /\ Served(v) /\ v.dts \in arrived' =>
          Buffered(v.dts)' \/ Enqueued(v.dts)'
    <3> SUFFICES ASSUME Regular', NEW v \in video, Served(v), v.dts \in arrived'
        PROVE Buffered(v.dts)' \/ Enqueued(v.dts)'
      OBVIOUS
    <3>1. CASE v.dts = f.dts BY <1>4, <1>13, <3>1
    <3>2. CASE v.dts \in arrived
      <4>1. Buffered(v.dts) \/ Enqueued(v.dts) BY <1>3, <3>2
      <4>2. CASE Buffered(v.dts)
        <5>1. PICK k \in DOMAIN q : q[k].dts = v.dts BY <1>11, <4>2
        <5> QED BY <1>13, <5>1
      <4> QED BY <1>14, <4>1, <4>2
    <3> QED BY <3>1, <3>2
  <2> QED BY <1>2, <1>3, <1>15, <1>17, <2>1 DEF ReferencesComplete, Regular
<1>21. StartedWithReference' BY <1>2, <1>10 DEF StartedWithReference
<1>22. NoFrameAhead' BY <1>5 DEF NoFrameAhead
<1> QED BY <1>16, <1>19, <1>20, <1>21, <1>22 DEF ReferencesInv

-----------------------------------------------------------------------------
\* The invariants of the mapping and of the client together.
PipelineIInv == IInv /\ PipelineInv

\* The pipeline starts in its invariant.
LEMMA PipelineStart == PipelineInit => PipelineIInv
<1> SUFFICES ASSUME PipelineInit PROVE PipelineIInv
  OBVIOUS
<1>1. IInv BY InitInv DEF PipelineInit
<1>2. /\ buffer = <<>> /\ enqueued = <<>> /\ arrived = {} /\ lastEnqueued = 0 /\ status = "ok"
      /\ videoFrom = NoGroup /\ bFrom = NoGroup
  BY DEF PipelineInit, NoFrame
<1>3. ClientTypeOK BY <1>2, MapperAssumption DEF ClientTypeOK
<1>4. BufferSorted /\ LastIsNewest /\ SortedOutput /\ ReferenceNotHeld
  BY <1>2 DEF BufferSorted, LastIsNewest, SortedOutput, ReferenceNotHeld, NoFrame
<1> QED BY <1>1, <1>3, <1>4 DEF PipelineIInv, PipelineInv

\* No step of a client touches the mapping.
LEMMA MapperSteps == [PipelineNext]_vars => [Next]_mapperVars
BY DEF PipelineNext, Mapper, Subscribe, SubscribeVideo, SubscribeBFrames, VideoArrives,
       BFrameArrives, Arrives, vars

\* Whatever the client and the network do, the mapping in the pipeline is the one that
\* Invariance, PrioritiesCorrect, VideoFirst and GroupsAgree are about.
THEOREM MapperInPipeline == PipelineSpec => Spec
<1>1. PipelineInit => Init BY DEF PipelineInit
<1> QED BY <1>1, MapperSteps, PTL DEF PipelineSpec, Spec

\* Every step of the system, with a network that may reorder everything.
LEMMA PipelineStep == ASSUME PipelineIInv, [PipelineNext]_vars PROVE PipelineIInv'
<1> USE DEF PipelineIInv
<1>1. IInv' BY MapperSteps, NextInv
<1>2. ASSUME UNCHANGED <<arrived, buffer, lastEnqueued, enqueued, status>>,
             videoFrom' \in Nat \cup {NoGroup}, bFrom' \in Nat \cup {NoGroup}
      PROVE PipelineInv'
  <2>1. ClientTypeOK' BY <1>2 DEF PipelineInv, ClientTypeOK
  <2>2. BufferSorted' /\ LastIsNewest' BY <1>2 DEF PipelineInv, BufferSorted, LastIsNewest
  <2>3. SortedOutput' /\ ReferenceNotHeld'
    BY <1>2 DEF PipelineInv, SortedOutput, ReferenceNotHeld
  <2> QED BY <2>1, <2>2, <2>3 DEF PipelineInv
<1>3. videoFrom \in Nat \cup {NoGroup} /\ bFrom \in Nat \cup {NoGroup}
  BY DEF PipelineInv, ClientTypeOK
<1>4. ASSUME Mapper \/ UNCHANGED vars PROVE PipelineInv'
  <2>1. UNCHANGED clientVars BY <1>4 DEF Mapper, vars
  <2>2. /\ UNCHANGED <<arrived, buffer, lastEnqueued, enqueued, status>>
        /\ videoFrom' = videoFrom /\ bFrom' = bFrom
    BY <2>1 DEF clientVars
  <2>3. videoFrom' \in Nat \cup {NoGroup} /\ bFrom' \in Nat \cup {NoGroup}
    BY <1>3, <2>2
  <2> QED BY <1>2, <2>2, <2>3
<1>5. ASSUME NEW g \in 0..MaxFrames, SubscribeVideo(g) \/ SubscribeBFrames(g) PROVE PipelineInv'
  BY <1>2, <1>3, <1>5, MapperAssumption DEF SubscribeVideo, SubscribeBFrames
<1>6. ASSUME NEW v \in video, VideoArrives(v) PROVE PipelineInv'
  <2>1. v.dts \in Timestamp BY DEF IInv, TypeOK
  <2>2. [dts |-> v.dts, isB |-> FALSE] \in RawFrame BY <2>1 DEF RawFrame
  <2>3. Arrives([dts |-> v.dts, isB |-> FALSE]) BY <1>6 DEF VideoArrives
  <2> QED BY <2>2, <2>3, ArrivesInv
<1>7. ASSUME NEW b \in bFrames, BFrameArrives(b) PROVE PipelineInv'
  <2>1. b.dts \in Timestamp BY DEF IInv, TypeOK
  <2>2. [dts |-> b.dts, isB |-> TRUE] \in RawFrame BY <2>1 DEF RawFrame
  <2>3. Arrives([dts |-> b.dts, isB |-> TRUE]) BY <1>7 DEF BFrameArrives
  <2> QED BY <2>2, <2>3, ArrivesInv
<1>8. PipelineInv' BY <1>4, <1>5, <1>6, <1>7 DEF PipelineNext, Subscribe
<1> QED BY <1>1, <1>8

\* The invariant holds whatever the network does.
THEOREM PipelineInvariance == PipelineSpec => []PipelineInv
<1>1. PipelineIInv => PipelineInv BY DEF PipelineIInv
<1> QED BY <1>1, PipelineStart, PipelineStep, PTL DEF PipelineSpec

\* Frames leave the reorder buffer in decode order, each once, and ensureInOrder of
\* ReorderBuffer.ts never throws.
THEOREM OutputSorted == PipelineSpec => []SortedOutput
<1>1. PipelineInv => SortedOutput BY DEF PipelineInv
<1> QED BY <1>1, PipelineInvariance, PTL

\* An I- or P-frame never waits for more than the target size of the buffer.
THEOREM ReferencesNotHeld == PipelineSpec => []ReferenceNotHeld
<1>1. PipelineInv => ReferenceNotHeld BY DEF PipelineInv
<1> QED BY <1>1, PipelineInvariance, PTL
-----------------------------------------------------------------------------
(* NoFrameAhead and ReferencesFirst.                                       *)

ReferencesIInv == PipelineIInv /\ ReferencesInv

\* Nothing has been written or has arrived at first.
LEMMA ReferencesStart == PipelineInit => ReferencesIInv
<1> SUFFICES ASSUME PipelineInit PROVE ReferencesInv
  BY PipelineStart DEF ReferencesIInv
<1>1. /\ video = {} /\ buffer = <<>> /\ arrived = {} /\ status = "ok" /\ bFrom = NoGroup
      /\ lastEnqueued = NoFrame
  BY DEF PipelineInit, Init
<1> QED BY <1>1 DEF ReferencesInv, TimesDistinct, ArrivedKnown, ReferencesComplete,
                    StartedWithReference, NoFrameAhead

\* An iteration of the mapping writes one frame, with the next timestamp, or none.
LEMMA MapperGrowth ==
  ASSUME IInv, [Next]_mapperVars
  PROVE  \/ UNCHANGED <<video, bFrames, clock>>
         \/ /\ clock' = clock + 1 /\ bFrames' = bFrames
            /\ \E v : v.dts = clock + 1 /\ video' = video \cup {v}
         \/ /\ clock' = clock + 1 /\ video' = video
            /\ \E b : b.dts = clock + 1 /\ bFrames' = bFrames \cup {b}
<1>1. ASSUME NEW g, NEW i, WriteReference(g, i)
      PROVE  /\ clock' = clock + 1 /\ bFrames' = bFrames
             /\ \E v : v.dts = clock + 1 /\ video' = video \cup {v}
  <2> DEFINE v0 == [dts |-> clock + 1, group |-> g, idx |-> i]
  <2>1. v0.dts = clock + 1 /\ video' = video \cup {v0} BY <1>1 DEF WriteReference
  <2> QED BY <1>1, <2>1 DEF WriteReference
<1>2. CASE StreamKeyframe BY <1>1, <1>2 DEF StreamKeyframe
<1>3. CASE StreamP BY <1>1, <1>3 DEF StreamP
<1>4. CASE StreamB
  <2> DEFINE b0 == [dts |-> clock + 1, group |-> group_id, object |-> obj_id,
                    priority |-> Priority(b_group, b_frame_index)]
  <2>1. b0.dts = clock + 1 /\ bFrames' = bFrames \cup {b0} BY <1>4 DEF StreamB
  <2> QED BY <1>4, <2>1 DEF StreamB
<1>5. CASE StreamBFails BY <1>5 DEF StreamBFails
<1>6. CASE \E key \in BOOLEAN : GroupCounterOverflows(key) BY <1>6 DEF GroupCounterOverflows
<1>7. CASE UNCHANGED mapperVars BY <1>7 DEF mapperVars
<1> QED BY <1>2, <1>3, <1>4, <1>5, <1>6, <1>7 DEF Next

\* A frame that the mapping writes is newer than all that arrived.
LEMMA MapperReferences ==
  ASSUME ReferencesIInv, [Next]_mapperVars, UNCHANGED clientVars
  PROVE  ReferencesInv'
<1>1. IInv /\ PipelineInv /\ TimesDistinct /\ ArrivedKnown /\ ReferencesComplete
      /\ StartedWithReference /\ NoFrameAhead
  BY DEF ReferencesIInv, PipelineIInv, ReferencesInv
<1>2. UNCHANGED <<videoFrom, bFrom, arrived, buffer, lastEnqueued, enqueued, status, inOrder,
                  startedBlind>>
  BY DEF clientVars
<1>3. /\ clock \in Nat /\ \A v \in video : v.dts \in Nat /\ v.dts >= 1 /\ v.dts <= clock
      /\ \A b \in bFrames : b.dts \in Nat /\ b.dts <= clock
  BY <1>1, MapperAssumption DEF IInv, TypeOK, Counting, Timestamp
<1>4. /\ lastEnqueued <= clock /\ lastEnqueued \in Nat
      /\ \A d \in arrived : d \in Nat /\ d >= 1 /\ d <= clock
  <2>1. lastEnqueued # NoFrame => lastEnqueued <= clock
    BY <1>1 DEF PipelineInv, LastIsNewest, ArrivedKnown
  <2>2. lastEnqueued \in Nat /\ \A d \in arrived : d \in Nat /\ d >= 1
    BY <1>1, MapperAssumption DEF PipelineInv, ClientTypeOK, Timestamp
  <2> QED BY <1>1, <1>3, <2>1, <2>2 DEF NoFrame, ArrivedKnown
<1>5. /\ clock' \in {clock, clock + 1}
      /\ video \subseteq video' /\ \A v \in video' : v \in video \/ v.dts = clock + 1
  BY <1>1, MapperGrowth
<1>6. \A v \in video' : v.dts <= clock => v \in video BY <1>3, <1>5
<1>7. \A v \in video' : v.dts \in arrived => v \in video BY <1>4, <1>6
<1>8. TimesDistinct'
  <2>1. CASE UNCHANGED <<video, bFrames>> BY <1>1, <2>1 DEF TimesDistinct
  <2>2. ASSUME NEW v, v.dts = clock + 1, video' = video \cup {v}, bFrames' = bFrames
        PROVE  TimesDistinct'
    BY <1>1, <1>3, <2>2 DEF TimesDistinct
  <2>3. ASSUME NEW b, b.dts = clock + 1, bFrames' = bFrames \cup {b}, video' = video
        PROVE  TimesDistinct'
    BY <1>1, <1>3, <2>3 DEF TimesDistinct
  <2> QED BY <1>1, <2>1, <2>2, <2>3, MapperGrowth
<1>9. \A v : Served(v)' <=> Served(v) BY <1>2 DEF Served
<1>10. \A d : (Buffered(d)' <=> Buffered(d)) /\ (Enqueued(d)' <=> Enqueued(d))
  BY <1>2 DEF Buffered, Enqueued
<1>11. ArrivedKnown'
  <2>1. \A d \in arrived : d <= clock' BY <1>3, <1>4, <1>5
  <2> QED BY <1>1, <1>2, <1>5, <1>7, <1>9, <1>10, <2>1 DEF ArrivedKnown
<1>12. ReferencesComplete'
  <2> SUFFICES ASSUME Regular, NEW v \in video', Served(v)
      PROVE /\ \A w \in video' : v.dts < w.dts /\ w.dts \in arrived => v.dts \in arrived
            /\ v.dts <= lastEnqueued => v.dts \in arrived
            /\ v.dts \in arrived => Buffered(v.dts) \/ Enqueued(v.dts)
    BY <1>2, <1>9, <1>10 DEF ReferencesComplete, Regular
  <2>1. CASE v \in video
    BY <1>1, <1>7, <2>1 DEF ReferencesComplete, Regular
  <2>2. CASE v.dts = clock + 1
    <3>1. ~ (v.dts <= lastEnqueued) /\ v.dts \notin arrived BY <1>3, <1>4, <2>2
    <3>2. \A w \in video' : w.dts \in arrived => ~ (v.dts < w.dts) BY <1>3, <1>4, <2>2
    <3> QED BY <3>1, <3>2
  <2> QED BY <1>5, <2>1, <2>2
<1>13. StartedWithReference' BY <1>1, <1>2, <1>5 DEF StartedWithReference
<1>14. NoFrameAhead' BY <1>1, <1>2 DEF NoFrameAhead
<1> QED BY <1>8, <1>11, <1>12, <1>13, <1>14 DEF ReferencesInv

\* Nothing has arrived when the video track is subscribed to.
LEMMA SubscribeReferences ==
  ASSUME ReferencesIInv, NEW g \in 0..MaxFrames, SubscribeVideo(g) \/ SubscribeBFrames(g)
  PROVE  ReferencesInv'
<1>1. IInv /\ PipelineInv /\ TimesDistinct /\ ArrivedKnown /\ ReferencesComplete
      /\ StartedWithReference /\ NoFrameAhead
  BY DEF ReferencesIInv, PipelineIInv, ReferencesInv
<1>2. UNCHANGED <<video, bFrames, clock, arrived, buffer, lastEnqueued, enqueued, status,
                  inOrder, startedBlind>>
  BY DEF SubscribeVideo, SubscribeBFrames, mapperVars
<1>3. TimesDistinct' /\ StartedWithReference' /\ NoFrameAhead'
  BY <1>1, <1>2 DEF TimesDistinct, StartedWithReference, NoFrameAhead
<1>4. \A d : (Buffered(d)' <=> Buffered(d)) /\ (Enqueued(d)' <=> Enqueued(d))
  BY <1>2 DEF Buffered, Enqueued
<1>5. CASE SubscribeVideo(g)
  <2>1. videoFrom = NoGroup /\ arrived = {} /\ videoFrom' # NoGroup
    BY <1>1, <1>5, MapperAssumption DEF SubscribeVideo, ArrivedKnown, NoGroup
  <2>2. lastEnqueued = 0 /\ DOMAIN buffer = {}
    BY <1>1, <2>1 DEF PipelineInv, LastIsNewest, BufferSorted, NoFrame
  <2>3. \A v \in video : ~ (v.dts <= 0) BY <1>1 DEF IInv, TypeOK, Timestamp
  <2>4. ArrivedKnown' BY <1>2, <2>1, <2>2 DEF ArrivedKnown
  <2>5. ReferencesComplete' BY <1>2, <2>1, <2>2, <2>3 DEF ReferencesComplete
  <2> QED BY <1>3, <2>4, <2>5 DEF ReferencesInv
<1>6. CASE SubscribeBFrames(g)
  <2>1. videoFrom' = videoFrom BY <1>6 DEF SubscribeBFrames
  <2>2. \A v : Served(v)' <=> Served(v) BY <2>1 DEF Served
  <2>3. videoFrom' # NoGroup BY <1>6, <2>1 DEF SubscribeBFrames
  <2>4. ArrivedKnown' BY <1>1, <1>2, <1>4, <2>2, <2>3 DEF ArrivedKnown
  <2>5. ReferencesComplete' BY <1>1, <1>2, <1>4, <2>2 DEF ReferencesComplete
  <2> QED BY <1>3, <2>4, <2>5 DEF ReferencesInv
<1> QED BY <1>5, <1>6

\* A frame of either track arrives.
LEMMA ArrivesReferences ==
  ASSUME ReferencesIInv, NEW f \in RawFrame, FrameKnown(f), Arrives(f)
  PROVE  ReferencesInv'
<1>1. IInv /\ PipelineInv /\ ReferencesInv BY DEF ReferencesIInv, PipelineIInv
<1>2. PipelineInv' BY <1>1, ArrivesInv
<1>3. /\ arrived' = arrived \cup {f.dts} /\ status = "ok"
      /\ (TransformLate(f) \/ TransformAdds(f)) /\ UNCHANGED <<mapperVars, videoFrom>>
  BY DEF Arrives
<1>4. CASE TransformLate(f) BY <1>1, <1>2, <1>3, <1>4, LateReferences
<1>5. CASE TransformAdds(f) BY <1>1, <1>3, <1>5, AddReferences
<1> QED BY <1>3, <1>4, <1>5

\* Every step of the system.
LEMMA ReferencesStep == ASSUME ReferencesIInv, [PipelineNext]_vars PROVE ReferencesIInv'
<1>1. IInv /\ PipelineInv /\ ReferencesInv /\ PipelineIInv
  BY DEF ReferencesIInv, PipelineIInv
<1>2. PipelineIInv' BY <1>1, PipelineStep
<1> SUFFICES ReferencesInv'
  BY <1>2 DEF ReferencesIInv
<1>3. /\ \A v \in video : v.dts \in Timestamp /\ v.dts <= clock
      /\ \A b \in bFrames : b.dts \in Timestamp /\ b.dts <= clock
  BY <1>1 DEF IInv, TypeOK, Counting
<1>4. CASE Mapper \/ UNCHANGED vars
  <2>1. [Next]_mapperVars /\ UNCHANGED clientVars BY <1>4 DEF Mapper, vars
  <2> QED BY <2>1, MapperReferences
<1>5. CASE Subscribe BY <1>5, SubscribeReferences DEF Subscribe
<1>6. ASSUME NEW v \in video, VideoArrives(v) PROVE ReferencesInv'
  <2>1. PICK f \in RawFrame : f.dts = v.dts /\ f.isB = FALSE /\ Arrives(f)
    <3> DEFINE f0 == [dts |-> v.dts, isB |-> FALSE]
    <3>1. f0 \in RawFrame /\ f0.dts = v.dts /\ f0.isB = FALSE BY <1>3 DEF RawFrame
    <3>2. Arrives(f0) BY <1>6 DEF VideoArrives
    <3> HIDE DEF f0
    <3> QED BY <3>1, <3>2
  <2>2. FrameKnown(f)
    <3>1. f.dts \notin arrived /\ f.dts <= clock BY <1>3, <2>1 DEF Arrives
    <3>2. videoFrom # NoGroup /\ Served(v) BY <1>6 DEF VideoArrives, Served
    <3>3. inOrder' => inOrder /\ \A w \in video : Served(w) /\ w.dts < v.dts => w.dts \in arrived
      BY <1>6 DEF VideoArrives
    <3>4. startedBlind \/ StartsBlind => startedBlind' BY <2>1 DEF Arrives
    <3> QED BY <2>1, <3>1, <3>2, <3>3, <3>4 DEF FrameKnown
  <2> QED BY <2>1, <2>2, ArrivesReferences
<1>7. ASSUME NEW b \in bFrames, BFrameArrives(b) PROVE ReferencesInv'
  <2>1. PICK f \in RawFrame : f.dts = b.dts /\ f.isB = TRUE /\ Arrives(f)
    <3> DEFINE f0 == [dts |-> b.dts, isB |-> TRUE]
    <3>1. f0 \in RawFrame /\ f0.dts = b.dts /\ f0.isB = TRUE BY <1>3 DEF RawFrame
    <3>2. Arrives(f0) BY <1>7 DEF BFrameArrives
    <3> HIDE DEF f0
    <3> QED BY <3>1, <3>2
  <2>2. FrameKnown(f)
    <3>1. f.dts \notin arrived /\ f.dts <= clock BY <1>3, <2>1 DEF Arrives
    <3>2. \A v \in video : v.dts # f.dts BY <1>1, <2>1 DEF ReferencesInv, TimesDistinct
    <3>3. inOrder' => inOrder BY <1>7 DEF BFrameArrives
    <3>4. videoFrom # NoGroup BY <1>1, <1>7 DEF BFrameArrives, ReferencesInv, ArrivedKnown
    <3>5. startedBlind \/ StartsBlind => startedBlind' BY <2>1 DEF Arrives
    <3> QED BY <2>1, <3>1, <3>2, <3>3, <3>4, <3>5 DEF FrameKnown
  <2> QED BY <2>1, <2>2, ArrivesReferences
<1> QED BY <1>4, <1>5, <1>6, <1>7 DEF PipelineNext

\* The invariant about references holds whatever the network does.
THEOREM ReferencesInvariance == PipelineSpec => []ReferencesInv
<1>1. ReferencesIInv => ReferencesInv BY DEF ReferencesIInv
<1> QED BY <1>1, ReferencesStart, ReferencesStep, PTL DEF PipelineSpec

\* transform() throws "Enqueued a frame ahead of an I-, or P-frame" only if I- and
\* P-frames arrived out of order, or ReorderBuffer.ts:55 let the first frame go blindly.
THEOREM NoFrameAheadInOrder == PipelineSpec => []NoFrameAhead
<1>1. ReferencesInv => NoFrameAhead BY DEF ReferencesInv
<1> QED BY <1>1, ReferencesInvariance, PTL

\* With the same two exceptions, the decoder has had every served I- and P-frame in front
\* of a B-frame that it is fed.
THEOREM ReferencesComeFirst == PipelineSpec => []ReferencesFirst
<1>1. ASSUME IInv, PipelineInv, ReferencesInv PROVE ReferencesFirst
  <2>1. ClientTypeOK /\ BufferSorted /\ LastIsNewest /\ SortedOutput /\ ReferencesComplete
    BY <1>1 DEF PipelineInv, ReferencesInv
  <2> SUFFICES ASSUME NEW k \in DOMAIN enqueued, Regular, enqueued[k].isB,
                      NEW v \in video, Served(v), v.dts < enqueued[k].dts
      PROVE \E j \in 1..(k - 1) : enqueued[j].dts = v.dts
    BY DEF ReferencesFirst, Regular
  <2>2. /\ Len(enqueued) \in Nat /\ DOMAIN enqueued = 1..Len(enqueued)
        /\ \A j \in DOMAIN enqueued : enqueued[j].dts \in Nat
        /\ \A j \in DOMAIN buffer : buffer[j].dts \in Nat
        /\ v.dts \in Nat
    <3>1. enqueued \in Seq(RawFrame) /\ buffer \in Seq(RawFrame) BY <2>1 DEF ClientTypeOK
    <3>2. /\ \A j \in DOMAIN enqueued : enqueued[j] \in RawFrame
          /\ \A j \in DOMAIN buffer : buffer[j] \in RawFrame
      BY <3>1, ElementOfSeq, LenProperties
    <3>3. v.dts \in Nat BY <1>1 DEF IInv, TypeOK, Timestamp
    <3> QED BY <3>1, <3>2, <3>3, LenProperties DEF RawFrame, Timestamp
  <2>3. lastEnqueued \in Nat /\ enqueued[k].dts <= lastEnqueued
    BY <2>1, MapperAssumption DEF ClientTypeOK, LastIsNewest
  <2>4. CASE Buffered(v.dts)
    <3>1. PICK j \in DOMAIN buffer : buffer[j].dts = v.dts BY <2>4 DEF Buffered
    <3>2. buffer[j].dts > lastEnqueued BY <2>1 DEF BufferSorted
    <3> QED BY <2>2, <2>3, <3>1, <3>2
  <2>5. CASE Enqueued(v.dts)
    <3>1. PICK j \in DOMAIN enqueued : enqueued[j].dts = v.dts BY <2>5 DEF Enqueued
    <3>2. j < k
      <4>1. k < j => enqueued[k].dts < enqueued[j].dts BY <2>1 DEF SortedOutput
      <4> QED BY <2>2, <3>1, <4>1
    <3> QED BY <2>2, <3>1, <3>2
  <2>6. Buffered(v.dts) \/ Enqueued(v.dts)
    <3>1. v.dts <= lastEnqueued => v.dts \in arrived BY <2>1 DEF ReferencesComplete, Regular
    <3>2. CASE v.dts <= lastEnqueued BY <2>1, <3>1, <3>2 DEF ReferencesComplete, Regular
    <3>3. CASE ~ (v.dts <= lastEnqueued) BY <2>2, <2>3, <3>3
    <3> QED BY <3>2, <3>3
  <2> QED BY <2>4, <2>5, <2>6
<1>2. ReferencesIInv => ReferencesFirst BY <1>1 DEF ReferencesIInv, PipelineIInv
<1> QED BY <1>2, ReferencesStart, ReferencesStep, PTL DEF PipelineSpec
=============================================================================
