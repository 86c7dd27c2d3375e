---------------------------- MODULE OriginProofs ----------------------------
(***************************************************************************)
(* Proofs about Origin, for all sets of sessions and namespaces and inputs *)
(* of every length: a client can decode what it gets, whatever groups it     *)
(* misses.                                                                 *)
(***************************************************************************)
EXTENDS Origin, SequenceTheorems, TLAPS

(* Sequences.                                                              *)

\* A sequence over a set is one over every larger set.
LEMMA SeqWidened ==
  ASSUME NEW S, NEW T, S \subseteq T, NEW s \in Seq(S)
  PROVE  s \in Seq(T)
OBVIOUS

\* The same for sequences of sequences.
LEMMA SeqSeqWidened ==
  ASSUME NEW S, NEW T, S \subseteq T, NEW s \in Seq(Seq(S))
  PROVE  s \in Seq(Seq(T))
<1>1. Seq(S) \subseteq Seq(T) BY SeqWidened
<1> QED BY <1>1, SeqWidened

\* The last element of a sequence that one was appended to.
LEMMA AppendEnd ==
  ASSUME NEW T, NEW s \in Seq(T), NEW e \in T
  PROVE  Append(s, e) # <<>> /\ Append(s, e)[Len(Append(s, e))] = e
BY AppendProperties

\* write() on the writer of the latest group.
LEMMA WrittenFacts ==
  ASSUME NEW T, NEW gs \in Seq(Seq(T)), gs # <<>>, NEW n \in T
  PROVE  /\ Written(gs, n) \in Seq(Seq(T)) /\ Len(Written(gs, n)) = Len(gs)
         /\ \A g \in 1..Len(gs) :
              Written(gs, n)[g] = IF g = Len(gs) THEN Append(gs[g], n) ELSE gs[g]
<1>1. Len(gs) \in 1..Len(gs) /\ DOMAIN gs = 1..Len(gs) BY LenProperties
<1>2. gs[Len(gs)] \in Seq(T) BY <1>1, ElementOfSeq
<1>3. Append(gs[Len(gs)], n) \in Seq(T) BY <1>2, AppendProperties
<1> DEFINE e == Append(gs[Len(gs)], n)
           l == Len(gs)
<1>4. Written(gs, n) = [gs EXCEPT ![l] = e] BY DEF Written
<1>5. l \in 1..Len(gs) /\ e \in Seq(T) BY <1>1, <1>3
<1>6. e = Append(gs[l], n) OBVIOUS
<1>7. l = Len(gs) OBVIOUS
<1> HIDE DEF e, l
<1>8. /\ [gs EXCEPT ![l] = e] \in Seq(Seq(T)) /\ Len([gs EXCEPT ![l] = e]) = Len(gs)
      /\ \A g \in 1..Len(gs) : [gs EXCEPT ![l] = e][g] = IF g = l THEN e ELSE gs[g]
  BY <1>5, ExceptSeq
<1> QED BY <1>4, <1>6, <1>7, <1>8

\* A new group, and the first object in it.
LEMMA WrittenToNext ==
  ASSUME NEW T, NEW gs \in Seq(Seq(T)), NEW n \in T
  PROVE  LET hs == Written(Append(gs, <<>>), n) IN
         /\ hs \in Seq(Seq(T)) /\ Len(hs) = Len(gs) + 1
         /\ \A g \in 1..Len(gs) : hs[g] = gs[g]
         /\ hs[Len(gs) + 1] = <<n>>
<1> DEFINE as == Append(gs, <<>>)
<1>1. <<>> \in Seq(T) OBVIOUS
<1>2. /\ as \in Seq(Seq(T)) /\ as # <<>> /\ Len(as) = Len(gs) + 1
      /\ \A g \in 1..Len(gs) : as[g] = gs[g]
      /\ as[Len(gs) + 1] = <<>>
  BY <1>1, AppendProperties
<1>3. Len(gs) \in Nat BY LenProperties
<1> HIDE DEF as
<1>4. /\ Written(as, n) \in Seq(Seq(T)) /\ Len(Written(as, n)) = Len(as)
      /\ \A g \in 1..Len(as) :
           Written(as, n)[g] = IF g = Len(as) THEN Append(as[g], n) ELSE as[g]
  BY <1>2, WrittenFacts
<1>5. Written(as, n)[Len(gs) + 1] = <<n>>
  <2>1. Append(<<>>, n) = <<n>>
    <3>1. /\ Append(<<>>, n) \in Seq(T) /\ Len(Append(<<>>, n)) = 1
          /\ Append(<<>>, n)[1] = n
      <4>1. <<>> \in Seq(T) /\ Len(<<>>) = 0 BY EmptySeq
      <4> QED BY <4>1, AppendProperties
    <3>2. <<n>> \in Seq(T) /\ Len(<<n>>) = 1 /\ <<n>>[1] = n OBVIOUS
    <3> QED BY <3>1, <3>2, SeqEqual
  <2>2. Len(gs) + 1 \in 1..Len(as) /\ Len(gs) + 1 = Len(as) BY <1>2, <1>3
  <2>3. Written(as, n)[Len(gs) + 1] = Append(as[Len(gs) + 1], n) BY <1>4, <2>2
  <2> QED BY <1>2, <2>1, <2>3
<1>6. \A g \in 1..Len(gs) : Written(as, n)[g] = gs[g]
  <2>1. \A g \in 1..Len(gs) : g \in 1..Len(as) /\ g # Len(as) BY <1>2, <1>3
  <2> QED BY <1>2, <1>4, <2>1
<1>7. Written(as, n) \in Seq(Seq(T)) /\ Len(Written(as, n)) = Len(gs) + 1 BY <1>2, <1>4
<1> QED BY <1>5, <1>6, <1>7 DEF as

-----------------------------------------------------------------------------
(* The groups of the video track.                                          *)

\* What VideoGroups says of group number g.
Follows(its, group, g) ==
  \A k \in DOMAIN group :
    /\ its[group[k]] # "init"
    /\ k > 1 => /\ group[k - 1] < group[k]
                /\ \A n \in (group[k - 1] + 1)..(group[k] - 1) : its[n] = "init"
    /\ k = 1 /\ g > 1 => its[group[k]] = "key"
    /\ k = 1 /\ g = 1 => \A n \in 1..(group[k] - 1) : its[n] = "init"

\* What LatestComplete says of the latest group, number g.
EndsLast(its, group, g) ==
  IF group = <<>> THEN g = 1 /\ \A n \in DOMAIN its : its[n] = "init"
                  ELSE \A n \in (group[Len(group)] + 1)..Len(its) : its[n] = "init"

\* One more item, and the group stays as it is.
LEMMA FollowsKept ==
  ASSUME NEW its \in Seq(Kinds), NEW kind \in Kinds, NEW g \in Nat,
         NEW group \in Seq(DOMAIN its), Follows(its, group, g)
  PROVE  Follows(Append(its, kind), group, g)
<1>1. /\ Len(its) \in Nat /\ DOMAIN its = 1..Len(its)
      /\ Len(group) \in Nat /\ DOMAIN group = 1..Len(group)
  BY LenProperties
<1>2. \A n \in 1..Len(its) : Append(its, kind)[n] = its[n] BY AppendProperties
<1>3. \A k \in DOMAIN group : group[k] \in 1..Len(its) BY <1>1, ElementOfSeq
<1> SUFFICES ASSUME NEW k \in DOMAIN group
    PROVE /\ Append(its, kind)[group[k]] # "init"
          /\ k > 1 => /\ group[k - 1] < group[k]
                      /\ \A n \in (group[k - 1] + 1)..(group[k] - 1) :
                           Append(its, kind)[n] = "init"
          /\ k = 1 /\ g > 1 => Append(its, kind)[group[k]] = "key"
          /\ k = 1 /\ g = 1 => \A n \in 1..(group[k] - 1) : Append(its, kind)[n] = "init"
  BY DEF Follows
<1>4. group[k] \in 1..Len(its) /\ Append(its, kind)[group[k]] = its[group[k]]
  BY <1>2, <1>3
<1>5. ASSUME k > 1
      PROVE  \A n \in (group[k - 1] + 1)..(group[k] - 1) : Append(its, kind)[n] = its[n]
  <2>1. k - 1 \in DOMAIN group BY <1>1, <1>5
  <2>2. group[k - 1] \in 1..Len(its) BY <1>3, <2>1
  <2>3. \A n \in (group[k - 1] + 1)..(group[k] - 1) : n \in 1..Len(its)
    BY <1>1, <1>4, <2>2
  <2> QED BY <1>2, <2>3
<1>6. \A n \in 1..(group[k] - 1) : Append(its, kind)[n] = its[n]
  <2>1. \A n \in 1..(group[k] - 1) : n \in 1..Len(its) BY <1>1, <1>4
  <2> QED BY <1>2, <2>1
<1> QED BY <1>4, <1>5, <1>6 DEF Follows

\* A frame that is no keyframe, at the end of the latest group.
LEMMA FollowsExtended ==
  ASSUME NEW its \in Seq(Kinds), NEW g \in Nat, NEW group \in Seq(DOMAIN its),
         Follows(its, group, g), EndsLast(its, group, g)
  PROVE  Follows(Append(its, "delta"), Append(group, Len(its) + 1), g)
<1> DEFINE jts == Append(its, "delta")
           hs == Append(group, Len(its) + 1)
<1>1. /\ Len(its) \in Nat /\ DOMAIN its = 1..Len(its)
      /\ Len(group) \in Nat /\ DOMAIN group = 1..Len(group)
  BY LenProperties
<1>2. (\A n \in 1..Len(its) : jts[n] = its[n]) /\ jts[Len(its) + 1] = "delta"
  BY AppendProperties DEF Kinds
<1>3. \A k \in DOMAIN group : group[k] \in 1..Len(its) BY <1>1, ElementOfSeq
<1>4. /\ DOMAIN hs = 1..(Len(group) + 1) /\ hs[Len(group) + 1] = Len(its) + 1
      /\ \A k \in 1..Len(group) : hs[k] = group[k]
  <2>1. group \in Seq(Nat) BY <1>1, SeqWidened
  <2>2. Len(its) + 1 \in Nat BY <1>1
  <2>3. /\ hs \in Seq(Nat) /\ Len(hs) = Len(group) + 1 /\ hs[Len(group) + 1] = Len(its) + 1
        /\ \A k \in 1..Len(group) : hs[k] = group[k]
    BY <2>1, <2>2, AppendProperties
  <2> QED BY <2>3, LenProperties
<1>5. Follows(jts, group, g) BY FollowsKept DEF Kinds
<1> HIDE DEF jts, hs
<1> SUFFICES ASSUME NEW k \in DOMAIN hs
    PROVE /\ jts[hs[k]] # "init"
          /\ k > 1 => /\ hs[k - 1] < hs[k]
                      /\ \A n \in (hs[k - 1] + 1)..(hs[k] - 1) : jts[n] = "init"
          /\ k = 1 /\ g > 1 => jts[hs[k]] = "key"
          /\ k = 1 /\ g = 1 => \A n \in 1..(hs[k] - 1) : jts[n] = "init"
  BY DEF Follows, jts, hs
<1>6. CASE k \in 1..Len(group)
  <2>1. k \in DOMAIN group /\ hs[k] = group[k] BY <1>1, <1>4, <1>6
  <2>2. k > 1 => hs[k - 1] = group[k - 1]
    <3>1. k > 1 => k - 1 \in 1..Len(group) BY <1>1, <1>6
    <3> QED BY <1>4, <3>1
  <2> QED BY <1>5, <2>1, <2>2 DEF Follows
<1>7. CASE k = Len(group) + 1
  <2>1. hs[k] = Len(its) + 1 /\ jts[hs[k]] = "delta" BY <1>2, <1>4, <1>7
  <2>2. CASE group = <<>>
    <3>1. k = 1 /\ g = 1 /\ \A n \in DOMAIN its : its[n] = "init"
      BY <1>7, <2>2 DEF EndsLast
    <3>2. \A n \in 1..(hs[k] - 1) : n \in 1..Len(its) BY <1>1, <2>1
    <3> QED BY <1>1, <1>2, <2>1, <3>1, <3>2
  <2>3. CASE group # <<>>
    <3>1. Len(group) \in 1..Len(group) /\ k > 1 /\ k - 1 = Len(group) BY <1>1, <1>7, <2>3
    <3>2. hs[k - 1] = group[Len(group)] /\ hs[k - 1] \in 1..Len(its) BY <1>1, <1>3, <1>4, <3>1
    <3>3. \A n \in (hs[k - 1] + 1)..(hs[k] - 1) :
            n \in 1..Len(its) /\ n \in (group[Len(group)] + 1)..Len(its)
      BY <1>1, <2>1, <3>2
    <3>4. \A n \in (group[Len(group)] + 1)..Len(its) : its[n] = "init"
      BY <2>3 DEF EndsLast
    <3>5. \A n \in (hs[k - 1] + 1)..(hs[k] - 1) : jts[n] = "init" BY <1>2, <3>3, <3>4
    <3>6. hs[k - 1] < hs[k] BY <1>1, <2>1, <3>2
    <3> QED BY <2>1, <3>1, <3>5, <3>6
  <2> QED BY <2>2, <2>3
<1> QED BY <1>1, <1>4, <1>6, <1>7

\* An item that is no frame leaves the last frame the last one.
LEMMA EndsKept ==
  ASSUME NEW its \in Seq(Kinds), NEW g \in Nat, NEW group \in Seq(DOMAIN its),
         EndsLast(its, group, g)
  PROVE  EndsLast(Append(its, "init"), group, g)
<1> DEFINE jts == Append(its, "init")
<1>1. /\ Len(its) \in Nat /\ DOMAIN its = 1..Len(its)
      /\ Len(group) \in Nat /\ DOMAIN group = 1..Len(group)
  BY LenProperties
<1>2. /\ \A n \in 1..Len(its) : jts[n] = its[n]
      /\ jts[Len(its) + 1] = "init" /\ Len(jts) = Len(its) + 1
      /\ DOMAIN jts = 1..(Len(its) + 1)
  <2>1. "init" \in Kinds BY DEF Kinds
  <2>2. jts \in Seq(Kinds) /\ Len(jts) = Len(its) + 1 BY <2>1, AppendProperties
  <2> QED BY <2>1, <2>2, AppendProperties, LenProperties
<1> HIDE DEF jts
<1>3. CASE group = <<>>
  <2>1. g = 1 /\ \A n \in 1..Len(its) : its[n] = "init" BY <1>1, <1>3 DEF EndsLast
  <2>2. \A n \in DOMAIN jts : n \in 1..Len(its) \/ n = Len(its) + 1 BY <1>1, <1>2
  <2>3. \A n \in DOMAIN jts : jts[n] = "init" BY <1>2, <2>1, <2>2
  <2> QED BY <1>3, <2>1, <2>3 DEF EndsLast, jts
<1>4. CASE group # <<>>
  <2>1. group[Len(group)] \in 1..Len(its) BY <1>1, <1>4, ElementOfSeq
  <2>2. \A n \in (group[Len(group)] + 1)..Len(its) : its[n] = "init" BY <1>4 DEF EndsLast
  <2>3. \A n \in (group[Len(group)] + 1)..Len(jts) :
          \/ n \in (group[Len(group)] + 1)..Len(its) /\ n \in 1..Len(its)
          \/ n = Len(its) + 1
    BY <1>1, <1>2, <2>1
  <2>4. \A n \in (group[Len(group)] + 1)..Len(jts) : jts[n] = "init" BY <1>2, <2>2, <2>3
  <2> QED BY <1>4, <2>4 DEF EndsLast, jts
<1> QED BY <1>3, <1>4

-----------------------------------------------------------------------------
(* StreamPerTrack::stream.                                                 *)

\* Groups are only added to a track, and objects only to a group.
TrackGrows(t) ==
  /\ Len(groups[t]) <= Len(groups'[t])
  /\ \A g \in 1..Len(groups[t]) :
       /\ Len(groups[t][g]) <= Len(groups'[t][g])
       /\ \A k \in 1..Len(groups[t][g]) : groups'[t][g][k] = groups[t][g][k]

\* What an object added to the latest group leaves alone.
LEMMA WrittenGrows ==
  ASSUME NEW T, NEW gs \in Seq(Seq(T)), gs # <<>>, NEW n \in T, NEW g \in 1..Len(gs)
  PROVE  /\ Len(gs[g]) <= Len(Written(gs, n)[g])
         /\ \A k \in 1..Len(gs[g]) : Written(gs, n)[g][k] = gs[g][k]
<1>1. gs[g] \in Seq(T) /\ Len(gs[g]) \in Nat
  <2>1. gs[g] \in Seq(T) BY ElementOfSeq
  <2> QED BY <2>1, LenProperties
<1>2. CASE g = Len(gs)
  <2>1. Written(gs, n)[g] = Append(gs[g], n) BY <1>2, WrittenFacts
  <2>2. /\ Len(Append(gs[g], n)) = Len(gs[g]) + 1
        /\ \A k \in 1..Len(gs[g]) : Append(gs[g], n)[k] = gs[g][k]
    BY <1>1, AppendProperties
  <2> QED BY <1>1, <2>1, <2>2
<1>3. CASE g # Len(gs)
  <2>1. Written(gs, n)[g] = gs[g] BY <1>3, WrittenFacts
  <2> QED BY <1>1, <2>1
<1> QED BY <1>2, <1>3

\* Types and growth, for every kind of item.
LEMMA StreamTypes ==
  ASSUME IInv, NEW kind \in Kinds, Stream(kind)
  PROVE  TypeOK' /\ TracksOpened' /\ \A t \in Created : TrackGrows(t)
<1>1. TypeOK /\ TracksOpened BY DEF IInv
<1> DEFINE n == Len(items) + 1
           T == 1..(Len(items) + 1)
<1>2. /\ items' = Append(items, kind) /\ Len(items) < MaxItems
      /\ UNCHANGED <<task, at, sent>>
  BY DEF Stream, taskVars
<1>3. /\ items \in Seq(Kinds) /\ Len(items) \in Nat /\ DOMAIN items = 1..Len(items)
  BY <1>1, LenProperties DEF TypeOK
<1>4. items' \in Seq(Kinds) /\ Len(items') = Len(items) + 1 /\ DOMAIN items' = T
  <2>1. items' \in Seq(Kinds) /\ Len(items') = Len(items) + 1
    BY <1>2, <1>3, AppendProperties
  <2> QED BY <2>1, LenProperties
<1>5. n \in T /\ DOMAIN items \subseteq T BY <1>3
<1>6. /\ DOMAIN groups = Created /\ DOMAIN open = Created
      /\ \A t \in Created : /\ groups[t] \in Seq(Seq(T)) /\ groups[t] # <<>>
                            /\ Len(groups[t]) \in Nat /\ Len(groups[t]) >= 1
                            /\ open[t] \subseteq 1..Len(groups[t])
  <2>1. /\ DOMAIN groups = Created /\ DOMAIN open = Created
        /\ \A t \in Created : /\ groups[t] \in Seq(Seq(DOMAIN items)) /\ groups[t] # <<>>
                              /\ open[t] \subseteq DOMAIN groups[t]
    BY <1>1 DEF TypeOK, TracksOpened
  <2>2. \A t \in Created : groups[t] \in Seq(Seq(T)) BY <1>5, <2>1, SeqSeqWidened
  <2>3. \A t \in Created : Len(groups[t]) \in Nat /\ DOMAIN groups[t] = 1..Len(groups[t])
    BY <2>2, LenProperties
  <2>4. \A t \in Created : Len(groups[t]) >= 1 BY <2>1, <2>2, <2>3
  <2> QED BY <2>1, <2>2, <2>3, <2>4
<1>7. \A s \in Sessions, r \in Requests : sent[s][r] \in Seq(T)
  <2>1. \A s \in Sessions, r \in Requests : sent[s][r] \in Seq(DOMAIN items)
    BY <1>1 DEF TypeOK
  <2> QED BY <1>5, <2>1, SeqWidened
<1>8. "video" \in Created /\ "init" \in Created BY DEF Created
<1> HIDE DEF T, n
<1>9. ASSUME NEW t0 \in Created, groups' = [groups EXCEPT ![t0] = Written(@, n)], open' = open
      PROVE  TypeOK' /\ TracksOpened' /\ \A t \in Created : TrackGrows(t)
  <2>1. /\ DOMAIN groups' = Created
        /\ \A t \in Created : groups'[t] = IF t = t0 THEN Written(groups[t], n) ELSE groups[t]
    BY <1>6, <1>9
  <2>2. /\ Written(groups[t0], n) \in Seq(Seq(T))
        /\ Len(Written(groups[t0], n)) = Len(groups[t0])
    BY <1>5, <1>6, WrittenFacts
  <2>3. \A t \in Created : groups'[t] \in Seq(Seq(T)) /\ Len(groups'[t]) = Len(groups[t])
    BY <1>6, <2>1, <2>2
  <2>4. \A t \in Created : DOMAIN groups'[t] = 1..Len(groups[t]) /\ groups'[t] # <<>>
    <3> TAKE t \in Created
    <3>1. groups'[t] \in Seq(Seq(T)) /\ Len(groups'[t]) = Len(groups[t]) BY <2>3
    <3>2. DOMAIN groups'[t] = 1..Len(groups'[t]) BY <3>1, LenProperties
    <3> QED BY <1>6, <3>1, <3>2
  <2>5. TypeOK'
    <3>1. \A t \in Created : /\ groups'[t] \in Seq(Seq(DOMAIN items'))
                             /\ open'[t] \subseteq DOMAIN groups'[t]
      BY <1>4, <1>6, <1>9, <2>3, <2>4
    <3>2. Len(items') <= MaxItems BY <1>2, <1>3, <1>4, OriginAssumption
    <3> QED BY <1>1, <1>2, <1>4, <1>7, <2>1, <3>1, <3>2 DEF TypeOK
  <2>6. TracksOpened' BY <1>1, <1>2, <1>9, <2>4 DEF TracksOpened
  <2>7. ASSUME NEW t \in Created PROVE TrackGrows(t)
    <3>1. Len(groups[t]) <= Len(groups'[t]) BY <1>6, <2>3
    <3>2. CASE t = t0
      <4>1. groups'[t] = Written(groups[t], n) BY <2>1, <3>2
      <4> QED BY <1>5, <1>6, <3>1, <4>1, WrittenGrows DEF TrackGrows
    <3>3. CASE t # t0
      <4>1. groups'[t] = groups[t] BY <2>1, <3>3
      <4>2. \A g \in 1..Len(groups[t]) : Len(groups[t][g]) \in Nat
        <5> TAKE g \in 1..Len(groups[t])
        <5>1. groups[t][g] \in Seq(T) BY <1>6, ElementOfSeq
        <5> QED BY <5>1, LenProperties
      <4> QED BY <3>1, <4>1, <4>2 DEF TrackGrows
    <3> QED BY <3>2, <3>3
  <2> QED BY <2>5, <2>6, <2>7
<1>10. CASE StreamInit(n) BY <1>8, <1>9, <1>10 DEF StreamInit
<1>11. CASE StreamDelta(n) BY <1>8, <1>9, <1>11 DEF StreamDelta
<1>12. CASE StreamKeyframe(n)
  <2> DEFINE l == Len(groups["video"]) + 1
  <2>1. /\ groups' = [groups EXCEPT !["video"] = Written(Append(@, <<>>), n)]
        /\ open' = [open EXCEPT !["video"] = {l}]
    BY <1>12 DEF StreamKeyframe, Latest
  <2>2. /\ DOMAIN groups' = Created /\ DOMAIN open' = Created
        /\ groups'["video"] = Written(Append(groups["video"], <<>>), n)
        /\ open'["video"] = {l}
        /\ \A t \in Created : t # "video" => groups'[t] = groups[t] /\ open'[t] = open[t]
    BY <1>6, <1>8, <2>1
  <2>3. /\ groups'["video"] \in Seq(Seq(T)) /\ Len(groups'["video"]) = l
        /\ \A g \in 1..Len(groups["video"]) : groups'["video"][g] = groups["video"][g]
    <3>1. groups["video"] \in Seq(Seq(T)) /\ n \in T BY <1>5, <1>6, <1>8
    <3>2. /\ Written(Append(groups["video"], <<>>), n) \in Seq(Seq(T))
          /\ Len(Written(Append(groups["video"], <<>>), n)) = l
          /\ \A g \in 1..Len(groups["video"]) :
               Written(Append(groups["video"], <<>>), n)[g] = groups["video"][g]
      BY <3>1, WrittenToNext
    <3> QED BY <2>2, <3>2
  <2>4. \A t \in Created : /\ groups'[t] \in Seq(Seq(T)) /\ groups'[t] # <<>>
                           /\ open'[t] \subseteq 1..Len(groups'[t])
    <3> TAKE t \in Created
    <3>1. CASE t = "video"
      <4>1. l \in 1..l BY <1>6, <1>8
      <4> QED BY <1>6, <1>8, <2>2, <2>3, <3>1, <4>1
    <3>2. CASE t # "video" BY <1>6, <2>2, <3>2
    <3> QED BY <3>1, <3>2
  <2>5. \A t \in Created : DOMAIN groups'[t] = 1..Len(groups'[t]) BY <2>4, LenProperties
  <2>6. TypeOK'
    <3>1. \A t \in Created : /\ groups'[t] \in Seq(Seq(DOMAIN items'))
                             /\ open'[t] \subseteq DOMAIN groups'[t]
      BY <1>4, <2>4, <2>5
    <3>2. Len(items') <= MaxItems BY <1>2, <1>3, <1>4, OriginAssumption
    <3> QED BY <1>1, <1>2, <1>4, <1>7, <2>2, <3>1, <3>2 DEF TypeOK
  <2>7. TracksOpened' BY <1>1, <1>2, <2>2, <2>4 DEF TracksOpened
  <2>8. ASSUME NEW t \in Created PROVE TrackGrows(t)
    <3>1. \A g \in 1..Len(groups[t]) : Len(groups[t][g]) \in Nat
      <4> TAKE g \in 1..Len(groups[t])
      <4>1. groups[t][g] \in Seq(T) BY <1>6, ElementOfSeq
      <4> QED BY <4>1, LenProperties
    <3>2. \A g \in 1..Len(groups[t]) : groups'[t][g] = groups[t][g] BY <2>2, <2>3
    <3>3. Len(groups[t]) <= Len(groups'[t])
      <4>1. CASE t = "video" BY <1>6, <2>3, <4>1
      <4>2. CASE t # "video" BY <1>6, <2>2, <4>2
      <4> QED BY <4>1, <4>2
    <3> QED BY <3>1, <3>2, <3>3 DEF TrackGrows
  <2> QED BY <2>6, <2>7, <2>8
<1> QED BY <1>10, <1>11, <1>12 DEF Stream, n

\* The groups of the video track stay in order, whatever the item.
LEMMA StreamOrder ==
  ASSUME IInv, NEW kind \in Kinds, Stream(kind)
  PROVE  VideoGroups' /\ LatestComplete'
<1>1. TypeOK /\ TracksOpened /\ VideoGroups /\ LatestComplete BY DEF IInv
<1> DEFINE n == Len(items) + 1
           gs == groups["video"]
           hs == groups'["video"]
           l == Len(groups["video"])
           S == DOMAIN items
<1>2. items' = Append(items, kind) BY DEF Stream
<1>3. /\ items \in Seq(Kinds) /\ Len(items) \in Nat /\ DOMAIN items = 1..Len(items)
      /\ gs \in Seq(Seq(S)) /\ DOMAIN gs = 1..l /\ l \in Nat /\ l >= 1
  <2>1. "video" \in Created BY DEF Created
  <2>2. items \in Seq(Kinds) /\ gs \in Seq(Seq(S)) /\ gs # <<>>
    BY <1>1, <2>1 DEF TypeOK, TracksOpened
  <2>3. DOMAIN gs = 1..l /\ l \in Nat BY <2>2, LenProperties
  <2> QED BY <2>2, <2>3, LenProperties
<1>4. /\ \A g \in 1..l : Follows(items, gs[g], g)
      /\ EndsLast(items, gs[l], l)
  BY <1>1, <1>3 DEF VideoGroups, LatestComplete, Latest, Follows, EndsLast
<1>5. \A g \in 1..l : gs[g] \in Seq(S) /\ g \in Nat BY <1>3, ElementOfSeq
<1>6. \A g \in 1..l : Follows(items', gs[g], g) BY <1>2, <1>3, <1>4, <1>5, FollowsKept
<1>7. ASSUME DOMAIN hs = 1..Len(hs), \A g \in 1..Len(hs) : Follows(items', hs[g], g),
             EndsLast(items', hs[Len(hs)], Len(hs))
      PROVE  VideoGroups' /\ LatestComplete'
  BY <1>7 DEF VideoGroups, LatestComplete, Latest, Follows, EndsLast
<1>8. /\ Len(items') = n /\ items'[n] = kind
      /\ \A i \in 1..Len(items) : items'[i] = items[i]
  BY <1>2, <1>3, AppendProperties
<1>9. CASE kind = "init"
  <2>1. hs = gs
    <3>1. StreamInit(n) BY <1>9 DEF Stream
    <3>2. DOMAIN groups = Created /\ "video" \in Created /\ "video" # "init"
      BY <1>1 DEF TypeOK, Created
    <3> QED BY <3>1, <3>2 DEF StreamInit
  <2>2. EndsLast(items', gs[l], l) BY <1>2, <1>3, <1>4, <1>5, <1>9, EndsKept
  <2> QED BY <1>3, <1>6, <1>7, <2>1, <2>2
<1>10. CASE kind = "delta"
  <2>1. hs = Written(gs, n)
    <3>1. StreamDelta(n) BY <1>10 DEF Stream
    <3>2. DOMAIN groups = Created /\ "video" \in Created BY <1>1 DEF TypeOK, Created
    <3> QED BY <3>1, <3>2 DEF StreamDelta
  <2>2. gs \in Seq(Seq(1..n)) /\ n \in 1..n /\ gs # <<>>
    <3>1. S \subseteq 1..n /\ n \in 1..n BY <1>3
    <3> QED BY <1>3, <3>1, SeqSeqWidened
  <2> HIDE DEF n
  <2>3. /\ hs \in Seq(Seq(1..n)) /\ Len(hs) = l
        /\ \A g \in 1..l : hs[g] = IF g = l THEN Append(gs[g], n) ELSE gs[g]
    <3>1. /\ Written(gs, n) \in Seq(Seq(1..n)) /\ Len(Written(gs, n)) = Len(gs)
          /\ \A g \in 1..Len(gs) :
               Written(gs, n)[g] = IF g = Len(gs) THEN Append(gs[g], n) ELSE gs[g]
      BY <2>2, WrittenFacts
    <3> QED BY <2>1, <3>1
  <2>4. DOMAIN hs = 1..Len(hs) BY <2>3, LenProperties
  <2>5. Follows(items', Append(gs[l], n), l)
    <3>1. l \in 1..l /\ l \in Nat BY <1>3
    <3>2. gs[l] \in Seq(S) BY <1>5, <3>1
    <3>3. Follows(items, gs[l], l) /\ EndsLast(items, gs[l], l) BY <1>4, <3>1
    <3>4. Follows(Append(items, "delta"), Append(gs[l], Len(items) + 1), l)
      BY <1>3, <3>1, <3>2, <3>3, FollowsExtended
    <3> QED BY <1>2, <1>10, <3>4 DEF n
  <2>6. \A g \in 1..Len(hs) : Follows(items', hs[g], g) BY <1>6, <2>3, <2>5
  <2>7. EndsLast(items', hs[l], l)
    <3>1. hs[l] = Append(gs[l], n) /\ gs[l] \in Seq(1..n)
      <4>1. l \in 1..l BY <1>3
      <4>2. gs[l] \in Seq(1..n) BY <2>2, <4>1, ElementOfSeq
      <4> QED BY <2>3, <4>1, <4>2
    <3>2. /\ hs[l] # <<>> /\ hs[l][Len(hs[l])] = n
      <4>1. n \in 1..n /\ gs[l] \in Seq(1..n) BY <2>2, <3>1
      <4>2. Append(gs[l], n) # <<>> /\ Append(gs[l], n)[Len(Append(gs[l], n))] = n
        BY <4>1, AppendEnd
      <4> QED BY <3>1, <4>2
    <3>3. n \in Nat /\ (n + 1)..n = {} BY <1>3 DEF n
    <3> QED BY <1>8, <3>2, <3>3 DEF EndsLast
  <2> QED BY <1>7, <2>3, <2>4, <2>6, <2>7
<1>11. CASE kind = "key"
  <2>1. hs = Written(Append(gs, <<>>), n)
    <3>1. StreamKeyframe(n) BY <1>11 DEF Stream
    <3>2. DOMAIN groups = Created /\ "video" \in Created BY <1>1 DEF TypeOK, Created
    <3> QED BY <3>1, <3>2 DEF StreamKeyframe
  <2>2. gs \in Seq(Seq(1..n)) /\ n \in 1..n
    <3>1. S \subseteq 1..n /\ n \in 1..n BY <1>3
    <3> QED BY <1>3, <3>1, SeqSeqWidened
  <2>3. n \in Nat BY <1>3
  <2> HIDE DEF n
  <2>4. /\ hs \in Seq(Seq(1..n)) /\ Len(hs) = l + 1
        /\ \A g \in 1..l : hs[g] = gs[g]
        /\ hs[l + 1] = <<n>>
    <3>1. /\ Written(Append(gs, <<>>), n) \in Seq(Seq(1..n))
          /\ Len(Written(Append(gs, <<>>), n)) = l + 1
          /\ \A g \in 1..Len(gs) : Written(Append(gs, <<>>), n)[g] = gs[g]
          /\ Written(Append(gs, <<>>), n)[l + 1] = <<n>>
      BY <2>2, WrittenToNext
    <3> QED BY <2>1, <3>1
  <2>5. DOMAIN hs = 1..Len(hs) BY <2>4, LenProperties
  <2>6. Follows(items', hs[l + 1], l + 1)
    <3>1. DOMAIN hs[l + 1] = {1} /\ hs[l + 1][1] = n BY <2>4
    <3>2. items'[n] = "key" BY <1>8, <1>11
    <3> QED BY <1>3, <3>1, <3>2 DEF Follows
  <2>7. \A g \in 1..Len(hs) : Follows(items', hs[g], g)
    <3>1. \A g \in 1..Len(hs) : g \in 1..l \/ g = l + 1 BY <1>3, <2>4
    <3> QED BY <1>6, <2>4, <2>6, <3>1
  <2>8. EndsLast(items', hs[l + 1], l + 1)
    <3>1. hs[l + 1] # <<>> /\ hs[l + 1][Len(hs[l + 1])] = n BY <2>4
    <3>2. (n + 1)..n = {} BY <2>3
    <3> QED BY <1>8, <3>1, <3>2 DEF EndsLast
  <2> QED BY <1>7, <2>4, <2>5, <2>7, <2>8
<1> QED BY <1>9, <1>10, <1>11 DEF Kinds

\* What Decodable says of one sequence of frames.
Plays(its, out) ==
  \A k \in DOMAIN out :
    its[out[k]] = "delta" =>
      LET before == {n \in 1..(out[k] - 1) : its[n] # "init"} IN
      \/ \A n \in before : its[n] = "delta"
      \/ k > 1 /\ out[k - 1] \in before /\ \A n \in before : n <= out[k - 1]

\* One more item changes nothing about the frames that were sent.
LEMMA PlaysKept ==
  ASSUME NEW its \in Seq(Kinds), NEW kind \in Kinds, NEW out \in Seq(DOMAIN its),
         Plays(its, out)
  PROVE  Plays(Append(its, kind), out)
<1> DEFINE jts == Append(its, kind)
<1>1. /\ Len(its) \in Nat /\ DOMAIN its = 1..Len(its)
      /\ \A n \in 1..Len(its) : jts[n] = its[n]
  BY LenProperties, AppendProperties
<1>2. \A k \in DOMAIN out : out[k] \in 1..Len(its) BY <1>1, LenProperties, ElementOfSeq
<1> HIDE DEF jts
<1> SUFFICES ASSUME NEW k \in DOMAIN out, jts[out[k]] = "delta"
    PROVE LET before == {n \in 1..(out[k] - 1) : jts[n] # "init"} IN
          \/ \A n \in before : jts[n] = "delta"
          \/ k > 1 /\ out[k - 1] \in before /\ \A n \in before : n <= out[k - 1]
  BY DEF Plays, jts
<1>3. its[out[k]] = "delta" BY <1>1, <1>2
<1>4. \A n \in 1..(out[k] - 1) : jts[n] = its[n]
  <2>1. \A n \in 1..(out[k] - 1) : n \in 1..Len(its) BY <1>1, <1>2
  <2> QED BY <1>1, <2>1
<1>5. {n \in 1..(out[k] - 1) : jts[n] # "init"} = {n \in 1..(out[k] - 1) : its[n] # "init"}
  BY <1>4
<1> QED BY <1>3, <1>4, <1>5 DEF Plays

\* The next object of a group: the frame that was sent before it is the one it follows,
\* or it is the first of its group.
LEMMA PlaysOn ==
  ASSUME NEW its \in Seq(Kinds), NEW out \in Seq(DOMAIN its), Plays(its, out),
         NEW g \in Nat, g >= 1, NEW group \in Seq(DOMAIN its), Follows(its, group, g),
         NEW k \in 1..Len(group),
         k > 1 => out # <<>> /\ out[Len(out)] = group[k - 1]
  PROVE  Plays(its, Append(out, group[k]))
<1>1. /\ Len(its) \in Nat /\ DOMAIN its = 1..Len(its)
      /\ Len(group) \in Nat /\ DOMAIN group = 1..Len(group)
      /\ Len(out) \in Nat /\ DOMAIN out = 1..Len(out)
  BY LenProperties
<1>2. PICK f \in 1..Len(its) : f = group[k] BY <1>1, ElementOfSeq
<1> DEFINE new == Append(out, f)
<1>3. /\ new \in Seq(DOMAIN its) /\ new[Len(out) + 1] = f
      /\ \A j \in 1..Len(out) : new[j] = out[j]
      /\ DOMAIN new = 1..(Len(out) + 1)
  <2>1. new \in Seq(DOMAIN its) /\ Len(new) = Len(out) + 1 BY <1>1, AppendProperties
  <2> QED BY <1>1, <2>1, AppendProperties, LenProperties
<1> HIDE DEF new
<1> SUFFICES ASSUME NEW j \in DOMAIN new, its[new[j]] = "delta"
    PROVE LET before == {n \in 1..(new[j] - 1) : its[n] # "init"} IN
          \/ \A n \in before : its[n] = "delta"
          \/ j > 1 /\ new[j - 1] \in before /\ \A n \in before : n <= new[j - 1]
  BY <1>2 DEF Plays, new
<1>4. CASE j \in 1..Len(out)
  <2>1. j \in DOMAIN out /\ new[j] = out[j] BY <1>1, <1>3, <1>4
  <2>2. j > 1 => new[j - 1] = out[j - 1]
    <3>1. j > 1 => j - 1 \in 1..Len(out) BY <1>1, <1>4
    <3> QED BY <1>3, <3>1
  <2> QED BY <2>1, <2>2 DEF Plays
<1>5. CASE j = Len(out) + 1
  <2>1. new[j] = f /\ its[group[k]] = "delta" BY <1>2, <1>3, <1>5
  <2>2. k \in DOMAIN group BY <1>1
  <2>3. CASE k > 1
    <3>1. Len(out) \in 1..Len(out) /\ j > 1 /\ j - 1 = Len(out) BY <1>1, <1>5, <2>3
    <3>2. new[j - 1] = group[k - 1] BY <1>3, <2>3, <3>1
    <3>3. k - 1 \in DOMAIN group BY <1>1, <2>3
    <3>4. group[k - 1] \in 1..Len(its) BY <1>1, <3>3, ElementOfSeq
    <3>5. /\ group[k - 1] < group[k] /\ its[group[k - 1]] # "init"
          /\ \A n \in (group[k - 1] + 1)..(group[k] - 1) : its[n] = "init"
      BY <2>2, <2>3, <3>3 DEF Follows
    <3>6. group[k - 1] \in 1..(f - 1) BY <1>1, <1>2, <3>4, <3>5
    <3>7. ASSUME NEW n \in 1..(f - 1), its[n] # "init" PROVE n <= group[k - 1]
      <4>1. n \notin (group[k - 1] + 1)..(group[k] - 1) BY <3>5, <3>7
      <4> QED BY <1>1, <1>2, <3>4, <4>1
    <3> QED BY <2>1, <3>1, <3>2, <3>5, <3>6, <3>7
  <2>4. CASE ~ (k > 1)
    <3>1. k = 1 BY <1>1, <2>4
    <3>2. g = 1 BY <2>1, <2>2, <3>1 DEF Follows
    <3>3. \A n \in 1..(f - 1) : its[n] = "init" BY <1>2, <2>2, <3>1, <3>2 DEF Follows
    <3> QED BY <2>1, <3>3
  <2> QED BY <2>3, <2>4
<1> QED BY <1>1, <1>3, <1>4, <1>5

-----------------------------------------------------------------------------
(* The steps.                                                              *)

\* The server starts in the invariant.
LEMMA InitInv == Init => IInv
<1> SUFFICES ASSUME Init PROVE IInv
  OBVIOUS
<1>1. /\ items = <<>> /\ DOMAIN items = {} /\ Len(items) = 0
      /\ groups = [t \in Created |-> << <<>> >>] /\ open = [t \in Created |-> {1}]
  BY DEF Init
<1>2. /\ task = [s \in Sessions |-> [r \in Requests |-> "none"]]
      /\ at = [s \in Sessions |-> [r \in Requests |-> <<0, 0>>]]
      /\ sent = [s \in Sessions |-> [r \in Requests |-> <<>>]]
  BY DEF Init, Idle
<1>3. \A t \in Created : /\ groups[t] = << <<>> >> /\ DOMAIN groups[t] = {1}
                         /\ open[t] = {1} /\ groups[t] # <<>> /\ Latest(t) = 1
                         /\ groups[t] \in Seq(Seq(DOMAIN items))
  <2>1. \A t \in Created : groups[t] = << <<>> >> /\ open[t] = {1} BY <1>1
  <2>2. << <<>> >> \in Seq(Seq(DOMAIN items)) OBVIOUS
  <2> TAKE t \in Created
  <2>3. DOMAIN << <<>> >> = {1} /\ Len(<< <<>> >>) = 1 /\ << <<>> >> # <<>> OBVIOUS
  <2>4. groups[t] = << <<>> >> /\ open[t] = {1} BY <2>1
  <2>5. Latest(t) = 1 BY <2>3, <2>4 DEF Latest
  <2>6. groups[t] \in Seq(Seq(DOMAIN items)) BY <2>2, <2>4
  <2> QED BY <2>3, <2>4, <2>5, <2>6
<1>4. TypeOK
  <2>1. Len(items) <= MaxItems BY <1>1, OriginAssumption
  <2>2. items \in Seq(Kinds) BY <1>1
  <2>3. /\ task \in [Sessions -> [Requests -> {"none", "asked", "serving", "refused", "ended"}]]
        /\ at \in [Sessions -> [Requests -> Nat \X Nat]]
    BY <1>2
  <2>4. \A s \in Sessions, r \in Requests : sent[s][r] \in Seq(DOMAIN items) BY <1>2
  <2>5. DOMAIN groups = Created BY <1>1
  <2> QED BY <1>3, <2>1, <2>2, <2>3, <2>4, <2>5 DEF TypeOK
<1>5. TracksRouted BY <1>2 DEF TracksRouted
<1>6. TracksOpened
  <2>1. sent \in [Sessions -> [Requests -> Seq(Nat)]] BY <1>2
  <2> QED BY <1>1, <1>3, <2>1 DEF TracksOpened
<1>7. VideoGroups /\ LatestComplete
  <2>1. "video" \in Created BY DEF Created
  <2>2. groups["video"] = << <<>> >> /\ Latest("video") = 1 BY <1>3, <2>1
  <2>3. groups["video"][1] = <<>> /\ DOMAIN groups["video"] = {1} BY <2>2
  <2>4. VideoGroups BY <2>3 DEF VideoGroups
  <2>5. LatestComplete BY <1>1, <2>2, <2>3 DEF LatestComplete
  <2> QED BY <2>4, <2>5
<1>8. SentLast
  <2>1. \A s \in Sessions, r \in Requests : at[s][r][1] = 0 /\ at[s][r][2] = 0 BY <1>2
  <2> QED BY <2>1 DEF SentLast
<1>9. Decodable
  <2>1. \A s \in Sessions, ns \in Namespaces : sent[s][<<ns, "video">>] = <<>>
    BY <1>2 DEF Requests, Names, Created
  <2> QED BY <2>1 DEF Decodable
<1> QED BY <1>4, <1>5, <1>6, <1>7, <1>8, <1>9 DEF IInv

\* An item of the input.
LEMMA StreamInv ==
  ASSUME IInv, NEW kind \in Kinds, Stream(kind)
  PROVE  IInv'
<1>1. /\ TypeOK /\ TracksRouted /\ TracksOpened /\ SentLast /\ Decodable
      /\ items' = Append(items, kind) /\ UNCHANGED <<task, at, sent>>
  BY DEF IInv, Stream, taskVars
<1>2. TypeOK' /\ TracksOpened' /\ \A t \in Created : TrackGrows(t) BY StreamTypes
<1>3. VideoGroups' /\ LatestComplete' BY StreamOrder
<1>4. TracksRouted' BY <1>1 DEF TracksRouted
<1>5. SentLast'
  <2> SUFFICES ASSUME NEW s \in Sessions, NEW r \in Requests, at[s][r][1] # 0
      PROVE LET g == at[s][r][1]  k == at[s][r][2]  out == sent[s][r] IN
            /\ r[2] \in Created /\ g \in 1..Len(groups'[r[2]])
            /\ k \in 0..Len(groups'[r[2]][g])
            /\ k > 0 => out # <<>> /\ out[Len(out)] = groups'[r[2]][g][k]
    BY <1>1 DEF SentLast, Latest
  <2> DEFINE g == at[s][r][1]
             k == at[s][r][2]
             t == r[2]
  <2>1. /\ t \in Created /\ g \in 1..Len(groups[t]) /\ k \in 0..Len(groups[t][g])
        /\ k > 0 => sent[s][r] # <<>> /\ sent[s][r][Len(sent[s][r])] = groups[t][g][k]
    BY <1>1 DEF SentLast, Latest
  <2> HIDE DEF g, k, t
  <2>2. /\ groups[t] \in Seq(Seq(DOMAIN items))
        /\ groups'[t] \in Seq(Seq(DOMAIN items'))
    BY <1>1, <1>2, <2>1 DEF TypeOK
  <2>3. Len(groups[t]) \in Nat /\ Len(groups'[t]) \in Nat BY <2>2, LenProperties
  <2>4. g \in 1..Len(groups'[t]) BY <1>2, <2>1, <2>3 DEF TrackGrows
  <2>5. groups[t][g] \in Seq(DOMAIN items) /\ groups'[t][g] \in Seq(DOMAIN items')
    BY <2>1, <2>2, <2>4, ElementOfSeq
  <2>6. Len(groups[t][g]) \in Nat /\ Len(groups'[t][g]) \in Nat BY <2>5, LenProperties
  <2>7. /\ Len(groups[t][g]) <= Len(groups'[t][g])
        /\ \A j \in 1..Len(groups[t][g]) : groups'[t][g][j] = groups[t][g][j]
    BY <1>2, <2>1 DEF TrackGrows
  <2>8. k \in 0..Len(groups'[t][g]) BY <2>1, <2>6, <2>7
  <2>9. k > 0 => groups'[t][g][k] = groups[t][g][k] BY <2>1, <2>6, <2>7
  <2> QED BY <2>1, <2>4, <2>8, <2>9 DEF g, k, t
<1>6. Decodable'
  <2> SUFFICES ASSUME NEW s \in Sessions, NEW ns \in Namespaces
      PROVE Plays(items', sent[s][<<ns, "video">>])
    BY <1>1 DEF Decodable, Plays
  <2>1. Plays(items, sent[s][<<ns, "video">>]) BY <1>1 DEF Decodable, Plays
  <2>2. sent[s][<<ns, "video">>] \in Seq(DOMAIN items) /\ items \in Seq(Kinds)
    BY <1>1 DEF TypeOK, Requests, Names, Created
  <2> QED BY <1>1, <2>1, <2>2, PlaysKept
<1> QED BY <1>2, <1>3, <1>4, <1>5, <1>6 DEF IInv

\* A task changes what it does, and sends nothing.
LEMMA TaskInv ==
  ASSUME IInv, UNCHANGED <<trackVars, at, sent>>,
         task' \in [Sessions -> [Requests -> {"none", "asked", "serving", "refused", "ended"}]],
         \A s \in Sessions, r \in Requests :
           \/ task'[s][r] = task[s][r]
           \/ task'[s][r] \in {"asked", "ended"}
           \/ task'[s][r] = IF Routed(r) THEN "serving" ELSE "refused"
  PROVE  IInv'
<1>1. UNCHANGED <<items, groups, open, at, sent>> BY DEF trackVars
<1>2. TypeOK' BY <1>1 DEF IInv, TypeOK
<1>3. TracksRouted'
  <2>1. \A s \in Sessions, r \in Requests : task'[s][r] = "serving" => r[2] \in Created
    BY DEF IInv, TracksRouted, Routed
  <2> QED BY <1>1, <2>1 DEF IInv, TracksRouted
<1>4. TracksOpened' /\ VideoGroups' BY <1>1 DEF IInv, TracksOpened, VideoGroups
<1>5. LatestComplete' BY <1>1 DEF IInv, LatestComplete, Latest
<1>6. SentLast'
  <2>1. SentLast' <=> SentLast BY <1>1 DEF SentLast, Latest
  <2> QED BY <2>1 DEF IInv
<1>7. Decodable'
  <2>1. Decodable' <=> Decodable BY <1>1 DEF Decodable
  <2> QED BY <2>1 DEF IInv
<1> QED BY <1>2, <1>3, <1>4, <1>5, <1>6, <1>7 DEF IInv

\* A task turns to the latest group.
LEMMA NextGroupInv ==
  ASSUME IInv, NEW s \in Sessions, NEW r \in Requests, NextGroup(s, r)
  PROVE  IInv'
<1> DEFINE l == Latest(r[2])
<1>1. /\ task[s][r] = "serving" /\ at' = [at EXCEPT ![s][r] = <<l, 0>>]
      /\ UNCHANGED <<items, groups, open, task, sent>>
  BY DEF NextGroup, trackVars
<1>2. r[2] \in Created BY <1>1 DEF IInv, TracksRouted
<1>3. l \in Nat /\ l >= 1 /\ l \in 1..l
  <2>1. groups[r[2]] \in Seq(Seq(DOMAIN items)) /\ groups[r[2]] # <<>>
    BY <1>2 DEF IInv, TypeOK, TracksOpened
  <2>2. l \in Nat BY <2>1, LenProperties DEF Latest
  <2>3. l # 0 BY <2>1 DEF Latest
  <2> QED BY <2>2, <2>3
<1> HIDE DEF l
<1>4. /\ at \in [Sessions -> [Requests -> Nat \X Nat]]
      /\ at' \in [Sessions -> [Requests -> Nat \X Nat]]
  <2>1. at \in [Sessions -> [Requests -> Nat \X Nat]] BY DEF IInv, TypeOK
  <2>2. <<l, 0>> \in Nat \X Nat BY <1>3
  <2> QED BY <1>1, <2>1, <2>2
<1>5. /\ at'[s][r] = <<l, 0>>
      /\ \A u \in Sessions, q \in Requests : u # s \/ q # r => at'[u][q] = at[u][q]
  BY <1>1, <1>4
<1>6. TypeOK' BY <1>1, <1>4 DEF IInv, TypeOK
<1>7. SentLast'
  <2> SUFFICES ASSUME NEW u \in Sessions, NEW q \in Requests
      PROVE LET g == at'[u][q][1]  k == at'[u][q][2]  out == sent[u][q] IN
            IF g = 0 THEN k = 0
                     ELSE /\ q[2] \in Created /\ g \in 1..Latest(q[2])
                          /\ k \in 0..Len(groups[q[2]][g])
                          /\ k > 0 => out # <<>> /\ out[Len(out)] = groups[q[2]][g][k]
    BY <1>1 DEF SentLast, Latest
  <2>1. CASE u = s /\ q = r
    <3>1. at'[u][q][1] = l /\ at'[u][q][2] = 0 BY <1>5, <2>1
    <3>2. groups[q[2]][l] \in Seq(DOMAIN items)
      <4>1. groups[q[2]] \in Seq(Seq(DOMAIN items)) BY <1>2, <2>1 DEF IInv, TypeOK
      <4>2. l \in 1..Len(groups[q[2]]) BY <1>3, <2>1 DEF l, Latest
      <4> QED BY <4>1, <4>2, ElementOfSeq
    <3>3. 0 \in 0..Len(groups[q[2]][l])
      <4>1. Len(groups[q[2]][l]) \in Nat BY <3>2, LenProperties
      <4> QED BY <4>1
    <3>4. l \in 1..Latest(q[2]) BY <1>3, <2>1 DEF l
    <3> QED BY <1>2, <1>3, <2>1, <3>1, <3>3, <3>4
  <2>2. CASE u # s \/ q # r
    <3>1. at'[u][q] = at[u][q] BY <1>5, <2>2
    <3>2. SentLast BY DEF IInv
    <3> QED BY <3>1, <3>2 DEF SentLast
  <2> QED BY <2>1, <2>2
<1>8. TracksRouted' /\ TracksOpened'
  BY <1>1 DEF IInv, TracksRouted, TracksOpened
<1>9. UNCHANGED <<items, groups, sent>> BY <1>1
<1>10. VideoGroups' /\ LatestComplete' /\ Decodable'
  BY <1>9 DEF IInv, VideoGroups, LatestComplete, Latest, Decodable
<1> QED BY <1>6, <1>7, <1>8, <1>10 DEF IInv

\* A task sends the next object of its group.
LEMMA SendObjectInv ==
  ASSUME IInv, NEW s \in Sessions, NEW r \in Requests, SendObject(s, r)
  PROVE  IInv'
<1> DEFINE t == r[2]
           g == at[s][r][1]
           k == at[s][r][2] + 1
           S == DOMAIN items
<1>1. /\ task[s][r] = "serving" /\ g # 0 /\ k <= Len(groups[t][g])
      /\ at' = [at EXCEPT ![s][r][2] = k]
      /\ sent' = [sent EXCEPT ![s][r] = Append(@, groups[t][g][k])]
      /\ UNCHANGED <<items, groups, open, task>>
  BY DEF SendObject, trackVars
<1>2. /\ TypeOK /\ TracksRouted /\ TracksOpened /\ VideoGroups /\ LatestComplete /\ SentLast
      /\ Decodable
  BY DEF IInv
<1>3. /\ at \in [Sessions -> [Requests -> Nat \X Nat]]
      /\ sent \in [Sessions -> [Requests -> Seq(Nat)]]
      /\ sent[s][r] \in Seq(S) /\ items \in Seq(Kinds)
  BY <1>2 DEF TypeOK, TracksOpened
<1>4. /\ t \in Created /\ g \in 1..Len(groups[t]) /\ k - 1 \in 0..Len(groups[t][g])
      /\ k - 1 > 0 => /\ sent[s][r] # <<>>
                      /\ sent[s][r][Len(sent[s][r])] = groups[t][g][k - 1]
      /\ g \in Nat /\ k - 1 \in Nat /\ k \in Nat /\ k >= 1
  <2>1. at[s][r][1] \in Nat /\ at[s][r][2] \in Nat BY <1>3
  <2>2. k - 1 = at[s][r][2] BY <2>1
  <2>3. /\ t \in Created /\ g \in 1..Len(groups[t])
        /\ at[s][r][2] \in 0..Len(groups[t][g])
        /\ at[s][r][2] > 0 => /\ sent[s][r] # <<>>
                              /\ sent[s][r][Len(sent[s][r])] = groups[t][g][at[s][r][2]]
    BY <1>1, <1>2 DEF SentLast, Latest
  <2>4. g \in Nat /\ k \in Nat /\ k >= 1 BY <2>1
  <2> HIDE DEF t, g, k
  <2>5. k - 1 \in Nat BY <2>4
  <2>6. k - 1 \in 0..Len(groups[t][g]) BY <2>2, <2>3
  <2>7. k - 1 > 0 => /\ sent[s][r] # <<>>
                     /\ sent[s][r][Len(sent[s][r])] = groups[t][g][k - 1]
    BY <2>2, <2>3
  <2> QED BY <2>3, <2>4, <2>5, <2>6, <2>7
<1> HIDE DEF t, g, k
<1>5. groups[t] \in Seq(Seq(S)) BY <1>2, <1>4 DEF TypeOK
<1>6. groups[t][g] \in Seq(S) BY <1>4, <1>5, ElementOfSeq
<1>7. k \in 1..Len(groups[t][g]) /\ Len(groups[t][g]) \in Nat
  <2>1. Len(groups[t][g]) \in Nat BY <1>6, LenProperties
  <2> QED BY <1>1, <1>4, <2>1
<1>8. PICK x \in S : x = groups[t][g][k] BY <1>6, <1>7, ElementOfSeq
<1>9. x \in Nat /\ S \subseteq Nat
  <2>1. S = 1..Len(items) BY <1>3, LenProperties
  <2> QED BY <2>1
<1> DEFINE out == Append(sent[s][r], x)
<1>10. /\ out \in Seq(S) /\ out # <<>> /\ out[Len(out)] = x
  <2>1. sent[s][r] \in Seq(S) /\ x \in S BY <1>3
  <2> HIDE DEF S
  <2>2. out \in Seq(S) BY <2>1, AppendProperties
  <2>3. out # <<>> /\ out[Len(out)] = x BY <2>1, AppendEnd
  <2> QED BY <2>2, <2>3
<1>11. out \in Seq(Nat) BY <1>9, <1>10, SeqWidened
<1>12. /\ sent' \in [Sessions -> [Requests -> Seq(Nat)]] /\ sent'[s][r] = out
       /\ \A u \in Sessions, q \in Requests : u # s \/ q # r => sent'[u][q] = sent[u][q]
  <2>1. sent' = [sent EXCEPT ![s][r] = out] BY <1>1, <1>8
  <2> HIDE DEF out
  <2> QED BY <1>3, <1>11, <2>1
<1> HIDE DEF out
<1>13. /\ at' \in [Sessions -> [Requests -> Nat \X Nat]]
       /\ at'[s][r][1] = g /\ at'[s][r][2] = k
       /\ \A u \in Sessions, q \in Requests : u # s \/ q # r => at'[u][q] = at[u][q]
  <2>1. at[s][r] \in Nat \X Nat BY <1>3
  <2>2. /\ [at[s][r] EXCEPT ![2] = k] \in Nat \X Nat
        /\ [at[s][r] EXCEPT ![2] = k][1] = at[s][r][1]
        /\ [at[s][r] EXCEPT ![2] = k][2] = k
    BY <1>4, <2>1
  <2> DEFINE p == [at[s][r] EXCEPT ![2] = k]
  <2>3. at' = [at EXCEPT ![s][r] = p] BY <1>1
  <2>4. p \in Nat \X Nat /\ p[1] = at[s][r][1] /\ p[2] = k BY <2>2
  <2> HIDE DEF p
  <2>5. /\ at' \in [Sessions -> [Requests -> Nat \X Nat]] /\ at'[s][r] = p
        /\ \A u \in Sessions, q \in Requests : u # s \/ q # r => at'[u][q] = at[u][q]
    BY <1>3, <2>3, <2>4
  <2> QED BY <2>4, <2>5 DEF g
<1>14. TypeOK'
  <2>1. \A u \in Sessions, q \in Requests : sent'[u][q] \in Seq(S)
    BY <1>2, <1>10, <1>12 DEF TypeOK
  <2> QED BY <1>1, <1>2, <1>13, <2>1 DEF TypeOK
<1>15. TracksOpened' BY <1>1, <1>2, <1>12 DEF TracksOpened
<1>16. SentLast'
  <2> SUFFICES ASSUME NEW u \in Sessions, NEW q \in Requests
      PROVE LET h == at'[u][q][1]  j == at'[u][q][2]  o == sent'[u][q] IN
            IF h = 0 THEN j = 0
                     ELSE /\ q[2] \in Created /\ h \in 1..Latest(q[2])
                          /\ j \in 0..Len(groups[q[2]][h])
                          /\ j > 0 => o # <<>> /\ o[Len(o)] = groups[q[2]][h][j]
    <3>1. groups' = groups BY <1>1
    <3> QED BY <3>1 DEF SentLast, Latest
  <2>1. CASE u = s /\ q = r
    <3>1. at'[u][q][1] = g /\ at'[u][q][2] = k /\ sent'[u][q] = out /\ q[2] = t
      BY <1>12, <1>13, <2>1 DEF t
    <3>2. k \in 0..Len(groups[t][g]) BY <1>7
    <3> QED BY <1>1, <1>4, <1>8, <1>10, <3>1, <3>2 DEF Latest
  <2>2. CASE u # s \/ q # r
    <3>1. at'[u][q] = at[u][q] /\ sent'[u][q] = sent[u][q] BY <1>12, <1>13, <2>2
    <3> QED BY <1>2, <3>1 DEF SentLast
  <2> QED BY <2>1, <2>2
<1>17. Decodable'
  <2> SUFFICES ASSUME NEW u \in Sessions, NEW ns \in Namespaces
      PROVE Plays(items', sent'[u][<<ns, "video">>])
    BY Zenon DEF Decodable, Plays
  <2>0. items' = items BY <1>1
  <2> DEFINE q == <<ns, "video">>
  <2>1. q \in Requests /\ q[2] = "video" BY DEF Requests, Names, Created
  <2>2. Plays(items, sent[u][q]) BY <1>2 DEF Decodable, Plays
  <2> HIDE DEF q
  <2>3. CASE u = s /\ q = r
    <3>1. t = "video" BY <2>1, <2>3 DEF t
    <3>2. Follows(items, groups[t][g], g)
      <4>1. DOMAIN groups[t] = 1..Len(groups[t]) BY <1>5, LenProperties
      <4> QED BY <1>2, <1>4, <3>1, <4>1 DEF VideoGroups, Follows
    <3>3. k > 1 => /\ sent[s][r] # <<>>
                   /\ sent[s][r][Len(sent[s][r])] = groups[t][g][k - 1]
      BY <1>4
    <3>4. g >= 1 BY <1>1, <1>4
    <3>5. Plays(items, Append(sent[s][r], groups[t][g][k]))
      BY <1>3, <1>4, <1>6, <1>7, <2>2, <2>3, <3>2, <3>3, <3>4, PlaysOn
    <3> QED BY <1>8, <1>12, <2>0, <2>3, <3>5 DEF q, out
  <2>4. CASE u # s \/ q # r BY <1>12, <2>0, <2>1, <2>2, <2>4 DEF q
  <2> QED BY <2>3, <2>4
<1>18. TracksRouted' /\ VideoGroups' /\ LatestComplete'
  BY <1>1, <1>2 DEF TracksRouted, VideoGroups, LatestComplete, Latest
<1> QED BY <1>14, <1>15, <1>16, <1>17, <1>18 DEF IInv

-----------------------------------------------------------------------------
(* Theorems.                                                               *)

\* Every step keeps the invariant.
LEMMA NextInv == ASSUME IInv, [Next]_vars PROVE IInv'
<1>1. task \in [Sessions -> [Requests -> {"none", "asked", "serving", "refused", "ended"}]]
  BY DEF IInv, TypeOK
<1>2. ASSUME NEW s \in Sessions, EndSession(s) PROVE IInv'
  <2>1. /\ UNCHANGED <<trackVars, at, sent>>
        /\ task' = [task EXCEPT ![s] = [r \in Requests |-> "ended"]]
    BY <1>2 DEF EndSession
  <2> QED BY <1>1, <2>1, TaskInv
<1>3. ASSUME NEW s \in Sessions, NEW r \in Requests, Subscribe(s, r) PROVE IInv'
  <2>1. /\ UNCHANGED <<trackVars, at, sent>>
        /\ task' = [task EXCEPT ![s][r] = "asked"]
    BY <1>3 DEF Subscribe
  <2> QED BY <1>1, <2>1, TaskInv
<1>4. ASSUME NEW s \in Sessions, NEW r \in Requests, Serve(s, r) PROVE IInv'
  <2>1. /\ UNCHANGED <<trackVars, at, sent>>
        /\ task' = [task EXCEPT ![s][r] = IF Routed(r) THEN "serving" ELSE "refused"]
    BY <1>4 DEF Serve
  <2>2. task' \in [Sessions -> [Requests -> {"none", "asked", "serving", "refused", "ended"}]]
    BY <1>1, <2>1
  <2>3. \A u \in Sessions, q \in Requests :
          \/ task'[u][q] = task[u][q]
          \/ task'[u][q] = IF Routed(q) THEN "serving" ELSE "refused"
    BY <1>1, <2>1
  <2> QED BY <2>1, <2>2, <2>3, TaskInv
<1>5. CASE UNCHANGED vars
  <2>1. UNCHANGED <<trackVars, task, at, sent>> BY <1>5 DEF vars, taskVars
  <2> QED BY <1>1, <2>1, TaskInv
<1> QED BY <1>2, <1>3, <1>4, <1>5, StreamInv, NextGroupInv, SendObjectInv DEF Next

\* The invariant holds throughout.
THEOREM Invariance == Spec => []IInv
<1> QED BY InitInv, NextInv, PTL DEF Spec

\* Every variable keeps its type.
THEOREM TypeCorrect == Spec => []TypeOK
<1>1. IInv => TypeOK BY DEF IInv
<1> QED BY <1>1, Invariance, PTL

\* What a session is sent can be decoded, whatever groups it misses.
THEOREM AllDecodable == Spec => []Decodable
<1>1. IInv => Decodable BY DEF IInv
<1> QED BY <1>1, Invariance, PTL
=============================================================================
