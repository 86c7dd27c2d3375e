------------------------------- MODULE Origin -------------------------------
(***************************************************************************)
(* The origin server as main.rs:54 builds it: one namespace, registered    *)
(* with Locals, whose tracks the StreamPerTrack mapping fills from stdin,  *)
(* and one task for every subscription of every session.                   *)
(*                                                                         *)
(* moq-rs is outside the repository.  A track is a sequence of groups, a   *)
(* group a sequence of objects that is closed when its writer is dropped.  *)
(* A subscription begins with the latest group, sends its objects in       *)
(* order, and when the group is closed and all sent, goes on to the then   *)
(* latest group: a slow one skips groups, never a part of one.             *)
(*                                                                         *)
(* An item of the input is its number; items says what kind it is of.      *)
(***************************************************************************)
EXTENDS Integers, Sequences

CONSTANTS
  Sessions,      \* clients
  Namespaces,    \* namespaces that clients ask for
  Livestream,    \* "livestream", the one that there is
  MaxItems       \* bound: items read from stdin

ASSUME OriginAssumption == Livestream \in Namespaces /\ MaxItems \in Nat

Kinds == {"init", "key", "delta"}     \* MediaStreamItem, with is_keyframe
Created == {"init", "video"}          \* tracks that StreamPerTrack::new creates
Names == Created \cup {"audio"}       \* tracks that clients ask for
Requests == Namespaces \X Names
Idle == <<0, 0>>                      \* nothing of a subscription sent yet

VARIABLES
  items,         \* history: kinds of the items read so far
  groups,        \* groups[t]: groups of track t, each the sequence of its objects
  open,          \* open[t]: numbers of the groups of track t that have a writer
  task,          \* task[s][r]: Producer's task for request r of session s
  at,            \* at[s][r]: group and object the task has sent last
  sent           \* history: sent[s][r]: objects sent, in order

trackVars == <<items, groups, open>>
taskVars == <<task, at, sent>>
vars == <<trackVars, taskVars>>

TypeOK ==
  /\ items \in Seq(Kinds) /\ Len(items) <= MaxItems
  /\ DOMAIN groups = Created
  /\ \A t \in Created :
       /\ groups[t] \in Seq(Seq(DOMAIN items))
       /\ open[t] \subseteq DOMAIN groups[t]
  /\ task \in [Sessions -> [Requests -> {"none", "asked", "serving", "refused", "ended"}]]
  /\ at \in [Sessions -> [Requests -> Nat \X Nat]]
  /\ \A s \in Sessions, r \in Requests : sent[s][r] \in Seq(DOMAIN items)

\* main() before its select!.  StreamPerTrack::new appends the first group to each
\* track, before there is an item for it.
Init ==
  /\ items = <<>>
  /\ groups = [t \in Created |-> << <<>> >>] /\ open = [t \in Created |-> {1}]
  /\ task = [s \in Sessions |-> [r \in Requests |-> "none"]]
  /\ at = [s \in Sessions |-> [r \in Requests |-> Idle]]
  /\ sent = [s \in Sessions |-> [r \in Requests |-> <<>>]]

-----------------------------------------------------------------------------
(* StreamPerTrack::stream, for one item.                                   *)

Latest(t) == Len(groups[t])

\* write() on the writer of the latest group of gs.
Written(gs, n) == [gs EXCEPT ![Len(gs)] = Append(@, n)]

StreamInit(n) ==
  /\ groups' = [groups EXCEPT !["init"] = Written(@, n)]
  /\ UNCHANGED open

\* A mistake: the frame is written before the group of the new GoP is there.
StreamKeyframeWritesFirst(n) ==
  /\ groups' = [groups EXCEPT !["video"] = Append(Written(@, n), <<>>)]
  /\ open' = [open EXCEPT !["video"] = {Latest("video") + 1}]

\* A mistake: the writer of the last group is kept.
StreamKeyframeKeepsWriter(n) ==
  /\ groups' = [groups EXCEPT !["video"] = Written(Append(@, <<>>), n)]
  /\ open' = [open EXCEPT !["video"] = @ \cup {Latest("video") + 1}]

\* A mistake: the new writer is numbered one ahead of its group.
StreamKeyframeNumbersAhead(n) ==
  /\ groups' = [groups EXCEPT !["video"] = Written(Append(@, <<>>), n)]
  /\ open' = [open EXCEPT !["video"] = {Latest("video") + 2}]

\* append() gives the track a new group; assigning its writer to current_group drops
\* that of the last one.
StreamKeyframe(n) ==
  /\ groups' = [groups EXCEPT !["video"] = Written(Append(@, <<>>), n)]
  /\ open' = [open EXCEPT !["video"] = {Latest("video") + 1}]

\* No keyframe is needed before it: new() has left a group for it.
StreamDelta(n) ==
  /\ groups' = [groups EXCEPT !["video"] = Written(@, n)]
  /\ UNCHANGED open

Stream(kind) ==
  /\ Len(items) < MaxItems
  /\ items' = Append(items, kind)
  /\ \/ kind = "init" /\ StreamInit(Len(items) + 1)
     \/ kind = "key" /\ StreamKeyframe(Len(items) + 1)
     \/ kind = "delta" /\ StreamDelta(Len(items) + 1)
  /\ UNCHANGED taskVars

-----------------------------------------------------------------------------
(* Producer::run and Producer::serve.                                      *)

\* run() takes a SUBSCRIBE of the session and pushes a task for it.
Subscribe(s, r) ==
  /\ task[s][r] = "none"
  /\ task' = [task EXCEPT ![s][r] = "asked"]
  /\ UNCHANGED <<trackVars, at, sent>>

\* route() and then subscribe() on the reader of the namespace.  Server::new registered
\* the one namespace, for good: the Drop of the Registration is commented out.
Routed(r) == r[1] = Livestream /\ r[2] \in Created

\* The task's first step: what is not found is logged, and refused as it is dropped.
Serve(s, r) ==
  /\ task[s][r] = "asked"
  /\ task' = [task EXCEPT ![s][r] = IF Routed(r) THEN "serving" ELSE "refused"]
  /\ UNCHANGED <<trackVars, at, sent>>

\* External: the next group is the latest one.
NextGroup(s, r) ==
  LET t == r[2]  g == at[s][r][1] IN
  /\ task[s][r] = "serving" /\ g < Latest(t)
  /\ g # 0 => g \notin open[t] /\ at[s][r][2] = Len(groups[t][g])
  /\ at' = [at EXCEPT ![s][r] = <<Latest(t), 0>>]
  /\ UNCHANGED <<trackVars, task, sent>>

\* External: the next object of the group goes out.
SendObject(s, r) ==
  LET t == r[2]  g == at[s][r][1]  k == at[s][r][2] + 1 IN
  /\ task[s][r] = "serving" /\ g # 0 /\ k <= Len(groups[t][g])
  /\ at' = [at EXCEPT ![s][r][2] = k]
  /\ sent' = [sent EXCEPT ![s][r] = Append(@, groups[t][g][k])]
  /\ UNCHANGED <<trackVars, task>>

\* session.run() or producer.run() ends, and with it every task of the session.
EndSession(s) ==
  /\ \E r \in Requests : task[s][r] # "ended"
  /\ task' = [task EXCEPT ![s] = [r \in Requests |-> "ended"]]
  /\ UNCHANGED <<trackVars, at, sent>>

Next ==
  \/ \E kind \in Kinds : Stream(kind)
  \/ \E s \in Sessions :
       \/ EndSession(s)
       \/ \E r \in Requests :
            Subscribe(s, r) \/ Serve(s, r) \/ NextGroup(s, r) \/ SendObject(s, r)

Spec == Init /\ [][Next]_vars

\* The executor polls every task that can go on; clients and stdin do as they like.
Fairness ==
  \A s \in Sessions, r \in Requests :
    WF_vars(Serve(s, r)) /\ WF_vars(NextGroup(s, r)) /\ WF_vars(SendObject(s, r))

FairSpec == Spec /\ Fairness

-----------------------------------------------------------------------------
(* Properties                                                              *)

\* Whatever groups a client misses, and whenever it joins, a frame that it gets and
\* that is no keyframe follows the frame before it, so that its decoder can go on;
\* only frames before the first keyframe have none to follow.
Decodable ==
  \A s \in Sessions, ns \in Namespaces :
    LET out == sent[s][<<ns, "video">>] IN
    \A k \in DOMAIN out :
      items[out[k]] = "delta" =>
        LET before == {n \in 1..(out[k] - 1) : items[n] # "init"} IN
        \/ \A n \in before : items[n] = "delta"
        \/ k > 1 /\ out[k - 1] \in before /\ \A n \in before : n <= out[k - 1]

\* Who asks for a track that is there gets the newest of what was written to it, however
\* far behind it falls, unless the session ends.  Nothing is owed while the latest group
\* is empty, as the first one is before the first item of its track.
CaughtUp(s, t) ==
  LET out == sent[s][<<Livestream, t>>]
      newest == groups[t][Latest(t)] IN
  newest # <<>> => out # <<>> /\ out[Len(out)] = newest[Len(newest)]

Answered ==
  \A s \in Sessions, t \in Created :
    task[s][<<Livestream, t>>] = "asked" ~>
      task[s][<<Livestream, t>>] = "ended" \/ CaughtUp(s, t)
-----------------------------------------------------------------------------
(* The inductive invariant behind Decodable.                               *)

\* Only a track that there is has a task that serves it.
TracksRouted ==
  \A s \in Sessions, r \in Requests : task[s][r] = "serving" => r[2] \in Created

TracksOpened ==
  /\ DOMAIN open = Created /\ sent \in [Sessions -> [Requests -> Seq(Nat)]]
  /\ \A t \in Created : groups[t] # <<>>

\* Within a group of the video track each frame follows the one before it, and a group
\* begins with a keyframe, the first one with the first frame of all.
VideoGroups ==
  \A g \in DOMAIN groups["video"] : LET group == groups["video"][g] IN
    \A k \in DOMAIN group :
      /\ items[group[k]] # "init"
      /\ k > 1 => /\ group[k - 1] < group[k]
                  /\ \A n \in (group[k - 1] + 1)..(group[k] - 1) : items[n] = "init"
      /\ k = 1 /\ g > 1 => items[group[k]] = "key"
      /\ k = 1 /\ g = 1 => \A n \in 1..(group[k] - 1) : items[n] = "init"

\* The latest group ends with the last frame of all; only the first can be empty.
LatestComplete ==
  LET group == groups["video"][Latest("video")] IN
  IF group = <<>> THEN /\ Latest("video") = 1
                       /\ \A n \in DOMAIN items : items[n] = "init"
                  ELSE \A n \in (group[Len(group)] + 1)..Len(items) : items[n] = "init"

\* What a task has sent last is the object that it is at.
SentLast ==
  \A s \in Sessions, r \in Requests :
    LET g == at[s][r][1]  k == at[s][r][2]  out == sent[s][r] IN
    IF g = 0 THEN k = 0
             ELSE /\ r[2] \in Created /\ g \in 1..Latest(r[2])
                  /\ k \in 0..Len(groups[r[2]][g])
                  /\ k > 0 => out # <<>> /\ out[Len(out)] = groups[r[2]][g][k]

IInv ==
  /\ TypeOK /\ TracksRouted /\ TracksOpened /\ VideoGroups /\ LatestComplete /\ SentLast
  /\ Decodable
=============================================================================
