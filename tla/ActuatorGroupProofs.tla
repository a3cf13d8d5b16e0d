------------------------- MODULE ActuatorGroupProofs -------------------------
(***************************************************************************)
(* The capacity of anti-affinity groups that no machine names itself, for  *)
(* any number of machines, servers and groups, any limit and any faults.   *)
(* The place a worker has seen may be taken when it joins, but only by the *)
(* workers of the other clusters in the project: each of them overfills a  *)
(* group by one server at most, and a single cluster overfills none.       *)
(***************************************************************************)
EXTENDS ActuatorProofs, FiniteSetTheorems

\* Where a reconcile has chosen no group yet, and where it is about to.
Undecided == {"exists", "listGroups", "newGroup"}

\* The workers that are about to join a group.
Joining(g) == {c \in Cluster : w[c].pc = "create" /\ w[c].grp = g}

\* A worker joins a group that exists, or none.
Decides(c) ==
  /\ w[c].pc \in Undecided => w[c].grp = Nil
  /\ w[c].pc \in {"listGroups", "newGroup"} => Placement[w[c].m] # Nil
  /\ w[c].pc = "create" /\ w[c].grp # Nil => groups[w[c].grp] # Nil

\* Members and workers about to join exceed the limit by fewer than there are
\* clusters.  A group that does not exist has no members.
Fits(g) ==
  /\ IsFiniteSet(Members(g))
  /\ Cardinality(Members(g)) + Cardinality(Joining(g))
       < GroupLimit + Cardinality(Cluster)
  /\ groups[g] = Nil => Members(g) = {}

GroupInv == (\A g \in Unnamed : Fits(g)) /\ (\A c \in Cluster : Decides(c))

\* The clusters of a project can be counted.
FewClusters == IsFiniteSet(Cluster)

LEMMA Countable ==
  ASSUME FewClusters, NEW J \in SUBSET Cluster
  PROVE  /\ IsFiniteSet(J) /\ Cardinality(J) \in Nat
         /\ Cardinality(Cluster) \in Nat /\ Cardinality(J) <= Cardinality(Cluster)
  BY FS_Subset, FS_CardinalityType DEF FewClusters

-----------------------------------------------------------------------------

\* A worker that neither chooses a group nor joins one.
Settled(wc) == \/ wc.pc \notin Undecided \cup {"create"}
               \/ wc.pc = "exists" /\ wc.grp = Nil

LEMMA SettledDecides ==
  ASSUME NEW c \in Cluster, Settled(w'[c])
  PROVE  Decides(c)'
  BY DEF Settled, Decides, Undecided

\* Groups may lose members and joining workers but gain none.
LEMMA FitsStill ==
  ASSUME FewClusters, NEW g \in Unnamed, Fits(g),
         Members(g)' \subseteq Members(g), Joining(g)' \subseteq Joining(g),
         groups'[g] = Nil => groups[g] = Nil
  PROVE  Fits(g)'
<1>1. /\ IsFiniteSet(Members(g)') /\ Cardinality(Members(g)) \in Nat
      /\ Cardinality(Members(g)') \in Nat
      /\ Cardinality(Members(g)') <= Cardinality(Members(g))
  BY FS_Subset, FS_CardinalityType DEF Fits
<1>2. /\ Cardinality(Joining(g)') \in Nat /\ Cardinality(Joining(g)) \in Nat
      /\ Cardinality(Joining(g)') <= Cardinality(Joining(g))
      /\ Cardinality(Cluster) \in Nat
  <2>1. Joining(g) \in SUBSET Cluster /\ Joining(g)' \in SUBSET Joining(g)
    BY DEF Joining
  <2>2. IsFiniteSet(Joining(g)) /\ Cardinality(Cluster) \in Nat
    BY <2>1, Countable
  <2> QED BY <2>1, <2>2, FS_Subset, FS_CardinalityType
<1>3. Cardinality(Members(g)') + Cardinality(Joining(g)')
        < GroupLimit + Cardinality(Cluster)
  BY <1>1, <1>2, BoundAssumption DEF Fits
<1> QED BY <1>1, <1>3 DEF Fits

\* A worker that joins the same group as before, or none.
StillJoins(c) == \/ w'[c].pc # "create" \/ w'[c].grp = Nil
                 \/ w'[c] = w[c]

LEMMA JoiningStill ==
  ASSUME \A c \in Cluster : StillJoins(c)
  PROVE  \A g \in GroupId : Joining(g)' \subseteq Joining(g)
  BY ValueAssumption DEF Joining, StillJoins

\* No group is joined, and no worker gets near a choice.
LEMMA Frame ==
  ASSUME FewClusters, GroupInv, UNCHANGED groups,
         \A g \in GroupId : Members(g)' \subseteq Members(g),
         \A c \in Cluster : w'[c] = w[c] \/ Settled(w'[c])
  PROVE  GroupInv'
<1>1. \A c \in Cluster : StillJoins(c)
  BY DEF StillJoins, Settled, Undecided
<1>2. \A g \in Unnamed : Fits(g)'
  BY <1>1, JoiningStill, FitsStill DEF GroupInv, Unnamed
<1>3. ASSUME NEW c \in Cluster PROVE Decides(c)'
  <2>1. CASE Settled(w'[c])
    BY <2>1, SettledDecides
  <2>2. CASE w'[c] = w[c]
    BY <2>2 DEF GroupInv, Decides
  <2> QED BY <2>1, <2>2
<1> QED BY <1>2, <1>3 DEF GroupInv

\* A step of one worker to where it is settled.
LEMMA WorkerFrame ==
  ASSUME FewClusters, GroupInv, Typed, NEW c \in Cluster,
         UNCHANGED groups, \A g \in GroupId : Members(g)' \subseteq Members(g),
         NEW wc, Settled(wc), Replied(c, wc) \/ Goto(c, wc) \/ Return(c)
  PROVE  GroupInv'
<1>1. Settled(Idle)
  BY DEF Settled, Idle, Undecided
<1>2. w'[c] \in {wc, Idle} /\ \A d \in Cluster \ {c} : w'[d] = w[d]
  BY DEF Replied, Goto, Return, Typed
<1> QED BY <1>1, <1>2, Frame

LEMMA SameMembers ==
  ASSUME UNCHANGED servers
  PROVE  \A g \in GroupId : Members(g)' = Members(g)
  BY DEF Members, Listed

\* A server changes, but not its group, and does not come back into the lists.
LEMMA FewerMembers ==
  ASSUME Typed, NEW s \in ServerId, NEW v,
         servers' = [servers EXCEPT ![s] = v],
         v.st \in {"up", "stopping"} =>
           Listed(s) /\ v.groups = servers[s].groups
  PROVE  \A g \in GroupId : Members(g)' \subseteq Members(g)
<1>1. servers'[s] = v /\ \A t \in ServerId \ {s} : servers'[t] = servers[t]
  BY DEF Typed
<1> QED BY <1>1 DEF Members, Listed

LEMMA LocalGroups ==
  ASSUME FewClusters, Typed, GroupInv, NEW c \in Cluster,
         UNCHANGED <<servers, groups>>,
         NEW wc, Settled(wc), Replied(c, wc) \/ Goto(c, wc) \/ Return(c)
  PROVE  GroupInv'
  BY SameMembers, WorkerFrame

LEMMA IdleSettled == Settled(Idle)
  BY DEF Settled, Idle, Undecided

-----------------------------------------------------------------------------
(* The controller, up to the choice *)

LEMMA BeginGroups ==
  ASSUME FewClusters, Typed, GroupInv, NEW c \in Cluster, NEW m \in Machine, Begin(c, m)
  PROVE  GroupInv'
<1>1. PICK pc \in {"addFinalizer", "exists", "delete"} :
        Goto(c, [Idle EXCEPT !.pc = pc, !.m = m, !.snap = cache[m]])
  BY DEF Begin
<1>2. PICK wc : wc = [Idle EXCEPT !.pc = pc, !.m = m, !.snap = cache[m]]
  OBVIOUS
<1>3. wc.pc = pc /\ wc.grp = Nil
  BY <1>2 DEF Idle
<1>4. Settled(wc)
  BY <1>3 DEF Settled, Undecided
<1> QED BY <1>1, <1>2, <1>4, SameMembers, WorkerFrame DEF Begin

\* The worker alone moves, and joins no group yet.
LEMMA OnlyWorker ==
  ASSUME FewClusters, GroupInv, NEW c \in Cluster, UNCHANGED <<servers, groups>>,
         Decides(c)', StillJoins(c), \A d \in Cluster \ {c} : w'[d] = w[d]
  PROVE  GroupInv'
<1>1. \A g \in GroupId : Joining(g)' \subseteq Joining(g)
  BY JoiningStill DEF StillJoins
<1>2. \A g \in Unnamed : Fits(g)'
  BY <1>1, SameMembers, FitsStill DEF GroupInv, Unnamed
<1>3. \A d \in Cluster \ {c} : Decides(d)'
  BY DEF GroupInv, Decides
<1> QED BY <1>2, <1>3 DEF GroupInv

LEMMA ExistsGroups ==
  ASSUME FewClusters, Typed, GroupInv, NEW c \in Cluster, Exists(c)
  PROVE  GroupInv'
<1>1. /\ UNCHANGED <<servers, groups>> /\ w[c].pc = "exists"
      /\ w[c].grp = Nil
  BY DEF Exists, At, GroupInv, Decides, Undecided
<1>2. CASE Return(c)
  BY <1>1, <1>2, SettledDecides, OnlyWorker
     DEF Return, Goto, Typed, Settled, Idle, Undecided, StillJoins
<1>3. CASE \E pc \in {"markFailed", "update", "listGroups", "create"} :
             /\ Goto(c, [w[c] EXCEPT !.pc = pc])
             /\ pc = "listGroups" => Placement[w[c].m] # Nil
  <2>1. PICK pc \in {"markFailed", "update", "listGroups", "create"} :
          /\ Goto(c, [w[c] EXCEPT !.pc = pc])
          /\ pc = "listGroups" => Placement[w[c].m] # Nil
    BY <1>3
  <2>2. /\ w'[c].pc = pc /\ w'[c].grp = Nil /\ w'[c].m = w[c].m
        /\ \A d \in Cluster \ {c} : w'[d] = w[d]
    BY <1>1, <2>1 DEF Goto, Typed, Worker
  <2>3. Decides(c)'
    BY <2>1, <2>2 DEF Decides, Undecided
  <2> QED BY <1>1, <2>2, <2>3, OnlyWorker DEF StillJoins
<1> QED BY <1>2, <1>3, Zenon DEF Exists

-----------------------------------------------------------------------------
(* The choice, and the call that joins the group *)

\* One worker more is about to join a group with room: all others may be too.
LEMMA WorkerJoins ==
  ASSUME FewClusters, Typed, GroupInv, NEW c \in Cluster, NEW g \in GroupId,
         UNCHANGED servers, groups'[g] # Nil,
         \A h \in GroupId \ {g} : groups'[h] = groups[h],
         g \in Unnamed => Cardinality(Members(g)) < GroupLimit,
         w[c].grp = Nil, Goto(c, [w[c] EXCEPT !.pc = "create", !.grp = g])
  PROVE  GroupInv'
<1>1. /\ w'[c].pc = "create" /\ w'[c].grp = g
      /\ \A d \in Cluster \ {c} : w'[d] = w[d]
  BY DEF Goto, Typed, Worker
<1>2. ASSUME g \in Unnamed PROVE Fits(g)'
  <2>1. Members(g)' = Members(g) /\ Joining(g)' \in SUBSET Cluster
    BY SameMembers DEF Joining
  <2>2. IsFiniteSet(Members(g)) /\ Cardinality(Members(g)) \in Nat
    BY <1>2, FS_CardinalityType DEF GroupInv, Fits
  <2>3. /\ Cardinality(Joining(g)') \in Nat /\ Cardinality(Cluster) \in Nat
        /\ Cardinality(Joining(g)') <= Cardinality(Cluster)
    BY <2>1, Countable
  <2>4. Cardinality(Members(g)') + Cardinality(Joining(g)')
          < GroupLimit + Cardinality(Cluster)
    BY <1>2, <2>1, <2>2, <2>3, BoundAssumption
  <2> QED BY <2>1, <2>2, <2>4 DEF Fits
<1>3. ASSUME NEW h \in Unnamed \ {g} PROVE Fits(h)'
  <2>1. Joining(h)' \subseteq Joining(h)
    BY <1>1 DEF Joining
  <2> QED BY <1>3, <2>1, SameMembers, FitsStill DEF GroupInv, Unnamed
<1>4. \A d \in Cluster : Decides(d)'
  <2>1. Decides(c)'
    BY <1>1 DEF Decides, Undecided
  <2>2. ASSUME NEW d \in Cluster \ {c} PROVE Decides(d)'
    <3>1. w'[d] = w[d] /\ Decides(d) /\ w[d].grp \in GroupId \cup {Nil}
      BY <1>1, <2>2 DEF GroupInv, Typed, Worker
    <3>2. w[d].grp # Nil /\ groups[w[d].grp] # Nil => groups'[w[d].grp] # Nil
      BY <3>1
    <3> QED BY <3>1, <3>2 DEF Decides
  <2> QED BY <2>1, <2>2
<1> QED BY <1>2, <1>3, <1>4 DEF GroupInv

LEMMA ListGroupsGroups ==
  ASSUME FewClusters, Typed, GroupInv, NEW c \in Cluster, ListGroups(c)
  PROVE  GroupInv'
<1>1. /\ UNCHANGED <<servers, groups>> /\ w[c].pc = "listGroups"
      /\ w[c].grp = Nil /\ Placement[w[c].m] # Nil
  BY DEF ListGroups, At, GroupInv, Decides, Undecided
<1>2. CASE \E g \in GroupsWithRoom(Placement[w[c].m]) :
             Goto(c, [w[c] EXCEPT !.pc = "create", !.grp = g])
  <2>1. PICK g \in GroupsWithRoom(Placement[w[c].m]) :
          Goto(c, [w[c] EXCEPT !.pc = "create", !.grp = g])
    BY <1>2
  <2>2. /\ g \in GroupId /\ groups[g] # Nil
        /\ Cardinality(Members(g)) < GroupLimit
    BY <1>1, <2>1 DEF GroupsWithRoom
  <2> QED BY <1>1, <2>1, <2>2, WorkerJoins
<1>3. CASE Goto(c, [w[c] EXCEPT !.pc = "newGroup"])
  <2>1. /\ w'[c].pc = "newGroup" /\ w'[c].grp = Nil /\ w'[c].m = w[c].m
        /\ \A d \in Cluster \ {c} : w'[d] = w[d]
    BY <1>1, <1>3 DEF Goto, Typed, Worker
  <2>2. Decides(c)'
    BY <1>1, <2>1 DEF Decides
  <2> QED BY <1>1, <2>1, <2>2, OnlyWorker DEF StillJoins
<1> QED BY <1>2, <1>3 DEF ListGroups

\* The new group has no members yet; other workers may find it at once.
LEMMA NewGroupGroups ==
  ASSUME FewClusters, Typed, GroupInv, NEW c \in Cluster, NewGroup(c)
  PROVE  GroupInv'
<1>1. /\ UNCHANGED servers /\ w[c].pc = "newGroup"
      /\ w[c].grp = Nil /\ Placement[w[c].m] # Nil
  BY DEF NewGroup, At, GroupInv, Decides, Undecided
<1>2. CASE Return(c) /\ UNCHANGED groups
  BY <1>1, <1>2, IdleSettled, LocalGroups
<1>3. CASE \E g \in GroupId :
             /\ groups[g] = Nil
             /\ groups' = [groups EXCEPT ![g] = Placement[w[c].m]]
             /\ Replied(c, [w[c] EXCEPT !.pc = "create", !.grp = g])
  <2>1. PICK g \in GroupId :
          /\ groups[g] = Nil
          /\ groups' = [groups EXCEPT ![g] = Placement[w[c].m]]
          /\ Replied(c, [w[c] EXCEPT !.pc = "create", !.grp = g])
    BY <1>3
  <2>2. groups'[g] # Nil /\ \A h \in GroupId \ {g} : groups'[h] = groups[h]
    BY <1>1, <2>1 DEF Typed
  <2>3. g \in Unnamed => Cardinality(Members(g)) < GroupLimit
    BY <2>1, FS_EmptySet, BoundAssumption DEF GroupInv, Fits
  <2>4. CASE Goto(c, [w[c] EXCEPT !.pc = "create", !.grp = g])
    BY <1>1, <2>2, <2>3, <2>4, WorkerJoins
  <2>5. CASE Return(c)
    <3>1. Settled(w'[c]) /\ \A d \in Cluster \ {c} : w'[d] = w[d]
      BY <2>5, IdleSettled DEF Return, Goto, Typed
    <3>2. \A d \in Cluster : StillJoins(d)
      BY <3>1 DEF StillJoins, Settled, Undecided
    <3>3. \A h \in GroupId : groups'[h] = Nil => groups[h] = Nil
      BY <2>2
    <3>4. \A h \in Unnamed : Fits(h)'
      BY <1>1, <3>2, <3>3, SameMembers, JoiningStill, FitsStill
         DEF GroupInv, Unnamed
    <3>5. ASSUME NEW d \in Cluster \ {c} PROVE Decides(d)'
      <4>1. w'[d] = w[d] /\ Decides(d) /\ w[d].grp \in GroupId \cup {Nil}
        BY <3>1, <3>5 DEF GroupInv, Typed, Worker
      <4>2. w[d].grp # Nil /\ groups[w[d].grp] # Nil => groups'[w[d].grp] # Nil
        BY <3>3, <4>1
      <4> QED BY <4>1, <4>2 DEF Decides
    <3>6. Decides(c)'
      BY <3>1, SettledDecides
    <3> QED BY <3>4, <3>5, <3>6 DEF GroupInv
  <2> QED BY <2>1, <2>4, <2>5 DEF Replied
<1> QED BY <1>2, <1>3 DEF NewGroup

\* The server is a member instead of its worker being about to make it one.
LEMMA CreateServerGroups ==
  ASSUME FewClusters, Typed, GroupInv, NEW c \in Cluster, CreateServer(c)
  PROVE  GroupInv'
<1> DEFINE m == w[c].m
           joins == Given[m] \cup ({w[c].grp} \ {Nil})
           next == IF w[c].snap.volTags # NoVolTags THEN "waitVolume" ELSE "patch"
<1>1. UNCHANGED groups /\ w[c].pc = "create"
  BY DEF CreateServer, At
<1>2. CASE Return(c) /\ UNCHANGED servers
  BY <1>1, <1>2, IdleSettled, LocalGroups
<1>3. CASE \E s \in ServerId :
             /\ servers[s].st = "free"
             /\ servers' = [servers EXCEPT ![s] =
                  [NoServer EXCEPT !.st = "up", !.groups = joins,
                     !.tags = buildServerTags(m, w[c].snap.tags)]]
             /\ Replied(c, [w[c] EXCEPT !.pc = next, !.srv = s])
  <2>1. PICK s \in ServerId :
             /\ servers[s].st = "free"
             /\ servers' = [servers EXCEPT ![s] =
                  [NoServer EXCEPT !.st = "up", !.groups = joins,
                     !.tags = buildServerTags(m, w[c].snap.tags)]]
             /\ Replied(c, [w[c] EXCEPT !.pc = next, !.srv = s])
    BY <1>3
  <2>2. /\ servers'[s].st = "up" /\ servers'[s].groups = joins
        /\ \A t \in ServerId \ {s} : servers'[t] = servers[t]
    BY <2>1 DEF Typed, NoServer
  <2>3. Settled(w'[c]) /\ \A d \in Cluster \ {c} : w'[d] = w[d]
    <3>1. Settled([w[c] EXCEPT !.pc = next, !.srv = s]) /\ Settled(Idle)
      BY DEF Settled, Undecided, Idle, Typed, Worker
    <3>2. /\ w'[c] \in {[w[c] EXCEPT !.pc = next, !.srv = s], Idle}
          /\ \A d \in Cluster \ {c} : w'[d] = w[d]
      BY <2>1 DEF Replied, Goto, Return, Typed
    <3> QED BY <3>1, <3>2
  <2>4. ASSUME NEW g \in Unnamed PROVE Fits(g)'
    <3>0. g \in GroupId /\ g # Nil /\ g \notin Given[m]
      BY <1>1, ValueAssumption DEF Unnamed, Typed, Knows
    <3>1. CASE g # w[c].grp
      <4>1. Members(g)' = Members(g)
        BY <2>1, <2>2, <3>0, <3>1 DEF Members, Listed
      <4>2. Joining(g)' \subseteq Joining(g)
        BY <2>3 DEF Joining, Settled
      <4> QED BY <1>1, <4>1, <4>2, FitsStill DEF GroupInv
    <3>2. CASE g = w[c].grp
      <4>1. groups[g] # Nil
        BY <1>1, <3>0, <3>2 DEF GroupInv, Decides
      <4>2. Members(g)' = Members(g) \cup {s} /\ s \notin Members(g)
        BY <2>1, <2>2, <3>0, <3>2 DEF Members, Listed
      <4>3. Joining(g)' = Joining(g) \ {c} /\ c \in Joining(g)
        BY <1>1, <2>3, <3>2 DEF Joining, Settled
      <4>4. IsFiniteSet(Members(g)) /\ Cardinality(Members(g)) \in Nat
        BY FS_CardinalityType DEF GroupInv, Fits
      <4>5. /\ IsFiniteSet(Members(g)')
            /\ Cardinality(Members(g)') = Cardinality(Members(g)) + 1
        BY <4>2, <4>4, FS_AddElement
      <4>6. /\ IsFiniteSet(Joining(g)) /\ Cardinality(Joining(g)) \in Nat
            /\ Cardinality(Cluster) \in Nat
        BY Countable DEF Joining
      <4>7. Cardinality(Joining(g)') = Cardinality(Joining(g)) - 1
        BY <4>3, <4>6, FS_RemoveElement
      <4>8. Cardinality(Members(g)') + Cardinality(Joining(g)')
              < GroupLimit + Cardinality(Cluster)
        BY <4>4, <4>5, <4>6, <4>7, BoundAssumption DEF GroupInv, Fits
      <4> QED BY <1>1, <4>1, <4>5, <4>8 DEF Fits
    <3> QED BY <3>1, <3>2
  <2>5. Decides(c)'
    BY <2>3, SettledDecides
  <2>6. \A d \in Cluster \ {c} : Decides(d)'
    BY <1>1, <2>3 DEF GroupInv, Decides
  <2> QED BY <2>4, <2>5, <2>6 DEF GroupInv
<1> QED BY <1>2, <1>3 DEF CreateServer

-----------------------------------------------------------------------------
(* All else leaves groups alone or makes them smaller *)

\* Where a worker goes on that has passed, or does not need, the choice.
LEMMA Later ==
  ASSUME Typed, NEW c \in Cluster, NEW pc \in Step,
         pc \notin Undecided \cup {"create"}
  PROVE  Settled([w[c] EXCEPT !.pc = pc])
  BY DEF Settled, Typed, Worker

LEMMA CallsGroups ==
  ASSUME FewClusters, Typed, GroupInv, NEW c \in Cluster,
         \/ AddFinalizer(c) \/ MarkFailed(c) \/ WaitVolume(c) \/ Update(c)
         \/ GetVolume(c) \/ TargetGone(c) \/ Patch(c) \/ PatchStatus(c)
         \/ Delete(c) \/ ExistsAfterDelete(c) \/ Finalize(c) \/ Aborts(c)
  PROVE  GroupInv'
<1>1. UNCHANGED <<servers, groups>>
  BY DEF AddFinalizer, MarkFailed, WaitVolume, Update, GetVolume, TargetGone,
         Patch, PatchStatus, Delete, ExistsAfterDelete, Finalize, Aborts
<1> DEFINE Moves(pc) ==
             \E wc : /\ \/ wc = [w[c] EXCEPT !.pc = pc]
                        \/ \E o : wc = [w[c] EXCEPT !.pc = pc, !.resp = o]
                        \/ \E s : \/ wc = [w[c] EXCEPT !.pc = pc, !.srv = s]
                                  \/ \E v : wc = [w[c] EXCEPT !.pc = pc,
                                                          !.srv = s, !.vol = v]
                     /\ Goto(c, wc) \/ Replied(c, wc)
<1>2. \/ Return(c) \/ Replied(c, Idle)
      \/ \E pc \in {"tagVolume", "updateTags", "getVolume", "patch",
                     "patchStatus", "existsAfterDelete", "deleteServer",
                     "finalize"} : Moves(pc)
  <2>1. CASE AddFinalizer(c) \/ MarkFailed(c) \/ PatchStatus(c) \/ Finalize(c)
             \/ TargetGone(c) \/ Aborts(c)
    BY <2>1, PatchEffect
       DEF AddFinalizer, MarkFailed, Finalize, TargetGone, Aborts
  <2>2. CASE WaitVolume(c)
    BY <2>2, Zenon DEF WaitVolume
  <2>3. CASE Update(c)
    BY <2>3, Zenon DEF Update
  <2>4. CASE GetVolume(c)
    BY <2>4, Zenon DEF GetVolume
  <2>5. CASE Patch(c)
    BY <2>5, Zenon DEF Patch
  <2>6. CASE Delete(c)
    BY <2>6, Zenon DEF Delete
  <2>7. CASE ExistsAfterDelete(c)
    BY <2>7, Zenon DEF ExistsAfterDelete
  <2> QED BY <2>1, <2>2, <2>3, <2>4, <2>5, <2>6, <2>7
<1>3. CASE Return(c) \/ Replied(c, Idle)
  BY <1>1, <1>3, IdleSettled, LocalGroups
<1>4. ASSUME NEW pc \in {"tagVolume", "updateTags", "getVolume", "patch",
                         "patchStatus", "existsAfterDelete", "deleteServer",
                         "finalize"}, Moves(pc)
      PROVE  GroupInv'
  <2>1. PICK wc : /\ \/ wc = [w[c] EXCEPT !.pc = pc]
                     \/ \E o : wc = [w[c] EXCEPT !.pc = pc, !.resp = o]
                     \/ \E s : \/ wc = [w[c] EXCEPT !.pc = pc, !.srv = s]
                               \/ \E v : wc = [w[c] EXCEPT !.pc = pc,
                                                       !.srv = s, !.vol = v]
                  /\ Goto(c, wc) \/ Replied(c, wc)
    BY <1>4
  <2>2. pc \in Step /\ pc \notin Undecided \cup {"create"}
    BY DEF Step, Undecided
  <2>3. wc.pc = pc
    BY <2>1 DEF Typed, Worker
  <2>4. Settled(wc)
    BY <2>2, <2>3 DEF Settled
  <2> QED BY <1>1, <2>1, <2>4, LocalGroups
<1> HIDE DEF Moves
<1> QED BY <1>2, <1>3, <1>4

LEMMA WritesGroups ==
  ASSUME FewClusters, Typed, GroupInv, NEW c \in Cluster,
         UpdateTags(c) \/ TagVolume(c) \/ DeleteServer(c)
  PROVE  GroupInv'
<1>1. PICK s \in ServerId : s = w[c].srv /\ Listed(s)
  BY DEF UpdateTags, TagVolume, DeleteServer, At, Typed, Knows, OnServer
<1>2. UNCHANGED groups
  BY DEF UpdateTags, TagVolume, DeleteServer
<1>3. PICK v : /\ servers' = [servers EXCEPT ![s] = v]
               /\ v.groups = servers[s].groups
  <2> DEFINE a == [servers[s] EXCEPT
                     !.tags = buildServerTags(w[c].m, w[c].snap.tags)]
             b == [servers[s] EXCEPT !.volTags = w[c].snap.volTags]
             d == [servers[s] EXCEPT !.st = "stopping"]
  <2>1. /\ a.groups = servers[s].groups /\ b.groups = servers[s].groups
        /\ d.groups = servers[s].groups
    BY DEF Typed, Server
  <2>2. \E v \in {a, b, d} : servers' = [servers EXCEPT ![s] = v]
    BY <1>1 DEF UpdateTags, TagVolume, DeleteServer
  <2> HIDE DEF a, b, d
  <2> QED BY <2>1, <2>2
<1>4. \A g \in GroupId : Members(g)' \subseteq Members(g)
  BY <1>1, <1>3, FewerMembers
<1>5. PICK wc : Replied(c, wc) /\ Settled(wc)
  <2>1. \A pc \in {"getVolume", "patch", "existsAfterDelete"} :
          Settled([w[c] EXCEPT !.pc = pc])
    BY Later DEF Step, Undecided
  <2> QED BY <2>1, IdleSettled DEF UpdateTags, TagVolume, DeleteServer
<1> QED BY <1>2, <1>4, <1>5, WorkerFrame

LEMMA CloudGroups ==
  ASSUME FewClusters, Typed, GroupInv, NEW s \in ServerId, CloudStep(s)
  PROVE  GroupInv'
<1>1. UNCHANGED <<groups, w>> /\ Listed(s)
  BY DEF CloudStep, VolumeAppears, DeletionCompletes, ServerVanishes, TagsDrift,
         Listed
<1>2. PICK v : /\ servers' = [servers EXCEPT ![s] = v]
               /\ v.st \notin {"up", "stopping"} \/ v.groups = servers[s].groups
  <2>1. CASE VolumeAppears(s)
    <3> DEFINE v == [servers[s] EXCEPT !.vol = "ready"]
    <3>1. v.groups = servers[s].groups
      BY DEF Typed, Server
    <3>2. servers' = [servers EXCEPT ![s] = v]
      BY <2>1 DEF VolumeAppears
    <3> HIDE DEF v
    <3> QED BY <3>1, <3>2
  <2>2. CASE DeletionCompletes(s) \/ ServerVanishes(s)
    <3>1. Gone(s).st = "gone"
      BY DEF Gone, NoServer
    <3>2. servers' = [servers EXCEPT ![s] = Gone(s)]
      BY <2>2 DEF DeletionCompletes, ServerVanishes
    <3> QED BY <3>1, <3>2
  <2>3. CASE TagsDrift(s)
    <3>1. CASE \E tags \in TagMap : servers' = [servers EXCEPT ![s].tags = tags]
      <4>1. PICK tags : servers' = [servers EXCEPT ![s].tags = tags]
        BY <3>1
      <4> DEFINE v == [servers[s] EXCEPT !.tags = tags]
      <4>2. v.groups = servers[s].groups
        BY DEF Typed, Server
      <4>3. servers' = [servers EXCEPT ![s] = v]
        BY <4>1
      <4> HIDE DEF v
      <4> QED BY <4>2, <4>3
    <3>2. CASE \E tags \in VolTags :
                 servers' = [servers EXCEPT ![s].volTags = tags]
      <4>1. PICK tags : servers' = [servers EXCEPT ![s].volTags = tags]
        BY <3>2
      <4> DEFINE v == [servers[s] EXCEPT !.volTags = tags]
      <4>2. v.groups = servers[s].groups
        BY DEF Typed, Server
      <4>3. servers' = [servers EXCEPT ![s] = v]
        BY <4>1
      <4> HIDE DEF v
      <4> QED BY <4>2, <4>3
    <3> QED BY <2>3, <3>1, <3>2 DEF TagsDrift
  <2> QED BY <2>1, <2>2, <2>3 DEF CloudStep
<1>3. \A g \in GroupId : Members(g)' \subseteq Members(g)
  BY <1>1, <1>2, FewerMembers
<1> QED BY <1>1, <1>3, Frame

LEMMA WorkerGroups ==
  ASSUME FewClusters, Typed, GroupInv, NEW c \in Cluster,
         WorkerStep(c) \/ Aborts(c)
  PROVE  GroupInv'
<1>1. CASE AddFinalizer(c) \/ Exists(c) \/ MarkFailed(c) \/ Aborts(c)
  BY <1>1, CallsGroups, ExistsGroups
<1>2. CASE CreatePath(c)
  BY <1>2, ListGroupsGroups, NewGroupGroups, CreateServerGroups, CallsGroups
     DEF CreatePath
<1>3. CASE UpdatePath(c)
  BY <1>3, CallsGroups, WritesGroups DEF UpdatePath
<1>4. CASE DeletePath(c)
  BY <1>4, CallsGroups, WritesGroups DEF DeletePath
<1> QED BY <1>1, <1>2, <1>3, <1>4 DEF WorkerStep

LEMMA NextGroups ==
  ASSUME FewClusters, Typed, GroupInv, [Next]_vars
  PROVE  GroupInv'
<1>1. CASE \E c \in Cluster : WorkerStep(c) \/ Aborts(c)
  BY <1>1, WorkerGroups
<1>2. CASE \E c \in Cluster, m \in Machine : Begin(c, m)
  BY <1>2, BeginGroups
<1>3. CASE \E m \in Machine : Deliver(m) \/ UserStep(m)
  <2>1. UNCHANGED <<servers, groups, w>>
    BY <1>3 DEF Deliver, UserStep, UserCreates, UserEdits, UserDeletes
  <2> QED BY <2>1, SameMembers, Frame
<1>4. CASE \E s \in ServerId : CloudStep(s)
  BY <1>4, CloudGroups
<1>5. CASE UNCHANGED vars
  BY <1>5, SameMembers, Frame DEF vars
<1> QED BY <1>1, <1>2, <1>3, <1>4, <1>5 DEF Next, AllReleased

LEMMA InitGroups == FewClusters /\ Init => GroupInv
<1> SUFFICES ASSUME FewClusters, Init PROVE GroupInv
  OBVIOUS
<1>1. \A g \in Unnamed : Members(g) = {} /\ Joining(g) = {}
  BY DEF Init, Members, Listed, NoServer, Joining, Idle
<1>2. ASSUME NEW g \in Unnamed PROVE Fits(g)
  <2>1. Cardinality(Cluster) \in Nat
    BY FS_CardinalityType DEF FewClusters
  <2> QED BY <1>1, <2>1, FS_EmptySet, BoundAssumption DEF Fits
<1>3. \A c \in Cluster : Decides(c)
  BY DEF Init, Decides, Idle, Undecided
<1> QED BY <1>2, <1>3 DEF GroupInv

-----------------------------------------------------------------------------

\* Clusters that share a project overfill a group by fewer servers than there
\* are clusters, for any limit and any number of machines, groups, lost replies
\* and failed calls: each worker is about to join one group at most, and none
\* goes on to join a group it saw at its limit.
THEOREM Overrun ==
  ASSUME FewClusters
  PROVE  Spec => []GroupOverrun
<1>1. Init => GroupInv
  BY InitGroups
<1>2. TypeOK /\ GroupInv /\ [Next]_vars => GroupInv'
  BY TypedIsTypeOK, NextGroups
<1>3. GroupInv => GroupOverrun
  <2> SUFFICES ASSUME GroupInv, NEW g \in Unnamed
               PROVE  Cardinality(Members(g)) < GroupLimit + Cardinality(Cluster)
    BY DEF GroupOverrun
  <2>1. Cardinality(Members(g)) \in Nat
    BY FS_CardinalityType DEF GroupInv, Fits
  <2>2. Cardinality(Joining(g)) \in Nat /\ Cardinality(Cluster) \in Nat
    BY Countable DEF Joining
  <2> QED BY <2>1, <2>2, BoundAssumption DEF GroupInv, Fits
<1> QED BY <1>1, <1>2, <1>3, TypeCorrect, PTL DEF Spec

\* No group has more members than it has room for.
GroupCapacity == \A g \in Unnamed : Cardinality(Members(g)) <= GroupLimit

OneCluster == \A c, d \in Cluster : c = d

\* If one cluster uses the project, no group is ever overfilled: between the
\* list that showed room and the create that takes it, members only leave.
THEOREM Capacity ==
  ASSUME OneCluster
  PROVE  Spec => []GroupCapacity
<1>1. FewClusters /\ Cardinality(Cluster) <= 1
  <2>1. CASE Cluster = {}
    BY <2>1, FS_EmptySet DEF FewClusters
  <2>2. CASE \E c : Cluster = {c}
    BY <2>2, FS_Singleton DEF FewClusters
  <2> QED BY <2>1, <2>2 DEF OneCluster
<1>2. Cardinality(Cluster) \in Nat
  BY <1>1, FS_CardinalityType DEF FewClusters
<1>3. TypeOK /\ GroupInv => GroupCapacity
  <2> SUFFICES ASSUME GroupInv, NEW g \in Unnamed
               PROVE  Cardinality(Members(g)) <= GroupLimit
    BY DEF GroupCapacity
  <2>1. Cardinality(Members(g)) \in Nat
    BY FS_CardinalityType DEF GroupInv, Fits
  <2>2. Cardinality(Joining(g)) \in Nat
    BY <1>1, Countable DEF Joining
  <2> QED BY <1>1, <1>2, <2>1, <2>2, BoundAssumption DEF GroupInv, Fits
<1>4. Init => GroupInv
  BY <1>1, InitGroups
<1>5. TypeOK /\ GroupInv /\ [Next]_vars => GroupInv'
  BY <1>1, TypedIsTypeOK, NextGroups
<1> QED BY <1>3, <1>4, <1>5, TypeCorrect, PTL DEF Spec
=============================================================================
