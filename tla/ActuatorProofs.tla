---------------------------- MODULE ActuatorProofs ----------------------------
(***************************************************************************)
(* Proofs about Actuator for any number of clusters, machines, servers,    *)
(* groups, tags and faults.                                                *)
(***************************************************************************)
EXTENDS ActuatorInvariant, TLAPS

LEMMA IdleType == Idle \in Worker /\ NoObj \in MachineObj
                  /\ NoServer \in Server
  BY IdentityAssumption, TagAssumption, ValueAssumption
     DEF Idle, NoObj, NoServer, NoTags, Worker, MachineObj, Server, TagMap,
         Step, Volume

\* The tags a server is given are tags, with the machine's identity in them
\* whatever the user's tags say.
LEMMA BuildServerTags ==
  ASSUME NEW m \in Machine, NEW tags \in TagMap
  PROVE  /\ buildServerTags(m, tags) \in TagMap
         /\ buildServerTags(m, tags)[NameTag] = NameOf[m]
         /\ buildServerTags(m, tags)[ClusterTag] = ClusterOf[m]
  BY IdentityAssumption, TagAssumption DEF buildServerTags, TagMap

\* What the answers of a lookup mean.
LEMMA GetServer ==
  ASSUME NEW m \in Machine
  PROVE  /\ getServer(m) = Nil => Instances(m) = {}
         /\ getServer(m) \in ServerId => Instances(m) = {getServer(m)}
         /\ getServer(m) \in ServerId \cup {Nil, Multiple}
<1> DEFINE ssa == {s \in ServerId :
                     Listed(s) /\ servers[s].tags[NameTag] = NameOf[m]}
           ss  == {s \in ssa : LET tk == servers[s].tags[ClusterTag]
                               IN  tk # NoVal /\ tk = ClusterOf[m]}
<1>1. ss = Instances(m)
  BY IdentityAssumption, TagAssumption DEF Instances, Belongs
<1>2. getServer(m) = IF ss = {} THEN Nil
                     ELSE IF \E s \in ss : ss = {s} THEN CHOOSE s \in ss : ss = {s}
                     ELSE Multiple
  BY DEF getServer
<1> HIDE DEF ss, ssa
<1>3. CASE ss = {}
  BY <1>1, <1>2, <1>3, ValueAssumption
<1>4. CASE \E s \in ss : ss = {s}
  <2>1. PICK s \in ss : ss = {s}
    BY <1>4
  <2>2. getServer(m) = s /\ s \in ServerId
    BY <1>1, <1>2, <2>1 DEF Instances
  <2> QED BY <1>1, <2>1, <2>2, ValueAssumption
<1>5. CASE ss # {} /\ ~\E s \in ss : ss = {s}
  BY <1>1, <1>2, <1>5, ValueAssumption
<1> QED BY <1>3, <1>4, <1>5

\* A reply, lost or not, leaves the other workers alone and this one either
\* where the code goes on or idle.
LEMMA RepliedWorker ==
  ASSUME NEW c \in Cluster, NEW wc \in Worker, w \in [Cluster -> Worker],
         faults \in 0..MaxFaults, Replied(c, wc)
  PROVE  /\ w' \in [Cluster -> Worker]
         /\ w'[c] \in {wc, Idle}
         /\ \A d \in Cluster \ {c} : w'[d] = w[d]
         /\ faults' \in 0..MaxFaults
  BY IdleType, BoundAssumption DEF Replied, Goto, Return, Fault

LEMMA GotoWorker ==
  ASSUME NEW c \in Cluster, NEW wc \in Worker, w \in [Cluster -> Worker],
         Goto(c, wc)
  PROVE  /\ w' \in [Cluster -> Worker]
         /\ w'[c] = wc
         /\ \A d \in Cluster \ {c} : w'[d] = w[d]
  BY DEF Goto

\* The conjunct of TypeOK on what a worker knows, for one worker.
Knows(wc) == /\ wc.pc # "idle" => wc.m \in Machine
             /\ wc.pc \in OnServer => wc.srv \in ServerId

GroupVal == {Placement[m] : m \in Machine} \cup {Nil}
              \cup {GroupsBefore[g] : g \in GroupId}

Typed == /\ servers \in [ServerId -> Server]
         /\ groups \in [GroupId -> GroupVal]
         /\ obj \in [Machine -> MachineObj]
         /\ cache \in [Machine -> MachineObj]
         /\ w \in [Cluster -> Worker]
         /\ faults \in 0..MaxFaults
         /\ \A c \in Cluster : Knows(w[c])

LEMMA TypedIsTypeOK == Typed <=> TypeOK
  BY DEF Typed, TypeOK, Knows, GroupVal, OnServer

LEMMA InitTyped == Init => Typed
<1> SUFFICES ASSUME Init PROVE Typed
  OBVIOUS
<1>1. groups \in [GroupId -> GroupVal]
  BY ValueAssumption DEF Init, GroupVal
<1> QED BY <1>1, IdleType, BoundAssumption
        DEF Init, Typed, Knows, OnServer, Idle

\* Changes to single fields of a machine object.
LEMMA ObjectFields ==
  ASSUME NEW o \in MachineObj
  PROVE  /\ [o EXCEPT !.phase = "Failed"] \in MachineObj
         /\ [o EXCEPT !.st = "live"] \in MachineObj
         /\ [o EXCEPT !.st = "deleting"] \in MachineObj
<1>1. [o EXCEPT !.phase = "Failed"] \in MachineObj
  BY DEF MachineObj
<1>2. [o EXCEPT !.st = "live"] \in MachineObj
  BY DEF MachineObj
<1>3. [o EXCEPT !.st = "deleting"] \in MachineObj
  BY DEF MachineObj
<1> QED BY <1>1, <1>2, <1>3

\* The machine after the server was written to it, and what the two patches make
\* of that.
LEMMA UpdatedFields ==
  ASSUME NEW machine \in MachineObj, NEW s
  PROVE  /\ updateMachineFromCloudscaleServer(machine, s).pid = s
         /\ updateMachineFromCloudscaleServer(machine, s).status = s
  BY DEF updateMachineFromCloudscaleServer, MachineObj

LEMMA PatchEffect ==
  ASSUME Typed, NEW c \in Cluster
  PROVE  /\ Patch(c) =>
              \/ /\ w[c].snap.pid = w[c].srv /\ w[c].snap.status = w[c].srv
                 /\ Return(c) /\ UNCHANGED <<obj, faults>>
              \/ /\ obj' = [obj EXCEPT ![w[c].m].pid =
                                MergeFrom(w[c].snap.pid, w[c].srv, @)]
                 /\ \E resp \in MachineObj :
                      Replied(c, [w[c] EXCEPT !.pc = "patchStatus",
                                              !.resp = resp])
         /\ PatchStatus(c) =>
              \/ Conflict(c) /\ Return(c) /\ UNCHANGED <<obj, faults>>
              \/ /\ obj' = [obj EXCEPT ![w[c].m].status =
                               MergeFrom(w[c].snap.status, w[c].srv, @)]
                 /\ Replied(c, Idle)
<1>1. w[c].snap \in MachineObj
  BY DEF Typed, Worker
<1>2. PICK updated : updated = updateMachineFromCloudscaleServer(w[c].snap, w[c].srv)
  OBVIOUS
<1>3. updated.pid = w[c].srv /\ updated.status = w[c].srv
  BY <1>1, <1>2, UpdatedFields
<1>4. ASSUME Patch(c)
      PROVE  \/ /\ updated = w[c].snap
                /\ Return(c) /\ UNCHANGED <<obj, faults>>
             \/ /\ obj' = [obj EXCEPT ![w[c].m].pid =
                               MergeFrom(w[c].snap.pid, updated.pid, @)]
                /\ \E resp \in MachineObj :
                     Replied(c, [w[c] EXCEPT !.pc = "patchStatus",
                                             !.resp = resp])
  <2> DEFINE patched == [obj[w[c].m] EXCEPT !.pid =
                           MergeFrom(w[c].snap.pid, updated.pid, @)]
  <2>1. w[c].m \in Machine /\ w[c].srv \in ServerId
    BY <1>4 DEF Patch, At, Typed, Knows, OnServer
  <2>2. patched \in MachineObj
    <3>1. obj[w[c].m] \in MachineObj
      BY <2>1 DEF Typed
    <3>2. MergeFrom(w[c].snap.pid, updated.pid, obj[w[c].m].pid)
            \in ServerId \cup {Nil}
      BY <1>3, <2>1, <3>1 DEF MachineObj, MergeFrom
    <3> QED BY <3>1, <3>2 DEF MachineObj
  <2>3. \/ /\ updated = w[c].snap
           /\ Return(c) /\ UNCHANGED <<obj, faults>>
        \/ /\ obj' = [obj EXCEPT ![w[c].m] = patched]
           /\ Replied(c, [w[c] EXCEPT !.pc = "patchStatus", !.resp = patched])
    BY <1>2, <1>4, Zenon DEF Patch
  <2>4. obj' = [obj EXCEPT ![w[c].m] = patched] =>
          obj' = [obj EXCEPT ![w[c].m].pid =
                    MergeFrom(w[c].snap.pid, updated.pid, @)]
    OBVIOUS
  <2> HIDE DEF patched
  <2> QED BY <2>2, <2>3, <2>4
<1>5. ASSUME PatchStatus(c)
      PROVE  \/ Conflict(c) /\ Return(c) /\ UNCHANGED <<obj, faults>>
             \/ /\ obj' = [obj EXCEPT ![w[c].m].status =
                              MergeFrom(w[c].snap.status, updated.status, @)]
                /\ Replied(c, Idle)
  BY <1>2, <1>5, Zenon DEF PatchStatus
<1> QED BY <1>3, <1>4, <1>5

LEMMA ControllerTyped ==
  ASSUME Typed, NEW c \in Cluster
  PROVE  /\ \A m \in Machine : Begin(c, m) => Typed'
         /\ AddFinalizer(c) => Typed'
         /\ Exists(c) => Typed'
         /\ MarkFailed(c) => Typed'
<1>1. ASSUME NEW m \in Machine, Begin(c, m) PROVE Typed'
  <2> DEFINE wc(pc) == [Idle EXCEPT !.pc = pc, !.m = m, !.snap = cache[m]]
  <2>1. PICK pc \in {"addFinalizer", "exists", "delete"} : Goto(c, wc(pc))
    BY <1>1 DEF Begin
  <2>2. wc(pc) \in Worker /\ Knows(wc(pc))
    BY IdleType DEF Worker, Step, Idle, Knows, OnServer, Typed
  <2> HIDE DEF wc
  <2> QED BY <1>1, <2>1, <2>2, GotoWorker DEF Typed, Begin
<1>2. ASSUME AddFinalizer(c) PROVE Typed'
  <2>1. w[c].m \in Machine
    BY <1>2 DEF Typed, Knows, AddFinalizer, At
  <2>2. /\ Replied(c, Idle) \/ (Goto(c, Idle) /\ UNCHANGED faults)
        /\ Idle \in Worker /\ Knows(Idle)
    BY <1>2, IdleType DEF AddFinalizer, Return, Knows, Idle, OnServer
  <2>3. /\ w' \in [Cluster -> Worker] /\ w'[c] = Idle
        /\ \A d \in Cluster \ {c} : w'[d] = w[d]
        /\ faults' \in 0..MaxFaults
    BY <2>2, GotoWorker, RepliedWorker DEF Typed
  <2>4. obj' \in [Machine -> MachineObj]
    <3>1. [obj[w[c].m] EXCEPT !.st = "live"] \in MachineObj
      BY <2>1, ObjectFields DEF Typed
    <3> QED BY <1>2, <2>1, <3>1 DEF AddFinalizer, Typed
  <2> QED BY <1>2, <2>2, <2>3, <2>4 DEF Typed, AddFinalizer
<1>3. ASSUME Exists(c) PROVE Typed'
  <2>1. PICK wc \in {Idle} \cup {[w[c] EXCEPT !.pc = pc] :
                 pc \in {"markFailed", "listGroups", "create", "update"}} :
          Goto(c, wc)
    BY <1>3 DEF Exists, Return
  <2>2. wc \in Worker /\ Knows(wc)
    BY <1>3, <2>1, IdleType
       DEF Exists, At, Typed, Worker, Step, Knows, OnServer, Idle
  <2> QED BY <1>3, <2>1, <2>2, GotoWorker DEF Typed, Exists
<1>4. ASSUME MarkFailed(c) PROVE Typed'
  <2>1. w[c].m \in Machine /\ Replied(c, Idle) /\ Knows(Idle)
    BY <1>4 DEF Typed, Knows, MarkFailed, At, Idle, OnServer
  <2>2. obj' \in [Machine -> MachineObj]
    <3>1. [obj[w[c].m] EXCEPT !.phase = "Failed"] \in MachineObj
      BY <2>1, ObjectFields DEF Typed
    <3> QED BY <1>4, <2>1, <3>1 DEF MarkFailed, Typed
  <2> QED BY <1>4, <2>1, <2>2, RepliedWorker, IdleType DEF Typed, MarkFailed
<1> QED BY <1>1, <1>2, <1>3, <1>4

LEMMA CreateTyped ==
  ASSUME Typed, NEW c \in Cluster
  PROVE  CreatePath(c) => Typed'
<1> DEFINE to(pc) == [w[c] EXCEPT !.pc = pc]
<1>0. w[c] \in Worker /\ Idle \in Worker /\ Knows(Idle)
  BY IdleType DEF Typed, Knows, Idle, OnServer
<1>1. ASSUME ListGroups(c) PROVE Typed'
  <2> DEFINE join(g) == [w[c] EXCEPT !.pc = "create", !.grp = g]
  <2>1. w[c].m \in Machine
    BY <1>1 DEF ListGroups, At, Typed, Knows
  <2>2. CASE Goto(c, to("newGroup"))
    <3>1. to("newGroup") \in Worker /\ Knows(to("newGroup"))
      BY <1>0, <2>1 DEF Worker, Step, Knows, OnServer
    <3> QED BY <1>1, <2>2, <3>1, GotoWorker DEF Typed, ListGroups
  <2>3. CASE ~Goto(c, to("newGroup"))
    <3>1. PICK g \in GroupId : Goto(c, join(g))
      BY <1>1, <2>3 DEF ListGroups, GroupsWithRoom
    <3>2. join(g) \in Worker /\ Knows(join(g))
      BY <1>0, <2>1, <3>1 DEF Worker, Step, Knows, OnServer
    <3> HIDE DEF join
    <3> QED BY <1>1, <3>1, <3>2, GotoWorker DEF Typed, ListGroups
  <2> QED BY <2>2, <2>3
<1>2. ASSUME NewGroup(c) PROVE Typed'
  <2>1. w[c].m \in Machine
    BY <1>2 DEF NewGroup, At, Typed, Knows
  <2>2. CASE Return(c) /\ UNCHANGED <<groups, faults>>
    BY <1>0, <1>2, <2>2, GotoWorker DEF NewGroup, Return, Typed
  <2>3. CASE ~(Return(c) /\ UNCHANGED <<groups, faults>>)
    <3> DEFINE wc(g) == [w[c] EXCEPT !.pc = "create", !.grp = g]
    <3>1. PICK g \in GroupId :
            /\ groups' = [groups EXCEPT ![g] = Placement[w[c].m]]
            /\ Replied(c, wc(g))
      BY <1>2, <2>3 DEF NewGroup
    <3>2. wc(g) \in Worker /\ Knows(wc(g))
      BY <1>0, <2>1 DEF Worker, Step, Knows, OnServer
    <3>3. groups' \in [GroupId -> GroupVal]
      BY <2>1, <3>1 DEF Typed, GroupVal
    <3> HIDE DEF wc
    <3> QED BY <1>0, <1>2, <3>1, <3>2, <3>3, RepliedWorker
            DEF Typed, NewGroup
  <2> QED BY <2>2, <2>3
<1>3. ASSUME CreateServer(c) PROVE Typed'
  <2>1. w[c].m \in Machine
    BY <1>3 DEF CreateServer, At, Typed, Knows
  <2>2. CASE Return(c) /\ UNCHANGED <<servers, faults>>
    BY <1>0, <1>3, <2>2, GotoWorker DEF CreateServer, Return, Typed
  <2>3. CASE ~(Return(c) /\ UNCHANGED <<servers, faults>>)
    <3> DEFINE joins == Given[w[c].m] \cup ({w[c].grp} \ {Nil})
               new == [NoServer EXCEPT !.st = "up", !.groups = joins,
                         !.tags = buildServerTags(w[c].m, w[c].snap.tags)]
               wc(pc, s) == [w[c] EXCEPT !.pc = pc, !.srv = s]
    <3>1. PICK s \in ServerId, pc \in {"waitVolume", "patch"} :
            servers' = [servers EXCEPT ![s] = new] /\ Replied(c, wc(pc, s))
      BY <1>3, <2>3 DEF CreateServer
    <3>2. wc(pc, s) \in Worker /\ Knows(wc(pc, s))
      BY <1>0, <2>1, <3>1 DEF Worker, Step, Knows, OnServer
    <3>3. w[c].snap.tags \in TagMap
      BY <1>0, TagAssumption DEF Worker, MachineObj, NoTags, TagMap
    <3>4. new \in Server
      <4>1. joins \in SUBSET GroupId
        BY <1>0, <2>1, ValueAssumption DEF Worker
      <4> HIDE DEF joins
      <4> QED BY <2>1, <3>3, <4>1, BuildServerTags, IdleType DEF Server
    <3>5. servers' \in [ServerId -> Server]
      BY <3>1, <3>4 DEF Typed
    <3> HIDE DEF wc, new
    <3> QED BY <1>0, <1>3, <3>1, <3>2, <3>5, RepliedWorker
            DEF Typed, CreateServer
  <2> QED BY <2>2, <2>3
<1>4. ASSUME WaitVolume(c) PROVE Typed'
  <2>1. PICK wc \in {Idle, to("tagVolume")} : Goto(c, wc)
    BY <1>4 DEF WaitVolume, Return
  <2>2. wc \in Worker /\ Knows(wc)
    BY <1>0, <1>4, <2>1
       DEF WaitVolume, At, Typed, Worker, Step, Knows, OnServer
  <2> QED BY <1>4, <2>1, <2>2, GotoWorker DEF Typed, WaitVolume
<1> QED BY <1>1, <1>2, <1>3, <1>4 DEF CreatePath

\* A change to one object or one server.
LEMMA ObjectType ==
  ASSUME Typed, NEW m \in Machine, NEW o \in MachineObj,
         obj' = [obj EXCEPT ![m] = o]
  PROVE  obj' \in [Machine -> MachineObj]
  BY DEF Typed

LEMMA ServerType ==
  ASSUME Typed, NEW s \in ServerId, NEW v \in Server,
         servers' = [servers EXCEPT ![s] = v]
  PROVE  servers' \in [ServerId -> Server]
  BY DEF Typed

LEMMA UpdateTyped ==
  ASSUME Typed, NEW c \in Cluster
  PROVE  UpdatePath(c) => Typed'
<1> DEFINE to(pc) == [w[c] EXCEPT !.pc = pc]
           m == w[c].m
           s == w[c].srv
<1>0. w[c] \in Worker /\ Idle \in Worker /\ Knows(Idle)
  BY IdleType DEF Typed, Knows, Idle, OnServer
<1>1. ASSUME Update(c) PROVE Typed'
  <2> DEFINE on(pc, t) == [w[c] EXCEPT !.pc = pc, !.srv = t,
                                       !.vol = servers[t].vol]
  <2>1. CASE Goto(c, Idle)
    BY <1>0, <1>1, <2>1, GotoWorker DEF Update, Typed
  <2>2. CASE ~Goto(c, Idle)
    <3>1. PICK t \in ServerId, pc \in {"updateTags", "getVolume"} :
            Goto(c, on(pc, t))
      BY <1>1, <2>2 DEF Update, Return
    <3>2. on(pc, t) \in Worker /\ Knows(on(pc, t))
      BY <1>0, <1>1, <3>1
         DEF Update, At, Typed, Worker, Server, Step, Knows, OnServer
    <3> HIDE DEF on
    <3> QED BY <1>1, <3>1, <3>2, GotoWorker DEF Update, Typed
  <2> QED BY <2>1, <2>2
<1>2. ASSUME UpdateTags(c) PROVE Typed'
  <2>1. m \in Machine /\ s \in ServerId /\ w[c].snap.tags \in TagMap
    BY <1>0, <1>2, TagAssumption DEF UpdateTags, At, Typed, Knows, OnServer,
         Worker, MachineObj, NoTags, TagMap
  <2>2. PICK wc \in {Idle, to("getVolume")} : Replied(c, wc)
    BY <1>2 DEF UpdateTags
  <2>3. wc \in Worker /\ Knows(wc)
    BY <1>0, <2>1, <2>2 DEF Worker, Step, Knows, OnServer
  <2>4. [servers[s] EXCEPT !.tags = buildServerTags(m, w[c].snap.tags)]
          \in Server
    BY <2>1, BuildServerTags DEF Server, Typed
  <2>5. servers' \in [ServerId -> Server]
    BY <1>2, <2>1, <2>4, ServerType DEF UpdateTags
  <2> QED BY <1>2, <2>2, <2>3, <2>5, RepliedWorker, <1>0 DEF UpdateTags, Typed
<1>3. ASSUME GetVolume(c) PROVE Typed'
  <2>1. PICK wc \in {to("patch"), to("tagVolume")} : Goto(c, wc)
    BY <1>3 DEF GetVolume
  <2>2. wc \in Worker /\ Knows(wc)
    BY <1>0, <1>3, <2>1
       DEF GetVolume, At, Typed, Worker, Step, Knows, OnServer
  <2> QED BY <1>3, <2>1, <2>2, GotoWorker DEF Typed, GetVolume
<1>4. ASSUME TagVolume(c) PROVE Typed'
  <2>1. s \in ServerId /\ Replied(c, to("patch"))
    BY <1>4 DEF TagVolume, At, Typed, Knows, OnServer
  <2>2. to("patch") \in Worker /\ Knows(to("patch"))
    BY <1>0, <1>4 DEF TagVolume, At, Typed, Worker, Step, Knows, OnServer
  <2>3. [servers[s] EXCEPT !.volTags = w[c].snap.volTags] \in Server
    <3>1. w[c].snap.volTags \in VolTags
      BY <1>0 DEF Worker, MachineObj
    <3> QED BY <2>1, <3>1 DEF Server, Typed
  <2>4. servers' \in [ServerId -> Server]
    BY <1>4, <2>1, <2>3, ServerType DEF TagVolume
  <2> QED BY <1>4, <2>1, <2>2, <2>4, RepliedWorker, <1>0 DEF TagVolume, Typed
<1>5. ASSUME TargetGone(c) PROVE Typed'
  BY <1>0, <1>5, GotoWorker DEF TargetGone, Return, Typed
<1>6. ASSUME Patch(c) PROVE Typed'
  <2>1. m \in Machine /\ s \in ServerId
    BY <1>6 DEF Patch, At, Typed, Knows, OnServer
  <2>2. CASE Return(c) /\ UNCHANGED <<obj, faults>>
    BY <1>0, <1>6, <2>2, GotoWorker DEF Patch, Return, Typed
  <2>3. CASE ~(Return(c) /\ UNCHANGED <<obj, faults>>)
    <3> DEFINE on(r) == [w[c] EXCEPT !.pc = "patchStatus", !.resp = r]
    <3>1. /\ obj' = [obj EXCEPT ![m].pid = MergeFrom(w[c].snap.pid, s, @)]
          /\ \E resp \in MachineObj : Replied(c, on(resp))
      BY <1>6, <2>3, PatchEffect
    <3>2. ASSUME NEW resp \in MachineObj
          PROVE  on(resp) \in Worker /\ Knows(on(resp))
      BY <1>0, <2>1, <3>2 DEF Worker, Step, Knows, OnServer
    <3> HIDE DEF on
    <3>3. [obj[m] EXCEPT !.pid = MergeFrom(w[c].snap.pid, s, @)] \in MachineObj
      BY <2>1 DEF MachineObj, Typed, MergeFrom
    <3>4. obj' \in [Machine -> MachineObj]
      BY <2>1, <3>1, <3>3, ObjectType
    <3> QED BY <1>6, <3>1, <3>2, <3>4, RepliedWorker, <1>0 DEF Patch, Typed
  <2> QED BY <2>2, <2>3
<1>7. ASSUME PatchStatus(c) PROVE Typed'
  <2>1. m \in Machine /\ s \in ServerId
    BY <1>7 DEF PatchStatus, At, Typed, Knows, OnServer
  <2>2. CASE Return(c) /\ UNCHANGED <<obj, faults>>
    BY <1>0, <1>7, <2>2, GotoWorker DEF PatchStatus, Return, Typed
  <2>3. CASE ~(Return(c) /\ UNCHANGED <<obj, faults>>)
    <3>1. /\ obj' = [obj EXCEPT ![m].status =
                       MergeFrom(w[c].snap.status, s, @)]
          /\ Replied(c, Idle)
      BY <1>7, <2>3, PatchEffect
    <3>2. [obj[m] EXCEPT !.status = MergeFrom(w[c].snap.status, s, @)]
            \in MachineObj
      BY <2>1 DEF MachineObj, Typed, MergeFrom
    <3>3. obj' \in [Machine -> MachineObj]
      BY <2>1, <3>1, <3>2, ObjectType
    <3> QED BY <1>7, <3>1, <3>3, RepliedWorker, <1>0 DEF PatchStatus, Typed
  <2> QED BY <2>2, <2>3
<1> QED BY <1>1, <1>2, <1>3, <1>4, <1>5, <1>6, <1>7 DEF UpdatePath

LEMMA DeleteTyped ==
  ASSUME Typed, NEW c \in Cluster
  PROVE  DeletePath(c) \/ Aborts(c) => Typed'
<1> DEFINE to(pc) == [w[c] EXCEPT !.pc = pc]
           on(pc, t) == [w[c] EXCEPT !.pc = pc, !.srv = t]
           m == w[c].m
           s == w[c].srv
<1>0. w[c] \in Worker /\ Idle \in Worker /\ Knows(Idle)
  BY IdleType DEF Typed, Knows, Idle, OnServer
<1>1. ASSUME Delete(c) PROVE Typed'
  <2>1. m \in Machine
    BY <1>1 DEF Delete, At, Typed, Knows
  <2>2. CASE Goto(c, Idle)
    BY <1>0, <1>1, <2>2, GotoWorker DEF Delete, Typed
  <2>3. CASE Goto(c, to("existsAfterDelete"))
    <3>1. /\ to("existsAfterDelete") \in Worker
          /\ Knows(to("existsAfterDelete"))
      BY <1>0, <2>1 DEF Worker, Step, Knows, OnServer
    <3> QED BY <1>1, <2>3, <3>1, GotoWorker DEF Delete, Typed
  <2>4. CASE ~Goto(c, Idle) /\ ~Goto(c, to("existsAfterDelete"))
    <3>1. PICK t \in ServerId : Goto(c, on("deleteServer", t))
      BY <1>1, <2>4 DEF Delete, Return
    <3>2. on("deleteServer", t) \in Worker /\ Knows(on("deleteServer", t))
      BY <1>0, <2>1, <3>1 DEF Worker, Step, Knows, OnServer
    <3> HIDE DEF on
    <3> QED BY <1>1, <3>1, <3>2, GotoWorker DEF Delete, Typed
  <2> QED BY <2>2, <2>3, <2>4
<1>2. ASSUME DeleteServer(c) PROVE Typed'
  <2>1. m \in Machine /\ s \in ServerId /\ Replied(c, to("existsAfterDelete"))
    BY <1>2 DEF DeleteServer, At, Typed, Knows, OnServer
  <2>2. /\ to("existsAfterDelete") \in Worker
        /\ Knows(to("existsAfterDelete"))
    BY <1>0, <2>1 DEF Worker, Step, Knows, OnServer
  <2>3. [servers[s] EXCEPT !.st = "stopping"] \in Server
    BY <2>1 DEF Server, Typed
  <2>4. servers' \in [ServerId -> Server]
    BY <1>2, <2>1, <2>3, ServerType DEF DeleteServer
  <2> QED BY <1>2, <2>1, <2>2, <2>4, RepliedWorker, <1>0 DEF DeleteServer, Typed
<1>3. ASSUME ExistsAfterDelete(c) PROVE Typed'
  <2>1. m \in Machine
    BY <1>3 DEF ExistsAfterDelete, At, Typed, Knows
  <2>2. on("finalize", Nil) \in Worker /\ Knows(on("finalize", Nil))
    BY <1>0, <2>1 DEF Worker, Step, Knows, OnServer
  <2>3. Goto(c, Idle) \/ Goto(c, on("finalize", Nil))
    BY <1>3 DEF ExistsAfterDelete, Return
  <2> HIDE DEF on
  <2> QED BY <1>0, <1>3, <2>2, <2>3, GotoWorker DEF ExistsAfterDelete, Typed
<1>4. ASSUME Finalize(c) PROVE Typed'
  <2>1. m \in Machine
    BY <1>4 DEF Finalize, At, Typed, Knows
  <2>2. CASE Return(c) /\ UNCHANGED <<obj, faults>>
    BY <1>0, <1>4, <2>2, GotoWorker DEF Finalize, Return, Typed
  <2>3. CASE ~(Return(c) /\ UNCHANGED <<obj, faults>>)
    <3>1. /\ obj' = [obj EXCEPT ![m] = [NoObj EXCEPT !.st = "gone"]]
          /\ Replied(c, Idle)
      BY <1>4, <2>3 DEF Finalize
    <3>2. [NoObj EXCEPT !.st = "gone"] \in MachineObj
      BY IdleType DEF MachineObj
    <3>3. obj' \in [Machine -> MachineObj]
      BY <2>1, <3>1, <3>2, ObjectType
    <3> QED BY <1>0, <1>4, <3>1, <3>3, RepliedWorker DEF Finalize, Typed
  <2> QED BY <2>2, <2>3
<1>5. ASSUME Aborts(c) PROVE Typed'
  <2>1. faults' \in 0..MaxFaults
    BY <1>5, BoundAssumption DEF Aborts, Fault, Typed
  <2> QED BY <1>0, <1>5, <2>1, GotoWorker DEF Aborts, Return, Typed
<1> QED BY <1>1, <1>2, <1>3, <1>4, <1>5 DEF DeletePath

LEMMA CloudTyped ==
  ASSUME Typed, NEW s \in ServerId
  PROVE  CloudStep(s) => Typed'
<1>0. Gone(s) \in Server
  BY IdleType DEF Gone, Server, Typed
<1>1. CASE VolumeAppears(s)
  <2>1. [servers[s] EXCEPT !.vol = "ready"] \in Server
    BY DEF Server, Volume, Typed
  <2>2. servers' \in [ServerId -> Server]
    BY <1>1, <2>1, ServerType DEF VolumeAppears
  <2> QED BY <1>1, <2>2 DEF VolumeAppears, Typed
<1>2. CASE DeletionCompletes(s)
  <2>1. servers' \in [ServerId -> Server]
    BY <1>0, <1>2, ServerType DEF DeletionCompletes
  <2> QED BY <1>2, <2>1 DEF DeletionCompletes, Typed
<1>3. CASE ServerVanishes(s)
  <2>1. servers' \in [ServerId -> Server]
    BY <1>0, <1>3, ServerType DEF ServerVanishes
  <2>2. faults' \in 0..MaxFaults
    BY <1>3, BoundAssumption DEF ServerVanishes, Fault, Typed
  <2> QED BY <1>3, <2>1, <2>2 DEF ServerVanishes, Typed
<1>4. CASE TagsDrift(s)
  <2>1. \A tags \in TagMap : [servers[s] EXCEPT !.tags = tags] \in Server
    BY DEF Server, Typed
  <2>2. \A tags \in VolTags : [servers[s] EXCEPT !.volTags = tags] \in Server
    BY DEF Server, Typed
  <2>3. servers' \in [ServerId -> Server]
    BY <1>4, <2>1, <2>2, ServerType DEF TagsDrift
  <2>4. faults' \in 0..MaxFaults
    BY <1>4, BoundAssumption DEF TagsDrift, Fault, Typed
  <2> QED BY <1>4, <2>3, <2>4 DEF TagsDrift, Typed
<1> QED BY <1>1, <1>2, <1>3, <1>4 DEF CloudStep

LEMMA UserTyped ==
  ASSUME Typed, NEW m \in Machine
  PROVE  Deliver(m) \/ UserStep(m) => Typed'
<1>1. CASE Deliver(m)
  BY <1>1 DEF Deliver, Typed
<1>2. CASE UserCreates(m)
  <2>1. \A tags \in UserTags, volTags \in VolTags :
          [NoObj EXCEPT !.st = "new", !.tags = tags, !.volTags = volTags]
            \in MachineObj
    BY IdleType DEF MachineObj
  <2>2. obj' \in [Machine -> MachineObj]
    BY <1>2, <2>1, ObjectType DEF UserCreates
  <2> QED BY <1>2, <2>2 DEF UserCreates, Typed
<1>3. CASE UserEdits(m)
  <2>1. /\ \A tags \in UserTags : [obj[m] EXCEPT !.tags = tags] \in MachineObj
        /\ \A volTags \in VolTags :
             [obj[m] EXCEPT !.volTags = volTags] \in MachineObj
    BY DEF MachineObj, Typed
  <2>2. obj' \in [Machine -> MachineObj]
    BY <1>3, <2>1, ObjectType DEF UserEdits
  <2>3. faults' \in 0..MaxFaults
    BY <1>3, BoundAssumption DEF UserEdits, Fault, Typed
  <2> QED BY <1>3, <2>2, <2>3 DEF UserEdits, Typed
<1>4. CASE UserDeletes(m)
  <2>1. /\ [NoObj EXCEPT !.st = "gone"] \in MachineObj
        /\ [obj[m] EXCEPT !.st = "deleting"] \in MachineObj
    <3>1. [NoObj EXCEPT !.st = "gone"] \in MachineObj
      BY IdleType DEF MachineObj
    <3> QED BY <3>1, ObjectFields DEF Typed
  <2>2. obj' \in [Machine -> MachineObj]
    BY <1>4, <2>1, ObjectType DEF UserDeletes
  <2> QED BY <1>4, <2>2 DEF UserDeletes, Typed
<1> QED BY <1>1, <1>2, <1>3, <1>4 DEF UserStep

LEMMA NextTyped == Typed /\ [Next]_vars => Typed'
<1> SUFFICES ASSUME Typed, [Next]_vars PROVE Typed'
  OBVIOUS
<1>1. CASE \E c \in Cluster : WorkerStep(c) \/ Aborts(c)
  <2>1. PICK c \in Cluster : WorkerStep(c) \/ Aborts(c)
    BY <1>1
  <2> QED BY <2>1, ControllerTyped, CreateTyped, UpdateTyped, DeleteTyped
          DEF WorkerStep
<1>2. CASE \E c \in Cluster, m \in Machine : Begin(c, m)
  BY <1>2, ControllerTyped
<1>3. CASE \E m \in Machine : Deliver(m) \/ UserStep(m)
  BY <1>3, UserTyped
<1>4. CASE \E s \in ServerId : CloudStep(s)
  BY <1>4, CloudTyped
<1>5. CASE UNCHANGED vars
  BY <1>5 DEF vars, Typed
<1> QED BY <1>1, <1>2, <1>3, <1>4, <1>5 DEF Next, AllReleased

\* Every variable keeps its type, whatever the values of the constants, and no
\* worker acts on a server without knowing which one.
THEOREM TypeCorrect == Spec => []TypeOK
<1>1. Init => TypeOK
  BY InitTyped, TypedIsTypeOK
<1>2. TypeOK /\ [Next]_vars => TypeOK'
  <2>1. Typed' => TypeOK'
    BY TypedIsTypeOK DEF Typed, TypeOK, Knows, GroupVal, OnServer
  <2> QED BY <2>1, NextTyped, TypedIsTypeOK
<1> QED BY <1>1, <1>2, PTL DEF Spec
===============================================================================
