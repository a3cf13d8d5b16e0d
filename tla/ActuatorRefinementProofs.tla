----------------------- MODULE ActuatorRefinementProofs -----------------------
(***************************************************************************)
(* Proof that Actuator implements MachineLifecycle.  A step that maps to a *)
(* step of the lifecycle is one of a single machine; the inductive         *)
(* invariant provides what the lifecycle demands of the state it is taken  *)
(* in: that there is no instance when one is created or the machine is     *)
(* released, and that the machine is unwanted when one is stopped.         *)
(***************************************************************************)
EXTENDS ActuatorSafetyProofs, ActuatorRefinement

\* Nothing changes for the machine m in the lifecycle.
Same(m) == RequestOf(m)' = RequestOf(m) /\ InstanceOf(m)' = InstanceOf(m)

\* What the lifecycle lets happen to m.
Lives(m) ==
  \/ /\ RequestOf(m) = "none" /\ RequestOf(m)' \in {"wanted", "released"}
     /\ InstanceOf(m)' = InstanceOf(m)
  \/ /\ RequestOf(m) = "wanted" /\ RequestOf(m)' = "unwanted"
     /\ InstanceOf(m)' = InstanceOf(m)
  \/ /\ RequestOf(m) = "unwanted" /\ RequestOf(m)' = "released"
     /\ InstanceOf(m) = "absent" /\ InstanceOf(m)' = InstanceOf(m)
  \/ /\ RequestOf(m) \in {"wanted", "unwanted"} /\ RequestOf(m)' = RequestOf(m)
     /\ InstanceOf(m) = "absent" /\ InstanceOf(m)' = "running"
  \/ /\ RequestOf(m) = "unwanted" /\ RequestOf(m)' = RequestOf(m)
     /\ InstanceOf(m) = "running" /\ InstanceOf(m)' = "stopping"
  \/ /\ RequestOf(m)' = RequestOf(m)
     /\ InstanceOf(m) # "absent" /\ InstanceOf(m)' = "absent"

LEMMA Stutters ==
  ASSUME \A m \in Machine : Same(m)
  PROVE  [Lifecycle!Next]_(Lifecycle!vars)
  BY DEF Same, Lifecycle!vars

LEMMA LivesIsStep ==
  ASSUME NEW m \in Machine, Lives(m), \A n \in Machine \ {m} : Same(n)
  PROVE  [Lifecycle!Next]_(Lifecycle!vars)
<1> DEFINE request == [n \in Machine |-> RequestOf(n)]
           instance == [n \in Machine |-> InstanceOf(n)]
<1>1. request' = [request EXCEPT ![m] = RequestOf(m)']
  BY DEF Same
<1>2. instance' = [instance EXCEPT ![m] = InstanceOf(m)']
  BY DEF Same
<1>3. RequestOf(m)' = RequestOf(m) => UNCHANGED request
  BY DEF Same
<1>4. InstanceOf(m)' = InstanceOf(m) => UNCHANGED instance
  BY DEF Same
<1>5. request[m] = RequestOf(m) /\ instance[m] = InstanceOf(m)
  OBVIOUS
<1>6. Lifecycle!Next
  BY <1>1, <1>2, <1>3, <1>4, <1>5
     DEF Lives, Lifecycle!Next, Lifecycle!Ask, Lifecycle!Withdraw,
         Lifecycle!Provision, Lifecycle!StopInstance, Lifecycle!Disappear,
         Lifecycle!Release
<1> QED BY <1>6

-----------------------------------------------------------------------------
(* The mapping, machine by machine *)

LEMMA RequestKept ==
  ASSUME NEW m \in Machine, obj'[m].st = obj[m].st
  PROVE  RequestOf(m)' = RequestOf(m)
  BY DEF RequestOf

LEMMA InstanceKept ==
  ASSUME NEW m \in Machine, Instances(m)' = Instances(m),
         \A s \in Instances(m) : servers'[s].st = servers[s].st
  PROVE  InstanceOf(m)' = InstanceOf(m)
  BY DEF InstanceOf

LEMMA ServersKept ==
  ASSUME UNCHANGED servers
  PROVE  \A m \in Machine : InstanceOf(m)' = InstanceOf(m)
  BY DEF InstanceOf, Instances, Listed, Belongs

\* What the state of the one server is called.
LEMMA InstanceStates ==
  ASSUME NEW m \in Machine
  PROVE  /\ Instances(m) = {} => InstanceOf(m) = "absent"
         /\ \A s \in Instances(m) :
              Instances(m) = {s} =>
                /\ servers[s].st = "up" => InstanceOf(m) = "running"
                /\ servers[s].st = "stopping" => InstanceOf(m) = "stopping"
  BY DEF InstanceOf

LEMMA AbsentIsNone ==
  ASSUME NEW m \in Machine, Instances(m) # {}
  PROVE  InstanceOf(m) # "absent"
  BY DEF InstanceOf

\* A step that changes one server that is not free changes nothing for the
\* machines it does not belong to.
LEMMA OtherServers ==
  ASSUME Typed, NEW m \in Machine, NEW s \in ServerId, NEW v,
         servers' = [servers EXCEPT ![s] = v],
         v.tags[NameTag] = servers[s].tags[NameTag],
         v.tags[ClusterTag] = servers[s].tags[ClusterTag],
         v.st = servers[s].st \/ ~Belongs(s, m)
  PROVE  InstanceOf(m)' = InstanceOf(m)
<1>1. /\ servers'[s] = v
      /\ \A t \in ServerId \ {s} : servers'[t] = servers[t]
  BY DEF Typed
<1>2. Instances(m)' = Instances(m)
  BY <1>1 DEF Instances, Listed, Belongs
<1>3. \A t \in Instances(m) : servers'[t].st = servers[t].st
  BY <1>1 DEF Instances
<1> QED BY <1>2, <1>3, InstanceKept

\* The server of a machine leaves the lists.
LEMMA ServerLeaves ==
  ASSUME Typed, Sound, NEW s \in ServerId, Listed(s), UNCHANGED obj,
         servers' = [servers EXCEPT ![s] = Gone(s)]
  PROVE  [Lifecycle!Next]_(Lifecycle!vars)
<1>1. /\ servers'[s] = Gone(s)
      /\ \A t \in ServerId \ {s} : servers'[t] = servers[t]
  BY DEF Typed
<1>2. Gone(s).tags = servers[s].tags /\ Gone(s).st = "gone"
  BY DEF Gone, NoServer
<1>3. ASSUME NEW m \in Machine, ~Belongs(s, m) PROVE Same(m)
  BY <1>2, <1>3, OtherServers, RequestKept DEF Same
<1>4. CASE \E m \in Machine : Belongs(s, m)
  <2>1. PICK m \in Machine : Belongs(s, m)
    BY <1>4
  <2>2. \A n \in Machine \ {m} : Same(n)
    BY <1>3, <2>1, MadeForOne
  <2>3. Instances(m) = {s}
    <3>1. s \in Instances(m)
      BY <2>1 DEF Instances
    <3> QED BY <3>1 DEF Sound, MachineInv, SafeMachine
  <2>4. Instances(m)' = {}
    BY <1>1, <1>2, <2>3 DEF Instances, Listed, Belongs
  <2>5. InstanceOf(m)' = "absent"
    BY <2>4 DEF InstanceOf
  <2>6. Lives(m)
    BY <2>3, <2>5, AbsentIsNone, RequestKept DEF Lives
  <2> QED BY <2>2, <2>6, LivesIsStep
<1> QED BY <1>3, <1>4, Stutters

-----------------------------------------------------------------------------
(* Steps of a worker *)

LEMMA CreateServerLives ==
  ASSUME Typed, Sound, NEW c \in Cluster, CreateServer(c)
  PROVE  [Lifecycle!Next]_(Lifecycle!vars)
<1>1. w[c].pc = "create" /\ UNCHANGED obj
  BY DEF CreateServer, At
<1>2. PICK m \in Machine : m = w[c].m
  BY <1>1 DEF Sound, WorkerInv, Handles, Busy
<1>3. CASE UNCHANGED servers
  BY <1>1, <1>3, ServersKept, RequestKept, Stutters DEF Same
<1>4. CASE ~UNCHANGED servers
  <2> DEFINE joins == Given[m] \cup ({w[c].grp} \ {Nil})
             new == [NoServer EXCEPT !.st = "up", !.groups = joins,
                       !.tags = buildServerTags(m, w[c].snap.tags)]
  <2>1. PICK s \in ServerId : /\ servers[s].st = "free"
                              /\ servers' = [servers EXCEPT ![s] = new]
    BY <1>2, <1>4 DEF CreateServer
  <2>2. new.st = "up" /\ new.tags = buildServerTags(m, w[c].snap.tags)
    BY DEF NoServer
  <2>3. new.tags[NameTag] = NameOf[m] /\ new.tags[ClusterTag] = ClusterOf[m]
    <3>1. w[c].snap.tags \in TagMap
      BY TagAssumption DEF Typed, Worker, MachineObj, NoTags, TagMap
    <3> QED BY <2>2, <3>1, BuildServerTags
  <2> HIDE DEF new
  <2>4. /\ servers'[s] = new
        /\ \A t \in ServerId \ {s} : servers'[t] = servers[t]
    BY <2>1 DEF Typed
  <2>5. Instances(m) = {} /\ Instances(m)' = {s}
    <3>1. Instances(m) = {}
      BY <1>1, <1>2 DEF Sound, WorkerInv, LookedUp, Creating
    <3> QED BY <2>2, <2>3, <2>4, <3>1 DEF Instances, Listed, Belongs
  <2>6. InstanceOf(m) = "absent" /\ InstanceOf(m)' = "running"
    BY <2>2, <2>4, <2>5, InstanceStates DEF InstanceOf
  <2>7. obj[m].st \in {"live", "deleting"}
    BY <1>1, <1>2 DEF Sound, WorkerInv, OnPath, Providing, Releasing, Step
  <2>8. Lives(m)
    BY <1>1, <2>6, <2>7 DEF Lives, RequestOf
  <2>9. ASSUME NEW n \in Machine \ {m} PROVE Same(n)
    <3>1. Instances(n)' = Instances(n)
      BY <2>1, <2>3, <2>4, <2>9, IdentityAssumption
         DEF Instances, Listed, Belongs
    <3>2. \A t \in Instances(n) : servers'[t].st = servers[t].st
      BY <2>1, <2>4 DEF Instances, Listed
    <3> QED BY <1>1, <2>9, <3>1, <3>2, InstanceKept, RequestKept DEF Same
  <2> QED BY <2>8, <2>9, LivesIsStep
<1> QED BY <1>3, <1>4

\* Writing tags changes nothing that the lifecycle sees.
LEMMA WriteTagsStutters ==
  ASSUME Typed, Sound, NEW c \in Cluster, UpdateTags(c) \/ TagVolume(c)
  PROVE  [Lifecycle!Next]_(Lifecycle!vars)
<1>1. w[c].pc \in {"updateTags", "tagVolume"} /\ UNCHANGED obj
  BY DEF UpdateTags, TagVolume, At
<1>2. PICK m \in Machine, s \in ServerId :
        m = w[c].m /\ s = w[c].srv /\ Belongs(s, m)
  BY <1>1 DEF Sound, WorkerInv, Handles, Busy, OnServer, MadeFor
<1>3. \E v : /\ servers' = [servers EXCEPT ![s] = v]
             /\ v.st = servers[s].st
             /\ v.tags[NameTag] = servers[s].tags[NameTag]
             /\ v.tags[ClusterTag] = servers[s].tags[ClusterTag]
  <2>1. CASE UpdateTags(c)
    <3> DEFINE tags == buildServerTags(m, w[c].snap.tags)
               v == [servers[s] EXCEPT !.tags = tags]
    <3>1. servers' = [servers EXCEPT ![s] = v]
      BY <1>2, <2>1 DEF UpdateTags
    <3>2. v.st = servers[s].st /\ v.tags = tags
      BY DEF Typed, Server
    <3>3. tags[NameTag] = NameOf[m] /\ tags[ClusterTag] = ClusterOf[m]
      <4>1. w[c].snap.tags \in TagMap
        BY TagAssumption DEF Typed, Worker, MachineObj, NoTags, TagMap
      <4> QED BY <1>2, <4>1, BuildServerTags
    <3> QED BY <1>2, <3>1, <3>2, <3>3 DEF Belongs
  <2>2. CASE TagVolume(c)
    <3> DEFINE v == [servers[s] EXCEPT !.volTags = w[c].snap.volTags]
    <3>1. servers' = [servers EXCEPT ![s] = v]
      BY <1>2, <2>2 DEF TagVolume
    <3>2. v.st = servers[s].st /\ v.tags = servers[s].tags
      BY DEF Typed, Server
    <3> QED BY <3>1, <3>2
  <2> QED BY <2>1, <2>2
<1>4. \A n \in Machine : Same(n)
  BY <1>1, <1>3, OtherServers, RequestKept DEF Same
<1> QED BY <1>4, Stutters

LEMMA DeleteServerLives ==
  ASSUME Typed, Sound, NEW c \in Cluster, DeleteServer(c)
  PROVE  [Lifecycle!Next]_(Lifecycle!vars)
<1>1. w[c].pc = "deleteServer" /\ UNCHANGED obj
  BY DEF DeleteServer, At
<1>2. PICK m \in Machine, s \in ServerId :
        m = w[c].m /\ s = w[c].srv /\ Belongs(s, m) /\ Listed(s)
  BY <1>1 DEF DeleteServer, Sound, WorkerInv, Handles, Busy, OnServer, MadeFor
<1> DEFINE v == [servers[s] EXCEPT !.st = "stopping"]
<1>3. servers' = [servers EXCEPT ![s] = v]
  BY <1>2 DEF DeleteServer
<1>4. v.st = "stopping" /\ v.tags = servers[s].tags
  BY DEF Typed, Server
<1> HIDE DEF v
<1>5. /\ servers'[s] = v
      /\ \A t \in ServerId \ {s} : servers'[t] = servers[t]
  BY <1>3 DEF Typed
<1>6. ASSUME NEW n \in Machine \ {m} PROVE Same(n)
  <2>1. ~Belongs(s, n)
    BY <1>2, <1>6, MadeForOne
  <2> QED BY <1>1, <1>3, <1>4, <2>1, OtherServers, RequestKept DEF Same
<1>7. Instances(m) = {s} /\ Instances(m)' = {s}
  <2>1. s \in Instances(m)
    BY <1>2 DEF Instances
  <2>2. Instances(m) = {s}
    BY <2>1 DEF Sound, MachineInv, SafeMachine
  <2> QED BY <1>4, <1>5, <2>2 DEF Instances, Listed, Belongs
<1>8. InstanceOf(m)' = "stopping"
  BY <1>4, <1>5, <1>7 DEF InstanceOf
<1>9. obj[m].st = "deleting"
  <2>1. obj[m].st \in {"deleting", "gone"}
    BY <1>1, <1>2 DEF Sound, WorkerInv, OnPath, Releasing
  <2> QED BY <1>7, <2>1 DEF Sound, MachineInv, SafeMachine
<1>10. CASE servers[s].st = "up"
  <2>1. InstanceOf(m) = "running"
    BY <1>7, <1>10, InstanceStates
  <2>2. Lives(m)
    BY <1>1, <1>8, <1>9, <2>1 DEF Lives, RequestOf
  <2> QED BY <1>6, <2>2, LivesIsStep
<1>11. CASE servers[s].st = "stopping"
  <2>1. InstanceOf(m) = "stopping"
    BY <1>7, <1>11, InstanceStates
  <2>2. Same(m)
    BY <1>1, <1>8, <2>1, RequestKept DEF Same
  <2> QED BY <1>6, <2>2, Stutters
<1> QED BY <1>2, <1>10, <1>11 DEF Listed

LEMMA FinalizersLive ==
  ASSUME Typed, Sound, NEW c \in Cluster, AddFinalizer(c) \/ Finalize(c)
  PROVE  [Lifecycle!Next]_(Lifecycle!vars)
<1>1. w[c].pc \in {"addFinalizer", "finalize"} /\ UNCHANGED servers
  BY DEF AddFinalizer, Finalize, At
<1>2. PICK m \in Machine : m = w[c].m
  BY <1>1 DEF Sound, WorkerInv, Handles, Busy
<1>3. \A n \in Machine : InstanceOf(n)' = InstanceOf(n)
  BY <1>1, ServersKept
<1>4. CASE UNCHANGED obj
  BY <1>3, <1>4, RequestKept, Stutters DEF Same
<1>5. CASE ~UNCHANGED obj
  <2>1. \A n \in Machine \ {m} : obj'[n] = obj[n]
    BY <1>2 DEF AddFinalizer, Finalize, Typed
  <2>2. \A n \in Machine \ {m} : Same(n)
    BY <1>3, <2>1, RequestKept DEF Same
  <2>3. CASE AddFinalizer(c)
    <3>1. obj[m].st = "new"
      BY <1>2, <1>5, <2>3
         DEF AddFinalizer, At, Sound, WorkerInv, Handles, Busy
    <3>2. obj'[m].st = "live"
      BY <1>2, <1>5, <2>3 DEF AddFinalizer, Typed, MachineObj
    <3> QED BY <1>3, <2>2, <3>1, <3>2, LivesIsStep DEF Lives, RequestOf
  <2>4. CASE Finalize(c)
    <3>1. obj[m].st = "deleting"
      BY <1>2, <1>5, <2>4
         DEF Finalize, At, Sound, WorkerInv, Handles, Busy, Releasing
    <3>2. obj'[m].st = "gone"
      BY <1>2, <1>5, <2>4 DEF Finalize, Typed, NoObj
    <3>3. Instances(m) = {}
      BY <1>2, <2>4 DEF Finalize, At, Sound, WorkerInv, LookedUp
    <3>4. InstanceOf(m) = "absent"
      BY <3>3, InstanceStates
    <3> QED BY <1>3, <2>2, <3>1, <3>2, <3>4, LivesIsStep DEF Lives, RequestOf
  <2> QED BY <2>3, <2>4
<1> QED BY <1>4, <1>5

\* Phase, links and status of a machine are not part of the lifecycle.
LEMMA LinksStutter ==
  ASSUME Typed, Sound, NEW c \in Cluster,
         MarkFailed(c) \/ Patch(c) \/ PatchStatus(c)
  PROVE  [Lifecycle!Next]_(Lifecycle!vars)
<1>1. w[c].pc \in {"markFailed", "patch", "patchStatus"} /\ UNCHANGED servers
  BY DEF MarkFailed, Patch, PatchStatus, At
<1>2. PICK m \in Machine : m = w[c].m
  BY <1>1 DEF Sound, WorkerInv, Handles, Busy
<1>3. \/ UNCHANGED obj
      \/ \E v : obj' = [obj EXCEPT ![m] = [@ EXCEPT !.phase = v]]
      \/ \E v : obj' = [obj EXCEPT ![m] = [@ EXCEPT !.pid = v]]
      \/ \E v : obj' = [obj EXCEPT ![m] = [@ EXCEPT !.status = v]]
  <2>1. CASE MarkFailed(c)
    BY <1>2, <2>1 DEF MarkFailed
  <2>2. CASE Patch(c)
    <3>1. CASE UNCHANGED obj
      BY <3>1
    <3>2. CASE obj' = [obj EXCEPT ![w[c].m].pid =
                         MergeFrom(w[c].snap.pid, w[c].srv, @)]
      BY <1>2, <3>2
    <3> QED BY <2>2, <3>1, <3>2, PatchEffect
  <2>3. CASE PatchStatus(c)
    <3>1. \/ UNCHANGED obj
          \/ obj' = [obj EXCEPT ![w[c].m].status =
                       MergeFrom(w[c].snap.status, w[c].srv, @)]
      BY <2>3, PatchEffect
    <3> QED BY <1>2, <3>1
  <2> QED BY <2>1, <2>2, <2>3
<1>4. obj[m] \in MachineObj
  BY DEF Typed
<1>5. \A n \in Machine : obj'[n].st = obj[n].st
  <2>1. ASSUME NEW o, o.st = obj[m].st, obj' = [obj EXCEPT ![m] = o]
        PROVE  \A n \in Machine : obj'[n].st = obj[n].st
    BY <2>1 DEF Typed
  <2>2. ASSUME NEW v PROVE /\ [obj[m] EXCEPT !.phase = v].st = obj[m].st
                           /\ [obj[m] EXCEPT !.pid = v].st = obj[m].st
                           /\ [obj[m] EXCEPT !.status = v].st = obj[m].st
    BY <1>4 DEF MachineObj
  <2> QED BY <1>3, <2>1, <2>2
<1> QED BY <1>1, <1>5, ServersKept, RequestKept, Stutters DEF Same

-----------------------------------------------------------------------------
(* Steps of the user and of the cloud *)

LEMMA UserLives ==
  ASSUME Typed, NEW m \in Machine, UserStep(m)
  PROVE  [Lifecycle!Next]_(Lifecycle!vars)
<1>1. UNCHANGED servers
  BY DEF UserStep, UserCreates, UserEdits, UserDeletes
<1>2. \A n \in Machine : InstanceOf(n)' = InstanceOf(n)
  BY <1>1, ServersKept
<1>3. \A n \in Machine \ {m} : Same(n)
  <2>1. \A n \in Machine \ {m} : obj'[n] = obj[n]
    BY DEF UserStep, UserCreates, UserEdits, UserDeletes, Typed
  <2> QED BY <1>2, <2>1, RequestKept DEF Same
<1>4. CASE UserCreates(m)
  <2>1. obj[m].st = "none" /\ obj'[m].st = "new"
    BY <1>4 DEF UserCreates, NoObj, Typed
  <2> QED BY <1>2, <1>3, <2>1, Stutters DEF Same, RequestOf
<1>5. CASE UserEdits(m)
  <2>1. obj'[m].st = obj[m].st
    BY <1>5 DEF UserEdits, Typed, MachineObj
  <2> QED BY <1>2, <1>3, <2>1, RequestKept, Stutters DEF Same
<1>6. CASE UserDeletes(m)
  <2>1. \/ obj[m].st = "new" /\ obj'[m].st = "gone"
        \/ obj[m].st = "live" /\ obj'[m].st = "deleting"
    BY <1>6 DEF UserDeletes, NoObj, Typed, MachineObj
  <2> QED BY <1>2, <1>3, <2>1, LivesIsStep DEF Lives, RequestOf
<1> QED BY <1>4, <1>5, <1>6 DEF UserStep

LEMMA CloudLives ==
  ASSUME Typed, Sound, NEW s \in ServerId, CloudStep(s)
  PROVE  [Lifecycle!Next]_(Lifecycle!vars)
<1>1. UNCHANGED obj
  BY DEF CloudStep, VolumeAppears, DeletionCompletes, ServerVanishes, TagsDrift
<1>2. CASE DeletionCompletes(s) \/ ServerVanishes(s)
  BY <1>1, <1>2, ServerLeaves DEF DeletionCompletes, ServerVanishes, Listed
<1>3. CASE VolumeAppears(s) \/ TagsDrift(s)
  <2>1. servers[s] \in Server
    BY DEF Typed
  <2>2. \E v : /\ servers' = [servers EXCEPT ![s] = v]
               /\ v.st = servers[s].st
               /\ v.tags[NameTag] = servers[s].tags[NameTag]
               /\ v.tags[ClusterTag] = servers[s].tags[ClusterTag]
    <3>1. CASE VolumeAppears(s)
      <4> DEFINE v == [servers[s] EXCEPT !.vol = "ready"]
      <4>1. servers' = [servers EXCEPT ![s] = v]
        BY <3>1 DEF VolumeAppears
      <4>2. v.st = servers[s].st /\ v.tags = servers[s].tags
        BY <2>1 DEF Server
      <4> QED BY <4>1, <4>2
    <3>2. CASE \E tags \in TagMap :
                 /\ \A k \in {NameTag, ClusterTag} : tags[k] = servers[s].tags[k]
                 /\ servers' = [servers EXCEPT ![s].tags = tags]
      <4>1. PICK tags \in TagMap :
              /\ \A k \in {NameTag, ClusterTag} : tags[k] = servers[s].tags[k]
              /\ servers' = [servers EXCEPT ![s].tags = tags]
        BY <3>2
      <4> DEFINE v == [servers[s] EXCEPT !.tags = tags]
      <4>2. servers' = [servers EXCEPT ![s] = v]
        BY <4>1
      <4>3. v.st = servers[s].st /\ v.tags = tags
        BY <2>1 DEF Server
      <4> QED BY <4>1, <4>2, <4>3
    <3>3. CASE \E tags \in VolTags :
                 servers' = [servers EXCEPT ![s].volTags = tags]
      <4>1. PICK tags \in VolTags :
              servers' = [servers EXCEPT ![s].volTags = tags]
        BY <3>3
      <4> DEFINE v == [servers[s] EXCEPT !.volTags = tags]
      <4>2. servers' = [servers EXCEPT ![s] = v]
        BY <4>1
      <4>3. v.st = servers[s].st /\ v.tags = servers[s].tags
        BY <2>1 DEF Server
      <4> QED BY <4>2, <4>3
    <3> QED BY <1>3, <3>1, <3>2, <3>3 DEF TagsDrift
  <2> QED BY <1>1, <2>2, OtherServers, RequestKept, Stutters DEF Same
<1> QED BY <1>2, <1>3 DEF CloudStep

-----------------------------------------------------------------------------

LEMMA NextLives ==
  ASSUME IInv, [Next]_vars
  PROVE  [Lifecycle!Next]_(Lifecycle!vars)
<1>0. Typed /\ Sound
  BY TypedIsTypeOK DEF IInv, Sound
<1>1. ASSUME UNCHANGED <<servers, obj>>
      PROVE  [Lifecycle!Next]_(Lifecycle!vars)
  BY <1>1, ServersKept, RequestKept, Stutters DEF Same
<1>2. ASSUME NEW c \in Cluster, WorkerStep(c) \/ Aborts(c)
      PROVE  [Lifecycle!Next]_(Lifecycle!vars)
  <2>1. CASE \/ AddFinalizer(c) \/ MarkFailed(c) \/ CreateServer(c)
             \/ UpdateTags(c) \/ TagVolume(c) \/ Patch(c) \/ PatchStatus(c)
             \/ DeleteServer(c) \/ Finalize(c)
    BY <1>0, <2>1, FinalizersLive, LinksStutter, CreateServerLives,
       WriteTagsStutters, DeleteServerLives
  <2>2. CASE \/ Exists(c) \/ ListGroups(c) \/ NewGroup(c) \/ WaitVolume(c)
             \/ Update(c) \/ GetVolume(c) \/ TargetGone(c)
             \/ Delete(c) \/ ExistsAfterDelete(c) \/ Aborts(c)
    BY <1>1, <2>2 DEF Exists, ListGroups, NewGroup, WaitVolume, Update,
       GetVolume, TargetGone, Delete, ExistsAfterDelete, Aborts
  <2> QED BY <1>2, <2>1, <2>2 DEF WorkerStep, CreatePath, UpdatePath, DeletePath
<1>3. CASE \E c \in Cluster, m \in Machine : Begin(c, m)
  BY <1>1, <1>3 DEF Begin
<1>4. CASE \E m \in Machine : Deliver(m) \/ UserStep(m)
  BY <1>0, <1>1, <1>4, UserLives DEF Deliver
<1>5. CASE \E s \in ServerId : CloudStep(s)
  BY <1>0, <1>5, CloudLives
<1>6. CASE AllReleased \/ UNCHANGED vars
  BY <1>1, <1>6 DEF AllReleased, vars
<1> QED BY <1>2, <1>3, <1>4, <1>5, <1>6 DEF Next

LEMMA InitLives == Init => Lifecycle!Init
<1> SUFFICES ASSUME Init PROVE Lifecycle!Init
  OBVIOUS
<1>1. \A m \in Machine : obj[m].st = "none" /\ Instances(m) = {}
  BY DEF Init, NoObj, NoServer, Instances, Listed
<1>2. \A m \in Machine : RequestOf(m) = "none" /\ InstanceOf(m) = "absent"
  BY <1>1, InstanceStates DEF RequestOf
<1> QED BY <1>2 DEF Lifecycle!Init

\* The actuator with all that surrounds it (getServer, Create, Update, Delete,
\* retries, lagging caches, vanishing servers) does for each machine only what
\* MachineLifecycle allows.
THEOREM Refinement == Spec => ImplementsLifecycle
<1>1. Init => Lifecycle!Init
  BY InitLives
<1>2. IInv /\ [Next]_vars => [Lifecycle!Next]_(Lifecycle!vars)
  BY NextLives
<1> QED BY <1>1, <1>2, Invariance, PTL
        DEF Spec, ImplementsLifecycle, Lifecycle!Spec
===============================================================================
