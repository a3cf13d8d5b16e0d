------------------------- MODULE ActuatorSafetyProofs -------------------------
(***************************************************************************)
(* The invariant of ActuatorInvariant is inductive, hence the safety       *)
(* properties of Actuator hold for any number of clusters, machines,       *)
(* servers, tags and faults.                                               *)
(*                                                                         *)
(* A step of a worker disturbs its own locals and, through the two calls   *)
(* that matter, one server and one object.  The frame lemmas say what is   *)
(* left alone; each action then only has to be looked at for the worker    *)
(* that takes it and the machine this worker handles.                      *)
(***************************************************************************)
EXTENDS ActuatorProofs

\* The step leaves the servers of m as they were or takes some of them out of
\* the lists; it neither gives the machine a server nor revives one.
Keeps(m) ==
  /\ \A s \in ServerId : MadeFor(s, m) => MadeFor(s, m)'
  /\ \A s \in ServerId : MadeFor(s, m) /\ ~Listed(s) => ~Listed(s)'
  /\ Instances(m)' \subseteq Instances(m)

LEMMA InstancesMadeFor ==
  ASSUME NEW m \in Machine, NEW s \in Instances(m)
  PROVE  s \in ServerId /\ Listed(s) /\ MadeFor(s, m)
  BY DEF Instances, MadeFor, Listed

\* A server was made for one machine only.
LEMMA MadeForOne ==
  ASSUME NEW m \in Machine, NEW n \in Machine, NEW s \in ServerId,
         Belongs(s, m), Belongs(s, n)
  PROVE  m = n
  BY IdentityAssumption DEF Belongs

LEMMA KeepsUnchanged ==
  ASSUME NEW m \in Machine, UNCHANGED servers
  PROVE  Keeps(m)
  BY DEF Keeps, MadeFor, Belongs, Listed, Instances

\* A server that exists changes, but not the tags that identify its machine,
\* and does not come back into the lists.
LEMMA KeepsChanged ==
  ASSUME Typed, NEW m \in Machine, NEW s \in ServerId, NEW v,
         servers' = [servers EXCEPT ![s] = v],
         v.st # "free", servers[s].st # "free",
         v.tags[NameTag] = servers[s].tags[NameTag],
         v.tags[ClusterTag] = servers[s].tags[ClusterTag],
         v.st \in {"up", "stopping"} => Listed(s)
  PROVE  Keeps(m)
<1>1. /\ servers'[s] = v
      /\ \A t \in ServerId \ {s} : servers'[t] = servers[t]
  BY DEF Typed
<1> QED BY <1>1 DEF Keeps, MadeFor, Belongs, Listed, Instances

\* A new server is of no concern to the machines it was not made for.
LEMMA KeepsOthers ==
  ASSUME Typed, NEW m \in Machine, NEW n \in Machine, m # n,
         NEW s \in ServerId, NEW v, servers[s].st = "free",
         servers' = [servers EXCEPT ![s] = v],
         v.tags[NameTag] = NameOf[m], v.tags[ClusterTag] = ClusterOf[m]
  PROVE  Keeps(n)
<1>1. /\ servers'[s] = v
      /\ \A t \in ServerId \ {s} : servers'[t] = servers[t]
  BY DEF Typed
<1>2. ~MadeFor(s, n)
  BY DEF MadeFor
<1>3. s \notin Instances(n)'
  BY <1>1, IdentityAssumption DEF Instances, Belongs
<1> QED BY <1>1, <1>2, <1>3 DEF Keeps, MadeFor, Belongs, Listed, Instances

\* A step that leaves a machine and its servers alone keeps its invariant,
LEMMA MachineFrame ==
  ASSUME Typed, NEW m \in Machine, MachineInv(m), Keeps(m),
         obj'[m] = obj[m], cache'[m] = cache[m]
  PROVE  MachineInv(m)'
<1>1. CacheLags(m)' /\ FailedWasLinked(m)'
  BY DEF MachineInv, CacheLags, FailedWasLinked, Provisioned
<1>2. SafeMachine(m)'
  <2>1. {obj'[m].pid, obj'[m].status} \ {Nil} \subseteq ServerId
    BY DEF Typed, MachineObj
  <2>2. \A s \in {obj'[m].pid, obj'[m].status} \ {Nil} : MadeFor(s, m)'
    BY <2>1 DEF MachineInv, SafeMachine, Keeps
  <2> QED BY <2>2 DEF MachineInv, SafeMachine, Keeps
<1> QED BY <1>1, <1>2 DEF MachineInv

\* and so does that of a worker that did not move.
LEMMA WorkerFrame ==
  ASSUME Typed, NEW d \in Cluster, WorkerInv(d), w'[d] = w[d],
         Busy(d) => /\ MachineInv(w[d].m)
                    /\ Keeps(w[d].m)
                    /\ obj'[w[d].m] = obj[w[d].m]
                    /\ cache'[w[d].m] = cache[w[d].m]
  PROVE  WorkerInv(d)'
<1> DEFINE m == w[d].m
<1>1. CASE ~Busy(d)
  BY <1>1 DEF Busy, WorkerInv, Handles, OnPath, LookedUp, SeenLinks,
       Supersedes, OnServer, Releasing, Providing, Creating
<1>2. CASE Busy(d)
  <2>1. m \in Machine /\ MachineInv(m) /\ Keeps(m)
    BY <1>2 DEF WorkerInv, Handles
  <2>2. Handles(d)'
    BY <1>2, <2>1 DEF WorkerInv, Handles, Busy, Keeps
  <2>3. OnPath(d)' /\ SeenLinks(d)'
    BY <1>2 DEF WorkerInv, OnPath, SeenLinks, Provisioned
  <2>4. LookedUp(d)'
    BY <2>1 DEF WorkerInv, LookedUp, Keeps
  <2>5. Supersedes(d)'
    <3>1. obj[m].pid \in ServerId \cup {Nil}
      BY <2>1 DEF Typed, MachineObj
    <3>2. obj[m].pid # Nil => MadeFor(obj[m].pid, m)
      BY <2>1 DEF MachineInv, SafeMachine
    <3> QED BY <1>2, <2>1, <3>1, <3>2 DEF WorkerInv, Supersedes, Keeps
  <2> QED BY <2>2, <2>3, <2>4, <2>5 DEF WorkerInv
<1> QED BY <1>1, <1>2

\* Two workers never handle the same machine.
LEMMA OtherMachine ==
  ASSUME NEW c \in Cluster, NEW d \in Cluster, c # d, Busy(c), Busy(d),
         WorkerInv(c), WorkerInv(d)
  PROVE  w[c].m # w[d].m
  BY DEF WorkerInv, Handles

Sound == /\ \A c \in Cluster : WorkerInv(c)
         /\ \A m \in Machine : MachineInv(m)

LEMMA Moves ==
  ASSUME Typed, NEW c \in Cluster, NEW wc
  PROVE  /\ Goto(c, wc) => /\ w'[c] = wc
                           /\ \A d \in Cluster \ {c} : w'[d] = w[d]
         /\ Return(c) => Goto(c, Idle)
         /\ Replied(c, wc) => /\ w'[c] \in {wc, Idle}
                              /\ \A d \in Cluster \ {c} : w'[d] = w[d]
  BY DEF Typed, Goto, Return, Replied

LEMMA IdleSound ==
  ASSUME NEW c \in Cluster, w'[c] = Idle
  PROVE  WorkerInv(c)'
  BY DEF Idle, Busy, WorkerInv, Handles, OnPath, LookedUp, SeenLinks,
       Supersedes, OnServer, Releasing, Providing, Creating

\* A step of a busy worker that changes the object of its machine at most, and
\* servers only as the frame allows.
LEMMA BusyFrame ==
  ASSUME Typed, Sound, NEW c \in Cluster, NEW m \in Machine,
         Busy(c), w[c].m = m,
         \A d \in Cluster \ {c} : w'[d] = w[d],
         UNCHANGED cache,
         \A n \in Machine \ {m} : obj'[n] = obj[n] /\ Keeps(n),
         WorkerInv(c)', MachineInv(m)'
  PROVE  Sound'
<1>1. ASSUME NEW n \in Machine \ {m} PROVE MachineInv(n)'
  BY <1>1, MachineFrame DEF Sound
<1>2. ASSUME NEW d \in Cluster \ {c} PROVE WorkerInv(d)'
  <2>1. Busy(d) => w[d].m \in Machine \ {m}
    BY OtherMachine DEF Sound, WorkerInv, Handles
  <2>2. Busy(d) => Keeps(w[d].m)
    <3> SUFFICES ASSUME Busy(d) PROVE Keeps(w[d].m)
      OBVIOUS
    <3>1. PICK n \in Machine \ {m} : n = w[d].m
      BY <2>1
    <3>2. Keeps(n) /\ w'[d].m = n
      BY <3>1
    <3> QED BY <3>1, <3>2 DEF Keeps
  <2> QED BY <2>1, <2>2, WorkerFrame DEF Sound
<1> QED BY <1>1, <1>2 DEF Sound

\* A step of a worker that changes nothing but its locals.
LEMMA LocalFrame ==
  ASSUME Typed, Sound, NEW c \in Cluster,
         \A d \in Cluster \ {c} : w'[d] = w[d],
         UNCHANGED <<servers, obj, cache>>,
         WorkerInv(c)'
  PROVE  Sound'
<1>1. \A n \in Machine : Keeps(n) /\ MachineInv(n)'
  BY KeepsUnchanged, MachineFrame DEF Sound
<1>2. ASSUME NEW d \in Cluster \ {c} PROVE WorkerInv(d)'
  <2>1. Busy(d) => Keeps(w[d].m)
    BY DEF Keeps, MadeFor, Belongs, Listed, Instances
  <2>2. Busy(d) => w[d].m \in Machine
    BY DEF Sound, WorkerInv, Handles
  <2> QED BY <2>1, <2>2, WorkerFrame DEF Sound
<1> QED BY <1>1, <1>2 DEF Sound

\* A worker that goes on with what it knows: on the same path, with the same
\* machine, copy and server.
LEMMA MoveOn ==
  ASSUME Typed, Sound, NEW c \in Cluster, NEW m \in Machine,
         Busy(c), w[c].m = m,
         Keeps(m), obj'[m] = obj[m], cache'[m] = cache[m],
         w'[c].m = m, w'[c].snap = w[c].snap, w'[c].srv = w[c].srv,
         \/ w[c].pc \in Providing /\ w'[c].pc \in Providing
         \/ w[c].pc \in Releasing /\ w'[c].pc \in Releasing,
         w'[c].pc \in OnServer => w[c].pc \in OnServer,
         w'[c].pc \in Creating \cup {"markFailed", "finalize"} =>
           Instances(m) = {},
         w'[c].pc \in Creating => ~Provisioned(w[c].snap),
         w'[c].pc = "markFailed" => Provisioned(w[c].snap)
  PROVE  WorkerInv(c)'
<1>1. WorkerInv(c) /\ SafeMachine(m)
  BY DEF Sound, MachineInv
<1>2. Handles(c)'
  BY <1>1 DEF WorkerInv, Handles, Busy, Keeps, Providing, Releasing, OnServer
<1>3. OnPath(c)' /\ SeenLinks(c)'
  BY <1>1 DEF WorkerInv, OnPath, SeenLinks, Provisioned, Providing, Releasing,
       Creating
<1>4. LookedUp(c)'
  BY DEF LookedUp, Keeps
<1>5. Supersedes(c)'
  <2>1. obj[m].pid \in ServerId \cup {Nil}
    BY DEF Typed, MachineObj
  <2>2. obj[m].pid # Nil => MadeFor(obj[m].pid, m)
    BY <1>1 DEF SafeMachine
  <2> QED BY <1>1, <2>1, <2>2 DEF WorkerInv, Supersedes, Keeps
<1> QED BY <1>2, <1>3, <1>4, <1>5 DEF WorkerInv

LEMMA BeginSound ==
  ASSUME Typed, Sound, NEW c \in Cluster, NEW m \in Machine, Begin(c, m)
  PROVE  Sound'
<1> DEFINE wc(pc) == [Idle EXCEPT !.pc = pc, !.m = m, !.snap = cache[m]]
<1>1. PICK pc \in {"addFinalizer", "exists", "delete"} :
        /\ Goto(c, wc(pc))
        /\ pc = "addFinalizer" => cache[m].st = "new"
        /\ pc = "exists" => cache[m].st = "live" /\ cache[m].phase = "ok"
        /\ pc = "delete" => cache[m].st = "deleting"
  BY DEF Begin
<1>2. /\ w'[c].pc = pc /\ w'[c].m = m /\ w'[c].snap = cache[m]
      /\ \A d \in Cluster \ {c} : w'[d] = w[d]
  <2>1. w'[c] = wc(pc) /\ \A d \in Cluster \ {c} : w'[d] = w[d]
    BY <1>1, Moves
  <2> QED BY <2>1 DEF Idle
<1>3. UNCHANGED <<servers, obj, cache>> /\ ClusterOf[m] = c
  BY DEF Begin
<1>4. CacheLags(m) /\ FailedWasLinked(m)
  BY DEF Sound, MachineInv
<1>5. Handles(c)'
  BY <1>1, <1>2, <1>3 DEF Handles, Busy, OnServer, Releasing
<1>6. OnPath(c)' /\ SeenLinks(c)'
  BY <1>1, <1>2, <1>3, <1>4 DEF OnPath, SeenLinks, CacheLags,
       FailedWasLinked, Providing, Releasing, Creating, Step, Provisioned
<1>7. LookedUp(c)' /\ Supersedes(c)'
  BY <1>1, <1>2 DEF LookedUp, Supersedes, Creating, OnServer
<1> QED BY <1>2, <1>3, <1>5, <1>6, <1>7, LocalFrame DEF WorkerInv

\* The lookup that found a server, and the one that found none.
LEMMA LookupFacts ==
  ASSUME Sound, NEW m \in Machine
  PROVE  /\ getServer(m) = Nil => Instances(m) = {}
         /\ getServer(m) \in ServerId =>
              /\ MadeFor(getServer(m), m)
              /\ obj[m].pid \in ServerId \ {getServer(m)} => ~Listed(obj[m].pid)
<1>1. SafeMachine(m)
  BY DEF Sound, MachineInv
<1>2. ASSUME getServer(m) \in ServerId PROVE getServer(m) \in Instances(m)
  BY <1>2, GetServer
<1>3. obj[m].pid \in ServerId => MadeFor(obj[m].pid, m)
  BY <1>1, ValueAssumption DEF SafeMachine
<1> QED BY <1>1, <1>2, <1>3, GetServer, InstancesMadeFor
        DEF SafeMachine, Instances, MadeFor

LEMMA ExistsSound ==
  ASSUME Typed, Sound, NEW c \in Cluster, Exists(c)
  PROVE  Sound'
<1>1. w[c].pc = "exists" /\ Busy(c)
  BY DEF Exists, At, Busy
<1>2. WorkerInv(c)
  BY DEF Sound
<1>3. PICK m \in Machine : m = w[c].m
  BY <1>1, <1>2 DEF WorkerInv, Handles
<1> DEFINE to(pc) == [w[c] EXCEPT !.pc = pc]
<1>4. UNCHANGED <<servers, obj, cache>>
  BY DEF Exists
<1>5. CASE Goto(c, Idle)
  BY <1>4, <1>5, Moves, IdleSound, LocalFrame
<1>6. CASE ~Goto(c, Idle)
  <2>1. PICK pc \in {"markFailed", "listGroups", "create", "update"} :
          /\ Goto(c, to(pc))
          /\ pc # "update" => getServer(m) = Nil
          /\ pc \in {"listGroups", "create"} => ~Provisioned(w[c].snap)
          /\ pc = "markFailed" => Provisioned(w[c].snap)
    <3>1. \/ getServer(m) = Nil /\ Goto(c, to(
                 IF Provisioned(w[c].snap) THEN "markFailed"
                 ELSE IF Placement[m] # Nil THEN "listGroups" ELSE "create"))
          \/ Goto(c, to("update"))
      BY <1>3, <1>6 DEF Exists, Return
    <3> HIDE DEF to
    <3>2. CASE Goto(c, to("update"))
      BY <3>2
    <3>3. CASE ~Goto(c, to("update")) /\ Provisioned(w[c].snap)
      <4>1. getServer(m) = Nil /\ Goto(c, to("markFailed"))
        BY <3>1, <3>3
      <4> QED BY <3>3, <4>1
    <3>4. CASE ~Goto(c, to("update")) /\ ~Provisioned(w[c].snap)
      <4>1. getServer(m) = Nil
            /\ (Goto(c, to("listGroups")) \/ Goto(c, to("create")))
        BY <3>1, <3>4
      <4> QED BY <3>4, <4>1
    <3> QED BY <3>2, <3>3, <3>4
  <2>2. /\ w'[c].pc = pc /\ w'[c].m = m /\ w'[c].snap = w[c].snap
        /\ \A d \in Cluster \ {c} : w'[d] = w[d]
    BY <1>3, <2>1, Moves DEF Typed, Worker
  <2>3. WorkerInv(c)'
    <3>1. Keeps(m) /\ obj'[m] = obj[m] /\ cache'[m] = cache[m]
      BY <1>4, KeepsUnchanged
    <3>2. w'[c].srv = w[c].srv
      BY <2>1, Moves DEF Typed, Worker
    <3> QED BY <1>1, <1>3, <2>1, <2>2, <3>1, <3>2, MoveOn, LookupFacts
            DEF Providing, Releasing, Creating, OnServer, Step
  <2> QED BY <1>4, <2>2, <2>3, LocalFrame
<1> QED BY <1>5, <1>6

LEMMA AddFinalizerSound ==
  ASSUME Typed, Sound, NEW c \in Cluster, AddFinalizer(c)
  PROVE  Sound'
<1>1. w[c].pc = "addFinalizer" /\ Busy(c)
  BY DEF AddFinalizer, At, Busy
<1>2. PICK m \in Machine : m = w[c].m /\ w[c].snap.st = "new"
  BY <1>1 DEF Sound, WorkerInv, Handles
<1>3. w'[c] = Idle /\ \A d \in Cluster \ {c} : w'[d] = w[d]
  BY Moves DEF AddFinalizer
<1>4. UNCHANGED <<servers, cache>> /\ \A n \in Machine : Keeps(n)
  BY KeepsUnchanged DEF AddFinalizer
<1>5. CASE UNCHANGED obj
  BY <1>3, <1>4, <1>5, IdleSound, LocalFrame
<1>6. CASE ~UNCHANGED obj
  <2>1. obj[m].st = "new" /\ obj' = [obj EXCEPT ![m].st = "live"]
    BY <1>2, <1>6 DEF AddFinalizer
  <2>2. /\ obj'[m] = [obj[m] EXCEPT !.st = "live"]
        /\ \A n \in Machine \ {m} : obj'[n] = obj[n]
    BY <2>1 DEF Typed
  <2>3. /\ obj'[m].st = "live" /\ obj'[m].phase = obj[m].phase
        /\ obj'[m].pid = obj[m].pid /\ obj'[m].status = obj[m].status
    BY <2>2 DEF Typed, MachineObj
  <2>4. MachineInv(m)
    BY DEF Sound
  <2>5. CacheLags(m)' /\ FailedWasLinked(m)'
    BY <1>4, <2>1, <2>3, <2>4
       DEF MachineInv, CacheLags, FailedWasLinked, Provisioned
  <2>6. SafeMachine(m)'
    BY <1>4, <2>1, <2>3, <2>4, KeepsUnchanged
       DEF MachineInv, SafeMachine, Instances, Listed, MadeFor, Belongs
  <2> QED BY <1>1, <1>2, <1>3, <1>4, <2>2, <2>5, <2>6, IdleSound, BusyFrame
          DEF MachineInv
<1> QED BY <1>5, <1>6

LEMMA MarkFailedSound ==
  ASSUME Typed, Sound, NEW c \in Cluster, MarkFailed(c)
  PROVE  Sound'
<1>1. w[c].pc = "markFailed" /\ Busy(c)
  BY DEF MarkFailed, At, Busy
<1>2. PICK m \in Machine : m = w[c].m
  BY <1>1 DEF Sound, WorkerInv, Handles
<1>3. w'[c] = Idle /\ \A d \in Cluster \ {c} : w'[d] = w[d]
  BY Moves DEF MarkFailed
<1>4. UNCHANGED <<servers, cache>> /\ \A n \in Machine : Keeps(n)
  BY KeepsUnchanged DEF MarkFailed
<1>5. /\ obj'[m] = [obj[m] EXCEPT !.phase = "Failed"]
      /\ \A n \in Machine \ {m} : obj'[n] = obj[n]
  BY <1>2 DEF MarkFailed, Typed
<1>6. /\ obj'[m].st = obj[m].st /\ obj'[m].pid = obj[m].pid
      /\ obj'[m].status = obj[m].status
  BY <1>5 DEF Typed, MachineObj
<1>7. /\ Instances(m) = {}
      /\ Provisioned(obj[m]) /\ Provisioned(cache[m])
  BY <1>1, <1>2 DEF Sound, WorkerInv, LookedUp, SeenLinks, Providing, Step,
       Releasing
<1>8. CacheLags(m)' /\ FailedWasLinked(m)'
  BY <1>4, <1>6, <1>7 DEF Sound, MachineInv, CacheLags, FailedWasLinked,
       Provisioned
<1>9. SafeMachine(m)'
  BY <1>4, <1>6, <1>7 DEF Sound, MachineInv, SafeMachine, Instances, Listed,
       MadeFor, Belongs
<1> QED BY <1>1, <1>2, <1>3, <1>4, <1>5, <1>8, <1>9, IdleSound, BusyFrame
        DEF MachineInv

\* A reconcile that ends without a change.
LEMMA ReturnSound ==
  ASSUME Typed, Sound, NEW c \in Cluster, Return(c),
         UNCHANGED <<servers, obj, cache>>
  PROVE  Sound'
  BY Moves, IdleSound, LocalFrame

LEMMA GroupsSound ==
  ASSUME Typed, Sound, NEW c \in Cluster, ListGroups(c) \/ NewGroup(c)
  PROVE  Sound'
<1>1. w[c].pc \in {"listGroups", "newGroup"} /\ Busy(c)
  BY DEF ListGroups, NewGroup, At, Busy
<1>2. PICK m \in Machine : m = w[c].m
  BY <1>1 DEF Sound, WorkerInv, Handles
<1>3. UNCHANGED <<servers, obj, cache>>
  BY DEF ListGroups, NewGroup
<1>4. CASE Return(c)
  BY <1>3, <1>4, ReturnSound
<1>5. CASE ~Return(c)
  <2> DEFINE to == [w[c] EXCEPT !.pc = "newGroup"]
             join(g) == [w[c] EXCEPT !.pc = "create", !.grp = g]
  <2>1. \/ Goto(c, to)
        \/ \E g \in GroupId : Goto(c, join(g)) \/ Replied(c, join(g))
    BY <1>5 DEF ListGroups, NewGroup, GroupsWithRoom
  <2>2. \/ w'[c] = Idle
        \/ w'[c] = to
        \/ \E g \in GroupId : w'[c] = join(g)
    BY <2>1, Moves
  <2>3. \A d \in Cluster \ {c} : w'[d] = w[d]
    BY <2>1, Moves
  <2>4. CASE w'[c] = Idle
    BY <1>3, <2>3, <2>4, IdleSound, LocalFrame
  <2>5. CASE w'[c] # Idle
    <3>1. /\ w'[c].pc \in Creating /\ w'[c].m = m
          /\ w'[c].snap = w[c].snap /\ w'[c].srv = w[c].srv
      BY <1>2, <2>2, <2>5 DEF Typed, Worker, Creating
    <3>2. Keeps(m) /\ obj'[m] = obj[m] /\ cache'[m] = cache[m]
      BY <1>3, KeepsUnchanged
    <3>3. Instances(m) = {} /\ ~Provisioned(w[c].snap)
      BY <1>1, <1>2 DEF Sound, WorkerInv, LookedUp, SeenLinks, Creating
    <3>4. WorkerInv(c)'
      BY <1>1, <1>2, <3>1, <3>2, <3>3, MoveOn
         DEF Creating, Providing, Releasing, OnServer, Step
    <3> QED BY <1>3, <2>3, <3>4, LocalFrame
  <2> QED BY <2>4, <2>5
<1> QED BY <1>4, <1>5

\* The steps that read: the poll for the volume, and the volume itself.
LEMMA ReadVolumeSound ==
  ASSUME Typed, Sound, NEW c \in Cluster, WaitVolume(c) \/ GetVolume(c)
  PROVE  Sound'
<1>1. w[c].pc \in {"waitVolume", "getVolume"} /\ Busy(c)
  BY DEF WaitVolume, GetVolume, At, Busy
<1>2. PICK m \in Machine : m = w[c].m
  BY <1>1 DEF Sound, WorkerInv, Handles
<1>3. UNCHANGED <<servers, obj, cache>>
  BY DEF WaitVolume, GetVolume
<1>4. CASE Return(c)
  BY <1>3, <1>4, ReturnSound
<1>5. CASE ~Return(c)
  <2> DEFINE to(pc) == [w[c] EXCEPT !.pc = pc]
  <2>1. PICK pc \in {"patch", "tagVolume"} : Goto(c, to(pc))
    BY <1>5 DEF WaitVolume, GetVolume
  <2>2. /\ w'[c].pc = pc /\ w'[c].m = m
        /\ w'[c].snap = w[c].snap /\ w'[c].srv = w[c].srv
        /\ \A d \in Cluster \ {c} : w'[d] = w[d]
    BY <1>2, <2>1, Moves DEF Typed, Worker
  <2>3. Keeps(m) /\ obj'[m] = obj[m] /\ cache'[m] = cache[m]
    BY <1>3, KeepsUnchanged
  <2>4. WorkerInv(c)'
    BY <1>1, <1>2, <2>2, <2>3, MoveOn
       DEF Creating, Providing, Releasing, OnServer, Step
  <2> QED BY <1>3, <2>2, <2>4, LocalFrame
<1> QED BY <1>4, <1>5

\* The one step that gives a machine a server: the lookup before it found none.
LEMMA CreateServerSound ==
  ASSUME Typed, Sound, NEW c \in Cluster, CreateServer(c)
  PROVE  Sound'
<1>1. w[c].pc = "create" /\ Busy(c)
  BY DEF CreateServer, At, Busy
<1>2. PICK m \in Machine : m = w[c].m
  BY <1>1 DEF Sound, WorkerInv, Handles
<1>3. UNCHANGED <<obj, cache>>
  BY DEF CreateServer
<1>4. CASE UNCHANGED servers /\ Return(c)
  BY <1>3, <1>4, ReturnSound
<1>5. CASE ~(UNCHANGED servers /\ Return(c))
  <2> DEFINE joins == Given[m] \cup ({w[c].grp} \ {Nil})
             new == [NoServer EXCEPT !.st = "up", !.groups = joins,
                       !.tags = buildServerTags(m, w[c].snap.tags)]
             wc(pc, s) == [w[c] EXCEPT !.pc = pc, !.srv = s]
  <2>1. PICK s \in ServerId, pc \in {"waitVolume", "patch"} :
          /\ servers[s].st = "free"
          /\ servers' = [servers EXCEPT ![s] = new]
          /\ Replied(c, wc(pc, s))
    BY <1>2, <1>5 DEF CreateServer
  <2>2. \A d \in Cluster \ {c} : w'[d] = w[d]
    BY <2>1, Moves
  <2>3. /\ new.st = "up"
        /\ new.tags[NameTag] = NameOf[m] /\ new.tags[ClusterTag] = ClusterOf[m]
    <3>1. w[c].snap.tags \in TagMap
      BY TagAssumption DEF Typed, Worker, MachineObj, NoTags, TagMap
    <3> QED BY <3>1, BuildServerTags DEF NoServer
  <2> HIDE DEF new
  <2>4. /\ servers'[s] = new
        /\ \A t \in ServerId \ {s} : servers'[t] = servers[t]
    BY <2>1 DEF Typed
  <2>5. \A n \in Machine \ {m} : Keeps(n) /\ obj'[n] = obj[n]
    BY <1>3, <2>1, <2>3, KeepsOthers
  <2>6. /\ Instances(m) = {}
        /\ obj[m].st \in {"live", "deleting"}
        /\ obj[m].phase # "Failed"
    BY <1>1, <1>2 DEF Sound, WorkerInv, LookedUp, OnPath, SeenLinks, Creating,
         Providing, Releasing, Step
  <2>7. /\ Instances(m)' = {s} /\ MadeFor(s, m)'
        /\ \A t \in ServerId : MadeFor(t, m) => t # s /\ MadeFor(t, m)'
    BY <2>1, <2>3, <2>4, <2>6 DEF Instances, Listed, MadeFor, Belongs
  <2>8. MachineInv(m) /\ {obj[m].pid, obj[m].status} \ {Nil} \subseteq ServerId
    BY DEF Sound, Typed, MachineObj
  <2>9. MachineInv(m)'
    <3>1. CacheLags(m)' /\ FailedWasLinked(m)'
      BY <1>3, <2>8 DEF MachineInv, CacheLags, FailedWasLinked, Provisioned
    <3>2. SafeMachine(m)'
      BY <1>3, <2>6, <2>7, <2>8 DEF MachineInv, SafeMachine
    <3> QED BY <3>1, <3>2 DEF MachineInv
  <2>10. WorkerInv(c)'
    <3>1. CASE w'[c] = Idle
      BY <3>1, IdleSound
    <3>2. CASE w'[c] # Idle
      <4>1. w'[c] = wc(pc, s)
        BY <2>1, <3>2, Moves
      <4>2. /\ w'[c].pc = pc /\ w'[c].srv = s /\ w'[c].m = m
            /\ w'[c].snap = w[c].snap
        BY <1>2, <4>1 DEF Typed, Worker
      <4>3. WorkerInv(c)
        BY DEF Sound
      <4>4. Handles(c)' /\ OnPath(c)' /\ SeenLinks(c)' /\ LookedUp(c)'
        BY <1>1, <1>2, <1>3, <2>1, <2>7, <4>2, <4>3
           DEF WorkerInv, Handles, OnPath, SeenLinks, LookedUp, Busy,
               Provisioned, Creating, Providing, Releasing, OnServer, Step
      <4>5. Supersedes(c)'
        <5>1. obj[m].pid \in ServerId => ~Listed(obj[m].pid)
          BY <2>6, <2>8, ValueAssumption
             DEF MachineInv, SafeMachine, Instances, MadeFor
        <5> QED BY <1>3, <2>4, <2>8, <4>2, <5>1 DEF Supersedes, Listed
      <4> QED BY <4>4, <4>5 DEF WorkerInv
    <3> QED BY <3>1, <3>2
  <2> QED BY <1>1, <1>2, <1>3, <2>2, <2>5, <2>9, <2>10, BusyFrame
<1> QED BY <1>4, <1>5

\* A worker that found the server of its machine.
LEMMA TakeServer ==
  ASSUME Typed, Sound, NEW c \in Cluster, NEW m \in Machine, NEW s \in ServerId,
         Busy(c), w[c].m = m, getServer(m) = s,
         UNCHANGED <<servers, obj, cache>>,
         w'[c].m = m, w'[c].snap = w[c].snap, w'[c].srv = s,
         \/ w[c].pc \in Providing /\ w'[c].pc \in {"updateTags", "getVolume"}
         \/ w[c].pc \in Releasing /\ w'[c].pc = "deleteServer"
  PROVE  WorkerInv(c)'
<1>1. WorkerInv(c)
  BY DEF Sound
<1>2. MadeFor(s, m) /\ (obj[m].pid \in ServerId \ {s} => ~Listed(obj[m].pid))
  BY LookupFacts
<1>3. MadeFor(s, m)'
  BY <1>2 DEF MadeFor, Belongs
<1>4. Handles(c)' /\ OnPath(c)' /\ SeenLinks(c)' /\ LookedUp(c)'
  BY <1>1, <1>3 DEF WorkerInv, Handles, OnPath, SeenLinks, LookedUp, Busy,
       Provisioned, Creating, Providing, Releasing, OnServer, Step
<1>5. Supersedes(c)'
  <2>1. obj[m].pid \in ServerId \cup {Nil}
    BY DEF Typed, MachineObj
  <2> QED BY <1>2, <2>1 DEF Supersedes, Listed
<1> QED BY <1>4, <1>5 DEF WorkerInv

LEMMA UpdateSound ==
  ASSUME Typed, Sound, NEW c \in Cluster, Update(c)
  PROVE  Sound'
<1>1. w[c].pc = "update" /\ Busy(c)
  BY DEF Update, At, Busy
<1>2. PICK m \in Machine : m = w[c].m
  BY <1>1 DEF Sound, WorkerInv, Handles
<1>3. UNCHANGED <<servers, obj, cache>>
  BY DEF Update
<1>4. CASE Return(c)
  BY <1>3, <1>4, ReturnSound
<1>5. CASE ~Return(c)
  <2> DEFINE on(pc, s) == [w[c] EXCEPT !.pc = pc, !.srv = s,
                                       !.vol = servers[s].vol]
  <2>1. PICK s \in ServerId, pc \in {"updateTags", "getVolume"} :
          getServer(m) = s /\ Goto(c, on(pc, s))
    BY <1>2, <1>5 DEF Update
  <2>2. /\ w'[c].pc = pc /\ w'[c].m = m /\ w'[c].srv = s
        /\ w'[c].snap = w[c].snap
        /\ \A d \in Cluster \ {c} : w'[d] = w[d]
    <3>1. w'[c] = on(pc, s) /\ \A d \in Cluster \ {c} : w'[d] = w[d]
      BY <2>1, Moves
    <3> QED BY <1>2, <3>1 DEF Typed, Worker
  <2>3. WorkerInv(c)'
    BY <1>1, <1>2, <1>3, <2>1, <2>2, TakeServer DEF Providing, Releasing, Step
  <2> QED BY <1>3, <2>2, <2>3, LocalFrame
<1> QED BY <1>4, <1>5

\* The steps that write tags keep the identity of the server,
LEMMA WriteTagsKeep ==
  ASSUME Typed, Sound, NEW c \in Cluster, UpdateTags(c) \/ TagVolume(c)
  PROVE  \A n \in Machine : Keeps(n)
<1>0. PICK m \in Machine, s \in ServerId :
        m = w[c].m /\ s = w[c].srv /\ MadeFor(s, m)
  BY DEF UpdateTags, TagVolume, At, Sound, WorkerInv, Handles, OnServer, Busy
<1>1. CASE UpdateTags(c)
  <2> DEFINE v == [servers[s] EXCEPT
                     !.tags = buildServerTags(m, w[c].snap.tags)]
  <2>1. servers' = [servers EXCEPT ![s] = v] /\ Listed(s)
    BY <1>0, <1>1 DEF UpdateTags
  <2>2. w[c].snap.tags \in TagMap
    BY TagAssumption DEF Typed, Worker, MachineObj, NoTags, TagMap
  <2>3. /\ v.st = servers[s].st
        /\ v.tags[NameTag] = servers[s].tags[NameTag]
        /\ v.tags[ClusterTag] = servers[s].tags[ClusterTag]
    BY <1>0, <2>2, BuildServerTags DEF MadeFor, Belongs, Typed, Server
  <2> HIDE DEF v
  <2> QED BY <1>0, <2>1, <2>3, KeepsChanged DEF MadeFor
<1>2. CASE TagVolume(c)
  <2> DEFINE v == [servers[s] EXCEPT !.volTags = w[c].snap.volTags]
  <2>1. servers' = [servers EXCEPT ![s] = v] /\ Listed(s)
    BY <1>0, <1>2 DEF TagVolume
  <2>2. v.st = servers[s].st /\ v.tags = servers[s].tags
    BY DEF Typed, Server
  <2> HIDE DEF v
  <2> QED BY <1>0, <2>1, <2>2, KeepsChanged DEF MadeFor
<1> QED BY <1>1, <1>2

\* and change nothing else.
LEMMA WriteTagsSound ==
  ASSUME Typed, Sound, NEW c \in Cluster, UpdateTags(c) \/ TagVolume(c)
  PROVE  Sound'
<1>1. w[c].pc \in {"updateTags", "tagVolume"} /\ Busy(c)
  BY DEF UpdateTags, TagVolume, At, Busy
<1>2. PICK m \in Machine, s \in ServerId :
        m = w[c].m /\ s = w[c].srv /\ MadeFor(s, m)
  BY <1>1 DEF Sound, WorkerInv, Handles, OnServer
<1>3. UNCHANGED <<obj, cache>>
  BY DEF UpdateTags, TagVolume
<1>4. \A n \in Machine : Keeps(n)
  BY WriteTagsKeep
<1> DEFINE to(pc) == [w[c] EXCEPT !.pc = pc]
<1>5. PICK pc \in {"getVolume", "patch"} : Replied(c, Idle) \/ Replied(c, to(pc))
  BY DEF UpdateTags, TagVolume
<1>6. /\ w'[c] \in {Idle, to(pc)}
      /\ \A d \in Cluster \ {c} : w'[d] = w[d]
  BY <1>5, Moves
<1>7. WorkerInv(c)'
  <2>1. CASE w'[c] = Idle
    BY <2>1, IdleSound
  <2>2. CASE w'[c] # Idle
    <3>1. /\ w'[c].pc = pc /\ w'[c].m = m
          /\ w'[c].snap = w[c].snap /\ w'[c].srv = w[c].srv
      BY <1>2, <1>6, <2>2 DEF Typed, Worker
    <3> QED BY <1>1, <1>2, <1>3, <1>4, <3>1, MoveOn
            DEF Creating, Providing, Releasing, OnServer, Step
  <2> QED BY <2>1, <2>2
<1>8. MachineInv(m)'
  BY <1>3, <1>4, MachineFrame DEF Sound
<1> QED BY <1>1, <1>2, <1>3, <1>4, <1>6, <1>7, <1>8, BusyFrame

\* A new value for the link or the status: the server the worker works on.
LEMMA LinkSound ==
  ASSUME Typed, Sound, NEW m \in Machine, NEW s \in ServerId, MadeFor(s, m),
         UNCHANGED <<servers, cache>>,
         obj'[m].st = obj[m].st, obj'[m].phase = obj[m].phase,
         obj'[m].pid \in {s, obj[m].pid},
         obj'[m].status \in {s, obj[m].status}
  PROVE  MachineInv(m)'
<1>1. MachineInv(m)
  BY DEF Sound
<1>2. Provisioned(obj[m]) => Provisioned(obj'[m])
  BY ValueAssumption DEF Provisioned
<1>3. CacheLags(m)' /\ FailedWasLinked(m)'
  BY <1>1, <1>2 DEF MachineInv, CacheLags, FailedWasLinked, Provisioned
<1>4. SafeMachine(m)'
  BY <1>1 DEF MachineInv, SafeMachine, Instances, Listed, MadeFor, Belongs
<1> QED BY <1>3, <1>4 DEF MachineInv

LEMMA PatchSound ==
  ASSUME Typed, Sound, NEW c \in Cluster, Patch(c)
  PROVE  Sound'
<1>1. w[c].pc = "patch" /\ Busy(c)
  BY DEF Patch, At, Busy
<1>2. PICK m \in Machine, s \in ServerId :
        m = w[c].m /\ s = w[c].srv /\ MadeFor(s, m)
  BY <1>1 DEF Sound, WorkerInv, Handles, OnServer
<1>3. UNCHANGED <<servers, cache>> /\ \A n \in Machine : Keeps(n)
  BY KeepsUnchanged DEF Patch
<1>4. CASE Return(c) /\ UNCHANGED obj
  BY <1>3, <1>4, ReturnSound
<1>5. CASE ~(Return(c) /\ UNCHANGED obj)
  <2>0. PICK resp \in MachineObj :
          /\ obj' = [obj EXCEPT ![m].pid = MergeFrom(w[c].snap.pid, s, @)]
          /\ Replied(c, [w[c] EXCEPT !.pc = "patchStatus", !.resp = resp])
    BY <1>2, <1>5, PatchEffect
  <2> DEFINE to == [w[c] EXCEPT !.pc = "patchStatus", !.resp = resp]
  <2>1. /\ obj' = [obj EXCEPT ![m].pid = MergeFrom(w[c].snap.pid, s, @)]
        /\ Replied(c, to)
    BY <2>0
  <2>2. /\ obj'[m] = [obj[m] EXCEPT !.pid = MergeFrom(w[c].snap.pid, s, @)]
        /\ \A n \in Machine \ {m} : obj'[n] = obj[n]
    BY <2>1 DEF Typed
  <2>3. /\ obj'[m].st = obj[m].st /\ obj'[m].phase = obj[m].phase
        /\ obj'[m].status = obj[m].status /\ obj'[m].pid \in {s, obj[m].pid}
    BY <2>2 DEF Typed, MachineObj, MergeFrom
  <2>4. MachineInv(m)'
    BY <1>2, <1>3, <2>3, LinkSound
  <2>5. w'[c] \in {Idle, to} /\ \A d \in Cluster \ {c} : w'[d] = w[d]
    BY <2>1, Moves
  <2>6. WorkerInv(c)'
    <3>1. CASE w'[c] = Idle
      BY <3>1, IdleSound
    <3>2. CASE w'[c] # Idle
      <4>1. /\ w'[c].pc = "patchStatus" /\ w'[c].m = m /\ w'[c].srv = s
            /\ w'[c].snap = w[c].snap
        BY <1>2, <2>5, <3>2 DEF Typed, Worker
      <4>2. WorkerInv(c)
        BY DEF Sound
      <4>3. MadeFor(s, m)' /\ \A t \in ServerId : Listed(t)' <=> Listed(t)
        BY <1>2, <1>3 DEF MadeFor, Belongs, Listed
      <4>4. Handles(c)' /\ OnPath(c)' /\ LookedUp(c)'
        BY <1>1, <1>2, <1>3, <2>3, <4>1, <4>2, <4>3
           DEF WorkerInv, Handles, OnPath, LookedUp, Busy, Creating,
               Providing, Releasing, OnServer, Step
      <4>5. SeenLinks(c)'
        BY <1>1, <1>2, <1>3, <2>3, <4>1, <4>2, ValueAssumption
           DEF WorkerInv, SeenLinks, Provisioned, Creating, Providing,
               Releasing, Step
      <4>6. obj[m].pid \in ServerId \cup {Nil}
        BY DEF Typed, MachineObj
      <4>7. Supersedes(c)'
        BY <1>1, <1>2, <1>3, <2>3, <4>1, <4>2, <4>6
           DEF WorkerInv, Supersedes, OnServer, Listed
      <4> QED BY <4>4, <4>5, <4>7 DEF WorkerInv
    <3> QED BY <3>1, <3>2
  <2> QED BY <1>1, <1>2, <1>3, <2>2, <2>4, <2>5, <2>6, BusyFrame
<1> QED BY <1>4, <1>5

LEMMA PatchStatusSound ==
  ASSUME Typed, Sound, NEW c \in Cluster, PatchStatus(c)
  PROVE  Sound'
<1>1. w[c].pc = "patchStatus" /\ Busy(c)
  BY DEF PatchStatus, At, Busy
<1>2. PICK m \in Machine, s \in ServerId :
        m = w[c].m /\ s = w[c].srv /\ MadeFor(s, m)
  BY <1>1 DEF Sound, WorkerInv, Handles, OnServer
<1>3. UNCHANGED <<servers, cache>> /\ \A n \in Machine : Keeps(n)
  BY KeepsUnchanged DEF PatchStatus
<1>4. /\ \/ obj'[m] = obj[m]
         \/ obj'[m] = [obj[m] EXCEPT !.status =
                          MergeFrom(w[c].snap.status, s, @)]
      /\ \A n \in Machine \ {m} : obj'[n] = obj[n]
  BY <1>2, PatchEffect DEF Typed
<1>5. /\ obj'[m].st = obj[m].st /\ obj'[m].phase = obj[m].phase
      /\ obj'[m].pid = obj[m].pid /\ obj'[m].status \in {s, obj[m].status}
  BY <1>4 DEF Typed, MachineObj, MergeFrom
<1>6. w'[c] = Idle /\ \A d \in Cluster \ {c} : w'[d] = w[d]
  BY PatchEffect, Moves
<1> QED BY <1>1, <1>2, <1>3, <1>4, <1>5, <1>6, LinkSound, IdleSound, BusyFrame

LEMMA DeleteSound ==
  ASSUME Typed, Sound, NEW c \in Cluster, Delete(c) \/ ExistsAfterDelete(c)
  PROVE  Sound'
<1>1. w[c].pc \in {"delete", "existsAfterDelete"} /\ Busy(c)
  BY DEF Delete, ExistsAfterDelete, At, Busy
<1>2. PICK m \in Machine : m = w[c].m
  BY <1>1 DEF Sound, WorkerInv, Handles
<1>3. UNCHANGED <<servers, obj, cache>>
  BY DEF Delete, ExistsAfterDelete
<1>4. CASE Return(c)
  BY <1>3, <1>4, ReturnSound
<1> DEFINE to == [w[c] EXCEPT !.pc = "existsAfterDelete"]
           on(s) == [w[c] EXCEPT !.pc = "deleteServer", !.srv = s]
           done == [w[c] EXCEPT !.pc = "finalize", !.srv = Nil]
<1>5. CASE \E s \in ServerId : getServer(m) = s /\ Goto(c, on(s))
  <2>1. PICK s \in ServerId : getServer(m) = s /\ Goto(c, on(s))
    BY <1>5
  <2>2. w'[c] = on(s) /\ \A d \in Cluster \ {c} : w'[d] = w[d]
    BY <2>1, Moves
  <2>3. /\ w'[c].pc = "deleteServer" /\ w'[c].m = m /\ w'[c].srv = s
        /\ w'[c].snap = w[c].snap
    BY <1>2, <2>2 DEF Typed, Worker
  <2>4. WorkerInv(c)'
    BY <1>1, <1>2, <1>3, <2>1, <2>3, TakeServer DEF Releasing
  <2> QED BY <1>3, <2>2, <2>4, LocalFrame
<1>6. CASE \/ Goto(c, to)
           \/ Goto(c, done) /\ getServer(m) = Nil
  <2>1. \E pc \in {"existsAfterDelete", "finalize"} :
          /\ w'[c].pc = pc /\ w'[c].m = m /\ w'[c].snap = w[c].snap
          /\ pc = "finalize" => getServer(m) = Nil
    <3>1. CASE Goto(c, to)
      <4>1. w'[c] = to
        BY <3>1, Moves
      <4> QED BY <1>2, <4>1 DEF Typed, Worker
    <3>2. CASE Goto(c, done) /\ getServer(m) = Nil
      <4>1. w'[c] = done
        BY <3>2, Moves
      <4> QED BY <1>2, <3>2, <4>1 DEF Typed, Worker
    <3> QED BY <1>6, <3>1, <3>2
  <2>2. \A d \in Cluster \ {c} : w'[d] = w[d]
    BY <1>6, Moves
  <2>3. w'[c].pc = "finalize" => Instances(m)' = {}
    BY <1>3, <2>1, LookupFacts DEF Instances, Listed, Belongs
  <2>4. WorkerInv(c)
    BY DEF Sound
  <2>5. WorkerInv(c)'
    BY <1>1, <1>2, <1>3, <2>1, <2>3, <2>4 DEF WorkerInv, Handles, OnPath,
         LookedUp, SeenLinks, Supersedes, Busy, Creating, Providing, Releasing,
         OnServer, Step
  <2> QED BY <1>3, <2>2, <2>5, LocalFrame
<1> QED
  BY <1>2, <1>4, <1>5, <1>6 DEF Delete, ExistsAfterDelete

LEMMA DeleteServerKeeps ==
  ASSUME Typed, Sound, NEW c \in Cluster, DeleteServer(c)
  PROVE  \A n \in Machine : Keeps(n)
<1>0. PICK m \in Machine, s \in ServerId :
        m = w[c].m /\ s = w[c].srv /\ MadeFor(s, m)
  BY DEF DeleteServer, At, Sound, WorkerInv, Handles, OnServer, Busy
<1> DEFINE v == [servers[s] EXCEPT !.st = "stopping"]
<1>1. servers' = [servers EXCEPT ![s] = v] /\ Listed(s)
  BY <1>0 DEF DeleteServer
<1>2. v.st = "stopping" /\ v.tags = servers[s].tags
  BY DEF Typed, Server
<1> HIDE DEF v
<1> QED BY <1>0, <1>1, <1>2, KeepsChanged DEF MadeFor

LEMMA DeleteServerSound ==
  ASSUME Typed, Sound, NEW c \in Cluster, DeleteServer(c)
  PROVE  Sound'
<1>1. w[c].pc = "deleteServer" /\ Busy(c)
  BY DEF DeleteServer, At, Busy
<1>2. PICK m \in Machine, s \in ServerId :
        m = w[c].m /\ s = w[c].srv /\ MadeFor(s, m)
  BY <1>1 DEF Sound, WorkerInv, Handles, OnServer
<1>3. UNCHANGED <<obj, cache>>
  BY DEF DeleteServer
<1>4. \A n \in Machine : Keeps(n)
  BY DeleteServerKeeps
<1> DEFINE to == [w[c] EXCEPT !.pc = "existsAfterDelete"]
<1>5. w'[c] \in {Idle, to} /\ \A d \in Cluster \ {c} : w'[d] = w[d]
  BY Moves DEF DeleteServer
<1>6. WorkerInv(c)'
  <2>1. CASE w'[c] = Idle
    BY <2>1, IdleSound
  <2>2. CASE w'[c] # Idle
    <3>1. /\ w'[c].pc = "existsAfterDelete" /\ w'[c].m = m
          /\ w'[c].snap = w[c].snap /\ w'[c].srv = w[c].srv
      BY <1>2, <1>5, <2>2 DEF Typed, Worker
    <3> QED BY <1>1, <1>2, <1>3, <1>4, <3>1, MoveOn
            DEF Creating, Providing, Releasing, OnServer, Step
  <2> QED BY <2>1, <2>2
<1>7. MachineInv(m)'
  BY <1>3, <1>4, MachineFrame DEF Sound
<1> QED BY <1>1, <1>2, <1>3, <1>4, <1>5, <1>6, <1>7, BusyFrame

LEMMA FinalizeSound ==
  ASSUME Typed, Sound, NEW c \in Cluster, Finalize(c)
  PROVE  Sound'
<1>1. w[c].pc = "finalize" /\ Busy(c)
  BY DEF Finalize, At, Busy
<1>2. PICK m \in Machine : m = w[c].m
  BY <1>1 DEF Sound, WorkerInv, Handles
<1>3. w'[c] = Idle /\ \A d \in Cluster \ {c} : w'[d] = w[d]
  BY Moves DEF Finalize
<1>4. UNCHANGED <<servers, cache>> /\ \A n \in Machine : Keeps(n)
  BY KeepsUnchanged DEF Finalize
<1>5. CASE UNCHANGED obj
  BY <1>3, <1>4, <1>5, IdleSound, LocalFrame
<1>6. CASE ~UNCHANGED obj
  <2>1. /\ obj'[m] = [NoObj EXCEPT !.st = "gone"]
        /\ \A n \in Machine \ {m} : obj'[n] = obj[n]
    BY <1>2, <1>6 DEF Finalize, Typed
  <2>2. /\ obj'[m].st = "gone" /\ obj'[m].phase = "ok"
        /\ obj'[m].pid = Nil /\ obj'[m].status = Nil
    BY <2>1 DEF NoObj
  <2>3. Instances(m) = {} /\ cache[m].st \in {"deleting", "gone"}
    BY <1>1, <1>2 DEF Sound, WorkerInv, LookedUp, OnPath, Releasing
  <2>4. Instances(m)' = {}
    BY <1>4, <2>3 DEF Keeps
  <2>5. MachineInv(m)'
    BY <1>4, <2>2, <2>3, <2>4
       DEF MachineInv, CacheLags, FailedWasLinked, SafeMachine, Provisioned
  <2> QED BY <1>1, <1>2, <1>3, <1>4, <2>1, <2>5, IdleSound, BusyFrame
<1> QED BY <1>5, <1>6

\* Nothing but the servers changes, and none comes to life.
LEMMA CloudFrame ==
  ASSUME Typed, Sound, UNCHANGED <<obj, cache, w>>,
         \A n \in Machine : Keeps(n)
  PROVE  Sound'
<1>1. \A n \in Machine : MachineInv(n)'
  BY MachineFrame DEF Sound
<1>2. ASSUME NEW d \in Cluster PROVE WorkerInv(d)'
  <2>1. Busy(d) => w[d].m \in Machine
    BY DEF Sound, WorkerInv, Handles
  <2>2. Busy(d) => Keeps(w[d].m)
    <3> SUFFICES ASSUME Busy(d) PROVE Keeps(w[d].m)
      OBVIOUS
    <3>1. PICK n \in Machine : n = w[d].m
      BY <2>1
    <3> QED BY <3>1 DEF Keeps
  <2> QED BY <2>1, <2>2, WorkerFrame DEF Sound
<1> QED BY <1>1, <1>2 DEF Sound

\* Whatever the cloud does to a server, it stays that of its machine.
LEMMA CloudKeeps ==
  ASSUME Typed, NEW s \in ServerId, CloudStep(s)
  PROVE  \A n \in Machine : Keeps(n)
<1>1. PICK v :
        /\ servers' = [servers EXCEPT ![s] = v]
        /\ v.st # "free"
        /\ v.tags[NameTag] = servers[s].tags[NameTag]
        /\ v.tags[ClusterTag] = servers[s].tags[ClusterTag]
        /\ v.st \in {"up", "stopping"} => Listed(s)
        /\ Listed(s)
  <2>1. CASE VolumeAppears(s)
    <3> DEFINE v == [servers[s] EXCEPT !.vol = "ready"]
    <3>1. v.st = "up" /\ v.tags = servers[s].tags /\ Listed(s)
      BY <2>1 DEF VolumeAppears, Listed, Typed, Server
    <3>2. servers' = [servers EXCEPT ![s] = v]
      BY <2>1 DEF VolumeAppears
    <3> HIDE DEF v
    <3> QED BY <3>1, <3>2
  <2>2. CASE DeletionCompletes(s) \/ ServerVanishes(s)
    <3>1. Gone(s).st = "gone" /\ Gone(s).tags = servers[s].tags
      BY DEF Gone, NoServer
    <3>2. servers' = [servers EXCEPT ![s] = Gone(s)] /\ Listed(s)
      BY <2>2 DEF DeletionCompletes, ServerVanishes, Listed
    <3> QED BY <3>1, <3>2
  <2>3. CASE TagsDrift(s)
    <3>1. CASE \E tags \in TagMap :
                 /\ \A k \in {NameTag, ClusterTag} : tags[k] = servers[s].tags[k]
                 /\ servers' = [servers EXCEPT ![s].tags = tags]
      <4>1. PICK tags \in TagMap :
              /\ \A k \in {NameTag, ClusterTag} : tags[k] = servers[s].tags[k]
              /\ servers' = [servers EXCEPT ![s].tags = tags]
        BY <3>1
      <4> DEFINE v == [servers[s] EXCEPT !.tags = tags]
      <4>2. v.st = servers[s].st /\ v.tags = tags /\ Listed(s)
        BY <2>3 DEF TagsDrift, Typed, Server
      <4>3. servers' = [servers EXCEPT ![s] = v]
        BY <4>1
      <4> HIDE DEF v
      <4> QED BY <4>1, <4>2, <4>3 DEF Listed
    <3>2. CASE \E tags \in VolTags :
                 servers' = [servers EXCEPT ![s].volTags = tags]
      <4>1. PICK tags \in VolTags :
              servers' = [servers EXCEPT ![s].volTags = tags]
        BY <3>2
      <4> DEFINE v == [servers[s] EXCEPT !.volTags = tags]
      <4>2. v.st = servers[s].st /\ v.tags = servers[s].tags /\ Listed(s)
        BY <2>3 DEF TagsDrift, Typed, Server
      <4>3. servers' = [servers EXCEPT ![s] = v]
        BY <4>1
      <4> HIDE DEF v
      <4> QED BY <4>2, <4>3 DEF Listed
    <3> QED BY <2>3, <3>1, <3>2 DEF TagsDrift
  <2> QED BY <2>1, <2>2, <2>3 DEF CloudStep
<1> QED BY <1>1, KeepsChanged DEF Listed

LEMMA CloudSound ==
  ASSUME Typed, Sound, NEW s \in ServerId, CloudStep(s)
  PROVE  Sound'
<1>1. UNCHANGED <<obj, cache, w>>
  BY DEF CloudStep, VolumeAppears, DeletionCompletes, ServerVanishes, TagsDrift
<1> QED BY <1>1, CloudKeeps, CloudFrame

\* The object or the cached copy of one machine changes.
LEMMA ObjectFrame ==
  ASSUME Typed, Sound, NEW m \in Machine, UNCHANGED <<servers, w>>,
         \A n \in Machine \ {m} : obj'[n] = obj[n] /\ cache'[n] = cache[n],
         MachineInv(m)',
         \A d \in Cluster : Busy(d) /\ w[d].m = m =>
           OnPath(d)' /\ SeenLinks(d)',
         obj'[m].pid \in {obj[m].pid, Nil}
  PROVE  Sound'
<1>1. \A n \in Machine : Keeps(n)
  BY KeepsUnchanged
<1>2. ASSUME NEW n \in Machine PROVE MachineInv(n)'
  BY <1>1, MachineFrame DEF Sound
<1>3. ASSUME NEW d \in Cluster PROVE WorkerInv(d)'
  <2>1. WorkerInv(d)
    BY DEF Sound
  <2>2. CASE Busy(d) /\ w[d].m = m
    <3>1. Handles(d)' /\ LookedUp(d)'
      BY <2>1 DEF WorkerInv, Handles, LookedUp, Busy, Instances, Listed,
           MadeFor, Belongs
    <3>2. Supersedes(d)'
      BY <2>1, <2>2 DEF WorkerInv, Supersedes, Listed
    <3> QED BY <2>2, <3>1, <3>2 DEF WorkerInv
  <2>3. CASE ~(Busy(d) /\ w[d].m = m)
    <3>1. Busy(d) => w[d].m \in Machine \ {m}
      BY <2>1, <2>3 DEF WorkerInv, Handles
    <3>2. Busy(d) => Keeps(w[d].m)
      BY DEF Keeps, MadeFor, Belongs, Listed, Instances
    <3> QED BY <2>1, <3>1, <3>2, WorkerFrame DEF Sound
  <2> QED BY <2>2, <2>3
<1> QED BY <1>2, <1>3 DEF Sound

LEMMA DeliverSound ==
  ASSUME Typed, Sound, NEW m \in Machine, Deliver(m)
  PROVE  Sound'
<1>1. /\ UNCHANGED <<servers, obj, w>>
      /\ cache'[m] = obj[m]
      /\ \A n \in Machine \ {m} : cache'[n] = cache[n]
  BY DEF Deliver, Typed
<1>2. MachineInv(m)'
  BY <1>1 DEF Sound, MachineInv, CacheLags, FailedWasLinked, SafeMachine,
       Provisioned, Instances, Listed, MadeFor, Belongs
<1>3. ASSUME NEW d \in Cluster, Busy(d), w[d].m = m
      PROVE  OnPath(d)' /\ SeenLinks(d)'
  BY <1>1, <1>3 DEF Sound, WorkerInv, OnPath, SeenLinks, Provisioned
<1> QED BY <1>1, <1>2, <1>3, ObjectFrame

LEMMA UserSound ==
  ASSUME Typed, Sound, NEW m \in Machine, UserStep(m)
  PROVE  Sound'
<1>1. UNCHANGED <<servers, cache, w>> /\ MachineInv(m)
  BY DEF UserStep, UserCreates, UserEdits, UserDeletes, Sound
<1>2. \A n \in Machine \ {m} : obj'[n] = obj[n]
  BY DEF UserStep, UserCreates, UserEdits, UserDeletes, Typed
<1>3. CASE UserCreates(m)
  <2>1. /\ obj[m].st = "none" /\ obj[m].pid = Nil /\ obj[m].status = Nil
        /\ obj'[m].st = "new" /\ obj'[m].pid = Nil /\ obj'[m].status = Nil
        /\ obj'[m].phase = "ok"
    BY <1>3 DEF UserCreates, Typed, NoObj
  <2>2. MachineInv(m)'
    BY <1>1, <2>1 DEF MachineInv, CacheLags, FailedWasLinked, SafeMachine,
         Provisioned, Instances, Listed, MadeFor, Belongs
  <2>3. ASSUME NEW d \in Cluster, Busy(d), w[d].m = m
        PROVE  OnPath(d)' /\ SeenLinks(d)'
    BY <1>1, <2>1, <2>3 DEF Sound, WorkerInv, OnPath, SeenLinks, Creating,
         Providing, Releasing, Step
  <2> QED BY <1>1, <1>2, <2>1, <2>2, <2>3, ObjectFrame
<1>4. CASE UserEdits(m)
  <2>1. /\ obj'[m].st = obj[m].st /\ obj'[m].phase = obj[m].phase
        /\ obj'[m].pid = obj[m].pid /\ obj'[m].status = obj[m].status
    BY <1>4 DEF UserEdits, Typed, MachineObj
  <2>2. MachineInv(m)'
    BY <1>1, <2>1 DEF MachineInv, CacheLags, FailedWasLinked, SafeMachine,
         Provisioned, Instances, Listed, MadeFor, Belongs
  <2>3. ASSUME NEW d \in Cluster, Busy(d), w[d].m = m
        PROVE  OnPath(d)' /\ SeenLinks(d)'
    BY <1>1, <2>1, <2>3 DEF Sound, WorkerInv, OnPath, SeenLinks, Provisioned
  <2> QED BY <1>1, <1>2, <2>1, <2>2, <2>3, ObjectFrame
<1>5. CASE UserDeletes(m)
  <2>1. CASE obj[m].st = "new"
    <3>1. /\ obj'[m].st = "gone" /\ obj'[m].pid = Nil /\ obj'[m].status = Nil
          /\ obj'[m].phase = "ok"
      BY <1>5, <2>1 DEF UserDeletes, Typed, NoObj
    <3>2. MachineInv(m)'
      BY <1>1, <2>1, <3>1 DEF MachineInv, CacheLags, FailedWasLinked,
           SafeMachine, Provisioned, Instances, Listed, MadeFor, Belongs
    <3>3. ASSUME NEW d \in Cluster, Busy(d), w[d].m = m
          PROVE  OnPath(d)' /\ SeenLinks(d)'
      BY <1>1, <2>1, <3>1, <3>3 DEF Sound, WorkerInv, OnPath, SeenLinks,
           Creating, Providing, Releasing, Step
    <3> QED BY <1>1, <1>2, <3>1, <3>2, <3>3, ObjectFrame
  <2>2. CASE obj[m].st = "live"
    <3>1. /\ obj'[m].st = "deleting" /\ obj'[m].phase = obj[m].phase
          /\ obj'[m].pid = obj[m].pid /\ obj'[m].status = obj[m].status
      BY <1>5, <2>2 DEF UserDeletes, Typed, MachineObj
    <3>2. MachineInv(m)'
      BY <1>1, <2>2, <3>1 DEF MachineInv, CacheLags, FailedWasLinked,
           SafeMachine, Provisioned, Instances, Listed, MadeFor, Belongs
    <3>3. ASSUME NEW d \in Cluster, Busy(d), w[d].m = m
          PROVE  OnPath(d)' /\ SeenLinks(d)'
      BY <1>1, <2>2, <3>1, <3>3 DEF Sound, WorkerInv, OnPath, SeenLinks,
           Provisioned
    <3> QED BY <1>1, <1>2, <3>1, <3>2, <3>3, ObjectFrame
  <2> QED BY <1>5, <2>1, <2>2 DEF UserDeletes
<1> QED BY <1>3, <1>4, <1>5 DEF UserStep

-----------------------------------------------------------------------------

LEMMA WorkerSound ==
  ASSUME Typed, Sound, NEW c \in Cluster, WorkerStep(c) \/ Aborts(c)
  PROVE  Sound'
<1>1. CASE AddFinalizer(c) \/ Exists(c) \/ MarkFailed(c)
  BY <1>1, AddFinalizerSound, ExistsSound, MarkFailedSound
<1>2. CASE CreatePath(c)
  BY <1>2, GroupsSound, CreateServerSound, ReadVolumeSound DEF CreatePath
<1>3. CASE UpdatePath(c)
  <2>1. TargetGone(c) => Sound'
    BY ReturnSound DEF TargetGone
  <2> QED BY <1>3, <2>1, UpdateSound, WriteTagsSound, ReadVolumeSound,
             PatchSound, PatchStatusSound DEF UpdatePath
<1>4. CASE DeletePath(c)
  BY <1>4, DeleteSound, DeleteServerSound, FinalizeSound DEF DeletePath
<1>5. CASE Aborts(c)
  BY <1>5, ReturnSound DEF Aborts
<1> QED BY <1>1, <1>2, <1>3, <1>4, <1>5 DEF WorkerStep

LEMMA NextSound == Typed /\ Sound /\ [Next]_vars => Sound'
<1> SUFFICES ASSUME Typed, Sound, [Next]_vars PROVE Sound'
  OBVIOUS
<1>1. CASE \E c \in Cluster : WorkerStep(c) \/ Aborts(c)
  BY <1>1, WorkerSound
<1>2. CASE \E c \in Cluster, m \in Machine : Begin(c, m)
  BY <1>2, BeginSound
<1>3. CASE \E m \in Machine : Deliver(m) \/ UserStep(m)
  BY <1>3, DeliverSound, UserSound
<1>4. CASE \E s \in ServerId : CloudStep(s)
  BY <1>4, CloudSound
<1>5. CASE UNCHANGED vars
  <2>1. UNCHANGED <<servers, obj, cache, w>> /\ \A n \in Machine : Keeps(n)
    BY <1>5, KeepsUnchanged DEF vars
  <2> QED BY <2>1, CloudFrame
<1> QED BY <1>1, <1>2, <1>3, <1>4, <1>5 DEF Next, AllReleased

LEMMA InitSound == Init => Sound
<1> SUFFICES ASSUME Init PROVE Sound
  OBVIOUS
<1>1. ASSUME NEW c \in Cluster PROVE WorkerInv(c)
  BY DEF Init, Idle, Busy, WorkerInv, Handles, OnPath, LookedUp, SeenLinks,
     Supersedes, OnServer, Releasing, Providing, Creating
<1>2. ASSUME NEW m \in Machine PROVE MachineInv(m)
  BY DEF Init, NoObj, NoServer, MachineInv, CacheLags, FailedWasLinked,
     SafeMachine, Provisioned, Instances, Listed
<1> QED BY <1>1, <1>2 DEF Sound

LEMMA TypedStep == TypeOK /\ [Next]_vars => TypeOK' /\ Typed /\ Typed'
<1>1. Typed' => TypeOK'
  BY TypedIsTypeOK DEF Typed, TypeOK, Knows, GroupVal, OnServer
<1> QED BY <1>1, NextTyped, TypedIsTypeOK

\* What a worker knows and what holds of every machine is inductive.
THEOREM Invariance == Spec => []IInv
<1>1. Init => IInv
  BY InitTyped, TypedIsTypeOK, InitSound DEF IInv, Sound
<1>2. IInv /\ [Next]_vars => IInv'
  BY TypedStep, NextSound DEF IInv, Sound
<1> QED BY <1>1, <1>2, PTL DEF Spec

\* No machine ever has two servers, for any number of clusters, machines,
\* lost replies, failed calls and stale caches: Create runs only after Exists
\* found nothing, in the one worker that handles the machine, and whatever an
\* earlier Create left behind carries the tags Exists looks for.
THEOREM OneServer == Spec => []OneServerPerMachine
<1>1. IInv => OneServerPerMachine
  BY DEF IInv, MachineInv, SafeMachine, OneServerPerMachine
<1> QED BY <1>1, Invariance, PTL

\* No server without a machine object that holds the finalizer.
THEOREM Orphans == Spec => []NoOrphan
<1>1. IInv => NoOrphan
  BY DEF IInv, MachineInv, SafeMachine, NoOrphan
<1> QED BY <1>1, Invariance, PTL

\* Links and status only name servers made for the machine.
THEOREM OwnLinks == Spec => []LinkIsOwn
<1>1. IInv => LinkIsOwn
  BY DEF IInv, MachineInv, SafeMachine, LinkIsOwn, MadeFor
<1> QED BY <1>1, Invariance, PTL

\* A machine in phase Failed has no server, now or later.
THEOREM FailedForGood == Spec => []FailedMeansGone
<1>1. IInv => FailedMeansGone
  BY DEF IInv, MachineInv, SafeMachine, FailedMeansGone
<1> QED BY <1>1, Invariance, PTL

\* A worker changes the server of the machine it handles and no other.
THEOREM Isolation == Spec => OnlyOwnServers
<1> DEFINE A == \A c \in Cluster : w'[c] # w[c] =>
                  \A s \in ServerId : servers'[s] # servers[s] =>
                    servers[s].st = "free" \/ Belongs(s, w[c].m)
<1>1. IInv /\ [Next]_vars => [A]_vars
  <2> SUFFICES ASSUME IInv, Next PROVE A
    OBVIOUS
  <2>0. Typed /\ Sound
    BY TypedIsTypeOK DEF IInv, Sound
  <2>1. CASE \E c \in Cluster : WorkerStep(c) \/ Aborts(c)
    <3>1. PICK c \in Cluster : WorkerStep(c) \/ Aborts(c)
      BY <2>1
    <3>2. CASE UNCHANGED servers
      BY <3>2
    <3>3. CASE ~UNCHANGED servers
      <4>1. CreateServer(c) \/ UpdateTags(c) \/ TagVolume(c) \/ DeleteServer(c)
        BY <3>1, <3>3 DEF WorkerStep, AddFinalizer, Exists, MarkFailed,
             CreatePath, ListGroups, NewGroup, WaitVolume, UpdatePath, Update,
             GetVolume, TargetGone, Patch, PatchStatus, DeletePath, Delete,
             ExistsAfterDelete, Finalize, Aborts
      <4>2. \A d \in Cluster \ {c} : w'[d] = w[d]
        BY <2>0, <4>1, Moves
           DEF CreateServer, UpdateTags, TagVolume, DeleteServer
      <4>3. CASE CreateServer(c)
        BY <2>0, <4>2, <4>3 DEF CreateServer, Typed
      <4>4. CASE UpdateTags(c) \/ TagVolume(c) \/ DeleteServer(c)
        <5>1. w[c].srv \in ServerId /\ Belongs(w[c].srv, w[c].m)
          BY <2>0, <4>4 DEF UpdateTags, TagVolume, DeleteServer, At, Sound,
               WorkerInv, Handles, Busy, OnServer, MadeFor
        <5>2. \A s \in ServerId \ {w[c].srv} : servers'[s] = servers[s]
          BY <2>0, <4>4 DEF UpdateTags, TagVolume, DeleteServer, Typed
        <5> QED BY <4>2, <5>1, <5>2
      <4> QED BY <4>1, <4>3, <4>4
    <3> QED BY <3>2, <3>3
  <2>2. CASE \E c \in Cluster, m \in Machine : Begin(c, m)
    BY <2>2 DEF Begin
  <2>3. CASE \E m \in Machine : Deliver(m) \/ UserStep(m)
    BY <2>3 DEF Deliver, UserStep, UserCreates, UserEdits, UserDeletes
  <2>4. CASE \E s \in ServerId : CloudStep(s)
    BY <2>4 DEF CloudStep, VolumeAppears, DeletionCompletes, ServerVanishes,
         TagsDrift
  <2>5. CASE AllReleased
    BY <2>5 DEF AllReleased, vars
  <2> QED BY <2>1, <2>2, <2>3, <2>4, <2>5 DEF Next
<1> QED BY <1>1, Invariance, PTL DEF Spec, OnlyOwnServers

\* A link is only replaced when the server it names is gone.
THEOREM StableLinks == Spec => LinkNeverStolen
<1> DEFINE A == \A m \in Machine :
                  obj[m].pid # Nil /\ obj'[m].pid \notin {obj[m].pid, Nil} =>
                    ~Listed(obj[m].pid)
<1>1. IInv /\ [Next]_vars => [A]_vars
  <2> SUFFICES ASSUME IInv, Next, NEW m \in Machine,
                      obj[m].pid # Nil, obj'[m].pid \notin {obj[m].pid, Nil}
               PROVE  ~Listed(obj[m].pid)
    OBVIOUS
  <2>0. Typed /\ Sound
    BY TypedIsTypeOK DEF IInv, Sound
  <2>1. PICK c \in Cluster : Patch(c)
    <3>1. ASSUME NEW n \in Machine, UserStep(n) PROVE FALSE
      <4>1. \A k \in Machine \ {n} : obj'[k] = obj[k]
        BY <2>0, <3>1 DEF UserStep, UserCreates, UserEdits, UserDeletes, Typed
      <4>2. obj'[n].pid \in {obj[n].pid, Nil}
        <5>1. CASE UserCreates(n)
          BY <2>0, <5>1 DEF UserCreates, NoObj, Typed, MachineObj
        <5>2. CASE UserEdits(n)
          BY <2>0, <5>2 DEF UserEdits, Typed, MachineObj
        <5>3. CASE UserDeletes(n)
          BY <2>0, <5>3 DEF UserDeletes, NoObj, Typed, MachineObj
        <5> QED BY <3>1, <5>1, <5>2, <5>3 DEF UserStep
      <4> QED BY <4>1, <4>2
    <3>2. ASSUME NEW c \in Cluster,
                 AddFinalizer(c) \/ MarkFailed(c) \/ PatchStatus(c)
                   \/ Finalize(c)
          PROVE  FALSE
      <4>1. w[c].m \in Machine
        BY <2>0, <3>2 DEF AddFinalizer, MarkFailed, PatchStatus, Finalize, At,
             Sound, WorkerInv, Handles, Busy
      <4>2. \A n \in Machine : obj'[n].pid \in {obj[n].pid, Nil}
        <5>1. PICK n \in Machine : n = w[c].m
          BY <4>1
        <5>2. \A k \in Machine \ {n} : obj'[k] = obj[k]
          <6>1. PatchStatus(c) => \A k \in Machine \ {n} : obj'[k] = obj[k]
            BY <2>0, <5>1, PatchEffect DEF Typed
          <6> QED BY <2>0, <3>2, <5>1, <6>1
                  DEF AddFinalizer, MarkFailed, Finalize, Typed
        <5>3. CASE AddFinalizer(c)
          BY <2>0, <5>1, <5>3 DEF AddFinalizer, Typed, MachineObj
        <5>4. CASE MarkFailed(c)
          BY <2>0, <5>1, <5>4 DEF MarkFailed, Typed, MachineObj
        <5>5. CASE PatchStatus(c)
          <6>1. \/ obj'[n] = obj[n]
                \/ obj'[n] = [obj[n] EXCEPT !.status =
                                MergeFrom(w[c].snap.status, w[c].srv, @)]
            BY <2>0, <5>1, <5>5, PatchEffect DEF Typed
          <6> QED BY <2>0, <5>2, <6>1 DEF Typed, MachineObj
        <5>6. CASE Finalize(c)
          BY <2>0, <5>1, <5>6 DEF Finalize, NoObj, Typed, MachineObj
        <5>7. obj'[n].pid \in {obj[n].pid, Nil}
          BY <3>2, <5>3, <5>4, <5>5, <5>6
        <5> QED BY <5>2, <5>7
      <4> QED BY <4>2
    <3> QED
      BY <3>1, <3>2 DEF Next, WorkerStep, Exists, CreatePath, ListGroups,
           NewGroup, CreateServer, WaitVolume, UpdatePath, Update, UpdateTags,
           GetVolume, TagVolume, TargetGone, DeletePath, Delete, DeleteServer,
           ExistsAfterDelete, Aborts, Begin, Deliver, CloudStep, VolumeAppears,
           DeletionCompletes, ServerVanishes, TagsDrift, AllReleased, vars
  <2>2. w[c].m = m /\ obj'[m].pid = w[c].srv
    <3>1. CASE UNCHANGED obj
      BY <3>1
    <3>2. CASE obj' = [obj EXCEPT ![w[c].m].pid =
                         MergeFrom(w[c].snap.pid, w[c].srv, @)]
      <4>1. w[c].m = m
        BY <2>0, <3>2 DEF Typed
      <4>2. obj'[m] = [obj[m] EXCEPT !.pid =
                         MergeFrom(w[c].snap.pid, w[c].srv, @)]
        BY <2>0, <3>2, <4>1 DEF Typed
      <4>3. obj'[m].pid = MergeFrom(w[c].snap.pid, w[c].srv, obj[m].pid)
        BY <2>0, <4>2 DEF Typed, MachineObj
      <4> QED BY <4>1, <4>3 DEF MergeFrom
    <3> QED BY <2>0, <2>1, <3>1, <3>2, PatchEffect
  <2> QED BY <2>0, <2>1, <2>2 DEF Patch, At, Sound, WorkerInv, Supersedes,
             OnServer
<1> QED BY <1>1, Invariance, PTL DEF Spec, LinkNeverStolen

-----------------------------------------------------------------------------
(* Links: LinkInv is inductive, too. *)

\* The servers made for m stay its servers, and those out of the lists stay out.
Remembers(m) ==
  \A s \in ServerId :
    MadeFor(s, m) => MadeFor(s, m)' /\ (~Listed(s) => ~Listed(s)')

LinksKept(m) == obj'[m].pid = obj[m].pid /\ obj'[m].status = obj[m].status

LEMMA KeepsRemembers ==
  ASSUME NEW m \in Machine, Keeps(m)
  PROVE  Remembers(m)
  BY DEF Keeps, Remembers

\* What replaces a replacement replaces the original.
LEMMA ReplacedTwice ==
  ASSUME NEW m \in Machine, NEW old, NEW mid, NEW new,
         Replaced(m, old, mid), Replaced(m, mid, new)
  PROVE  Replaced(m, old, new)
  BY DEF Replaced

LEMMA ReplacedFrame ==
  ASSUME NEW m \in Machine, Remembers(m), NEW old \in ServerId \cup {Nil},
         NEW new, Replaced(m, old, new)
  PROVE  Replaced(m, old, new)'
  BY DEF Replaced, Remembers

LEMMA LagsFrame ==
  ASSUME Typed, NEW m \in Machine, Remembers(m), LinksKept(m),
         NEW copy \in MachineObj, Lags(m, copy)
  PROVE  Lags(m, copy)'
  BY ReplacedFrame DEF Lags, LinksKept, MachineObj, Replaced

\* The links of the object and the server of a worker are what they seem.
LEMMA LinkTypes ==
  ASSUME Typed, NEW c \in Cluster, NEW m \in Machine
  PROVE  /\ {obj[m].pid, obj[m].status} \subseteq ServerId \cup {Nil}
         /\ w[c].snap \in MachineObj /\ cache[m] \in MachineObj
         /\ {w[c].snap.pid, w[c].snap.status} \subseteq ServerId \cup {Nil}
  BY DEF Typed, Worker, MachineObj

\* A worker that is not providing has nothing to know about links,
LEMMA NotProviding ==
  ASSUME NEW d \in Cluster, w'[d].pc \notin Providing
  PROVE  Linking(d)'
  BY DEF Linking, Providing, Releasing, Step

\* one that goes on with the same copy and server still knows it,
LEMMA LinkingFrame ==
  ASSUME Typed, NEW d \in Cluster, NEW m \in Machine, Linking(d), w[d].m = m,
         Remembers(m), LinksKept(m),
         w'[d].m = m, w'[d].snap = w[d].snap,
         w'[d].pc \in Providing => w[d].pc \in Providing,
         w'[d].pc \in OnServer \cap Providing =>
           w[d].pc \in OnServer /\ w'[d].srv = w[d].srv,
         w'[d].pc = "patchStatus" => w[d].pc = "patchStatus"
  PROVE  Linking(d)'
<1>1. CASE w'[d].pc \notin Providing
  BY <1>1, NotProviding
<1>2. CASE w'[d].pc \in Providing
  <2>1. Lags(m, w[d].snap) /\ Lags(m, w[d].snap)'
    <3>1. Lags(m, w[d].snap)
      BY <1>2 DEF Linking
    <3>2. PICK copy \in MachineObj : copy = w[d].snap
      BY LinkTypes
    <3>3. Lags(m, copy)'
      BY <3>1, <3>2, LagsFrame
    <3>4. copy = w'[d].snap
      BY <3>2
    <3> QED BY <3>1, <3>3, <3>4 DEF Lags
  <2>2. CASE w'[d].pc \notin OnServer
    BY <1>2, <2>1, <2>2 DEF Linking, OnServer
  <2>3. CASE w'[d].pc \in OnServer
    <3>1. /\ w[d].pc \in OnServer \cap Providing
          /\ w'[d].srv = w[d].srv
      BY <1>2, <2>3
    <3>2. Replaced(m, obj[m].status, w[d].srv)
      BY <3>1 DEF Linking
    <3>3. PICK old \in ServerId \cup {Nil} : old = obj[m].status
      BY LinkTypes
    <3>4. PICK new : new = w[d].srv
      OBVIOUS
    <3>5. /\ Replaced(m, old, new)'
          /\ old = obj'[m].status /\ new = w'[d].srv
      BY <3>1, <3>2, <3>3, <3>4, ReplacedFrame DEF LinksKept
    <3>6. Replaced(m, obj[m].status, w[d].srv)'
      BY <3>5 DEF Replaced
    <3> QED BY <1>2, <2>1, <2>3, <3>1, <3>6 DEF Linking, LinksKept
  <2> QED BY <2>2, <2>3
<1> QED BY <1>1, <1>2

\* and so does one that did not move.
LEMMA LinkingElsewhere ==
  ASSUME Typed, Sound, LinkInv, NEW d \in Cluster, w'[d] = w[d],
         \A n \in Machine : Remembers(n),
         w[d].pc \in Providing => LinksKept(w[d].m)
  PROVE  Linking(d)'
<1>1. CASE w[d].pc \notin Providing
  BY <1>1, NotProviding
<1>2. CASE w[d].pc \in Providing
  <2>1. PICK m \in Machine : m = w[d].m
    BY <1>2 DEF Sound, WorkerInv, Handles, Busy, Providing
  <2>2. LinksKept(m)
    BY <1>2, <2>1 DEF LinksKept
  <2> QED BY <2>1, <2>2, LinkingFrame DEF LinkInv
<1> QED BY <1>1, <1>2

\* A machine whose links and cached copy stay.
LEMMA CopyFrame ==
  ASSUME Typed, LinkInv, NEW m \in Machine, Remembers(m), LinksKept(m),
         cache'[m] = cache[m],
         obj'[m].st \in {"none", "new"} => obj[m].st \in {"none", "new"}
  PROVE  Lags(m, cache[m])' /\ Unlinked(m)'
<1>1. Unlinked(m)'
  BY DEF LinkInv, Unlinked, Provisioned, LinksKept
<1>2. PICK copy \in MachineObj : copy = cache[m]
  BY DEF Typed
<1>3. Lags(m, copy)' /\ copy = cache'[m]
  BY <1>2, LagsFrame DEF LinkInv
<1> QED BY <1>1, <1>3 DEF Lags

\* A step of a busy worker that changes the object of its machine at most.
LEMMA LinkFrame ==
  ASSUME Typed, Sound, LinkInv, NEW c \in Cluster, NEW m \in Machine,
         Busy(c), w[c].m = m,
         \A d \in Cluster \ {c} : w'[d] = w[d],
         UNCHANGED cache,
         \A n \in Machine \ {m} : obj'[n] = obj[n],
         \A n \in Machine : Remembers(n),
         Linking(c)', Lags(m, cache[m])', Unlinked(m)'
  PROVE  LinkInv'
<1>1. \A n \in Machine \ {m} : LinksKept(n)
  BY DEF LinksKept
<1>2. ASSUME NEW n \in Machine \ {m} PROVE Lags(n, cache[n])' /\ Unlinked(n)'
  BY <1>1, CopyFrame
<1>3. ASSUME NEW d \in Cluster \ {c} PROVE Linking(d)'
  <2>1. w[d].pc \in Providing => w[d].m \in Machine \ {m}
    BY OtherMachine DEF Sound, WorkerInv, Handles, Busy, Providing
  <2>2. w[d].pc \in Providing => LinksKept(w[d].m)
    BY <2>1 DEF LinksKept
  <2> QED BY <2>2, LinkingElsewhere
<1> QED BY <1>2, <1>3 DEF LinkInv

\* A step that changes no object and no copy.
LEMMA ReadFrame ==
  ASSUME Typed, Sound, LinkInv, NEW c \in Cluster,
         \A d \in Cluster \ {c} : w'[d] = w[d],
         UNCHANGED <<obj, cache>>,
         \A n \in Machine : Remembers(n),
         Linking(c)'
  PROVE  LinkInv'
<1>1. \A n \in Machine : LinksKept(n)
  BY DEF LinksKept
<1>2. ASSUME NEW n \in Machine PROVE Lags(n, cache[n])' /\ Unlinked(n)'
  BY <1>1, CopyFrame
<1>3. ASSUME NEW d \in Cluster \ {c} PROVE Linking(d)'
  <2>1. w[d].pc \in Providing => LinksKept(w[d].m)
    BY DEF LinksKept
  <2> QED BY <2>1, LinkingElsewhere
<1> QED BY <1>2, <1>3 DEF LinkInv

LEMMA BeginLinks ==
  ASSUME Typed, Sound, LinkInv, NEW c \in Cluster, NEW m \in Machine,
         Begin(c, m)
  PROVE  LinkInv'
<1> DEFINE wc(pc) == [Idle EXCEPT !.pc = pc, !.m = m, !.snap = cache[m]]
<1>1. PICK pc \in {"addFinalizer", "exists", "delete"} : Goto(c, wc(pc))
  BY DEF Begin
<1>2. /\ w'[c] = wc(pc)
      /\ \A d \in Cluster \ {c} : w'[d] = w[d]
  BY <1>1, Moves
<1>3. w'[c].pc = pc /\ w'[c].m = m /\ w'[c].snap = cache[m]
  BY <1>2 DEF Idle
<1>4. UNCHANGED <<servers, obj, cache>>
  BY DEF Begin
<1>5. \A n \in Machine : Remembers(n)
  BY <1>4, KeepsUnchanged, KeepsRemembers
<1>6. Linking(c)'
  <2>1. LinksKept(m)
    BY <1>4 DEF LinksKept
  <2>2. Lags(m, cache[m])'
    BY <1>4, <1>5, <2>1, CopyFrame
  <2>3. Lags(w[c].m, w[c].snap)'
    BY <1>3, <1>4, <2>2 DEF Lags
  <2> QED BY <1>3, <2>3 DEF Linking, OnServer
<1> QED BY <1>2, <1>4, <1>5, <1>6, ReadFrame

\* The steps that take the worker further, or back to idle, but not to another
\* server, and that change no object.
ReadsOn(c) == \/ Exists(c) \/ ListGroups(c) \/ NewGroup(c) \/ WaitVolume(c)
              \/ UpdateTags(c) \/ GetVolume(c) \/ TagVolume(c) \/ TargetGone(c)
              \/ Delete(c) \/ DeleteServer(c) \/ ExistsAfterDelete(c)
              \/ Aborts(c)

\* Where they take it.
LEMMA ReadsOnTo ==
  ASSUME Typed, NEW c \in Cluster, ReadsOn(c)
  PROVE  /\ UNCHANGED <<obj, cache>>
         /\ \A d \in Cluster \ {c} : w'[d] = w[d]
         /\ \/ w'[c].pc \notin Providing
            \/ /\ w[c].pc \in Providing /\ w'[c].pc # "patchStatus"
               /\ w'[c].m = w[c].m /\ w'[c].snap = w[c].snap
               /\ w'[c].pc \in OnServer =>
                    w[c].pc \in OnServer /\ w'[c].srv = w[c].srv
<1> DEFINE to(pc) == [w[c] EXCEPT !.pc = pc]
           join(g) == [w[c] EXCEPT !.pc = "create", !.grp = g]
           on(s) == [w[c] EXCEPT !.pc = "deleteServer", !.srv = s]
           done == [w[c] EXCEPT !.pc = "finalize", !.srv = Nil]
           Ends == w'[c].pc \notin Providing
           Goes == /\ w[c].pc \in Providing /\ w'[c].pc # "patchStatus"
                   /\ w'[c].m = w[c].m /\ w'[c].snap = w[c].snap
                   /\ w'[c].pc \in OnServer =>
                        w[c].pc \in OnServer /\ w'[c].srv = w[c].srv
<1>1. UNCHANGED <<obj, cache>>
  BY DEF ReadsOn, Exists, ListGroups, NewGroup, WaitVolume, UpdateTags,
     GetVolume, TagVolume, TargetGone, Delete, DeleteServer,
     ExistsAfterDelete, Aborts
<1>2. w'[c] = Idle => Ends
  BY DEF Idle, Providing
<1>3. \A pc : w'[c] = to(pc) =>
        /\ w'[c].pc = pc /\ w'[c].m = w[c].m
        /\ w'[c].snap = w[c].snap /\ w'[c].srv = w[c].srv
  BY DEF Typed, Worker
<1>4. CASE Exists(c)
  <2>1. \E pc \in {"markFailed", "listGroups", "create", "update"} :
          Goto(c, to(pc)) \/ Goto(c, Idle)
    BY <1>4 DEF Exists, Return
  <2> QED
    BY <1>1, <1>2, <1>3, <1>4, <2>1, Moves
       DEF Exists, At, Providing, Releasing, OnServer, Step
<1>5. CASE ListGroups(c) \/ NewGroup(c)
  <2>1. /\ w'[c] = Idle \/ w'[c] = to("newGroup")
             \/ \E g \in GroupId : w'[c] = join(g)
        /\ \A d \in Cluster \ {c} : w'[d] = w[d]
    BY <1>5, Moves DEF ListGroups, NewGroup, GroupsWithRoom
  <2>2. \A g \in GroupId : w'[c] = join(g) =>
          w'[c].pc = "create" /\ w'[c].m = w[c].m /\ w'[c].snap = w[c].snap
    BY DEF Typed, Worker
  <2> QED
    BY <1>1, <1>2, <1>3, <1>5, <2>1, <2>2
       DEF ListGroups, NewGroup, At, Providing, Releasing, OnServer, Step
<1>6. CASE WaitVolume(c) \/ UpdateTags(c) \/ GetVolume(c) \/ TagVolume(c)
  <2>1. \E pc \in {"tagVolume", "getVolume", "patch"} :
          /\ w'[c] \in {Idle, to(pc)}
          /\ \A d \in Cluster \ {c} : w'[d] = w[d]
    BY <1>6, Moves DEF WaitVolume, UpdateTags, GetVolume, TagVolume
  <2> QED
    BY <1>1, <1>2, <1>3, <1>6, <2>1
       DEF WaitVolume, UpdateTags, GetVolume, TagVolume, At, Providing,
           Releasing, OnServer, Step
<1>7. CASE TargetGone(c) \/ Aborts(c)
  BY <1>1, <1>2, <1>7, Moves DEF TargetGone, Aborts
<1>8. CASE Delete(c) \/ DeleteServer(c) \/ ExistsAfterDelete(c)
  <2>1. /\ \/ w'[c] = Idle \/ w'[c] = to("existsAfterDelete") \/ w'[c] = done
           \/ \E s \in ServerId : w'[c] = on(s)
        /\ \A d \in Cluster \ {c} : w'[d] = w[d]
    BY <1>8, Moves DEF Delete, DeleteServer, ExistsAfterDelete
  <2>2. /\ w'[c] = done => w'[c].pc = "finalize"
        /\ \A s \in ServerId : w'[c] = on(s) => w'[c].pc = "deleteServer"
    BY DEF Typed, Worker
  <2> QED BY <1>1, <1>2, <1>3, <2>1, <2>2 DEF Providing, Releasing
<1> QED BY <1>4, <1>5, <1>6, <1>7, <1>8 DEF ReadsOn

LEMMA ReadsOnLinks ==
  ASSUME Typed, Sound, LinkInv, NEW c \in Cluster, ReadsOn(c)
  PROVE  LinkInv'
<1>1. \A n \in Machine : Remembers(n)
  <2>1. CASE UNCHANGED servers
    BY <2>1, KeepsUnchanged, KeepsRemembers
  <2>2. CASE ~UNCHANGED servers
    <3>1. UpdateTags(c) \/ TagVolume(c) \/ DeleteServer(c)
      BY <2>2 DEF ReadsOn, Exists, ListGroups, NewGroup, WaitVolume, GetVolume,
         TargetGone, Delete, ExistsAfterDelete, Aborts
    <3> QED BY <3>1, WriteTagsKeep, DeleteServerKeeps, KeepsRemembers
  <2> QED BY <2>1, <2>2
<1>2. Linking(c)'
  <2>1. CASE w'[c].pc \notin Providing
    BY <2>1, NotProviding
  <2>2. CASE w'[c].pc \in Providing
    <3>1. PICK m \in Machine : m = w[c].m
      BY <2>2, ReadsOnTo DEF Sound, WorkerInv, Handles, Busy, Providing
    <3>2. LinksKept(m)
      BY ReadsOnTo DEF LinksKept
    <3> QED BY <1>1, <2>2, <3>1, <3>2, ReadsOnTo, LinkingFrame DEF LinkInv
  <2> QED BY <2>1, <2>2
<1> QED BY <1>1, <1>2, ReadsOnTo, ReadFrame

\* A worker that has come to a server: the one it created, or the one it found.
\* What the machine was linked to is not listed any more.
LEMMA TakesUp ==
  ASSUME Typed, Sound, LinkInv, NEW c \in Cluster, NEW m \in Machine,
         NEW s \in ServerId,
         w[c].m = m, w[c].pc \in Providing, UNCHANGED obj, Remembers(m),
         w'[c].m = m, w'[c].snap = w[c].snap, w'[c].srv = s,
         w'[c].pc \in OnServer, w'[c].pc # "patchStatus",
         Replaced(m, obj[m].status, s),
         w[c].snap.pid = s => obj[m].pid = s,
         w[c].snap.status = s => obj[m].status = s
  PROVE  Linking(c)'
<1>1. PICK copy \in MachineObj : copy = w[c].snap
  BY LinkTypes
<1>2. Lags(m, copy)
  BY <1>1 DEF LinkInv, Linking
<1>3. LinksKept(m)
  BY DEF LinksKept
<1>4. Lags(m, copy)' /\ copy = w'[c].snap
  BY <1>1, <1>2, <1>3, LagsFrame
<1>5. PICK old \in ServerId \cup {Nil} : old = obj[m].status
  BY LinkTypes
<1>6. Replaced(m, old, s)' /\ old = obj'[m].status
  BY <1>5, ReplacedFrame
<1> QED BY <1>4, <1>6 DEF Linking, Lags, Replaced

LEMMA CreateServerLinks ==
  ASSUME Typed, Sound, LinkInv, NEW c \in Cluster, CreateServer(c)
  PROVE  LinkInv'
<1>1. w[c].pc = "create" /\ Busy(c)
  BY DEF CreateServer, At, Busy
<1>2. PICK m \in Machine : m = w[c].m
  BY <1>1 DEF Sound, WorkerInv, Handles
<1>3. UNCHANGED <<obj, cache>>
  BY DEF CreateServer
<1>4. CASE UNCHANGED servers /\ Return(c)
  <2>1. w'[c] = Idle /\ \A d \in Cluster \ {c} : w'[d] = w[d]
    BY <1>4, Moves
  <2>2. Linking(c)'
    BY <2>1, NotProviding DEF Idle, Providing
  <2> QED BY <1>3, <1>4, <2>1, <2>2, KeepsUnchanged, KeepsRemembers, ReadFrame
<1>5. CASE ~(UNCHANGED servers /\ Return(c))
  <2> DEFINE wc(pc, s) == [w[c] EXCEPT !.pc = pc, !.srv = s]
  <2>1. PICK s \in ServerId, pc \in {"waitVolume", "patch"} :
          /\ servers[s].st = "free"
          /\ \A t \in ServerId \ {s} : servers'[t] = servers[t]
          /\ Replied(c, wc(pc, s))
    <3>1. PICK s \in ServerId, pc \in {"waitVolume", "patch"} :
            /\ servers[s].st = "free"
            /\ servers' = [servers EXCEPT ![s] =
                 [NoServer EXCEPT !.st = "up",
                    !.groups = Given[m] \cup ({w[c].grp} \ {Nil}),
                    !.tags = buildServerTags(m, w[c].snap.tags)]]
            /\ Replied(c, wc(pc, s))
      BY <1>2, <1>5 DEF CreateServer
    <3> QED BY <3>1 DEF Typed
  <2>2. w'[c] \in {Idle, wc(pc, s)} /\ \A d \in Cluster \ {c} : w'[d] = w[d]
    BY <2>1, Moves
  <2>3. \A n \in Machine : Remembers(n)
    BY <2>1 DEF Remembers, MadeFor, Belongs, Listed
  <2>4. Linking(c)'
    <3>1. CASE w'[c] = Idle
      BY <3>1, NotProviding DEF Idle, Providing
    <3>2. CASE w'[c] = wc(pc, s)
      <4>1. /\ w'[c].pc = pc /\ w'[c].m = m /\ w'[c].srv = s
            /\ w'[c].snap = w[c].snap
        BY <1>2, <3>2 DEF Typed, Worker
      <4>2. w[c].snap.pid = Nil /\ w[c].snap.status = Nil /\ Instances(m) = {}
        BY <1>1, <1>2 DEF Sound, WorkerInv, SeenLinks, LookedUp, Creating,
             Provisioned
      <4>3. Replaced(m, obj[m].status, s)
        BY <4>2, LinkTypes
           DEF Sound, MachineInv, SafeMachine, Replaced, Instances, MadeFor
      <4> QED BY <1>1, <1>2, <1>3, <2>3, <4>1, <4>2, <4>3, TakesUp,
                 ValueAssumption DEF Providing, Releasing, OnServer, Step
    <3> QED BY <2>2, <3>1, <3>2
  <2> QED BY <1>3, <2>2, <2>3, <2>4, ReadFrame
<1> QED BY <1>4, <1>5

LEMMA UpdateLinks ==
  ASSUME Typed, Sound, LinkInv, NEW c \in Cluster, Update(c)
  PROVE  LinkInv'
<1>1. w[c].pc = "update" /\ Busy(c)
  BY DEF Update, At, Busy
<1>2. PICK m \in Machine : m = w[c].m
  BY <1>1 DEF Sound, WorkerInv, Handles
<1>3. UNCHANGED <<servers, obj, cache>>
  BY DEF Update
<1>4. \A n \in Machine : Remembers(n)
  BY <1>3, KeepsUnchanged, KeepsRemembers
<1>5. CASE Return(c)
  <2>1. w'[c] = Idle /\ \A d \in Cluster \ {c} : w'[d] = w[d]
    BY <1>5, Moves
  <2>2. Linking(c)'
    BY <2>1, NotProviding DEF Idle, Providing
  <2> QED BY <1>3, <1>4, <2>1, <2>2, ReadFrame
<1>6. CASE ~Return(c)
  <2> DEFINE on(pc, s) == [w[c] EXCEPT !.pc = pc, !.srv = s,
                                       !.vol = servers[s].vol]
  <2>1. PICK s \in ServerId, pc \in {"updateTags", "getVolume"} :
          getServer(m) = s /\ Goto(c, on(pc, s))
    BY <1>2, <1>6 DEF Update
  <2>2. w'[c] = on(pc, s) /\ \A d \in Cluster \ {c} : w'[d] = w[d]
    BY <2>1, Moves
  <2>3. /\ w'[c].pc = pc /\ w'[c].m = m /\ w'[c].srv = s
        /\ w'[c].snap = w[c].snap
    BY <1>2, <2>2 DEF Typed, Worker
  <2>4. Instances(m) = {s} /\ Listed(s)
    BY <2>1, GetServer DEF Instances
  <2>5. Lags(m, w[c].snap)
    BY <1>1, <1>2 DEF LinkInv, Linking, Providing, Releasing, Step
  <2>6. Replaced(m, obj[m].status, s)
    BY <2>4, LinkTypes
       DEF Sound, MachineInv, SafeMachine, Replaced, Instances, MadeFor
  <2>7. /\ w[c].snap.pid = s => obj[m].pid = s
        /\ w[c].snap.status = s => obj[m].status = s
    BY <2>4, <2>5, ValueAssumption DEF Lags, Replaced
  <2>8. Linking(c)'
    BY <1>1, <1>2, <1>3, <1>4, <2>3, <2>6, <2>7, TakesUp
       DEF Providing, Releasing, OnServer, Step
  <2> QED BY <1>3, <1>4, <2>2, <2>8, ReadFrame
<1> QED BY <1>5, <1>6

\* A copy still lags when a link of the object is replaced.
LEMMA Relinked ==
  ASSUME Typed, NEW m \in Machine, UNCHANGED servers,
         NEW copy \in MachineObj, Lags(m, copy),
         NEW pid \in ServerId \cup {Nil}, NEW status \in ServerId \cup {Nil},
         Replaced(m, obj[m].pid, pid), Replaced(m, obj[m].status, status),
         obj'[m].pid = pid, obj'[m].status = status
  PROVE  Lags(m, copy)'
<1>1. Replaced(m, copy.pid, pid) /\ Replaced(m, copy.status, status)
  BY ReplacedTwice DEF Lags
<1>2. Remembers(m)
  BY KeepsUnchanged, KeepsRemembers
<1>3. copy.pid \in ServerId \cup {Nil} /\ copy.status \in ServerId \cup {Nil}
  BY DEF MachineObj
<1>4. Replaced(m, copy.pid, pid)' /\ Replaced(m, copy.status, status)'
  BY <1>1, <1>2, <1>3, ReplacedFrame
<1> QED BY <1>4 DEF Lags, Replaced

\* After the first patch the provider id is that of the worker's server.
LEMMA PatchTo ==
  ASSUME Typed, Sound, LinkInv, NEW c \in Cluster, Patch(c)
  PROVE  LET m == w[c].m
             s == w[c].srv
         IN  \/ /\ w[c].snap.pid = s /\ w[c].snap.status = s
                /\ Return(c) /\ UNCHANGED obj
             \/ /\ obj' = [obj EXCEPT ![m].pid = s]
                /\ \E resp \in MachineObj :
                     Replied(c, [w[c] EXCEPT !.pc = "patchStatus",
                                             !.resp = resp])
<1>1. w[c].pc = "patch" /\ Busy(c)
  BY DEF Patch, At, Busy
<1>2. PICK m \in Machine, s \in ServerId : m = w[c].m /\ s = w[c].srv
  BY <1>1 DEF Sound, WorkerInv, Handles, OnServer
<1>3. w[c].snap.pid = s => obj[m].pid = s
  BY <1>1, <1>2 DEF LinkInv, Linking, OnServer, Providing, Releasing, Step
<1>4. MergeFrom(w[c].snap.pid, s, obj[m].pid) = s
  BY <1>3 DEF MergeFrom
<1> QED BY <1>2, <1>4, PatchEffect

LEMMA PatchLinks ==
  ASSUME Typed, Sound, LinkInv, NEW c \in Cluster, Patch(c)
  PROVE  LinkInv'
<1>1. w[c].pc = "patch" /\ Busy(c)
  BY DEF Patch, At, Busy
<1>2. PICK m \in Machine, s \in ServerId : m = w[c].m /\ s = w[c].srv
  BY <1>1 DEF Sound, WorkerInv, Handles, OnServer
<1>3. UNCHANGED <<servers, cache>> /\ \A n \in Machine : Remembers(n)
  BY KeepsUnchanged, KeepsRemembers DEF Patch
<1>4. CASE Return(c) /\ UNCHANGED obj
  <2>1. w'[c] = Idle /\ \A d \in Cluster \ {c} : w'[d] = w[d]
    BY <1>4, Moves
  <2>2. Linking(c)'
    BY <2>1, NotProviding DEF Idle, Providing
  <2> QED BY <1>3, <1>4, <2>1, <2>2, ReadFrame
<1>5. CASE ~(Return(c) /\ UNCHANGED obj)
  <2>0. PICK resp \in MachineObj :
          /\ obj' = [obj EXCEPT ![m].pid = s]
          /\ Replied(c, [w[c] EXCEPT !.pc = "patchStatus", !.resp = resp])
    BY <1>2, <1>5, PatchTo
  <2> DEFINE to == [w[c] EXCEPT !.pc = "patchStatus", !.resp = resp]
  <2>1. obj' = [obj EXCEPT ![m].pid = s] /\ Replied(c, to)
    BY <2>0
  <2>2. /\ obj'[m] = [obj[m] EXCEPT !.pid = s]
        /\ \A n \in Machine \ {m} : obj'[n] = obj[n]
    BY <2>1 DEF Typed
  <2>3. /\ obj'[m].pid = s /\ obj'[m].status = obj[m].status
        /\ obj'[m].st = obj[m].st
    BY <2>2 DEF Typed, MachineObj
  <2>4. w'[c] \in {Idle, to} /\ \A d \in Cluster \ {c} : w'[d] = w[d]
    BY <2>1, Moves
  <2>5. /\ Replaced(m, obj[m].pid, s) /\ Replaced(m, obj[m].status, s)
        /\ Replaced(m, obj[m].status, obj[m].status)
        /\ w[c].snap.status = s => obj[m].status = s
        /\ Lags(m, w[c].snap) /\ Lags(m, cache[m])
        /\ obj[m].st \in {"live", "deleting"}
    <3>1. Supersedes(c) /\ OnPath(c) /\ SafeMachine(m) /\ Linking(c)
          /\ Lags(m, cache[m])
      BY DEF Sound, WorkerInv, MachineInv, LinkInv
    <3>2. Replaced(m, obj[m].pid, s)
      BY <1>1, <1>2, <3>1 DEF Supersedes, SafeMachine, Replaced, OnServer
    <3> QED BY <1>1, <1>2, <3>1, <3>2 DEF Linking, OnPath, OnServer, Providing,
               Releasing, Step, Replaced
  <2>6. \A copy \in MachineObj : Lags(m, copy) => Lags(m, copy)'
    BY <1>3, <2>3, <2>5, LinkTypes, Relinked
  <2>7. Lags(m, cache[m])' /\ Unlinked(m)'
    <3>1. PICK copy \in MachineObj : copy = cache[m] /\ copy = cache'[m]
      BY <1>3, LinkTypes
    <3>2. Lags(m, copy)'
      BY <2>5, <2>6, <3>1
    <3> QED BY <2>3, <2>5, <3>1, <3>2 DEF Lags, Unlinked
  <2>8. Linking(c)'
    <3>1. CASE w'[c] = Idle
      BY <3>1, NotProviding DEF Idle, Providing
    <3>2. CASE w'[c] = to
      <4>1. /\ w'[c].pc = "patchStatus" /\ w'[c].m = m /\ w'[c].srv = s
            /\ w'[c].snap = w[c].snap
        BY <1>2, <3>2 DEF Typed, Worker
      <4>2. PICK copy \in MachineObj : copy = w[c].snap
        BY LinkTypes
      <4>3. Lags(m, copy)' /\ copy = w'[c].snap
        BY <2>5, <2>6, <4>1, <4>2
      <4>4. Lags(w[c].m, w[c].snap)'
        BY <4>1, <4>3 DEF Lags
      <4>5. Replaced(w[c].m, obj[w[c].m].status, w[c].srv)'
        BY <1>3, <2>3, <2>5, <4>1 DEF Replaced, MadeFor, Belongs, Listed
      <4> QED BY <2>3, <2>5, <4>1, <4>4, <4>5 DEF Linking
    <3> QED BY <2>4, <3>1, <3>2
  <2> QED BY <1>1, <1>2, <1>3, <2>2, <2>4, <2>7, <2>8, LinkFrame
<1> QED BY <1>4, <1>5

\* The second patch, and with it the reconcile, ends with both links in place,
\* unless it is refused because the object has changed since the first.
LEMMA PatchStatusTo ==
  ASSUME Typed, Sound, LinkInv, NEW c \in Cluster, PatchStatus(c)
  PROVE  /\ \/ Conflict(c) /\ Return(c) /\ UNCHANGED obj
            \/ /\ obj' = [obj EXCEPT ![w[c].m].status = w[c].srv]
               /\ Replied(c, Idle)
         /\ obj[w[c].m].pid = w[c].srv
<1>1. w[c].pc = "patchStatus" /\ Busy(c)
  BY DEF PatchStatus, At, Busy
<1>2. PICK m \in Machine, s \in ServerId : m = w[c].m /\ s = w[c].srv
  BY <1>1 DEF Sound, WorkerInv, Handles, OnServer
<1>3. (w[c].snap.status = s => obj[m].status = s) /\ obj[m].pid = s
  BY <1>1, <1>2 DEF LinkInv, Linking, OnServer, Providing, Releasing, Step
<1>4. MergeFrom(w[c].snap.status, s, obj[m].status) = s
  BY <1>3 DEF MergeFrom
<1> QED BY <1>2, <1>3, <1>4, PatchEffect

LEMMA PatchStatusLinks ==
  ASSUME Typed, Sound, LinkInv, NEW c \in Cluster, PatchStatus(c)
  PROVE  LinkInv'
<1>1. w[c].pc = "patchStatus" /\ Busy(c)
  BY DEF PatchStatus, At, Busy
<1>2. PICK m \in Machine, s \in ServerId : m = w[c].m /\ s = w[c].srv
  BY <1>1 DEF Sound, WorkerInv, Handles, OnServer
<1>3. UNCHANGED <<servers, cache>> /\ \A n \in Machine : Remembers(n)
  BY KeepsUnchanged, KeepsRemembers DEF PatchStatus
<1>4. w'[c] = Idle /\ \A d \in Cluster \ {c} : w'[d] = w[d]
  BY PatchEffect, Moves
<1>5. /\ obj'[m] = obj[m] \/ obj'[m] = [obj[m] EXCEPT !.status = s]
      /\ \A n \in Machine \ {m} : obj'[n] = obj[n]
  BY <1>2, PatchStatusTo DEF Typed
<1>6. /\ obj'[m].status \in {obj[m].status, s} /\ obj'[m].pid = obj[m].pid
      /\ obj'[m].st = obj[m].st
  BY <1>5 DEF Typed, MachineObj
<1>7. /\ Replaced(m, obj[m].status, obj'[m].status)
      /\ Replaced(m, obj[m].pid, obj[m].pid)
      /\ Lags(m, cache[m]) /\ obj[m].st \in {"live", "deleting"}
  <2>1. Replaced(m, obj[m].status, s) /\ Replaced(m, obj[m].status, obj[m].status)
    BY <1>1, <1>2 DEF LinkInv, Linking, OnServer, Providing, Releasing, Step,
       Replaced
  <2> QED BY <1>1, <1>2, <1>6, <2>1 DEF LinkInv, Sound, WorkerInv, OnPath,
             Providing, Releasing, Step, Replaced
<1>8. Lags(m, cache[m])' /\ Unlinked(m)'
  <2>1. PICK copy \in MachineObj : copy = cache[m] /\ copy = cache'[m]
    BY <1>3, LinkTypes
  <2>2. Lags(m, copy)'
    BY <1>3, <1>6, <1>7, <2>1, LinkTypes, Relinked
  <2> QED BY <1>6, <1>7, <2>1, <2>2 DEF Lags, Unlinked
<1>9. Linking(c)'
  BY <1>4, NotProviding DEF Idle, Providing
<1> QED BY <1>1, <1>2, <1>3, <1>4, <1>5, <1>8, <1>9, LinkFrame

\* The calls that write the object around the actuator.
LEMMA ControllerLinks ==
  ASSUME Typed, Sound, LinkInv, NEW c \in Cluster,
         AddFinalizer(c) \/ MarkFailed(c) \/ Finalize(c)
  PROVE  LinkInv'
<1>1. w[c].pc \in {"addFinalizer", "markFailed", "finalize"} /\ Busy(c)
  BY DEF AddFinalizer, MarkFailed, Finalize, At, Busy
<1>2. PICK m \in Machine : m = w[c].m
  BY <1>1 DEF Sound, WorkerInv, Handles
<1>3. UNCHANGED <<servers, cache>> /\ \A n \in Machine : Remembers(n)
  BY KeepsUnchanged, KeepsRemembers DEF AddFinalizer, MarkFailed, Finalize
<1>4. w'[c] = Idle /\ \A d \in Cluster \ {c} : w'[d] = w[d]
  BY Moves DEF AddFinalizer, MarkFailed, Finalize
<1>5. Linking(c)'
  BY <1>4, NotProviding DEF Idle, Providing
<1>6. CASE UNCHANGED obj
  BY <1>3, <1>4, <1>5, <1>6, ReadFrame
<1>7. CASE ~UNCHANGED obj
  <2>1. \A n \in Machine \ {m} : obj'[n] = obj[n]
    BY <1>2 DEF AddFinalizer, MarkFailed, Finalize, Typed
  <2>2. CASE AddFinalizer(c) \/ MarkFailed(c)
    <3>1. \/ obj'[m] = [obj[m] EXCEPT !.st = "live"]
          \/ obj'[m] = [obj[m] EXCEPT !.phase = "Failed"]
      BY <1>2, <1>7, <2>2 DEF AddFinalizer, MarkFailed, Typed
    <3>2. LinksKept(m) /\ obj'[m].st \in {"live", obj[m].st}
      BY <3>1 DEF LinksKept, Typed, MachineObj
    <3>3. Lags(m, cache[m])' /\ Unlinked(m)'
      BY <1>3, <3>2, CopyFrame
    <3> QED BY <1>1, <1>2, <1>3, <1>4, <1>5, <2>1, <3>3, LinkFrame
  <2>3. CASE Finalize(c)
    <3>1. obj'[m] = [NoObj EXCEPT !.st = "gone"]
      BY <1>2, <1>7, <2>3 DEF Finalize, Typed
    <3>2. obj'[m].st = "gone" /\ obj'[m].pid = Nil /\ obj'[m].status = Nil
      BY <3>1 DEF NoObj
    <3>3. Instances(m) = {} /\ SafeMachine(m) /\ Lags(m, cache[m])
      BY <1>2, <2>3 DEF Finalize, At, Sound, WorkerInv, LookedUp, MachineInv,
           LinkInv
    <3>4. Replaced(m, obj[m].pid, Nil) /\ Replaced(m, obj[m].status, Nil)
      BY <3>3, LinkTypes DEF SafeMachine, Replaced, Instances, MadeFor
    <3>5. PICK copy \in MachineObj : copy = cache[m] /\ copy = cache'[m]
      BY <1>3, LinkTypes
    <3>6. Lags(m, copy)'
      BY <1>3, <3>2, <3>3, <3>4, <3>5, Relinked
    <3>7. Lags(m, cache[m])' /\ Unlinked(m)'
      BY <3>2, <3>5, <3>6 DEF Lags, Unlinked
    <3> QED BY <1>1, <1>2, <1>3, <1>4, <1>5, <2>1, <3>7, LinkFrame
  <2> QED BY <2>2, <2>3, <1>6
             DEF AddFinalizer, MarkFailed, Finalize
<1> QED BY <1>6, <1>7

\* A step of the surroundings: the servers of a machine stay its servers, and
\* its links stay what they are.
LEMMA SurroundingsLinks ==
  ASSUME Typed, Sound, LinkInv, UNCHANGED w,
         \A n \in Machine : Remembers(n) /\ LinksKept(n),
         \A n \in Machine : Lags(n, cache[n])' /\ Unlinked(n)'
  PROVE  LinkInv'
<1>1. ASSUME NEW d \in Cluster PROVE Linking(d)'
  <2>1. w[d].pc \in Providing => w[d].m \in Machine
    BY DEF Sound, WorkerInv, Handles, Busy, Providing
  <2>2. w[d].pc \in Providing => LinksKept(w[d].m)
    BY <2>1 DEF LinksKept
  <2> QED BY <2>2, LinkingElsewhere
<1> QED BY <1>1 DEF LinkInv

LEMMA CloudLinks ==
  ASSUME Typed, Sound, LinkInv, NEW s \in ServerId, CloudStep(s)
  PROVE  LinkInv'
<1>1. UNCHANGED <<obj, cache, w>>
  BY DEF CloudStep, VolumeAppears, DeletionCompletes, ServerVanishes, TagsDrift
<1>2. \A n \in Machine : Remembers(n) /\ LinksKept(n)
  BY <1>1, CloudKeeps, KeepsRemembers DEF LinksKept
<1>3. \A n \in Machine : Lags(n, cache[n])' /\ Unlinked(n)'
  BY <1>1, <1>2, CopyFrame
<1> QED BY <1>1, <1>2, <1>3, SurroundingsLinks

LEMMA DeliverLinks ==
  ASSUME Typed, Sound, LinkInv, NEW m \in Machine, Deliver(m)
  PROVE  LinkInv'
<1>1. /\ UNCHANGED <<servers, obj, w>> /\ cache'[m] = obj[m]
      /\ \A n \in Machine \ {m} : cache'[n] = cache[n]
  BY DEF Deliver, Typed
<1>2. \A n \in Machine : Remembers(n) /\ LinksKept(n)
  BY <1>1, KeepsUnchanged, KeepsRemembers DEF LinksKept
<1>3. \A n \in Machine \ {m} : Lags(n, cache[n])' /\ Unlinked(n)'
  BY <1>1, <1>2, CopyFrame
<1>4. Lags(m, cache[m])' /\ Unlinked(m)'
  BY <1>1 DEF LinkInv, Lags, Replaced, Unlinked, Provisioned
<1> QED BY <1>1, <1>2, <1>3, <1>4, SurroundingsLinks

\* Users do not touch links; an object removed without the finalizer has none.
LEMMA UserLinks ==
  ASSUME Typed, Sound, LinkInv, NEW m \in Machine, UserStep(m)
  PROVE  LinkInv'
<1>1. UNCHANGED <<servers, cache, w>>
  BY DEF UserStep, UserCreates, UserEdits, UserDeletes
<1>2. \A n \in Machine \ {m} : obj'[n] = obj[n]
  BY DEF UserStep, UserCreates, UserEdits, UserDeletes, Typed
<1>3. LinksKept(m) /\ (obj'[m].st \in {"none", "new"} =>
                         obj[m].st \in {"none", "new"})
  <2>1. CASE UserCreates(m)
    <3>1. /\ obj'[m].pid = Nil /\ obj'[m].status = Nil
          /\ obj[m].pid = Nil /\ obj[m].status = Nil /\ obj[m].st = "none"
      BY <2>1 DEF UserCreates, NoObj, Typed
    <3> QED BY <3>1 DEF LinksKept
  <2>2. CASE UserEdits(m)
    BY <2>2 DEF UserEdits, LinksKept, Typed, MachineObj
  <2>3. CASE UserDeletes(m) /\ obj[m].st = "new"
    <3>1. /\ obj'[m].pid = Nil /\ obj'[m].status = Nil /\ obj'[m].st = "gone"
      BY <2>3 DEF UserDeletes, NoObj, Typed
    <3>2. obj[m].pid = Nil /\ obj[m].status = Nil
      BY <2>3 DEF LinkInv, Unlinked, Provisioned
    <3> QED BY <3>1, <3>2 DEF LinksKept
  <2>4. CASE UserDeletes(m) /\ obj[m].st = "live"
    BY <2>4 DEF UserDeletes, LinksKept, Typed, MachineObj
  <2> QED BY <2>1, <2>2, <2>3, <2>4 DEF UserStep, UserDeletes
<1>4. \A n \in Machine : Remembers(n) /\ LinksKept(n)
  BY <1>1, <1>2, <1>3, KeepsUnchanged, KeepsRemembers DEF LinksKept
<1>5. \A n \in Machine : Lags(n, cache[n])' /\ Unlinked(n)'
  BY <1>1, <1>2, <1>3, <1>4, CopyFrame
<1> QED BY <1>1, <1>4, <1>5, SurroundingsLinks

LEMMA NextLinks == Typed /\ Sound /\ LinkInv /\ [Next]_vars => LinkInv'
<1> SUFFICES ASSUME Typed, Sound, LinkInv, [Next]_vars PROVE LinkInv'
  OBVIOUS
<1>1. CASE \E c \in Cluster : WorkerStep(c) \/ Aborts(c)
  <2>1. PICK c \in Cluster : WorkerStep(c) \/ Aborts(c)
    BY <1>1
  <2>2. CASE ReadsOn(c)
    BY <2>2, ReadsOnLinks
  <2>3. CASE ~ReadsOn(c)
    <3>1. \/ AddFinalizer(c) \/ MarkFailed(c) \/ Finalize(c)
          \/ CreateServer(c) \/ Update(c) \/ Patch(c) \/ PatchStatus(c)
      BY <2>1, <2>3 DEF ReadsOn, WorkerStep, CreatePath, UpdatePath, DeletePath
    <3> QED BY <3>1, ControllerLinks, CreateServerLinks, UpdateLinks,
               PatchLinks, PatchStatusLinks
  <2> QED BY <2>2, <2>3
<1>2. CASE \E c \in Cluster, m \in Machine : Begin(c, m)
  BY <1>2, BeginLinks
<1>3. CASE \E m \in Machine : Deliver(m) \/ UserStep(m)
  BY <1>3, DeliverLinks, UserLinks
<1>4. CASE \E s \in ServerId : CloudStep(s)
  BY <1>4, CloudLinks
<1>5. CASE UNCHANGED vars
  <2>1. UNCHANGED <<servers, obj, cache, w>>
    BY <1>5 DEF vars
  <2>2. \A n \in Machine : Remembers(n) /\ LinksKept(n)
    BY <2>1, KeepsUnchanged, KeepsRemembers DEF LinksKept
  <2>3. \A n \in Machine : Lags(n, cache[n])' /\ Unlinked(n)'
    BY <2>1, <2>2, CopyFrame
  <2> QED BY <2>1, <2>2, <2>3, SurroundingsLinks
<1> QED BY <1>1, <1>2, <1>3, <1>4, <1>5 DEF Next, AllReleased

\* A step of one worker does not move another.
LEMMA OtherWorkers ==
  ASSUME Typed, Sound, NEW d \in Cluster, WorkerStep(d),
         NEW c \in Cluster \ {d}
  PROVE  w'[c] = w[c]
<1>1. ReadsOn(d) => w'[c] = w[c]
  BY ReadsOnTo
<1>2. ~ReadsOn(d) =>
        \/ AddFinalizer(d) \/ MarkFailed(d) \/ Finalize(d)
        \/ CreateServer(d) \/ Update(d) \/ Patch(d) \/ PatchStatus(d)
  BY DEF ReadsOn, WorkerStep, CreatePath, UpdatePath, DeletePath
<1>3. AddFinalizer(d) \/ MarkFailed(d) \/ Finalize(d) => w'[c] = w[c]
  BY Moves DEF AddFinalizer, MarkFailed, Finalize
<1>4. CreateServer(d) \/ Update(d) => w'[c] = w[c]
  BY Moves DEF CreateServer, Update
<1>5. Patch(d) \/ PatchStatus(d) => w'[c] = w[c]
  BY PatchEffect, Moves
<1> QED BY <1>1, <1>2, <1>3, <1>4, <1>5

\* What stale copies tell about links is invariant.
THEOREM LinkInvariance == Spec => []LinkInv
<1>1. Init => LinkInv
  BY DEF Init, LinkInv, Linking, Idle, NoObj, Lags, Replaced, Unlinked,
     Provisioned, Providing
<1>2. IInv /\ LinkInv /\ [Next]_vars => LinkInv'
  BY TypedIsTypeOK, NextLinks DEF IInv, Sound
<1> QED BY <1>1, <1>2, Invariance, PTL DEF Spec

\* A create or an update that succeeds has linked the machine in spec and in
\* status, although it patches the difference to a copy that may be stale: a
\* copy that names the server the worker found, which is listed, cannot have
\* been overtaken, because a link is only replaced when its server is gone.
THEOREM DoneIsLinked == Spec => DoneMeansLinked
<1> DEFINE A == \A c \in Cluster :
                  /\ \/ w[c].pc = "patch"
                     \/ w[c].pc = "patchStatus" /\ ~Conflict(c)
                  /\ w'[c].pc = "idle" /\ faults' = faults
                  => obj'[w[c].m].pid = w[c].srv /\ obj'[w[c].m].status = w[c].srv
<1>1. IInv /\ LinkInv /\ [Next]_vars => [A]_vars
  <2> SUFFICES ASSUME IInv, LinkInv, Next, NEW c \in Cluster,
                      \/ w[c].pc = "patch"
                      \/ w[c].pc = "patchStatus" /\ ~Conflict(c),
                      w'[c].pc = "idle", faults' = faults
               PROVE  /\ obj'[w[c].m].pid = w[c].srv
                      /\ obj'[w[c].m].status = w[c].srv
    OBVIOUS
  <2>0. Typed /\ Sound
    BY TypedIsTypeOK DEF IInv, Sound
  <2>1. PICK m \in Machine : m = w[c].m
    BY <2>0 DEF Sound, WorkerInv, Handles, Busy
  <2>2. Patch(c) \/ PatchStatus(c)
    <3>1. w'[c] # w[c] /\ ~At(c, "idle")
      BY DEF At
    <3>2. ASSUME NEW d \in Cluster, WorkerStep(d), d # c PROVE FALSE
      BY <2>0, <3>1, <3>2, OtherWorkers
    <3>3. ASSUME NEW d \in Cluster PROVE ~Aborts(d)
      BY <2>0, BoundAssumption DEF Aborts, Fault, Typed
    <3>4. ASSUME NEW d \in Cluster, NEW n \in Machine PROVE ~Begin(d, n)
      <4>1. d # c => ~Begin(d, n)
        BY <2>0, <3>1, Moves DEF Begin
      <4> QED BY <3>1, <4>1 DEF Begin
    <3>5. WorkerStep(c)
      BY <3>1, <3>2, <3>3, <3>4
         DEF Next, Deliver, UserStep, UserCreates, UserEdits, UserDeletes,
             CloudStep, VolumeAppears, DeletionCompletes, ServerVanishes,
             TagsDrift, AllReleased, vars
    <3> QED
      BY <3>5 DEF At, WorkerStep, AddFinalizer, Exists, MarkFailed, CreatePath,
           ListGroups, NewGroup, CreateServer, WaitVolume, UpdatePath, Update,
           UpdateTags, GetVolume, TagVolume, TargetGone, DeletePath, Delete,
           DeleteServer, ExistsAfterDelete, Finalize
  <2>3. CASE Patch(c)
    <3>1. w[c].pc = "patch"
      BY <2>3 DEF Patch, At
    <3>2. CASE /\ w[c].snap.pid = w[c].srv /\ w[c].snap.status = w[c].srv
               /\ UNCHANGED obj
      BY <3>1, <3>2 DEF LinkInv, Linking, OnServer, Providing, Releasing, Step
    <3>3. CASE \E resp \in MachineObj :
                 Replied(c, [w[c] EXCEPT !.pc = "patchStatus", !.resp = resp])
      <4> DEFINE wc(resp) == [w[c] EXCEPT !.pc = "patchStatus", !.resp = resp]
      <4>1. PICK resp \in MachineObj : Replied(c, wc(resp))
        BY <3>3
      <4>2. wc(resp).pc = "patchStatus"
        BY <2>0 DEF Typed, Worker
      <4> HIDE DEF wc
      <4>3. Goto(c, wc(resp))
        BY <2>0, <4>1, BoundAssumption DEF Replied, Fault, Typed
      <4> QED BY <2>0, <4>2, <4>3, Moves
    <3> QED BY <2>0, <2>3, <3>2, <3>3, PatchTo
  <2>4. CASE PatchStatus(c)
    <3>1. /\ obj'[m] = [obj[m] EXCEPT !.status = w[c].srv]
          /\ obj[m].pid = w[c].srv
      BY <2>0, <2>1, <2>4, PatchStatusTo DEF Typed, PatchStatus, At
    <3>2. obj'[m].pid = obj[m].pid /\ obj'[m].status = w[c].srv
      BY <2>0, <3>1 DEF Typed, MachineObj
    <3> QED BY <2>1, <3>1, <3>2
  <2> QED BY <2>2, <2>3, <2>4
<1> QED BY <1>1, Invariance, LinkInvariance, PTL DEF Spec, DoneMeansLinked
===============================================================================
