------------------------------- MODULE Actuator -------------------------------
(***************************************************************************)
(* The cloudscale machine actuator (pkg/machine/actuator.go) as it is      *)
(* driven by the machine controller of the OpenShift machine API operator. *)
(*                                                                         *)
(* One manager runs per cluster; it has one worker, which reconciles one   *)
(* Machine at a time.  Several clusters may share one cloudscale project,  *)
(* so their workers see each other's servers and server groups.            *)
(*                                                                         *)
(* A step of a worker is one call it makes to the cloudscale API or to the *)
(* Kubernetes API, with the code that runs up to the next call.  Between   *)
(* two steps the cloud, the user, the informer cache and the workers of    *)
(* other clusters may take steps of their own.                             *)
(***************************************************************************)
EXTENDS Naturals, FiniteSets

CONSTANTS
  Cluster,        \* the cluster ids; each is also a tag value
  Machine,        \* the Machine objects
  ClusterOf,      \* the cluster-id label of a machine
  NameOf,         \* metadata.name of a machine, a tag value
  Placement,      \* [key, zone] a machine asks anti-affinity for, or Nil
  Given,          \* the server groups a machine names itself
  ServerId,       \* server UUIDs; the project's quota
  GroupId,        \* server group UUIDs
  GroupsBefore,   \* the groups there are before the first machine
  TagKey, NameTag, ClusterTag, TagVal,
  NoVal,          \* a tag that is not set
  UserTags,       \* the values spec.tags takes
  VolTags,        \* the values spec.rootVolumeTags takes
  NoVolTags,      \* the empty one
  GroupLimit,     \* servers an anti-affinity group has room for (4)
  Kinds,          \* which disturbances happen: a subset of FaultKind
  MaxFaults,      \* how many of them at most
  Nil, Multiple

TagMap == [TagKey -> TagVal \cup {NoVal}]

FaultKind == {"fail", "lost", "vanish", "drift", "edit"}

\* A server is tagged with its machine's name and cluster id, and found again
\* by them, so two machines must not agree on both.
ASSUME IdentityAssumption ==
  /\ Cluster \subseteq TagVal
  /\ ClusterOf \in [Machine -> Cluster]
  /\ NameOf \in [Machine -> TagVal]
  /\ \A m, n \in Machine :
       ClusterOf[m] = ClusterOf[n] /\ NameOf[m] = NameOf[n] => m = n

ASSUME TagAssumption ==
  /\ NameTag \in TagKey /\ ClusterTag \in TagKey /\ NameTag # ClusterTag
  /\ NoVal \notin TagVal
  /\ UserTags \subseteq TagMap
  /\ NoVolTags \in VolTags

ASSUME ValueAssumption ==
  /\ Nil \notin ServerId \cup GroupId \cup Machine
  /\ Multiple \notin ServerId \cup {Nil}
  /\ \A m \in Machine :
       Placement[m] # Nil => DOMAIN Placement[m] = {"key", "zone"}
  /\ Given \in [Machine -> SUBSET GroupId]
  /\ GroupsBefore \in [GroupId -> {GroupsBefore[g] : g \in GroupId}]

ASSUME BoundAssumption ==
  /\ GroupLimit \in Nat \ {0}
  /\ MaxFaults \in Nat
  /\ Kinds \subseteq FaultKind

VARIABLES
  servers,   \* what the cloud knows of each server UUID
  groups,    \* the [key, zone] of each server group, Nil if it does not exist
  obj,       \* the Machine objects in the Kubernetes API server
  cache,     \* the manager's informer cache of them, possibly stale
  w,         \* the worker of each cluster
  faults     \* disturbances so far

vars == <<servers, groups, obj, cache, w, faults>>

-----------------------------------------------------------------------------
(* Data *)

NoTags == [k \in TagKey |-> NoVal]

NoServer == [st |-> "free", tags |-> NoTags, vol |-> "missing",
             volTags |-> NoVolTags, groups |-> {}]

NoObj == [st |-> "none", tags |-> NoTags, volTags |-> NoVolTags,
          pid |-> Nil, status |-> Nil, phase |-> "ok"]

Idle == [pc |-> "idle", m |-> Nil, snap |-> NoObj, resp |-> NoObj,
         srv |-> Nil, grp |-> Nil, vol |-> "missing"]

Volume == {"missing", "ready"}

\* "up" and "stopping" servers are in the lists the API returns.  The UUID of
\* a server that is "gone" is never given out again.
Server == [st : {"free", "up", "stopping", "gone"}, tags : TagMap,
           vol : Volume, volTags : VolTags, groups : SUBSET GroupId]

\* "new": without the controller's finalizer.  "gone": released for good.
\* pid and status name the server that spec.providerID, and status.addresses
\* with status.providerStatus, were computed from.  "ok" is any phase but
\* Failed.
MachineObj == [st : {"none", "new", "live", "deleting", "gone"},
               tags : UserTags \cup {NoTags}, volTags : VolTags,
               pid : ServerId \cup {Nil}, status : ServerId \cup {Nil},
               phase : {"ok", "Failed"}]

Step == {"idle", "addFinalizer", "exists", "markFailed",
         "listGroups", "newGroup", "create", "waitVolume",
         "update", "updateTags", "getVolume",
         "tagVolume", "patch", "patchStatus",
         "delete", "deleteServer", "existsAfterDelete", "finalize"}

\* snap is the copy from the cache, resp what the first of the two patches
\* returned.
Worker == [pc : Step, m : Machine \cup {Nil},
           snap : MachineObj, resp : MachineObj,
           srv : ServerId \cup {Nil}, grp : GroupId \cup {Nil}, vol : Volume]

Listed(s) == servers[s].st \in {"up", "stopping"}

\* The volumes of the server are not empty and the first one can be read.
HasVolume(s) == servers[s].vol = "ready"

\* The server s carries the name and the cluster id of the machine m.
Belongs(s, m) == /\ servers[s].tags[NameTag] = NameOf[m]
                 /\ servers[s].tags[ClusterTag] = ClusterOf[m]

Instances(m) == {s \in ServerId : Listed(s) /\ Belongs(s, m)}

Members(g) == {s \in ServerId : Listed(s) /\ g \in servers[s].groups}

-----------------------------------------------------------------------------
(* Helpers of the actuator *)

\* Mutant: the user's tags are copied last and win.
UserTagsWin(m, userTags) ==
  [k \in TagKey |-> CASE userTags[k] # NoVal -> userTags[k]
                      [] userTags[k] = NoVal /\ k = NameTag -> NameOf[m]
                      [] userTags[k] = NoVal /\ k = ClusterTag -> ClusterOf[m]
                      [] OTHER -> NoVal]

buildServerTags(m, userTags) ==
  [userTags EXCEPT ![NameTag] = NameOf[m], ![ClusterTag] = ClusterOf[m]]

\* Mutant: the list is not filtered by cluster.
ServerByName(m) ==
  LET ss == {s \in ServerId :
               Listed(s) /\ servers[s].tags[NameTag] = NameOf[m]}
  IN  IF ss = {} THEN Nil
      ELSE IF \E s \in ss : ss = {s} THEN CHOOSE s \in ss : ss = {s}
      ELSE Multiple

\* Mutant: servers that are not set up completely are skipped.
CompleteServer(m) ==
  LET ss == {s \in Instances(m) : HasVolume(s)}
  IN  IF ss = {} THEN Nil
      ELSE IF \E s \in ss : ss = {s} THEN CHOOSE s \in ss : ss = {s}
      ELSE Multiple

\* List by the name tag, keep those with this cluster's id: none, the one
\* there is, or an error because there are several.
getServer(m) ==
  LET ssa == {s \in ServerId :
                Listed(s) /\ servers[s].tags[NameTag] = NameOf[m]}
      ss  == {s \in ssa : LET tk == servers[s].tags[ClusterTag]
                          IN  tk # NoVal /\ tk = ClusterOf[m]}
  IN  IF ss = {} THEN Nil
      ELSE IF \E s \in ss : ss = {s} THEN CHOOSE s \in ss : ss = {s}
      ELSE Multiple

\* Mutant: off by one.
GroupsNotOverfull(place) ==
  {g \in GroupId : groups[g] = place /\ Cardinality(Members(g)) <= GroupLimit}

\* The existing groups a machine with this placement may join.
GroupsWithRoom(place) ==
  {g \in GroupId : groups[g] = place /\ Cardinality(Members(g)) < GroupLimit}

\* Provider id and labels, addresses and status are computed from the server.
updateMachineFromCloudscaleServer(machine, s) ==
  [machine EXCEPT !.pid = s, !.status = s]

\* One field of the merge patch from orig to updated, applied to current.
MergeFrom(orig, updated, current) == IF updated = orig THEN current ELSE updated

\* The machine controller takes a machine for provisioned when it has a
\* provider id or addresses.
Provisioned(machine) == machine.pid # Nil \/ machine.status # Nil

-----------------------------------------------------------------------------
(* Steps of a worker: what they share *)

Goto(c, wc) == w' = [w EXCEPT ![c] = wc]

\* The reconcile returns, with or without an error; the locals are lost.
Return(c) == Goto(c, Idle)

Fault(kind) == /\ kind \in Kinds /\ faults < MaxFaults
               /\ faults' = faults + 1

\* A call that changed something returns, or its reply is lost and the caller
\* sees an error; every error ends the reconcile.
Replied(c, wc) == \/ Goto(c, wc) /\ UNCHANGED faults
                  \/ Return(c) /\ Fault("lost")

At(c, pc) == w[c].pc = pc

-----------------------------------------------------------------------------
(* The machine controller: what it does before it calls the actuator *)

\* The worker takes a machine of its cluster from the queue and reads it from
\* the cache.  A machine in phase Failed is only reconciled for deletion.
Begin(c, m) ==
  /\ At(c, "idle") /\ ClusterOf[m] = c
  /\ LET start(pc) == Goto(c, [Idle EXCEPT !.pc = pc, !.m = m,
                                           !.snap = cache[m]])
     IN  \/ cache[m].st = "new" /\ start("addFinalizer")
         \/ cache[m].st = "live" /\ cache[m].phase = "ok" /\ start("exists")
         \/ cache[m].st = "deleting" /\ start("delete")
  /\ UNCHANGED <<servers, groups, obj, cache, faults>>

\* Update with optimistic locking: a conflict if the object has changed since.
AddFinalizer(c) ==
  LET m == w[c].m IN
  /\ At(c, "addFinalizer")
  /\ \/ /\ obj[m] = w[c].snap
        /\ obj' = [obj EXCEPT ![m].st = "live"]
        /\ Replied(c, Idle)
     \/ obj[m] # w[c].snap /\ Return(c) /\ UNCHANGED <<obj, faults>>
  /\ UNCHANGED <<servers, groups, cache>>

\* Mutant: the provider id in the cache answers in place of the cloud.
ExistsByLink(c) ==
  LET m == w[c].m
      s == w[c].snap.pid
      next == IF Placement[m] # Nil THEN "listGroups" ELSE "create"
  IN
  /\ At(c, "exists")
  /\ \/ s = Nil /\ Goto(c, [w[c] EXCEPT !.pc = next])
     \/ s \in ServerId /\ Goto(c, [w[c] EXCEPT !.pc = "update"])
  /\ UNCHANGED <<servers, groups, obj, cache, faults>>

\* Exists: an instance is updated; a provisioned machine without one has
\* failed; any other machine is created.
Exists(c) ==
  LET m == w[c].m
      s == getServer(m)
      next == IF Provisioned(w[c].snap) THEN "markFailed"
              ELSE IF Placement[m] # Nil THEN "listGroups" ELSE "create"
  IN
  /\ At(c, "exists")
  /\ \/ s = Nil /\ Goto(c, [w[c] EXCEPT !.pc = next])
     \/ s \in ServerId /\ Goto(c, [w[c] EXCEPT !.pc = "update"])
     \/ s = Multiple /\ Return(c)
  /\ UNCHANGED <<servers, groups, obj, cache, faults>>

MarkFailed(c) ==
  /\ At(c, "markFailed")
  /\ obj' = [obj EXCEPT ![w[c].m].phase = "Failed"]
  /\ Replied(c, Idle)
  /\ UNCHANGED <<servers, groups, cache>>

-----------------------------------------------------------------------------
(* Actuator.Create *)

\* ensureAntiAffinityServerGroupForKey: the first listed group of this key and
\* zone with room (the order of the list is the API's), or a new group.
ListGroups(c) ==
  LET room == GroupsWithRoom(Placement[w[c].m]) IN
  /\ At(c, "listGroups")
  /\ \/ \E g \in room : Goto(c, [w[c] EXCEPT !.pc = "create", !.grp = g])
     \/ room = {} /\ Goto(c, [w[c] EXCEPT !.pc = "newGroup"])
  /\ UNCHANGED <<servers, groups, obj, cache, faults>>

\* Without a free UUID the project's quota is used up and the call fails.
NewGroup(c) ==
  LET free == {g \in GroupId : groups[g] = Nil} IN
  /\ At(c, "newGroup")
  /\ \/ \E g \in free :
          /\ groups' = [groups EXCEPT ![g] = Placement[w[c].m]]
          /\ Replied(c, [w[c] EXCEPT !.pc = "create", !.grp = g])
     \/ free = {} /\ Return(c) /\ UNCHANGED <<groups, faults>>
  /\ UNCHANGED <<servers, obj, cache>>

\* Mutant: without a free UUID the request is repeated on the spot.
CreateUntilDone(c) ==
  LET joins == Given[w[c].m] \cup ({w[c].grp} \ {Nil})
      next == IF w[c].snap.volTags # NoVolTags THEN "waitVolume" ELSE "patch" IN
  /\ At(c, "create")
  /\ \E s \in ServerId :
       /\ servers[s].st = "free"
       /\ servers' = [servers EXCEPT ![s] =
            [NoServer EXCEPT !.st = "up", !.groups = joins,
               !.tags = buildServerTags(w[c].m, w[c].snap.tags)]]
       /\ Replied(c, [w[c] EXCEPT !.pc = next, !.srv = s])
  /\ UNCHANGED <<groups, obj, cache>>

\* The request for the server, in the groups the spec names and the one chosen
\* for it; the API refuses a group that does not exist.  Only root volume tags
\* make Create wait for the root volume; otherwise the machine is patched right
\* away.
CreateServer(c) ==
  LET m    == w[c].m
      free == {s \in ServerId : servers[s].st = "free"}
      joins == Given[m] \cup ({w[c].grp} \ {Nil})
      refused == \E g \in joins : groups[g] = Nil
      next == IF w[c].snap.volTags # NoVolTags THEN "waitVolume" ELSE "patch"
  IN
  /\ At(c, "create")
  /\ \/ \E s \in free :
          /\ ~refused
          /\ servers' = [servers EXCEPT ![s] =
               [NoServer EXCEPT !.st = "up", !.groups = joins,
                  !.tags = buildServerTags(m, w[c].snap.tags)]]
          /\ Replied(c, [w[c] EXCEPT !.pc = next, !.srv = s])
     \/ /\ free = {} \/ refused
        /\ Return(c) /\ UNCHANGED <<servers, faults>>
  /\ UNCHANGED <<groups, obj, cache>>

\* The backoff polls the server until its root volume can be read.  It gives
\* up after a bounded number of polls and leaves the machine unlinked.
WaitVolume(c) ==
  LET s == w[c].srv IN
  /\ At(c, "waitVolume")
  /\ \/ /\ Listed(s) /\ HasVolume(s)
        /\ Goto(c, [w[c] EXCEPT !.pc = "tagVolume"])
     \/ ~(Listed(s) /\ HasVolume(s)) /\ Return(c)
  /\ UNCHANGED <<servers, groups, obj, cache, faults>>

-----------------------------------------------------------------------------
(* Actuator.Update *)

\* Mutant: a server that was not found is not noticed.
UpdateUnchecked(c) ==
  LET s == getServer(w[c].m) IN
  /\ At(c, "update")
  /\ \/ s # Multiple /\ Goto(c, [w[c] EXCEPT !.pc = "getVolume", !.srv = s])
     \/ s = Multiple /\ Return(c)
  /\ UNCHANGED <<servers, groups, obj, cache, faults>>

\* Mutant: tags that are not in the spec are overlooked.
UpdateIfMissing(c) ==
  LET s == getServer(w[c].m)
      want == buildServerTags(w[c].m, w[c].snap.tags)
      uptodate == \A k \in TagKey : want[k] \in {NoVal, servers[s].tags[k]}
      next == IF uptodate THEN "getVolume" ELSE "updateTags"
  IN
  /\ At(c, "update")
  /\ \/ /\ s \in ServerId /\ (~uptodate \/ HasVolume(s))
        /\ Goto(c, [w[c] EXCEPT !.pc = next, !.srv = s,
                                !.vol = servers[s].vol])
     \/ s \in ServerId /\ uptodate /\ ~HasVolume(s) /\ Return(c)
     \/ s \in {Nil, Multiple} /\ Return(c)
  /\ UNCHANGED <<servers, groups, obj, cache, faults>>

\* Looks the server up again.  Its tags and volumes are compared as this list
\* returned them, whatever happens to the server later in the update.
Update(c) ==
  LET m == w[c].m
      s == getServer(m)
      uptodate == servers[s].tags = buildServerTags(m, w[c].snap.tags)
      next == IF uptodate THEN "getVolume" ELSE "updateTags"
  IN
  /\ At(c, "update")
  /\ \/ /\ s \in ServerId /\ (~uptodate \/ HasVolume(s))
        /\ Goto(c, [w[c] EXCEPT !.pc = next, !.srv = s,
                                !.vol = servers[s].vol])
     \/ s \in ServerId /\ uptodate /\ ~HasVolume(s) /\ Return(c)
     \/ s \in {Nil, Multiple} /\ Return(c)
  /\ UNCHANGED <<servers, groups, obj, cache, faults>>

\* A server that was listed without a volume fails the update, but only after
\* its own tags are written.
UpdateTags(c) ==
  LET s == w[c].srv
      wc == IF w[c].vol = "ready" THEN [w[c] EXCEPT !.pc = "getVolume"] ELSE Idle
  IN
  /\ At(c, "updateTags") /\ Listed(s)
  /\ servers' = [servers EXCEPT ![s].tags =
                   buildServerTags(w[c].m, w[c].snap.tags)]
  /\ Replied(c, wc)
  /\ UNCHANGED <<groups, obj, cache>>

GetVolume(c) ==
  LET s == w[c].srv
      next == IF servers[s].volTags = w[c].snap.volTags
              THEN "patch" ELSE "tagVolume"
  IN
  /\ At(c, "getVolume") /\ Listed(s)
  /\ Goto(c, [w[c] EXCEPT !.pc = next])
  /\ UNCHANGED <<servers, groups, obj, cache, faults>>

\* tagRootVolume, shared by Create and Update.
TagVolume(c) ==
  LET s == w[c].srv IN
  /\ At(c, "tagVolume") /\ Listed(s)
  /\ servers' = [servers EXCEPT ![s].volTags = w[c].snap.volTags]
  /\ Replied(c, [w[c] EXCEPT !.pc = "patch"])
  /\ UNCHANGED <<groups, obj, cache>>

\* The call names a server, or its root volume, that is no longer there.
TargetGone(c) ==
  /\ w[c].pc \in {"updateTags", "getVolume", "tagVolume", "deleteServer"}
  /\ ~Listed(w[c].srv)
  /\ Return(c)
  /\ UNCHANGED <<servers, groups, obj, cache, faults>>

-----------------------------------------------------------------------------
(* patchMachine, shared by Create and Update *)

\* Mutant: a machine that has its provider id is taken to be patched.
PatchUnlinked(c) ==
  LET m == w[c].m
      orig == w[c].snap
      updated == updateMachineFromCloudscaleServer(orig, w[c].srv)
  IN
  /\ At(c, "patch")
  /\ \/ updated.pid = orig.pid /\ Return(c) /\ UNCHANGED <<obj, faults>>
     \/ /\ updated.pid # orig.pid
        /\ obj' = [obj EXCEPT ![m].pid = updated.pid]
        /\ Replied(c, [w[c] EXCEPT !.pc = "patchStatus", !.resp = obj'[m]])
  /\ UNCHANGED <<servers, groups, cache>>

\* Nothing is sent when the server changes nothing in the copy of the machine
\* that was read from the cache; otherwise spec and labels go first.  The copy
\* names no resource version, so the patch succeeds on any object; its response
\* is the object as it is then.
Patch(c) ==
  LET m == w[c].m
      orig == w[c].snap
      updated == updateMachineFromCloudscaleServer(orig, w[c].srv)
      patched == [obj[m] EXCEPT !.pid = MergeFrom(orig.pid, updated.pid, @)]
  IN
  /\ At(c, "patch")
  /\ \/ updated = orig /\ Return(c) /\ UNCHANGED <<obj, faults>>
     \/ /\ updated # orig
        /\ obj' = [obj EXCEPT ![m] = patched]
        /\ Replied(c, [w[c] EXCEPT !.pc = "patchStatus", !.resp = patched])
  /\ UNCHANGED <<servers, groups, cache>>

\* The response of the first patch has replaced the updated machine, resource
\* version included.  Where that differs from the version of the copy it is part
\* of the second patch, which then is refused if the object has changed since.
Conflict(c) == w[c].resp # w[c].snap /\ w[c].resp # obj[w[c].m]

\* Mutant: the status is not put aside, the response of the first patch
\* overwrites it.
PatchStatusLost(c) ==
  /\ At(c, "patchStatus")
  /\ Replied(c, Idle)
  /\ UNCHANGED <<servers, groups, obj, cache>>

\* The status, put aside before the first patch, goes in a second request.
PatchStatus(c) ==
  LET orig == w[c].snap
      updated == updateMachineFromCloudscaleServer(orig, w[c].srv)
  IN
  /\ At(c, "patchStatus")
  /\ \/ /\ ~Conflict(c)
        /\ obj' = [obj EXCEPT ![w[c].m].status =
                      MergeFrom(orig.status, updated.status, @)]
        /\ Replied(c, Idle)
     \/ Conflict(c) /\ Return(c) /\ UNCHANGED <<obj, faults>>
  /\ UNCHANGED <<servers, groups, cache>>

-----------------------------------------------------------------------------
(* Actuator.Delete, and what the machine controller does around it *)

\* Mutant: a server that is not found is an error.
DeleteMustFind(c) ==
  LET s == getServer(w[c].m) IN
  /\ At(c, "delete")
  /\ \/ s \in ServerId /\ Goto(c, [w[c] EXCEPT !.pc = "deleteServer",
                                               !.srv = s])
     \/ s \in {Nil, Multiple} /\ Return(c)
  /\ UNCHANGED <<servers, groups, obj, cache, faults>>

\* Mutant: a machine without a link is taken to have no server.
DeleteLinked(c) ==
  LET s == w[c].snap.pid IN
  /\ At(c, "delete")
  /\ \/ s = Nil /\ Goto(c, [w[c] EXCEPT !.pc = "finalize"])
     \/ s # Nil /\ Goto(c, [w[c] EXCEPT !.pc = "deleteServer", !.srv = s])
  /\ UNCHANGED <<servers, groups, obj, cache, faults>>

\* A machine without a server needs no deletion.
Delete(c) ==
  LET s == getServer(w[c].m) IN
  /\ At(c, "delete")
  /\ \/ s = Nil /\ Goto(c, [w[c] EXCEPT !.pc = "existsAfterDelete"])
     \/ s \in ServerId /\ Goto(c, [w[c] EXCEPT !.pc = "deleteServer",
                                               !.srv = s])
     \/ s = Multiple /\ Return(c)
  /\ UNCHANGED <<servers, groups, obj, cache, faults>>

\* The cloud accepts the deletion; the server may be listed for a while yet.
DeleteServer(c) ==
  LET s == w[c].srv IN
  /\ At(c, "deleteServer") /\ Listed(s)
  /\ servers' = [servers EXCEPT ![s].st = "stopping"]
  /\ Replied(c, [w[c] EXCEPT !.pc = "existsAfterDelete"])
  /\ UNCHANGED <<groups, obj, cache>>

\* The finalizer stays until Exists answers no; otherwise the controller
\* retries later.
ExistsAfterDelete(c) ==
  LET s == getServer(w[c].m) IN
  /\ At(c, "existsAfterDelete")
  /\ \/ s = Nil /\ Goto(c, [w[c] EXCEPT !.pc = "finalize", !.srv = Nil])
     \/ s # Nil /\ Return(c)
  /\ UNCHANGED <<servers, groups, obj, cache, faults>>

\* Removing the finalizer releases the object; optimistic locking as above.
Finalize(c) ==
  LET m == w[c].m IN
  /\ At(c, "finalize")
  /\ \/ /\ obj[m] = w[c].snap
        /\ obj' = [obj EXCEPT ![m] = [NoObj EXCEPT !.st = "gone"]]
        /\ Replied(c, Idle)
     \/ obj[m] # w[c].snap /\ Return(c) /\ UNCHANGED <<obj, faults>>
  /\ UNCHANGED <<servers, groups, cache>>

\* A call fails without effect, the context or the user data of the machine
\* cannot be loaded, or the process dies: the actuator keeps nothing but the
\* locals of the running reconcile, so all of these look the same.
Aborts(c) ==
  /\ ~At(c, "idle") /\ Fault("fail")
  /\ Return(c)
  /\ UNCHANGED <<servers, groups, obj, cache>>

-----------------------------------------------------------------------------
(* The surroundings: informer cache, cloud, user *)

\* A watch event, or the relist after a restart, brings the cache up to date.
Deliver(m) ==
  /\ cache[m] # obj[m]
  /\ cache' = [cache EXCEPT ![m] = obj[m]]
  /\ UNCHANGED <<servers, groups, obj, w, faults>>

\* The root volume of a new server takes a while to show up.
VolumeAppears(s) ==
  /\ servers[s].st = "up" /\ ~HasVolume(s)
  /\ servers' = [servers EXCEPT ![s].vol = "ready"]
  /\ UNCHANGED <<groups, obj, cache, w, faults>>

\* Only the tags of a server that is gone are remembered, as a history.
Gone(s) == [NoServer EXCEPT !.st = "gone", !.tags = servers[s].tags]

DeletionCompletes(s) ==
  /\ servers[s].st = "stopping"
  /\ servers' = [servers EXCEPT ![s] = Gone(s)]
  /\ UNCHANGED <<groups, obj, cache, w, faults>>

\* Somebody deletes a server behind the controller's back.
ServerVanishes(s) ==
  /\ servers[s].st = "up" /\ Fault("vanish")
  /\ servers' = [servers EXCEPT ![s] = Gone(s)]
  /\ UNCHANGED <<groups, obj, cache, w>>

\* Somebody edits the tags of a server or of its root volume; the two tags
\* that identify the machine are left alone.
TagsDrift(s) ==
  /\ Listed(s) /\ Fault("drift")
  /\ \/ \E tags \in TagMap \ {servers[s].tags} :
          /\ \A k \in {NameTag, ClusterTag} : tags[k] = servers[s].tags[k]
          /\ servers' = [servers EXCEPT ![s].tags = tags]
     \/ /\ HasVolume(s)
        /\ \E tags \in VolTags \ {servers[s].volTags} :
             servers' = [servers EXCEPT ![s].volTags = tags]
  /\ UNCHANGED <<groups, obj, cache, w>>

UserCreates(m) ==
  /\ obj[m] = NoObj
  /\ \E tags \in UserTags, volTags \in VolTags :
       obj' = [obj EXCEPT ![m] = [NoObj EXCEPT
                 !.st = "new", !.tags = tags, !.volTags = volTags]]
  /\ UNCHANGED <<servers, groups, cache, w, faults>>

UserEdits(m) ==
  /\ obj[m].st \in {"new", "live", "deleting"} /\ Fault("edit")
  /\ \/ \E tags \in UserTags \ {obj[m].tags} :
          obj' = [obj EXCEPT ![m].tags = tags]
     \/ \E volTags \in VolTags \ {obj[m].volTags} :
          obj' = [obj EXCEPT ![m].volTags = volTags]
  /\ UNCHANGED <<servers, groups, cache, w>>

\* With the finalizer an object only gets a deletion timestamp; without it the
\* object is removed at once.
UserDeletes(m) ==
  /\ \/ /\ obj[m].st = "new"
        /\ obj' = [obj EXCEPT ![m] = [NoObj EXCEPT !.st = "gone"]]
     \/ /\ obj[m].st = "live"
        /\ obj' = [obj EXCEPT ![m].st = "deleting"]
  /\ UNCHANGED <<servers, groups, cache, w, faults>>

\* Every machine was released and forgotten: nothing is left to do.
AllReleased ==
  /\ \A m \in Machine : cache[m].st = "gone"
  /\ UNCHANGED vars

-----------------------------------------------------------------------------

Init ==
  /\ servers = [s \in ServerId |-> NoServer]
  /\ groups = GroupsBefore
  /\ obj = [m \in Machine |-> NoObj]
  /\ cache = [m \in Machine |-> NoObj]
  /\ w = [c \in Cluster |-> Idle]
  /\ faults = 0

CreatePath(c) == ListGroups(c) \/ NewGroup(c) \/ CreateServer(c) \/ WaitVolume(c)

UpdatePath(c) == Update(c) \/ UpdateTags(c) \/ GetVolume(c) \/ TagVolume(c)
                 \/ TargetGone(c) \/ Patch(c) \/ PatchStatus(c)

DeletePath(c) == Delete(c) \/ DeleteServer(c) \/ ExistsAfterDelete(c)
                 \/ Finalize(c)

\* The worker goes on with the reconcile it is in.
WorkerStep(c) == AddFinalizer(c) \/ Exists(c) \/ MarkFailed(c)
                 \/ CreatePath(c) \/ UpdatePath(c) \/ DeletePath(c)

CloudStep(s) == VolumeAppears(s) \/ DeletionCompletes(s)
                \/ ServerVanishes(s) \/ TagsDrift(s)

UserStep(m) == UserCreates(m) \/ UserEdits(m) \/ UserDeletes(m)

Next ==
  \/ \E c \in Cluster : WorkerStep(c) \/ Aborts(c)
  \/ \E c \in Cluster, m \in Machine : Begin(c, m)
  \/ \E m \in Machine : Deliver(m) \/ UserStep(m)
  \/ \E s \in ServerId : CloudStep(s)
  \/ AllReleased

Spec == Init /\ [][Next]_vars

\* Workers go on and all come round again, by the rate limited queue and the
\* ten minute resync, to every machine there is something to do for; the cache
\* catches up; the cloud finishes what it has begun.  Users and faults are
\* under no obligation.
Fairness ==
  /\ \A c \in Cluster : WF_vars(WorkerStep(c))
  /\ \A m \in Machine : SF_vars(Begin(ClusterOf[m], m)) /\ WF_vars(Deliver(m))
  /\ \A s \in ServerId : /\ WF_vars(VolumeAppears(s))
                         /\ WF_vars(DeletionCompletes(s))

FairSpec == Spec /\ Fairness

-----------------------------------------------------------------------------
(* Properties *)

\* Every variable has its type, and a worker that is past the lookup or the
\* creation of a server knows which server it works on.
TypeOK ==
  /\ servers \in [ServerId -> Server]
  /\ groups \in [GroupId -> {Placement[m] : m \in Machine} \cup {Nil}
                             \cup {GroupsBefore[g] : g \in GroupId}]
  /\ obj \in [Machine -> MachineObj]
  /\ cache \in [Machine -> MachineObj]
  /\ w \in [Cluster -> Worker]
  /\ faults \in 0..MaxFaults
  /\ \A c \in Cluster :
       /\ w[c].pc # "idle" => w[c].m \in Machine
       /\ w[c].pc \in {"waitVolume", "updateTags", "getVolume", "tagVolume",
                       "patch", "patchStatus", "deleteServer"} =>
            w[c].srv \in ServerId

\* However replies are lost, calls fail and caches lag, no machine ever has two
\* servers: whatever a failed Create left behind is found by its tags before
\* Create is called again.  (With two, getServer fails for good.)
OneServerPerMachine ==
  \A m \in Machine : \A s, t \in Instances(m) : s = t

\* A machine object that does not exist has no server that costs money: before
\* the finalizer is set none is created, and the finalizer is not removed as
\* long as one is listed, even one no status ever mentioned.
NoOrphan ==
  \A m \in Machine :
    obj[m].st \in {"none", "new", "gone"} => Instances(m) = {}

\* The provider id and the status of a machine only ever name servers that were
\* created for this very machine, never one of a machine with the same name in
\* another cluster of the project.
LinkIsOwn ==
  \A m \in Machine : \A s \in {obj[m].pid, obj[m].status} \ {Nil} :
    servers[s].st # "free" /\ Belongs(s, m)

\* A machine in phase Failed, which no reconcile repairs, has no server running
\* unseen: neither a stale cache nor a server that Exists overlooks fails a
\* machine whose server is there, and a failed machine never gets another one.
FailedMeansGone ==
  \A m \in Machine : obj[m].phase = "Failed" => Instances(m) = {}

\* The groups that no machine names itself: only the actuator puts servers in
\* them.
Unnamed == {g \in GroupId : \A m \in Machine : g \notin Given[m]}

\* An anti-affinity group has fewer servers too many than the project has
\* clusters, although it is chosen from a list and joined by a later call, with
\* the workers of other clusters and lost replies in between.  A project with
\* one cluster never has more members in a group than there is room for.
GroupOverrun ==
  \A g \in Unnamed :
    Cardinality(Members(g)) < GroupLimit + Cardinality(Cluster)

\* A worker changes no server that belongs to another machine than the one it
\* reconciles: not through a list filtered by name only, nor after the server
\* it looked up was replaced.
OnlyOwnServers ==
  [][\A c \in Cluster : w'[c] # w[c] =>
       \A s \in ServerId : servers'[s] # servers[s] =>
         servers[s].st = "free" \/ Belongs(s, w[c].m)]_vars

\* A machine that is linked to a server is only linked to another one after the
\* first is gone, also when the link was not yet visible in the cache.
LinkNeverStolen ==
  [][\A m \in Machine :
       obj[m].pid # Nil /\ obj'[m].pid \notin {obj[m].pid, Nil} =>
         ~Listed(obj[m].pid)]_vars

\* A create or an update that returns without an error has linked the machine,
\* in spec and in status, to the server it worked on.  What it sends is the
\* difference to a copy that may be stale, in two requests, after others that
\* failed halfway: nothing that was sent, or left out, is missing then.
DoneMeansLinked ==
  [][\A c \in Cluster :
       /\ \/ w[c].pc = "patch"
          \/ w[c].pc = "patchStatus" /\ ~Conflict(c)
       /\ w'[c].pc = "idle" /\ faults' = faults
       => obj'[w[c].m].pid = w[c].srv /\ obj'[w[c].m].status = w[c].srv]_vars

\* A deletion completes, and with NoOrphan no server is left, whatever state
\* the create or the update was in that it overtook.
DeletionIsCompleted ==
  \A m \in Machine : obj[m].st = "deleting" ~> obj[m].st = "gone"

\* The server of the machine, its link, and the tags the spec asks for.
Converged(m) ==
  \E s \in ServerId :
    /\ Instances(m) = {s}
    /\ obj[m].pid = s /\ obj[m].status = s
    /\ servers[s].tags = buildServerTags(m, obj[m].tags)
    /\ servers[s].volTags = obj[m].volTags

\* Once users and faults leave the system alone, every machine that is live and
\* not failed has one server, is linked to it in spec and status, and server
\* and root volume carry the tags of the spec: partly applied creates, updates
\* and patches are all completed.
Converges ==
  <>[](\A m \in Machine :
         obj[m].st = "new" \/ obj[m].st = "live" =>
           obj[m].phase = "Failed" \/ Converged(m))
=============================================================================
