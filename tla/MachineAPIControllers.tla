------------------------ MODULE MachineAPIControllers ------------------------
(***************************************************************************)
(* The machine-api-controllers manager                                     *)
(* (controllers/machine_api_controllers_controller.go).  It deploys the    *)
(* controllers of the machine API with the images that the ConfigMap       *)
(* machine-api-operator-images names, unless OpenShift deploys them itself *)
(* (the "upstream" deployment machine-api-controllers).                    *)
(*                                                                         *)
(* Reads come from informer caches; events of the ConfigMap and of the     *)
(* Deployment it owns put its name in the work queue, and so do errors.    *)
(* Leader election is off by default, so several replicas may be at work,  *)
(* for example while the manager itself is rolled out.                     *)
(***************************************************************************)
EXTENDS Naturals

CONSTANTS
  Replica,      \* the running managers
  Image,        \* what a complete images.json asks for
  Data,         \* the contents the ConfigMap takes, out of Contents
  Nil,
  MaxChanges    \* changes by others, and faults, at most

\* images.json is missing, is not a JSON map of strings, or lacks an image that
\* the template of the deployment needs.
Malformed == {"noKey", "notJSON", "incomplete"}

Contents == Image \cup Malformed

ASSUME DataAssumption ==
  /\ Data \subseteq Contents
  /\ Image \cap Malformed = {} /\ Nil \notin Contents
  /\ MaxChanges \in Nat

ConfigMaps == [uid : Nat, data : Contents]

Deployments == [image : Image, owner : Nat, by : {"other", Nil}]

ASSUME NilAssumption == Nil \notin Deployments

VARIABLES
  cm,         \* the ConfigMap, or Nil
  upstream,   \* the upstream deployment exists
  ours,       \* our deployment, or Nil
  uids,       \* UIDs given to ConfigMaps so far
  seen,       \* each replica's informer caches of ConfigMap and upstream
  events,     \* the objects of which a replica has not seen the last change
  queued,     \* the ConfigMap is in the work queue of the replica
  w,          \* the worker of each replica
  changes     \* changes and faults so far

vars == <<cm, upstream, ours, uids, seen, events, queued, w, changes>>

ConfigMap(uid, data) == [uid |-> uid, data |-> data]

\* image stands for all fields the template sets, by for the other field
\* manager that owns some of them, if any.
Deployment(image, owner, by) == [image |-> image, owner |-> owner, by |-> by]

Idle == [pc |-> "idle", cm |-> Nil]

-----------------------------------------------------------------------------
(* Reconcile *)

Goto(r, wr) == w' = [w EXCEPT ![r] = wr]

\* The reconcile ends: done, or with an error that puts its key back into the
\* queue.
Done(r) == Goto(r, Idle) /\ UNCHANGED queued
Error(r) == Goto(r, Idle) /\ queued' = [queued EXCEPT ![r] = TRUE]

\* An object was written: each replica has an event coming.
Notify(kind) == events' = [r \in Replica |-> events[r] \cup {kind}]

\* A write that changes nothing makes no event.
NotifyOurs == IF ours' = ours THEN UNCHANGED events ELSE Notify("ours")

Change == changes < MaxChanges /\ changes' = changes + 1

\* A key is taken from the queue and the ConfigMap read from the cache.
Begin(r) ==
  LET read == seen[r].cm IN
  /\ w[r].pc = "idle" /\ queued[r]
  /\ \/ read = Nil
        /\ queued' = [queued EXCEPT ![r] = FALSE] /\ UNCHANGED w
     \/ /\ read # Nil /\ read.data \in {"noKey", "notJSON"}
        /\ Error(r)
     \/ /\ read # Nil /\ read.data \notin {"noKey", "notJSON"}
        /\ queued' = [queued EXCEPT ![r] = FALSE]
        /\ Goto(r, [pc |-> "check", cm |-> read])
  /\ UNCHANGED <<cm, upstream, ours, uids, seen, events, changes>>

\* Mutant: that the upstream deployment exists is not an error.
CheckUpstreamQuietly(r) ==
  /\ w[r].pc = "check"
  /\ \/ seen[r].upstream /\ Done(r)
     \/ /\ ~seen[r].upstream /\ w[r].cm.data = "incomplete"
        /\ Error(r)
     \/ /\ ~seen[r].upstream /\ w[r].cm.data # "incomplete"
        /\ Goto(r, [w[r] EXCEPT !.pc = "apply"]) /\ UNCHANGED queued
  /\ UNCHANGED <<cm, upstream, ours, uids, seen, events, changes>>

\* Mutant: an image that is missing is not an error.
CheckUpstreamOnly(r) ==
  /\ w[r].pc = "check"
  /\ \/ seen[r].upstream /\ Error(r)
     \/ /\ ~seen[r].upstream
        /\ Goto(r, [w[r] EXCEPT !.pc = "apply"]) /\ UNCHANGED queued
  /\ UNCHANGED <<cm, upstream, ours, uids, seen, events, changes>>

\* The upstream deployment, read from another cache, must not exist; then the
\* deployment is rendered.  That it does exist is an error, which makes the
\* replica look again later: no event would tell it.
CheckUpstream(r) ==
  /\ w[r].pc = "check"
  /\ \/ seen[r].upstream /\ Error(r)
     \/ /\ ~seen[r].upstream /\ w[r].cm.data = "incomplete"
        /\ Error(r)
     \/ /\ ~seen[r].upstream /\ w[r].cm.data # "incomplete"
        /\ Goto(r, [w[r] EXCEPT !.pc = "apply"]) /\ UNCHANGED queued
  /\ UNCHANGED <<cm, upstream, ours, uids, seen, events, changes>>

\* A field that another manager owns and that would change.
Conflict(image) == ours # Nil /\ ours.by # Nil /\ ours.image # image

\* Mutant: without the controller reference.
ApplyUnowned(r) ==
  LET image == w[r].cm.data
      by    == IF ours = Nil THEN Nil ELSE ours.by
  IN
  /\ w[r].pc = "apply"
  /\ \/ Conflict(image) /\ Error(r) /\ UNCHANGED <<ours, changes>>
     \/ /\ ~Conflict(image)
        /\ ours' = Deployment(image, Nil, by)
        /\ Done(r) /\ UNCHANGED changes
  /\ NotifyOurs
  /\ UNCHANGED <<cm, upstream, uids, seen>>

\* Server-side apply, not forced, of the deployment with the ConfigMap as its
\* controller.  All replicas apply as the same field manager.  The call may
\* fail, or its reply be lost.
Apply(r) ==
  LET image == w[r].cm.data
      by    == IF ours = Nil THEN Nil ELSE ours.by
  IN
  /\ w[r].pc = "apply"
  /\ \/ Conflict(image) /\ Error(r) /\ UNCHANGED <<ours, changes>>
     \/ /\ ~Conflict(image)
        /\ ours' = Deployment(image, w[r].cm.uid, by)
        /\ \/ Done(r) /\ UNCHANGED changes
           \/ Error(r) /\ Change
     \/ Error(r) /\ Change /\ UNCHANGED ours
  /\ NotifyOurs
  /\ UNCHANGED <<cm, upstream, uids, seen>>

\* A new process: its caches are listed afresh, which yields an event for each
\* object there is.
Restart(r) ==
  /\ Change
  /\ seen' = [seen EXCEPT ![r] = [cm |-> cm, upstream |-> upstream]]
  /\ events' = [events EXCEPT ![r] = {}]
  /\ queued' = [queued EXCEPT ![r] = cm # Nil \/ ours # Nil]
  /\ Goto(r, Idle)
  /\ UNCHANGED <<cm, upstream, ours, uids>>

-----------------------------------------------------------------------------
(* Events: what the controller watches *)

Received(r, kind) ==
  /\ kind \in events[r]
  /\ events' = [events EXCEPT ![r] = @ \ {kind}]

\* Any event of the ConfigMap puts it in the queue.
DeliverConfigMap(r) ==
  /\ Received(r, "cm")
  /\ seen' = [seen EXCEPT ![r].cm = cm]
  /\ queued' = [queued EXCEPT ![r] = TRUE]
  /\ UNCHANGED <<cm, upstream, ours, uids, w, changes>>

\* The upstream deployment is not owned by the ConfigMap: its events update the
\* cache and nothing else.
DeliverUpstream(r) ==
  /\ Received(r, "upstream")
  /\ seen' = [seen EXCEPT ![r].upstream = upstream]
  /\ UNCHANGED <<cm, upstream, ours, uids, queued, w, changes>>

\* Mutant: the controller does not watch what it owns.
DeliverUnwatched(r) ==
  /\ Received(r, "ours")
  /\ UNCHANGED <<cm, upstream, ours, uids, seen, queued, w, changes>>

\* An event of an owned deployment puts its owner in the queue.
DeliverOurs(r) ==
  /\ Received(r, "ours")
  /\ queued' = [queued EXCEPT ![r] = TRUE]
  /\ UNCHANGED <<cm, upstream, ours, uids, seen, w, changes>>

-----------------------------------------------------------------------------
(* Others: the cluster version operator, administrators, garbage collection *)

ConfigMapWritten ==
  /\ \E data \in Data :
       \/ /\ cm = Nil
          /\ uids' = uids + 1 /\ cm' = ConfigMap(uids + 1, data)
       \/ /\ cm # Nil /\ cm.data # data
          /\ cm' = [cm EXCEPT !.data = data] /\ UNCHANGED uids
  /\ Change /\ Notify("cm")
  /\ UNCHANGED <<upstream, ours, seen, queued, w>>

ConfigMapDeleted ==
  /\ cm # Nil /\ Change /\ Notify("cm")
  /\ cm' = Nil
  /\ UNCHANGED <<upstream, ours, uids, seen, queued, w>>

UpstreamComesOrGoes ==
  /\ Change /\ Notify("upstream")
  /\ upstream' = ~upstream
  /\ UNCHANGED <<cm, ours, uids, seen, queued, w>>

\* Somebody sets a field of our deployment, and owns it from then on, lets go of
\* the field and leaves its value, or deletes the deployment.
OursTouched ==
  /\ ours # Nil /\ Change /\ Notify("ours")
  /\ \/ \E image \in Image \ {ours.image} :
          ours' = [ours EXCEPT !.image = image, !.by = "other"]
     \/ ours.by # Nil /\ ours' = [ours EXCEPT !.by = Nil]
     \/ ours' = Nil
  /\ UNCHANGED <<cm, upstream, uids, seen, queued, w>>

CurrentUid == IF cm = Nil THEN Nil ELSE cm.uid

\* An object whose owner, identified by UID, does not exist is deleted.
GarbageCollected ==
  /\ ours # Nil /\ ours.owner \notin {Nil, CurrentUid}
  /\ ours' = Nil /\ Notify("ours")
  /\ UNCHANGED <<cm, upstream, uids, seen, queued, w, changes>>

-----------------------------------------------------------------------------

Init ==
  /\ cm = Nil /\ ours = Nil /\ upstream \in BOOLEAN
  /\ uids = 0 /\ changes = 0
  /\ seen = [r \in Replica |-> [cm |-> Nil, upstream |-> upstream]]
  /\ events = [r \in Replica |-> {}]
  /\ queued = [r \in Replica |-> FALSE]
  /\ w = [r \in Replica |-> Idle]

WorkerStep(r) == Begin(r) \/ CheckUpstream(r) \/ Apply(r)

Deliver(r) == DeliverConfigMap(r) \/ DeliverUpstream(r) \/ DeliverOurs(r)

\* Nothing is left to do once the others have stopped.
Rest ==
  /\ \A r \in Replica : w[r] = Idle /\ ~queued[r] /\ events[r] = {}
  /\ UNCHANGED vars

Next ==
  \/ \E r \in Replica : WorkerStep(r) \/ Restart(r) \/ Deliver(r)
  \/ ConfigMapWritten \/ ConfigMapDeleted \/ UpstreamComesOrGoes
  \/ OursTouched \/ GarbageCollected
  \/ Rest

Spec == Init /\ [][Next]_vars

\* Each replica works off its queue, each cache catches up, and the garbage
\* collector does its work.
Fairness ==
  /\ \A r \in Replica :
       /\ WF_vars(WorkerStep(r))
       /\ WF_vars(DeliverConfigMap(r)) /\ WF_vars(DeliverUpstream(r))
       /\ WF_vars(DeliverOurs(r))
  /\ WF_vars(GarbageCollected)

FairSpec == Spec /\ Fairness

-----------------------------------------------------------------------------
(* Properties *)

\* What a worker has read at each of its steps.
Workers ==
  [pc : {"idle"}, cm : {Nil}]
    \cup [pc : {"check"}, cm : [uid : Nat, data : Image \cup {"incomplete"}]]
    \cup [pc : {"apply"}, cm : [uid : Nat, data : Image]]

\* The values each variable may have.  A reconcile that is about to apply has
\* images to apply, whatever the ConfigMap became in the meantime.
TypeOK ==
  /\ cm \in ConfigMaps \cup {Nil}
  /\ upstream \in BOOLEAN
  /\ ours \in Deployments \cup {Nil}
  /\ uids \in Nat
  /\ seen \in [Replica -> [cm : ConfigMaps \cup {Nil}, upstream : BOOLEAN]]
  /\ events \in [Replica -> SUBSET {"cm", "upstream", "ours"}]
  /\ queued \in [Replica -> BOOLEAN]
  /\ w \in [Replica -> Workers]
  /\ changes \in Nat

\* The deployment that the ConfigMap asks for.
Deployed == /\ ours # Nil
            /\ ours.image = cm.data /\ ours.owner = cm.uid

\* Something makes this replica look at the ConfigMap as it is now.
Alert(r) == \/ queued[r] \/ events[r] \cap {"cm", "ours"} # {}
            \/ w[r].pc # "idle" /\ w[r].cm = cm

\* No wake-up is lost: unless our deployment is what the ConfigMap asks for, no
\* replica is at rest, or at work on something old with nothing to follow, also
\* while another field manager is in the way or the upstream deployment exists,
\* whose end comes without an event that would wake anybody.
NoneAsleep ==
  cm # Nil /\ cm.data \in Image => Deployed \/ \A r \in Replica : Alert(r)

\* Once the others stop, our deployment runs the images of the ConfigMap and is
\* owned by it, unless the upstream deployment exists or somebody else owns
\* what would have to change.  Nothing but events and errors makes a replica
\* look again: the upstream deployment's end, an old image applied late by
\* another replica and a deployment collected with an earlier ConfigMap must
\* each lead to one of them.
FollowsImages ==
  <>[](cm # Nil /\ cm.data \in Image /\ ~upstream =>
         Deployed \/ Conflict(cm.data))

\* Our deployment is gone for good after the ConfigMap was deleted, also when a
\* replica whose cache still has the ConfigMap applies it once more.
RemovedWithConfigMap == <>[](cm = Nil => ours = Nil)

\* What the comment in Reconcile asks for: while the upstream deployment exists,
\* ours is not created.  It fails because the check reads a cache, and because
\* the upstream deployment may appear between the check and the apply.
NotCreatedBesideUpstream ==
  [][upstream /\ ours = Nil => ours' = Nil]_vars
===============================================================================
