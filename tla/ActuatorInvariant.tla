--------------------------- MODULE ActuatorInvariant ---------------------------
(***************************************************************************)
(* The inductive invariant behind the safety properties of Actuator.  It   *)
(* says what a worker knows at each point of a reconcile, although what it *)
(* knows it learned from earlier calls and from a cache that lags.         *)
(***************************************************************************)
EXTENDS Actuator

\* Where a reconcile is on its way to create a server, where it works on a
\* server, and which path it took after it read the object.
Creating == {"listGroups", "newGroup", "create"}
OnServer == {"waitVolume", "updateTags", "getVolume", "tagVolume", "patch",
             "patchStatus", "deleteServer"}
Releasing == {"delete", "deleteServer", "existsAfterDelete", "finalize"}
Providing == Step \ (Releasing \cup {"idle", "addFinalizer"})

\* s was created for m, whether it is still there or not.
MadeFor(s, m) == servers[s].st # "free" /\ Belongs(s, m)

Busy(c) == w[c].pc # "idle"

-----------------------------------------------------------------------------
(* What holds of a worker *)

\* It only handles machines of its own cluster, took the path that fits the
\* object it read, and works on a server of the machine it handles.
Handles(c) ==
  Busy(c) =>
    /\ w[c].m \in Machine /\ ClusterOf[w[c].m] = c
    /\ w[c].pc = "addFinalizer" => w[c].snap.st = "new"
    /\ w[c].pc \in Releasing => w[c].snap.st = "deleting"
    /\ w[c].pc \in OnServer =>
         w[c].srv \in ServerId /\ MadeFor(w[c].srv, w[c].m)

\* While a machine is provided for it is not released; while it is released no
\* cache shows it live, so that no later reconcile can create it again.
OnPath(c) ==
  /\ w[c].pc \in Providing => obj[w[c].m].st \in {"live", "deleting"}
  /\ w[c].pc \in Releasing => /\ obj[w[c].m].st \in {"deleting", "gone"}
                              /\ cache[w[c].m].st \in {"deleting", "gone"}

\* A lookup that found nothing stays good until the worker itself creates a
\* server.
LookedUp(c) ==
  w[c].pc \in Creating \cup {"markFailed", "finalize"} =>
    Instances(w[c].m) = {}

\* A link the worker saw is still there.  It does not see less than the cache
\* showed of a failed machine, and creates no server for a linked one.
SeenLinks(c) ==
  /\ w[c].pc \in Providing /\ Provisioned(w[c].snap) =>
       Provisioned(cache[w[c].m]) /\ Provisioned(obj[w[c].m])
  /\ w[c].pc \in Providing /\ obj[w[c].m].phase = "Failed" =>
       Provisioned(w[c].snap)
  /\ w[c].pc \in Creating => ~Provisioned(w[c].snap)
  /\ w[c].pc = "markFailed" => Provisioned(w[c].snap)

\* The server it works on supersedes the one the machine is linked to.
Supersedes(c) ==
  w[c].pc \in OnServer =>
    LET pid == obj[w[c].m].pid
    IN  pid \notin {Nil, w[c].srv} => ~Listed(pid)

WorkerInv(c) == /\ Handles(c)
                /\ OnPath(c)
                /\ LookedUp(c)
                /\ SeenLinks(c)
                /\ Supersedes(c)

-----------------------------------------------------------------------------
(* What holds of a machine *)

\* The cache never shows a machine live that was released, and never shows a
\* link the object does not have.
CacheLags(m) ==
  /\ cache[m].st = "live" => obj[m].st \in {"live", "deleting"}
  /\ cache[m].st = "deleting" => obj[m].st \in {"deleting", "gone"}
  /\ Provisioned(cache[m]) /\ obj[m].st # "gone" => Provisioned(obj[m])

\* A failed machine was linked and every cache that shows it live knows, so
\* that no reconcile takes it for one that is still to be created.
FailedWasLinked(m) ==
  obj[m].phase = "Failed" =>
    /\ Provisioned(obj[m])
    /\ cache[m].st = "live" => Provisioned(cache[m])

\* The properties of Actuator, for one machine.
SafeMachine(m) ==
  /\ \A s, t \in Instances(m) : s = t
  /\ obj[m].st \in {"none", "new", "gone"} => Instances(m) = {}
  /\ \A s \in {obj[m].pid, obj[m].status} \ {Nil} : MadeFor(s, m)
  /\ obj[m].phase = "Failed" => Instances(m) = {}

MachineInv(m) == CacheLags(m) /\ FailedWasLinked(m) /\ SafeMachine(m)

IInv == /\ TypeOK
        /\ \A c \in Cluster : WorkerInv(c)
        /\ \A m \in Machine : MachineInv(m)

-----------------------------------------------------------------------------
(* What a stale copy of a machine still tells *)

\* The server that was named before is the one that is named now, or it is
\* gone from the lists for good.
Replaced(m, old, new) ==
  old \notin {Nil, new} => MadeFor(old, m) /\ ~Listed(old)

\* A copy only differs from the object in links that were replaced since.
Lags(m, copy) == /\ Replaced(m, copy.pid, obj[m].pid)
                 /\ Replaced(m, copy.status, obj[m].status)

\* A worker that works on a server knows that of the copy it read, and the
\* status it replaces is that of a server that is gone; where the copy names
\* its server, so does the object; and after the first of the two patches the
\* provider id does in any case.
Linking(c) ==
  LET m == w[c].m
      o == obj[w[c].m]
  IN
  /\ w[c].pc \in Providing => Lags(m, w[c].snap)
  /\ w[c].pc \in OnServer \cap Providing =>
       /\ Replaced(m, o.status, w[c].srv)
       /\ w[c].snap.pid = w[c].srv => o.pid = w[c].srv
       /\ w[c].snap.status = w[c].srv => o.status = w[c].srv
  /\ w[c].pc = "patchStatus" => o.pid = w[c].srv

\* A machine without the finalizer was never linked.
Unlinked(m) == obj[m].st \in {"none", "new"} => ~Provisioned(obj[m])

LinkInv == /\ \A c \in Cluster : Linking(c)
           /\ \A m \in Machine : Lags(m, cache[m]) /\ Unlinked(m)
===============================================================================
