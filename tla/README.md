# A verification model of machine-api-provider-cloudscale

The provider makes OpenShift `Machine` objects real as servers at cloudscale.ch.
This directory holds TLA+ modules that model its controllers, TLC runs that
check them on small instances, and proofs checked by TLAPS that the most
important properties hold for every instance.

Paths without a directory are relative to `src/`.

## Inventory

| Component | State it keeps | Operations | Interacts with |
|---|---|---|---|
| Actuator (`pkg/machine/actuator.go`) | none of its own; the locals of the running call. Its memory is the cloud (server tags, groups) and the `Machine` object | `Create`, `Exists`, `Update`, `Delete` | called by the machine controller; calls the cloudscale API (servers, groups, volumes) and the Kubernetes API (patch, patch status, secrets) |
| Machine controller (external, openshift/machine-api-operator, started at `main.go:188`) | work queue, one worker | finalizer, phase, order of the actuator's calls | informer cache, actuator |
| Requests and addresses (`actuator.go:108-139`, `311-361`, `445-654`) | the locals of the running call: token, user data, listed secrets | `getMachineContext`, `loadAndRenderUserDataSecret`, the request, the addresses reported | token secret, user data secret, secrets of MachineSets, all written by others |
| MachineSet controller (`controllers/machineset_controller.go`) | none; the annotations of the MachineSet | `Reconcile` | informer cache, merge patch; the labels annotation is shared with other writers |
| Machine API controllers (`controllers/machine_api_controllers_controller.go`) | none; a Deployment | `Reconcile` | ConfigMap `machine-api-operator-images`, the upstream Deployment, server-side apply, garbage collection |
| User data (`actuator.go:580-654`, `pkg/machine/userdata`) | secrets | rendering by Jsonnet | Kubernetes API |
| Provider spec and status (`api/cloudscale/provider/v1beta1`) | - | JSON conversion | all of the above |
| Manager (`main.go`) | flags, client factories | wiring, ten minute resync, leader election (off by default) | - |

### What makes each of them correct, and what is hard about it

**Actuator.** Nothing records that a server was created before the API says so.
A lost reply, a crash, or a failed wait for the root volume leaves a server no
`Machine` is linked to. The actuator relies on finding it again by two tags:
the name of the machine and the id of the cluster (`getServer`). Correct means:

- never two servers for one machine (with two, `getServer` fails for ever);
- no server left behind when the `Machine` is released;
- provider id, addresses and status are those of the machine's own server;
- a machine is not declared failed while its server runs;
- workers of clusters that share a project leave each other's servers alone;
- an anti-affinity group the actuator fills is not overfilled, except by one
  server for each other cluster that shares the project;
- deletions complete, and a machine that is left alone converges to its spec.

It is hard because every call may fail with or without effect, the object is
read from a cache that lags, deletion is asynchronous, an update consists of
up to four calls of which any may be the last one, and other clusters, users
and administrators act in between.

**MachineSet controller.** The annotations must follow the template, foreign
labels must survive, and the controller must not trigger itself for ever. It is
hard because the labels are one text, merged into a stale copy, and because the
result of the merge comes out of a Go map.

**Machine API controllers.** The Deployment must follow the images of the
ConfigMap and disappear with it, once others have released the fields they took
over, and nothing may be deployed beside the upstream Deployment. It is hard
because both reads are cached, because a replica may apply what another one has
already replaced, and because nothing but events and errors makes the
controller look again.

**Requests and addresses.** A machine must be created, found and deleted in the
project of its own token; it must boot with the user data of its MachineSet, or
the default one, and nobody else's; what is reported of it must be what the
approval of the node's certificate needs. It is hard because each call reads
several secrets one after the other, any of which may be missing, broken,
replaced or deleted by then.

**The wait for the root volume.** Holds the only worker of the manager, for all
machines; it must end, not be repeated, and not give up too soon.

**Manager.** Wiring; what matters of it (one worker, the resync, no leader
election) is in the models of the controllers.

`PROJECT.json` lists every component, and every hazard with the properties that
cover it or the reason why none does.

## Modules

| Module | What it is |
|---|---|
| `Actuator` | the actuator, the part of the machine controller around it, cloud, cache, users; properties |
| `MachineLifecycle` | abstract specification: what a provider promises for each machine |
| `ActuatorRefinement` | the mapping from `Actuator` to `MachineLifecycle` |
| `ActuatorInvariant` | the inductive invariants: of servers and machines, and of links |
| `ActuatorProofs` | proof of type correctness |
| `ActuatorSafetyProofs` | proof of the inductive invariants and of the safety properties |
| `ActuatorGroupProofs` | proof of how far anti-affinity groups can be overfilled, by one cluster and by several |
| `ActuatorRefinementProofs` | proof that the actuator implements `MachineLifecycle` |
| `MCActuator` | instances of `Actuator` for TLC |
| `ServerRequest`, `MCServerRequest` | what a server is requested with, from which secrets, when it is found again, and which addresses are reported; and an instance |
| `ServerRequestProofs` | proofs of types, of the right project, of the user data and the addresses, and that nothing is left behind |
| `RootVolumeWait`, `MCRootVolumeWait` | the clock of the wait for the root volume, and an instance |
| `RootVolumeWaitProofs` | proofs of how long the wait holds the worker and of when it succeeds |
| `MachineSet`, `MCMachineSet` | the MachineSet controller, and an instance |
| `MachineSetProofs` | proofs of what the merge of labels returns, of types, that labels are kept and that patches settle |
| `MachineAPIControllers`, `MCMachineAPIControllers` | the controller that deploys the machine API controllers, and an instance |
| `MachineAPIControllersProofs` | proofs of types and that no wake-up is lost |

Definitions marked "Mutant" are plausible bugs, each put before the definition
it would replace. No specification uses them; each shows that a property can
tell the code from a broken variant of it.

### Actuator: state and actions

| Variable | In the code |
|---|---|
| `servers` | the servers of the project: state, tags, root volume and its tags, groups. `free` stands for a UUID that was not given out yet, `gone` for one that never will be again |
| `groups` | the server groups of the project: key and zone. `GroupsBefore` are those there are before the first machine; `Given` are the ones a machine names in `spec.serverGroups`, in addition to the one chosen for its key |
| `obj` | the `Machine` objects. `st` combines existence, finalizer and deletion timestamp; `pid` is `spec.providerID`; `status` stands for addresses and provider status. Both are represented by the server they were computed from |
| `cache` | the informer cache the manager's client reads from |
| `w` | per cluster the worker: the program counter, and the locals `machine` (`snap`, the copy from the cache), `s` (`srv`), `aasg` (`grp`), `s.Volumes` (`vol`), and what the first patch put into `updated` (`resp`) |
| `faults` | disturbances so far |

A step of a worker is one call to the cloudscale or Kubernetes API with the code
up to the next one, so that anything may happen between two calls:

    Begin -> addFinalizer                                     (no finalizer yet)
    Begin -> exists -> [listGroups -> [newGroup]] -> create   (Actuator.Create)
                         -> [waitVolume -> tagVolume] -> patch -> patchStatus
                    -> update -> [updateTags] -> getVolume    (Actuator.Update)
                         -> [tagVolume] -> patch -> patchStatus
                    -> markFailed            (was provisioned, has no server)
    Begin -> delete -> [deleteServer] -> existsAfterDelete -> finalize

A call that changes something takes effect, and then either the reply arrives or
it is lost and the reconcile ends (`Replied`). A call that fails without effect,
a secret that cannot be read, and a crash of the process all end the reconcile
without more ado (`Aborts`): the actuator has no memory but its locals, so they
are the same thing. Reconciles are repeated by `Begin`.

External parts are modelled as the code uses them: `List` returns running
servers and those that are being deleted; `Delete` is accepted before the server
is gone; a new server's root volume shows up later; a server is refused if it
asks for a group that does not exist; the first of the two merge patches has no
resource version, while the controller's finalizer updates have one; a machine
is taken for provisioned when it has a provider id or addresses, and a
provisioned machine without a server gets phase `Failed`, after which it is only
reconciled for deletion.

The second merge patch, of the status, may have a resource version without being
meant to: the response of the first one overwrites `updated`
(`actuator.go:371`), and where the version in it is not that of the copy
`orig`, the difference is sent (`Conflict`). The API server then refuses
the patch if the object has changed since, and a later reconcile completes the
link. Versions are compared by the value of the objects: one that was changed
and changed back counts as unchanged, which allows some patches that
the code would see refused, and none the other way round.

Abstractions: an API call is atomic (it does not take effect after its client
gave up); the cache may skip versions of an object; a merge patch of the status
writes all that was computed, not only what differs from the copy; tags are a
function on a few keys. Properties of groups and servers that are only passed
through (image, zone, SSH keys) are left out, those with decisions about them
(token, user data, interfaces, addresses) are in `ServerRequest`. Drain and
hooks of the machine controller, which delay a deletion only, are left out.
Tags are edited by hand (`TagsDrift`), but not the two that identify the
machine; name, cluster id and project of a machine do not change.

### MachineLifecycle: the promise

Without tags, lookups, caches or workers: a machine is wanted, unwanted or
released; its one instance is absent, running or stopping. An instance appears
only between request and release, stops only when it is unwanted, may disappear
by itself, and a request is released only when no instance is there.
`ActuatorRefinement` reads `wanted` as live with the finalizer, and the state of
the instance from the set of listed servers with the machine's tags; two such
servers have no abstract counterpart.

### MachineSet: state and actions

`obj` and `cache` hold template and annotations, `w` the copy that was read
(`origSet`) and the annotations computed from it. `Reconcile` is everything up
to the patch, `Patch` the merge patch, annotation by annotation, applied to
whatever is there by then. Users edit template, labels and annotations in
between. A labels annotation is a sequence of labels and of items that are not
labels; keys are ordered by `KeyOrder`. `mergeCommaSeparatedKeyValuePairs` is
defined by what it returns: the keys that occur (the keys of the map), sorted,
each with the value of its last place (the last write to the map). `Valid` is
what the code requires of a template and no more: a flavor of three parts with
numbers, which may be 0 (`flex-0-0` is announced as it is), and a size that is
not 0 (a negative one is announced, too).

### ServerRequest: state and actions

`machine` is the Machine that is given, `secrets` the informer cache of secrets
(nil for one that does not exist), `server` the server it has, with the token
that created it, `deletion` whether the Machine is to be deleted or is gone. `w`
holds the operation and its locals, and for `BootsAsSpecified` the secrets as
they were when the reconcile began:

    create:  getMachineContext -> LoadUserData -> [ListSecrets] -> Send
    delete:  getMachineContext -> Delete
    exists:  getMachineContext -> ExistsAfterDelete     (removes the finalizer)

Each of the steps reads other secrets, and `SecretChanges` may create, change or
delete one in between. A provider spec that is absent reads as an empty one,
`null` and malformed JSON end the reconcile. `Project` maps a token to what it
gives access to: a lookup finds the server if its project is that of the token.
Names are sequences of the parts between dots. User data is represented by the
source it was taken from and the role that was asked for; `Render` is the choice
the shipped template makes. Its default sources need `ignitionHost` and
`ignitionCA` of the user data secret (`FallbackFields`); a selected secret of the
MachineSet that has no data at all is an error, one that has other data is
passed over. That cloudscale rejects a request without a flavor
and assigns addresses where none are asked for is external. The addresses
reported are a set, as nothing depends on their order. `InputAssumption` is what
is taken for granted of a Machine: its name has a part before the first dot, a
private network goes by its UUID, and no pinned address is the one assigned.

`Actuator` has everything else about these operations, with a project and a
token that are given; `ServerRequest` in turn has no lost replies.

### RootVolumeWait: state and actions

`now` counts tenths of a second of `time.Sleep`; other calls take no time.
`delay` is how long the volume of each machine's server takes to be there,
`created` counts the servers, `linked` are the machines that were patched. `w`
is the backoff of the reconcile that waits, nil if the worker is free. `Create`
creates a server and waits, or loses the reply and does not; it is called
whenever the machine has no server and is not linked, so also after the server
it had has vanished (`Vanishes`), perhaps during the wait. `Sleep` is a poll in
vain and the sleep after it (with any of the jitters), `Tag` a poll that
succeeds, with the patch that links the machine, `GiveUp` the error when no
steps are left, `TagFails` an error after the wait, `Update` what a later
reconcile does instead of `Create`. `Step` is that of
`k8s.io/apimachinery/pkg/util/wait`: a duration that would exceed the cap uses
up all steps that are left. This happens after the ninth poll, at 255 seconds:
the last sleep, of 256 seconds, is followed by no poll.

### MachineAPIControllers: state and actions

| Variable | In the code |
|---|---|
| `cm`, `upstream`, `ours` | the ConfigMap with its UID and images.json, the upstream Deployment's existence, our Deployment with its owner and the other field manager it may have |
| `seen` | per replica the informer caches of the first two |
| `events` | per replica the kinds of objects of which a watch event is on its way |
| `queued`, `w` | per replica the work queue, which has one key at most, and the reconcile with the ConfigMap it read |

`Begin` reads the ConfigMap and parses images.json, `CheckUpstream` reads the
upstream Deployment and renders ours, `Apply` is the server-side apply, which
others may make fail with a conflict. `OursTouched` is others taking over a
field of the Deployment, releasing it and leaving its value, or deleting the
Deployment. `DeliverConfigMap` and `DeliverOurs` are `For` and `Owns` of
`SetupWithManager`; `DeliverUpstream` updates the cache only. All images are one
value. The Deployment's other fields come from a constant template.

## Runs

| Run | Instance | What it asks | Distinct states |
|---|---|---|---|
| `faults` | 1 machine, 3 servers, 2 sets of tags, one of which claims another machine's name, root volume tags or none, 2 disturbances of any kind | duplicates, leaks, wrong links, links that were reported done, machines given up; is `MachineLifecycle` implemented | 97k |
| `shared` | 2 clusters in a project, a machine of the same name each, 1 lost reply or vanished server | do workers leave foreign servers alone; `MachineLifecycle` for both machines | 435k |
| `groups` | 2 clusters, 2 machines and 1, groups with room for 1, 2 groups to be made and one that is named in a spec, 3 servers | how far are groups overfilled | 1.3M |
| `liveness` | 1 machine, 3 servers, 2 disturbances of any kind | deletions complete; half done updates, lost links and drift are repaired | 393k |
| `liveness_queue` | 2 machines, 1 worker, quota of 1 server | does a create that cannot succeed block deletions | 9k |
| `request` | 10 machines, 4 secrets in 2 namespaces, each in 3 to 5 states or missing, 1 change of a secret, deletion at any time | right project, right user data for the role, nothing left behind, created and deleted as soon as possible, node approved | 368k |
| `volumewait` | 1 machine, delays that decide the last poll, or for ever, jitter, 1 failing call or vanishing server | how long each server holds the worker, when the volume is tagged | 1.6M |
| `machineset` | 1 MachineSet, a flavor, one of nothing and one that does not parse, sizes negative and missing, 2 texts, 2 edits or failures | right annotations, one patch enough, no endless patching, labels kept | 18k |
| `deployment` | 2 replicas, 2 images, 3 changes, failures or restarts | no change is forgotten, the Deployment follows the ConfigMap and goes with it | 127k |
| `machineset_labels` | as `machineset` | finding 1 | violation |
| `machineset_arch` | as `machineset` | finding 2 | violation |
| `deployment_upstream` | 1 replica | finding 3 | violation |

All passing runs explore their whole state space, `groups` that within its
constraint, and deadlock is checked.

**Bounds.** Two disturbances are what the known dangers take: a lost reply and a
second event that meets the server it left behind. Three servers allow one to be
lost, one to vanish, and one more to be created; where they run out, the quota
of the project is exceeded, which the code meets as an error. `GroupLimit` is 4
in the code; with 1, the next machine meets the limit already, and nothing
depends on the number. In `groups`, two machines of one cluster show that a
worker does not take a place it gave away before, the machine of the other
cluster takes one between list and create; only machine `a` is deleted
(`OneDeletion`, a constraint), which frees a place while others are about to
join. In `request`, every combination of secrets is an initial state, so that
one change leads from each to each neighbour; what goes wrong between two reads
takes one change. In `deployment`, three changes are what the longest story
takes: the ConfigMap appears, is replaced or deleted, and something else happens
while a replica still holds the old one. One machine suffices in `volumewait`:
machines share the worker only, so that times add up, and with a server that
vanishes it waits twice. `MaxFaults`, `MaxChanges` and `OneDeletion` are the
only bounds on behaviours. Server ids are symmetric; symmetry is not used for
liveness.

**Fairness.** `FairSpec` assumes that a worker goes on with its reconcile (each
call returns or times out); that it comes round again to every machine it can
do something for (`SF` on `Begin`: errors are requeued with a rate limit and
`main.go:130-134` resyncs all machines every ten minutes, while one worker takes
them in turn); that the cache catches up; and that cloudscale completes a
deletion and shows the volume of a new server. Users and disturbances are under
no obligation, and there are finitely many disturbances. "The machine is left
alone" therefore means that eventually nobody interferes.

In `ServerRequest`, some step of a worker that can go on is taken: a reconcile
that failed is repeated. In `MachineAPIControllers`, a replica works off its
queue, in which an error puts the key again, each kind of event arrives, and the
garbage collector does its work; no resync is assumed, and the manager's default
of ten hours would be of little use.

That calls end is an assumption on the network: `http.DefaultClient`
(`main.go:166`) has no timeout, and a reconcile's context no deadline.

## Findings

1. `controllers/machineset_controller.go:81` guarantees that existing labels of
   the capacity annotation are preserved. They are merged into the cached copy
   and patched without a resource version, so that a label somebody adds
   between the read and the patch is lost for good (`machineset_labels`). What
   does hold, and is checked by `machineset`, is that labels the reconcile has
   seen and that are still there survive.
2. `controllers/machineset_controller.go:42` says that the architecture label is
   always set to amd64. The existing label wins (`machineset_arch`).
3. `controllers/machine_api_controllers_controller.go:62` says that our
   Deployment is not created if the upstream one exists. The check reads a cache
   and the patch comes later, so that it may be created beside one that has just
   appeared (`deployment_upstream`). No later reconcile removes it, as each ends
   with an error at the check.

Two more differences between comments and code were noticed on the way. They
are small, and no run is about them:

- `actuator.go:458` asks for a NodeInternalDNS that matches the name of the
  node. For a machine whose own name has a dot, `w.x` in domain `example`, the
  addresses have `w.x.example` and `w` (`actuator.go:463`), while the template
  names the node `w.x`. `NodeIsApproved` excepts such names.
- `api/cloudscale/provider/v1beta1/cloudscaleprovider_types.go:37` says that
  only secrets in the namespace of the controller are considered; it is the
  namespace of the Machine (`actuator.go:616`). `BootsAsSpecified` states that.

## Proofs

All of `Actuator`'s safety properties are proved for any number of clusters,
machines, servers, groups, tags and disturbances. Groups that machines name in
their specs are filled by whoever names them, so that the capacity is a matter of
the others (`Unnamed`): it is kept if one cluster uses the project, and for
several there is a bound on how far it is exceeded:

| Theorem | Property |
|---|---|
| `TypeCorrect` | `TypeOK` |
| `OneServer` | `OneServerPerMachine` |
| `Orphans` | `NoOrphan` |
| `OwnLinks` | `LinkIsOwn` |
| `FailedForGood` | `FailedMeansGone` |
| `Isolation` | `OnlyOwnServers` |
| `StableLinks` | `LinkNeverStolen` |
| `DoneIsLinked` | `DoneMeansLinked` |
| `Overrun` | `GroupOverrun`: a group has fewer servers too many than there are clusters (any finite number) |
| `Capacity` | `GroupCapacity`, a corollary, if one cluster uses the project (`OneCluster`) |
| `Refinement` | `ImplementsLifecycle` |

They rest on the assumptions in `Actuator`: cluster ids are tag values (so not
empty), and no two machines agree on both cluster and name. The latter is the
one that matters: Kubernetes guarantees unique names per namespace only.

None of the properties is inductive by itself: that `CreateServer` makes no
second server follows from what the worker learned calls ago. `IInv`
(`ActuatorInvariant`) says, for each point of a reconcile, what is still true of
what was learned before:

- `LookedUp`: a lookup that found nothing stays good until the worker itself
  creates a server, since nobody else creates servers with these tags;
- `OnPath` and `CacheLags`: while a machine is released no cache shows it live,
  so no later reconcile can start to create a server for it again;
- `SeenLinks` and `FailedWasLinked`: a machine that was failed had a link, and
  every cached copy that might be reconciled shows it; so Exists cannot mistake
  it for one that is still to be created;
- `Supersedes`: the server a worker is about to link replaces one that is gone.

`DoneIsLinked` is about the two merge patches. They carry the difference to the
copy that was read from the cache, so what that copy names already is not sent,
although the object may have moved on. A second invariant, `LinkInv`, says what
a stale copy is still good for: it differs from the object only in links whose
server is gone (`Lags`). The server a worker looked up is listed, so a copy that
names it is right about it, and leaving it out of the patch is safe; what the
first patch wrote is still there when the second one ends (`Linking`). A link is
only ever replaced because its server is gone, and replacing it twice is
replacing it (`ReplacedTwice`).

The proof is by worker and by machine. Frame lemmas say that a step of one
worker, of the cloud or of a user on one machine keeps the invariants of the
others (they handle other machines, because a machine belongs to one cluster);
then there is a lemma for each action.

The refinement is proved from the same invariant. A step writes one server or
one machine object; what it writes for a machine is an abstract step of that
machine, and the others do not move. `IInv` supplies what the abstract guards
ask for: a worker that creates a server still has the machine requested and
without an instance (`LookedUp`, `OnPath`), one that deletes a server has it
unwanted, and one that releases a machine has seen the last server go.

`Overrun` and `Capacity` have an invariant of their own (`GroupInv` in
`ActuatorGroupProofs`). It counts a worker that is about to join a group like a
member (`Joining`). A worker chooses a group that has room, so that members and
all workers about to join, one per cluster, stay below the limit plus the number
of clusters; creating the server turns one that joins into a member, everything
else makes either set smaller. A group that does not exist has no members
(`Fits`), so a new one starts empty. With one cluster this is `GroupCapacity`.
With two, both workers may take the last place, which happens in run `groups`:
the bound cannot be improved.

Of the other modules:

| Module | Theorem | Property |
|---|---|---|
| `ServerRequestProofs` | `TypeCorrect` | `TypeOK` |
| | `OwnProject` | `RightProject` |
| | `ServerGoesFirst` | `NothingLeftBehind` |
| | `Approved` | `NodeIsApproved` |
| | `Boots` | `BootsAsSpecified` |
| `MachineAPIControllersProofs` | `TypeCorrect` | `TypeOK` |
| | `WakesUp` | `NoneAsleep` |
| `MachineSetProofs` | `TypeCorrect` | `TypeOK` |
| | `LabelsPreserved` | `SeenLabelsPreserved` |
| | `Settles` | `PatchSettles` |
| `RootVolumeWaitProofs` | `HeldOnce` | `HoldsOncePerServer` |
| | `Timely` | `TimelyIsTagged` |
| | `Soon` | `NoticedSoon` |

`OwnProject` needs that a worker on its way to `Send` holds a token that its
machine may be created with, although the secret may have another one by then.
`ServerGoesFirst` adds what a lookup relies on: the server is in the project of
every token the machine's secret ever takes. This is `RotationAssumption`:
whoever replaces a token takes one of the same project. The code has no means
to notice that it is not so, and the server would be left behind. From there,
deletion does not get as far as releasing the machine without a lookup that had
access to its server.

`Approved` and `Boots` need what a worker knows at each point. A server is always
the answer to a request with the names and interfaces of the machine's spec
(`AsSpecified`), from which its addresses follow interface by interface. What
each read of the secrets returned is what it would have returned either when the
reconcile began or now, as long as one secret changes at most (`InTime`). Template
and managed user data are two secrets, of which one change leaves one as it is
(`Apart`), so that the two reads add up to one of all secrets in one of these two
states. That the template takes the right source is then a
matter of names: of the secrets listed, at most one is named after the
MachineSet (`OnlyManaged`). With two changes in between, a server may boot with a
combination that never was; the code has nothing against that.

The assumptions of `MachineAPIControllers` are that `Nil` is neither a Deployment
nor contents of a ConfigMap. `WakesUp` says that no change is forgotten; it needs that what a
replica has missed of the ConfigMap, in its cache or in the copy its worker holds,
is on its way to it (`Missed`). It is the safety half of `FollowsImages`: what
fairness adds is that a replica that is alert acts.

About `MachineSet`, the theorems are about labels annotations of any length, with
repeated keys and items that are no labels. The last place of a key exists by the
principle of the least number (`LeastNat`), which the library states for
well-founded relations without a predicate as parameter; that keys can be sorted
is shown by giving each the number of keys up to it as its place (`SortedExists`).
From there, the merge has the keys of both texts (`Merged`), the values of the
second where it has one, and merging the same labels once more changes nothing
(`MergedAgain`). The latter is why a patch made from what is there is the last
one (`Settles`): the safety half of `ComesToRest`.

The proofs about `RootVolumeWait` go along the schedule of sleeps. What is left
of a wait fits into the share of the server that is waited for (`Budget`), so
that `volumewait`'s single machine stands for any number of them. Each
poll in vain says that the volume takes longer than the time elapsed by then
(`Elapsed`), and the next poll is at most about twice as late as that; with no
steps left it has taken longer than 255 seconds. Delays are any natural numbers
here, while the run has some on both sides of the polls.

Every safety property of every passing run is stated by a theorem. Only
model-checked are the liveness properties (`DeletionIsCompleted`, `Converges`,
`ComesToRest`, `CreatedWhenComplete`, `DeletedWhenAccessible`, `FollowsImages`,
`RemovedWithConfigMap`): they need fairness, and so `ENABLED`, which this prover
does not handle.

## Not modelled, and why

- Two managers for one cluster (leader election is off by default,
  `main.go:72`): the code is not made for it; lookup and create would race.
- A call that takes effect after its client gave up: nothing in the code guards
  against it.
- A call that never ends, see above.
- The text of the Ignition configuration, and templates other than the shipped
  one: whatever Jsonnet computes is a value of the request.
- Requests with an empty, not missing, list of interfaces (`actuator.go:504`),
  which are sent as `null`: what cloudscale makes of it is not known here.
- Drain, hooks and the machine controller's metrics: code of the library that
  delays a deletion without changing what the actuator is asked to do.
- Flags, health checks, the lease of leader election, the termination handler (a
  panic), generated code (deepcopy, mocks), manifests: wiring without state.

## Plan

Done: `Actuator` with its runs, `MachineLifecycle` and the refinement, the
inductive invariant with its proofs, `MachineSet`, `MachineAPIControllers`,
`ServerRequest` and `RootVolumeWait` with proofs of all their safety properties,
the capacity of groups for any number of clusters.

Next, in this order:

1. The rest of the safety half of `Converges`: what a reconcile that succeeds
   leaves true of the tags of the server and of its root volume. For the links it
   is `DoneMeansLinked`.
2. The status of a server (`changing`, `running`, `stopped`) and its addresses:
   they change after `Create` and reach the machine by the resync only.
