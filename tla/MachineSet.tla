------------------------------ MODULE MachineSet ------------------------------
(***************************************************************************)
(* The MachineSet controller (controllers/machineset_controller.go).  It   *)
(* derives the annotations with which the cluster autoscaler foresees the  *)
(* capacity of a new machine from the flavor and the root volume size in   *)
(* the machine template.                                                   *)
(*                                                                         *)
(* A reconcile reads the MachineSet from the informer cache, computes the  *)
(* annotations and sends a merge patch with the ones that differ from what *)
(* it read.  Users and other controllers write to the object meanwhile;    *)
(* the labels annotation is one text that they share with this controller. *)
(***************************************************************************)
EXTENDS Integers, SequencesExt

CONSTANTS
  MachineSet,     \* the MachineSet objects
  Flavor,         \* flavors, as the sequence of their parts between dashes
  Size,           \* root volume sizes; 0 when it is not set
  KeyOrder,       \* the label keys in the order in which their items sort
  LabelVal,
  ArchKey, Amd64, \* kubernetes.io/arch, amd64
  Junk,           \* an item that is not of the form key=value
  UserText,       \* what users write as labels: sequences of labels and Junk
  Unset,          \* an annotation that is not set
  MaxChanges      \* users' changes of a MachineSet, and faults, at most

Label == [key : ToSet(KeyOrder), val : LabelVal]

\* A labels annotation: its items between commas.
Text == Seq(Label \cup {Junk})

ASSUME LabelAssumption ==
  /\ KeyOrder \in Seq(ToSet(KeyOrder)) /\ IsInjective(KeyOrder)
  /\ [key |-> ArchKey, val |-> Amd64] \in Label /\ Junk \notin Label
  /\ Unset \notin Text
  /\ \A text \in UserText : text \in Text

\* Of three parts, memory and processors are digits, be they 0.
ASSUME FlavorAssumption ==
  /\ \A flavor \in Flavor : Len(flavor) = 3 => flavor[2] \in Nat /\ flavor[3] \in Nat
  /\ Unset \notin Int

ASSUME SizeAssumption == Size \subseteq Int /\ MaxChanges \in Nat

VARIABLES
  obj,       \* the MachineSets in the Kubernetes API server
  cache,     \* the informer cache of them
  w,         \* the controller's worker
  changes    \* changes and faults so far

vars == <<obj, cache, w, changes>>

-----------------------------------------------------------------------------
(* Helpers of the controller *)

\* type-memory-cpu; anything else does not parse.
ParseError == [cpu |-> Unset, memGB |-> Unset]

parseCloudscaleFlavor(flavor) ==
  IF Len(flavor) = 3 THEN [cpu |-> flavor[3], memGB |-> flavor[2]]
  ELSE ParseError

\* The value of the last label with this key, among those that have one.
Keys(text) == {text[i].key : i \in {j \in DOMAIN text : text[j] # Junk}}

Places(text, k) == {i \in DOMAIN text : text[i] # Junk /\ text[i].key = k}

LastVal(text, k) == text[Max(Places(text, k))].val

\* The items sort like their keys, whatever the values.
Position(k) == CHOOSE i \in DOMAIN KeyOrder : KeyOrder[i] = k

Sorted(keys) ==
  CHOOSE s \in [1..Cardinality(keys) -> keys] :
    \A i, j \in DOMAIN s : i < j => Position(s[i]) < Position(s[j])

Joined(all, keys) ==
  [i \in DOMAIN keys |-> [key |-> keys[i], val |-> LastVal(all, keys[i])]]

\* Mutant: without the sort, the keys come out of the map in another order than
\* the last time.
mergeUnsorted(first, second) ==
  LET all   == first \o second
      last  == IF second = <<>> THEN Junk ELSE Head(second)
      again == last # Junk /\ last.key = Head(KeyOrder)
      keys  == Sorted(Keys(all))
  IN  Joined(all, IF again THEN Reverse(keys) ELSE keys)

\* Mutant: the first list wins.
mergeFirstWins(first, second) ==
  Joined(second \o first, Sorted(Keys(first \o second)))

\* Later labels win, what is not a label is dropped, the result is sorted.
mergeCommaSeparatedKeyValuePairs(first, second) ==
  Joined(first \o second, Sorted(Keys(first \o second)))

arch == <<[key |-> ArchKey, val |-> Amd64]>>

\* A missing annotation reads as the empty text.
TextOf(labels) == IF labels = Unset THEN <<>> ELSE labels

Annotations(spec, ann) ==
  LET flavor == parseCloudscaleFlavor(spec.flavor)
  IN  [cpu    |-> flavor.cpu,
       memory |-> flavor.memGB * 1024,
       gpu    |-> 0,
       disk   |-> spec.size,
       labels |-> mergeCommaSeparatedKeyValuePairs(arch, TextOf(ann.labels))]

\* What the merge patch from orig to updated makes of current.
Patched(orig, updated, current) ==
  [k \in DOMAIN current |->
     IF updated[k] = orig[k] THEN current[k] ELSE updated[k]]

-----------------------------------------------------------------------------
(* Data *)

NoAnnotations == [cpu |-> Unset, memory |-> Unset, gpu |-> Unset,
                  disk |-> Unset, labels |-> Unset]

Template == [flavor : Flavor, size : Size]

NoSet == [st |-> "none", spec |-> Unset, ann |-> NoAnnotations]

Idle == [pc |-> "idle", ms |-> Unset, orig |-> NoAnnotations,
         updated |-> NoAnnotations]

-----------------------------------------------------------------------------
(* The worker *)

\* Mutant: a root volume size that is not set is not noticed.
ValidFlavor(spec) == parseCloudscaleFlavor(spec.flavor) # ParseError

Valid(spec) == /\ parseCloudscaleFlavor(spec.flavor) # ParseError
               /\ spec.size # 0

\* Mutant: a MachineSet that has the annotations is left alone.
ReconcileOnce(ms) ==
  LET read == cache[ms] IN
  /\ w.pc = "idle"
  /\ read.st = "live" /\ Valid(read.spec) /\ read.ann.cpu = Unset
  /\ w' = [pc |-> "patch", ms |-> ms, orig |-> read.ann,
           updated |-> Annotations(read.spec, read.ann)]
  /\ UNCHANGED <<obj, cache, changes>>

\* Up to the patch.  A MachineSet that is gone, is being deleted, has no valid
\* template or is up to date is left alone, which changes nothing.
Reconcile(ms) ==
  LET read    == cache[ms]
      updated == Annotations(read.spec, read.ann)
  IN
  /\ w.pc = "idle"
  /\ read.st = "live" /\ Valid(read.spec) /\ updated # read.ann
  /\ w' = [pc |-> "patch", ms |-> ms, orig |-> read.ann, updated |-> updated]
  /\ UNCHANGED <<obj, cache, changes>>

Change == changes < MaxChanges /\ changes' = changes + 1

\* Without a resource version the patch is applied to whatever is there.  It may
\* fail, as it does when the object is gone; then the queue tries again.
Patch ==
  /\ w.pc = "patch"
  /\ w' = Idle
  /\ \/ /\ obj[w.ms].st \in {"live", "deleting"}
        /\ obj' = [obj EXCEPT ![w.ms].ann = Patched(w.orig, w.updated, @)]
        /\ UNCHANGED changes
     \/ obj[w.ms].st = "gone" /\ UNCHANGED <<obj, changes>>
     \/ Change /\ UNCHANGED obj
  /\ UNCHANGED cache

-----------------------------------------------------------------------------
(* The surroundings *)

Deliver(ms) == /\ cache[ms] # obj[ms]
               /\ cache' = [cache EXCEPT ![ms] = obj[ms]]
               /\ UNCHANGED <<obj, w, changes>>

UserCreates(ms) ==
  /\ obj[ms].st = "none"
  /\ \E spec \in Template, text \in UserText \cup {Unset} :
       obj' = [obj EXCEPT ![ms] = [st |-> "live", spec |-> spec,
                                   ann |-> [NoAnnotations EXCEPT
                                              !.labels = text]]]
  /\ UNCHANGED <<cache, w, changes>>

\* The template or the labels change, or an annotation is removed.
UserEdits(ms) ==
  /\ obj[ms].st = "live" /\ Change
  /\ \/ \E spec \in Template \ {obj[ms].spec} :
          obj' = [obj EXCEPT ![ms].spec = spec]
     \/ \E text \in UserText \ {obj[ms].ann.labels} :
          obj' = [obj EXCEPT ![ms].ann.labels = text]
     \/ \E k \in {"cpu", "labels"} :
          /\ obj[ms].ann[k] # Unset
          /\ obj' = [obj EXCEPT ![ms].ann[k] = Unset]
  /\ UNCHANGED <<cache, w>>

UserDeletes(ms) ==
  /\ \/ obj[ms].st = "live" /\ obj' = [obj EXCEPT ![ms].st = "deleting"]
     \/ obj[ms].st = "deleting" /\ obj' = [obj EXCEPT ![ms] =
                                             [NoSet EXCEPT !.st = "gone"]]
  /\ UNCHANGED <<cache, w, changes>>

AllDeleted == /\ \A ms \in MachineSet : cache[ms].st = "gone"
              /\ UNCHANGED vars

Init == /\ obj = [ms \in MachineSet |-> NoSet]
        /\ cache = [ms \in MachineSet |-> NoSet]
        /\ w = Idle
        /\ changes = 0

Next == \/ Patch
        \/ \E ms \in MachineSet :
             \/ Reconcile(ms) \/ Deliver(ms)
             \/ UserCreates(ms) \/ UserEdits(ms) \/ UserDeletes(ms)
        \/ AllDeleted

Spec == Init /\ [][Next]_vars

\* Every event puts the MachineSet in the queue, and a failed reconcile is
\* repeated; the cache catches up.
Fairness == /\ WF_vars(Patch)
            /\ \A ms \in MachineSet : SF_vars(Reconcile(ms)) /\ WF_vars(Deliver(ms))

FairSpec == Spec /\ Fairness

-----------------------------------------------------------------------------
(* Properties *)

Amount == Nat \cup {Unset}

\* The values of annotations: no machine is announced without a disk, be its
\* size negative.
AnnotationsType == [cpu : Amount, memory : Amount, gpu : {0, Unset},
                    disk : (Int \ {0}) \cup {Unset}, labels : Text \cup {Unset}]

Objects == [st : {"live", "deleting"}, spec : Template, ann : AnnotationsType]
             \cup {NoSet, [NoSet EXCEPT !.st = "gone"]}

\* The values each variable may have.  A worker that is about to patch has
\* something to change, and has it from a valid template.
TypeOK ==
  /\ obj \in [MachineSet -> Objects] /\ cache \in [MachineSet -> Objects]
  /\ \/ w = Idle
     \/ /\ w \in [pc : {"patch"}, ms : MachineSet, orig : AnnotationsType,
                  updated : AnnotationsType]
        /\ \E spec \in Template :
             Valid(spec) /\ w.updated = Annotations(spec, w.orig)
        /\ w.updated # w.orig
  /\ changes \in 0..MaxChanges

\* The labels a labels annotation stands for.
Labels(labels) ==
  LET text == TextOf(labels)
  IN  {[key |-> k, val |-> LastVal(text, k)] : k \in Keys(text)}

\* No patch takes away a label that the reconcile saw and that is still there,
\* however it was written and whatever else changed in between.
SeenLabelsPreserved ==
  [][w.pc = "patch" /\ w' # w =>
       Labels(obj[w.ms].ann.labels) \cap Labels(w.orig.labels)
         \subseteq Labels(obj'[w.ms].ann.labels)]_vars

\* What the comment in Reconcile guarantees: existing labels provided via the
\* capacity annotations are preserved.  It fails for a label that was added
\* after the reconcile read the MachineSet.
ExistingLabelsPreserved ==
  [][w.pc = "patch" /\ w' # w =>
       Labels(obj[w.ms].ann.labels) \subseteq Labels(obj'[w.ms].ann.labels)]_vars

\* What the comment on Reconcile says: the architecture label is always set to
\* amd64.  It fails for a MachineSet that has another one.
ArchIsAmd64 ==
  [][w.pc = "patch" /\ w' # w /\ obj' # obj =>
       [key |-> ArchKey, val |-> Amd64] \in Labels(obj'[w.ms].ann.labels)]_vars

\* The annotations tell the autoscaler what the template says.
Foreseen(ms) ==
  LET ann == obj[ms].ann
      flavor == parseCloudscaleFlavor(obj[ms].spec.flavor)
  IN  /\ ann.cpu = flavor.cpu /\ ann.memory = 1024 * flavor.memGB
      /\ ann.gpu = 0 /\ ann.disk = obj[ms].spec.size
      /\ ArchKey \in Keys(TextOf(ann.labels))

\* Once users leave it alone, a MachineSet with a valid template gets the
\* annotations of that template, although patches are made from stale copies.
Converges ==
  <>[](\A ms \in MachineSet :
         obj[ms].st = "live" /\ Valid(obj[ms].spec) => Foreseen(ms))

\* A patch that is made from what is there leaves nothing to patch.
PatchSettles ==
  [][LET ms == w.ms IN
     w.pc = "patch" /\ w' # w /\ obj' # obj /\ Valid(obj[ms].spec)
       /\ w.orig = obj[ms].ann /\ w.updated = Annotations(obj[ms].spec, obj[ms].ann)
       => obj'[ms].ann = Annotations(obj'[ms].spec, obj'[ms].ann)]_vars

\* The controller does not go on forever patching what it has patched.
ComesToRest == <>[][w.pc = "patch" => w' = w]_vars
===============================================================================
