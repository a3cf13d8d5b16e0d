--------------------- MODULE MachineAPIControllersProofs ---------------------
(***************************************************************************)
(* Proofs about MachineAPIControllers for any number of managers, any      *)
(* images and contents of the ConfigMap, and any number of changes.        *)
(***************************************************************************)
EXTENDS MachineAPIControllers, TLAPS

\* What the workers of a reconcile get: the part of TypeOK on each variable.
LEMMA GotoTyped ==
  ASSUME NEW r \in Replica, NEW wr \in Workers,
         w \in [Replica -> Workers], Goto(r, wr)
  PROVE  w' \in [Replica -> Workers]
  BY DEF Goto

LEMMA EndTyped ==
  ASSUME NEW r \in Replica, w \in [Replica -> Workers],
         queued \in [Replica -> BOOLEAN], Done(r) \/ Error(r)
  PROVE  w' \in [Replica -> Workers] /\ queued' \in [Replica -> BOOLEAN]
<1>1. Idle \in Workers
  BY DEF Idle, Workers
<1> QED BY <1>1, GotoTyped DEF Done, Error

LEMMA NotifyTyped ==
  ASSUME NEW kind \in {"cm", "upstream", "ours"}, Notify(kind),
         events \in [Replica -> SUBSET {"cm", "upstream", "ours"}]
  PROVE  events' \in [Replica -> SUBSET {"cm", "upstream", "ours"}]
  BY DEF Notify

LEMMA NotifyOursTyped ==
  ASSUME NotifyOurs,
         events \in [Replica -> SUBSET {"cm", "upstream", "ours"}]
  PROVE  events' \in [Replica -> SUBSET {"cm", "upstream", "ours"}]
  BY NotifyTyped DEF NotifyOurs

-----------------------------------------------------------------------------
(* Type correctness *)

LEMMA BeginTyped ==
  ASSUME TypeOK, NEW r \in Replica, Begin(r)
  PROVE  TypeOK'
<1> USE DEF TypeOK
<1>1. /\ UNCHANGED <<cm, upstream, ours, uids, seen, events, changes>>
      /\ w[r].pc = "idle"
  BY DEF Begin
<1>2. w' \in [Replica -> Workers] /\ queued' \in [Replica -> BOOLEAN]
  <2> DEFINE read == seen[r].cm
  <2>1. CASE read = Nil
    BY <2>1 DEF Begin, Error, Goto, Idle, Workers
  <2>2. CASE read # Nil /\ read.data \in {"noKey", "notJSON"}
    BY <2>2, EndTyped DEF Begin
  <2>3. CASE read # Nil /\ read.data \notin {"noKey", "notJSON"}
    <3>1. read \in [uid : Nat, data : Image \cup {"incomplete"}]
      BY <2>3 DEF ConfigMaps, Contents, Malformed
    <3>2. [pc |-> "check", cm |-> read] \in Workers
      BY <3>1 DEF Workers
    <3>3. Goto(r, [pc |-> "check", cm |-> read])
          /\ queued' = [queued EXCEPT ![r] = FALSE]
      BY <2>3 DEF Begin
    <3> QED BY <3>2, <3>3, GotoTyped
  <2> QED BY <2>1, <2>2, <2>3
<1> QED BY <1>1, <1>2

LEMMA CheckUpstreamTyped ==
  ASSUME TypeOK, NEW r \in Replica, CheckUpstream(r)
  PROVE  TypeOK'
<1> USE DEF TypeOK
<1>1. /\ UNCHANGED <<cm, upstream, ours, uids, seen, events, changes>>
      /\ w[r].pc = "check"
  BY DEF CheckUpstream
<1>2. w' \in [Replica -> Workers] /\ queued' \in [Replica -> BOOLEAN]
  <2>1. CASE Error(r)
    BY <2>1, EndTyped
  <2>2. CASE /\ w[r].cm.data # "incomplete"
             /\ ~seen[r].upstream
             /\ Goto(r, [w[r] EXCEPT !.pc = "apply"]) /\ UNCHANGED queued
    <3>1. w[r].cm \in [uid : Nat, data : Image]
      BY <1>1, <2>2 DEF Workers
    <3>2. [w[r] EXCEPT !.pc = "apply"] = [pc |-> "apply", cm |-> w[r].cm]
      BY <1>1 DEF Workers
    <3>3. [pc |-> "apply", cm |-> w[r].cm] \in Workers
      BY <3>1 DEF Workers
    <3> QED BY <2>2, <3>2, <3>3, GotoTyped
  <2> QED BY <2>1, <2>2 DEF CheckUpstream
<1> QED BY <1>1, <1>2

\* What an apply leaves: the deployment as it was, or one with the images read,
\* and that only if nobody else owns a field that differs.
LEMMA ApplyTyped ==
  ASSUME TypeOK, NEW r \in Replica, Apply(r)
  PROVE  TypeOK'
<1> USE DEF TypeOK
<1>1. /\ UNCHANGED <<cm, upstream, uids, seen>>
      /\ w[r].pc = "apply" /\ NotifyOurs
      /\ Done(r) \/ Error(r)
  BY DEF Apply
<1>2. w' \in [Replica -> Workers] /\ queued' \in [Replica -> BOOLEAN]
  BY <1>1, EndTyped
<1>3. events' \in [Replica -> SUBSET {"cm", "upstream", "ours"}]
  BY <1>1, NotifyOursTyped
<1>4. ours' \in Deployments \cup {Nil} /\ changes' \in Nat
  <2>1. w[r].cm \in [uid : Nat, data : Image]
    BY <1>1 DEF Workers
  <2>2. (IF ours = Nil THEN Nil ELSE ours.by) \in {"other", Nil}
    BY DEF Deployments
  <2> QED BY <2>1, <2>2 DEF Apply, Change, Deployment, Deployments
<1> QED BY <1>1, <1>2, <1>3, <1>4

LEMMA RestartTyped ==
  ASSUME TypeOK, NEW r \in Replica, Restart(r)
  PROVE  TypeOK'
<1> USE DEF TypeOK
<1>1. w' \in [Replica -> Workers]
  <2>1. Idle \in Workers
    BY DEF Idle, Workers
  <2> QED BY <2>1, GotoTyped DEF Restart
<1>2. seen' \in [Replica -> [cm : ConfigMaps \cup {Nil}, upstream : BOOLEAN]]
  BY DEF Restart
<1>3. queued' \in [Replica -> BOOLEAN] /\ changes' \in Nat
      /\ events' \in [Replica -> SUBSET {"cm", "upstream", "ours"}]
      /\ UNCHANGED <<cm, upstream, ours, uids>>
  BY DEF Restart, Change
<1> QED BY <1>1, <1>2, <1>3

LEMMA DeliverTyped ==
  ASSUME TypeOK, NEW r \in Replica, Deliver(r)
  PROVE  TypeOK'
<1> USE DEF TypeOK
<1>1. ASSUME NEW kind, Received(r, kind)
      PROVE  events' \in [Replica -> SUBSET {"cm", "upstream", "ours"}]
  BY <1>1 DEF Received
<1>2. CASE DeliverConfigMap(r)
  <2>1. seen' \in [Replica -> [cm : ConfigMaps \cup {Nil}, upstream : BOOLEAN]]
    BY <1>2 DEF DeliverConfigMap
  <2>2. events' \in [Replica -> SUBSET {"cm", "upstream", "ours"}]
    BY <1>1, <1>2 DEF DeliverConfigMap
  <2> QED BY <1>2, <2>1, <2>2 DEF DeliverConfigMap
<1>3. CASE DeliverUpstream(r)
  <2>1. seen' \in [Replica -> [cm : ConfigMaps \cup {Nil}, upstream : BOOLEAN]]
    BY <1>3 DEF DeliverUpstream
  <2>2. events' \in [Replica -> SUBSET {"cm", "upstream", "ours"}]
    BY <1>1, <1>3 DEF DeliverUpstream
  <2> QED BY <1>3, <2>1, <2>2 DEF DeliverUpstream
<1>4. CASE DeliverOurs(r)
  BY <1>1, <1>4 DEF DeliverOurs
<1> QED BY <1>2, <1>3, <1>4 DEF Deliver

LEMMA OthersTyped ==
  ASSUME TypeOK,
         \/ ConfigMapWritten \/ ConfigMapDeleted \/ UpstreamComesOrGoes
         \/ OursTouched \/ GarbageCollected
  PROVE  TypeOK'
<1> USE DEF TypeOK
<1>1. CASE ConfigMapWritten
  <2>1. cm' \in ConfigMaps \cup {Nil} /\ uids' \in Nat
    BY <1>1, DataAssumption DEF ConfigMapWritten, ConfigMap, ConfigMaps
  <2> QED BY <1>1, <2>1, NotifyTyped DEF ConfigMapWritten, Change
<1>2. CASE ConfigMapDeleted
  BY <1>2, NotifyTyped DEF ConfigMapDeleted, Change
<1>3. CASE UpstreamComesOrGoes
  BY <1>3, NotifyTyped DEF UpstreamComesOrGoes, Change
<1>4. CASE OursTouched
  <2>1. ours' \in Deployments \cup {Nil}
    BY <1>4 DEF OursTouched, Deployments
  <2>2. /\ Change /\ Notify("ours")
        /\ UNCHANGED <<cm, upstream, uids, seen, queued, w>>
    BY <1>4 DEF OursTouched
  <2>3. events' \in [Replica -> SUBSET {"cm", "upstream", "ours"}]
    BY <2>2, NotifyTyped
  <2>4. changes' \in Nat
    BY <2>2 DEF Change
  <2> QED BY <2>1, <2>2, <2>3, <2>4
<1>5. CASE GarbageCollected
  BY <1>5, NotifyTyped DEF GarbageCollected
<1> QED BY <1>1, <1>2, <1>3, <1>4, <1>5

\* Every variable has its type, and a reconcile that is about to apply has
\* images to apply (Reconcile in machine_api_controllers_controller.go).
THEOREM TypeCorrect == Spec => []TypeOK
<1>1. Init => TypeOK
  <2> SUFFICES ASSUME Init PROVE TypeOK
    OBVIOUS
  <2>1. w \in [Replica -> Workers]
    BY DEF Init, Idle, Workers
  <2>2. seen \in [Replica -> [cm : ConfigMaps \cup {Nil}, upstream : BOOLEAN]]
    BY DEF Init
  <2> QED BY <2>1, <2>2 DEF Init, TypeOK
<1>2. TypeOK /\ [Next]_vars => TypeOK'
  <2> SUFFICES ASSUME TypeOK, [Next]_vars PROVE TypeOK'
    OBVIOUS
  <2>1. ASSUME NEW r \in Replica, WorkerStep(r) PROVE TypeOK'
    BY <2>1, BeginTyped, CheckUpstreamTyped, ApplyTyped DEF WorkerStep
  <2>2. CASE UNCHANGED vars
    BY <2>2 DEF vars, TypeOK
  <2> QED BY <2>1, <2>2, RestartTyped, DeliverTyped, OthersTyped
          DEF Next, Rest
<1> QED BY <1>1, <1>2, PTL DEF Spec

-----------------------------------------------------------------------------
(* No lost wake-ups *)

\* What a replica has missed of the ConfigMap, in its cache or in the copy its
\* worker is at work on, is on its way to it.
Missed(r) ==
  /\ seen[r].cm # cm => "cm" \in events[r]
  /\ w[r].pc # "idle" /\ w[r].cm # cm => queued[r] \/ "cm" \in events[r]

WakeInv == NoneAsleep /\ \A r \in Replica : Missed(r)

\* An event of the ConfigMap or of our deployment wakes every replica.
LEMMA NotifyWakes ==
  ASSUME TypeOK, NEW kind \in {"cm", "ours"}, Notify(kind)
  PROVE  /\ \A r \in Replica : Alert(r)'
         /\ \A r \in Replica : events[r] \subseteq events'[r] /\ kind \in events'[r]
<1>1. \A r \in Replica : events'[r] = events[r] \cup {kind}
  BY DEF Notify
<1>2. \A r \in Replica : events'[r] \cap {"cm", "ours"} # {}
  BY <1>1
<1> QED BY <1>1, <1>2 DEF Alert

\* A replica to which nothing happens: it gets events, and may be queued.
LEMMA Unmoved ==
  ASSUME NEW r \in Replica, UNCHANGED cm, w'[r] = w[r], seen'[r].cm = seen[r].cm,
         queued[r] => queued'[r],
         events[r] \cap {"cm", "ours"} \subseteq events'[r]
  PROVE  /\ Missed(r) => Missed(r)'
         /\ Alert(r) => Alert(r)'
<1>1. "cm" \in events[r] => "cm" \in events'[r]
  OBVIOUS
<1>2. events[r] \cap {"cm", "ours"} # {} => events'[r] \cap {"cm", "ours"} # {}
  OBVIOUS
<1> QED BY <1>1, <1>2 DEF Missed, Alert

LEMMA SameDeployed ==
  ASSUME UNCHANGED <<cm, ours>> PROVE Deployed' = Deployed
  BY DEF Deployed

\* A replica that moves on its own, with the deployment as it is.
LEMMA OneMoves ==
  ASSUME TypeOK, WakeInv, NEW r \in Replica, UNCHANGED <<cm, ours>>,
         Missed(r)', cm # Nil => Deployed \/ Alert(r)',
         \A q \in Replica \ {r} :
           /\ w'[q] = w[q] /\ seen'[q] = seen[q] /\ queued'[q] = queued[q]
           /\ events'[q] = events[q]
  PROVE  WakeInv'
<1>1. ASSUME NEW q \in Replica, q # r
      PROVE  Missed(q)' /\ (Alert(q) => Alert(q)')
  BY <1>1, Unmoved DEF WakeInv
<1>2. \A q \in Replica : Missed(q)'
  BY <1>1
<1>3. NoneAsleep'
  BY <1>1, SameDeployed DEF NoneAsleep, WakeInv
<1> QED BY <1>2, <1>3 DEF WakeInv

LEMMA BeginWakes ==
  ASSUME TypeOK, WakeInv, NEW r \in Replica, Begin(r)
  PROVE  WakeInv'
<1>1. /\ UNCHANGED <<cm, ours, seen, events>> /\ w[r].pc = "idle"
      /\ \/ /\ seen[r].cm = Nil /\ UNCHANGED w
            /\ queued' = [queued EXCEPT ![r] = FALSE]
         \/ Goto(r, Idle) /\ queued' = [queued EXCEPT ![r] = TRUE]
         \/ /\ Goto(r, [pc |-> "check", cm |-> seen[r].cm])
            /\ queued' = [queued EXCEPT ![r] = FALSE]
  BY DEF Begin, Error
<1>2. \A q \in Replica \ {r} : w'[q] = w[q] /\ queued'[q] = queued[q]
  BY <1>1 DEF TypeOK, Goto
<1>3. seen[r].cm # cm => "cm" \in events[r]
  BY DEF WakeInv, Missed
<1>4. \/ seen[r].cm = Nil /\ w'[r].pc = "idle"
      \/ w'[r].pc = "idle" /\ queued'[r]
      \/ w'[r].pc # "idle" /\ w'[r].cm = seen[r].cm
  BY <1>1 DEF TypeOK, Goto, Idle
<1>5. Missed(r)' /\ (cm # Nil => Alert(r)')
  BY <1>1, <1>3, <1>4 DEF Missed, Alert
<1> QED BY <1>1, <1>2, <1>5, OneMoves

LEMMA CheckUpstreamWakes ==
  ASSUME TypeOK, WakeInv, NEW r \in Replica, CheckUpstream(r)
  PROVE  WakeInv'
<1>1. /\ UNCHANGED <<cm, ours, seen, events>> /\ w[r].pc = "check"
      /\ \/ Goto(r, Idle) /\ queued' = [queued EXCEPT ![r] = TRUE]
         \/ Goto(r, [w[r] EXCEPT !.pc = "apply"]) /\ UNCHANGED queued
  BY DEF CheckUpstream, Error
<1>2. \A q \in Replica \ {r} : w'[q] = w[q] /\ queued'[q] = queued[q]
  BY <1>1 DEF TypeOK, Goto
<1>3. \/ w'[r].pc = "idle" /\ queued'[r]
      \/ w'[r].pc = "apply" /\ w'[r].cm = w[r].cm /\ queued'[r] = queued[r]
  BY <1>1 DEF TypeOK, Goto, Idle, Workers
<1>4. Missed(r)' /\ (cm # Nil => Alert(r)')
  BY <1>1, <1>3 DEF WakeInv, Missed, Alert
<1> QED BY <1>1, <1>2, <1>4, OneMoves

\* An apply that changes the deployment wakes everybody; one that does not, of
\* what the ConfigMap is now, finds it deployed.
LEMMA ApplyWakes ==
  ASSUME TypeOK, WakeInv, NEW r \in Replica, Apply(r)
  PROVE  WakeInv'
<1>1. /\ UNCHANGED <<cm, seen>> /\ w[r].pc = "apply" /\ NotifyOurs
      /\ \/ Error(r)
         \/ /\ Done(r)
            /\ ours' = Deployment(w[r].cm.data, w[r].cm.uid,
                                  IF ours = Nil THEN Nil ELSE ours.by)
  BY DEF Apply
<1>2. /\ \A q \in Replica \ {r} : w'[q] = w[q] /\ queued'[q] = queued[q]
      /\ w'[r].pc = "idle" /\ (queued[r] => queued'[r])
  BY <1>1 DEF TypeOK, Goto, Idle, Error, Done
<1>3. CASE ours' # ours
  <2>1. Notify("ours")
    BY <1>1, <1>3 DEF NotifyOurs
  <2>2. \A q \in Replica : Alert(q)' /\ events[q] \subseteq events'[q]
    BY <2>1, NotifyWakes
  <2>3. Missed(r)'
    BY <1>1, <1>2, <2>2 DEF WakeInv, Missed
  <2>4. \A q \in Replica \ {r} : Missed(q)'
    BY <1>1, <1>2, <2>2, Unmoved DEF WakeInv
  <2> QED BY <2>2, <2>3, <2>4 DEF WakeInv, NoneAsleep
<1>4. CASE ours' = ours
  <2>1. UNCHANGED events
    BY <1>1, <1>4 DEF NotifyOurs
  <2>2. Missed(r)'
    BY <1>1, <1>2, <2>1 DEF WakeInv, Missed
  <2>3. CASE queued'[r] \/ w[r].cm # cm
    <3>1. Alert(r)'
      BY <1>1, <1>2, <2>1, <2>3 DEF WakeInv, Missed, Alert
    <3> QED BY <1>1, <1>2, <1>4, <2>1, <2>2, <3>1, OneMoves
  <2>4. CASE ~queued'[r] /\ w[r].cm = cm
    <3>1. ours = Deployment(cm.data, cm.uid, IF ours = Nil THEN Nil ELSE ours.by)
      BY <1>1, <1>4, <2>4 DEF Error, TypeOK
    <3>2. cm \in [uid : Nat, data : Image]
      BY <1>1, <2>4 DEF TypeOK, Workers
    <3>3. ours \in Deployments
      BY <3>1, <3>2 DEF TypeOK, Deployment, Deployments
    <3>4. Deployed
      BY <3>1, <3>3, NilAssumption DEF Deployed, Deployment
    <3> QED BY <1>1, <1>2, <1>4, <2>1, <2>2, <3>4, OneMoves
  <2> QED BY <2>3, <2>4
<1> QED BY <1>3, <1>4

LEMMA RestartWakes ==
  ASSUME TypeOK, WakeInv, NEW r \in Replica, Restart(r)
  PROVE  WakeInv'
<1>1. /\ UNCHANGED <<cm, ours>>
      /\ \A q \in Replica \ {r} :
           /\ w'[q] = w[q] /\ seen'[q] = seen[q] /\ queued'[q] = queued[q]
           /\ events'[q] = events[q]
      /\ w'[r].pc = "idle" /\ seen'[r].cm = cm /\ (cm # Nil => queued'[r])
  BY DEF Restart, TypeOK, Goto, Idle
<1>2. Missed(r)' /\ (cm # Nil => Alert(r)')
  BY <1>1 DEF Missed, Alert
<1> QED BY <1>1, <1>2, OneMoves

\* An event that is received puts the ConfigMap in the queue, but for those of
\* the upstream deployment.
LEMMA DeliverWakes ==
  ASSUME TypeOK, WakeInv, NEW r \in Replica, Deliver(r)
  PROVE  WakeInv'
<1>1. /\ UNCHANGED <<cm, ours, w>>
      /\ \A q \in Replica \ {r} :
           /\ seen'[q] = seen[q] /\ queued'[q] = queued[q] /\ events'[q] = events[q]
  BY DEF Deliver, DeliverConfigMap, DeliverUpstream, DeliverOurs, Received, TypeOK
<1>2. CASE DeliverConfigMap(r)
  <2>1. queued'[r] /\ seen'[r].cm = cm
    BY <1>2 DEF DeliverConfigMap, TypeOK
  <2>2. Missed(r)' /\ Alert(r)'
    BY <1>1, <2>1 DEF Missed, Alert
  <2> QED BY <1>1, <2>2, OneMoves
<1>3. CASE DeliverOurs(r)
  <2>1. queued'[r] /\ seen'[r].cm = seen[r].cm
        /\ ("cm" \in events[r] => "cm" \in events'[r])
    BY <1>3 DEF DeliverOurs, Received, TypeOK
  <2>2. Missed(r)' /\ Alert(r)'
    BY <1>1, <2>1 DEF Missed, Alert, WakeInv
  <2> QED BY <1>1, <2>2, OneMoves
<1>4. CASE DeliverUpstream(r)
  <2>1. /\ seen'[r].cm = seen[r].cm /\ queued'[r] = queued[r]
        /\ events[r] \cap {"cm", "ours"} \subseteq events'[r]
    BY <1>4 DEF DeliverUpstream, Received, TypeOK
  <2>2. \A q \in Replica : Missed(q)' /\ (Alert(q) => Alert(q)')
    BY <1>1, <2>1, Unmoved DEF WakeInv
  <2> QED BY <1>1, <2>2, SameDeployed DEF WakeInv, NoneAsleep
<1> QED BY <1>2, <1>3, <1>4 DEF Deliver

LEMMA OthersWake ==
  ASSUME TypeOK, WakeInv,
         \/ ConfigMapWritten \/ ConfigMapDeleted \/ UpstreamComesOrGoes
         \/ OursTouched \/ GarbageCollected
  PROVE  WakeInv'
<1>1. UNCHANGED <<w, seen, queued>>
  BY DEF ConfigMapWritten, ConfigMapDeleted, UpstreamComesOrGoes, OursTouched,
         GarbageCollected
<1>2. CASE ConfigMapWritten \/ ConfigMapDeleted
  <2>1. Notify("cm")
    BY <1>2 DEF ConfigMapWritten, ConfigMapDeleted
  <2>2. \A r \in Replica : Alert(r)' /\ "cm" \in events'[r]
    BY <2>1, NotifyWakes
  <2> QED BY <2>2 DEF WakeInv, NoneAsleep, Missed
<1>3. CASE OursTouched \/ GarbageCollected
  <2>1. Notify("ours") /\ UNCHANGED cm
    BY <1>3 DEF OursTouched, GarbageCollected
  <2>2. \A r \in Replica : Alert(r)' /\ events[r] \subseteq events'[r]
    BY <2>1, NotifyWakes
  <2>3. \A r \in Replica : Missed(r)'
    BY <1>1, <2>1, <2>2 DEF WakeInv, Missed
  <2> QED BY <2>2, <2>3 DEF WakeInv, NoneAsleep
<1>4. CASE UpstreamComesOrGoes
  <2>1. Notify("upstream") /\ UNCHANGED <<cm, ours>>
    BY <1>4 DEF UpstreamComesOrGoes
  <2>2. \A r \in Replica : events[r] \subseteq events'[r]
    BY <2>1 DEF Notify
  <2>3. \A r \in Replica : Missed(r)' /\ (Alert(r) => Alert(r)')
    BY <1>1, <2>1, <2>2, Unmoved DEF WakeInv
  <2> QED BY <2>1, <2>3, SameDeployed DEF WakeInv, NoneAsleep
<1> QED BY <1>2, <1>3, <1>4

\* No wake-up is lost, with any number of replicas, restarts and changes: the
\* caches, the queue and the watches of SetupWithManager, together with the
\* errors of Reconcile, make each replica look again until our deployment is
\* what the ConfigMap asks for.
THEOREM WakesUp == Spec => []NoneAsleep
<1>1. Init => WakeInv
  BY DEF Init, WakeInv, NoneAsleep, Missed, Idle
<1>2. TypeOK /\ WakeInv /\ [Next]_vars => WakeInv'
  <2> SUFFICES ASSUME TypeOK, WakeInv, [Next]_vars PROVE WakeInv'
    OBVIOUS
  <2>1. ASSUME NEW r \in Replica, WorkerStep(r) PROVE WakeInv'
    BY <2>1, BeginWakes, CheckUpstreamWakes, ApplyWakes DEF WorkerStep
  <2>2. CASE UNCHANGED vars
    BY <2>2 DEF vars, WakeInv, NoneAsleep, Deployed, Alert, Missed
  <2> QED BY <2>1, <2>2, RestartWakes, DeliverWakes, OthersWake DEF Next, Rest
<1>3. WakeInv => NoneAsleep
  BY DEF WakeInv
<1> QED BY <1>1, <1>2, <1>3, TypeCorrect, PTL DEF Spec
===============================================================================
