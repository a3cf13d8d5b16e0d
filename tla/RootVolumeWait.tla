--------------------------- MODULE RootVolumeWait ---------------------------
(***************************************************************************)
(* The time that Create holds the only worker of the manager while it      *)
(* waits for a root volume to tag (pkg/machine/actuator.go).  Module       *)
(* Actuator has the same calls with all else that happens around them, but *)
(* no clock.                                                               *)
(*                                                                         *)
(* Time is counted in tenths of a second and passes in time.Sleep only:    *)
(* calls take no time, and what happens while the worker has nothing to do *)
(* is of no interest here.                                                 *)
(***************************************************************************)
EXTENDS Integers

CONSTANTS
  Machine,     \* machines to be created, with tags for the root volume
  Delay,       \* how long it may take until a root volume can be queried
  Jitter,      \* what may be added to a sleep, in tenths of it
  Nil,
  MaxFaults    \* failing calls and servers that vanish, at most

Second == 10

ASSUME TimeAssumption ==
  /\ Delay \subseteq Nat /\ MaxFaults \in Nat
  /\ Jitter \subseteq {0, 1} /\ Jitter # {}

\* A reconcile that waits.
Waiting == [machine : Machine, duration : Nat, steps : Nat]

ASSUME NilAssumption == Nil \notin Nat \cup Waiting

VARIABLES
  now,
  delay,    \* of the root volume of each machine's server
  born,     \* when the machine's server was created; Nil if there is none
  created,  \* how many servers were created, for all machines
  tagged,   \* the machines with a tagged root volume
  linked,   \* the machines that were patched with their server
  w,        \* the reconcile that waits: machine and backoff; or Nil
  faults

vars == <<now, delay, born, created, tagged, linked, w, faults>>

-----------------------------------------------------------------------------
(* wait.ExponentialBackoff *)

\* The parameters of the wait.
Factor == 2

Cap == 300 * Second

Backoff(m) == [machine |-> m, duration |-> 1 * Second, steps |-> 10]

\* Mutant: the duration grows faster.
StepByThree(b) ==
  [b EXCEPT !.duration = b.duration * 3, !.steps = b.steps - 1]

\* Mutant: the cap is a minute, as if it were one on each sleep.
StepWithLowCap(b) ==
  LET next == b.duration * Factor IN
  IF next > 60 * Second THEN [b EXCEPT !.duration = 60 * Second, !.steps = 0]
  ELSE [b EXCEPT !.duration = next, !.steps = b.steps - 1]

\* Backoff.Step: reaching the cap uses up all steps that are left, so that the
\* sleep which has just been due is not followed by another poll.
Step(b) ==
  LET next == b.duration * Factor IN
  IF next > Cap THEN [b EXCEPT !.duration = Cap, !.steps = 0]
  ELSE [b EXCEPT !.duration = next, !.steps = b.steps - 1]

-----------------------------------------------------------------------------
(* Create and Update, as far as the root volume is concerned *)

\* A failing call, or a server that vanishes.
Fault == faults < MaxFaults /\ faults' = faults + 1

\* The machine is reconciled until it is linked.
Pending(m) == w = Nil /\ m \notin linked

Queryable(m) == born[m] # Nil /\ now >= born[m] + delay[m]

\* There is no server: one is created and waited for.  Of a call that fails it
\* is not known whether it created one, and nothing is waited for.
Create(m) ==
  /\ Pending(m) /\ born[m] = Nil
  /\ born' = [born EXCEPT ![m] = now] /\ created' = created + 1
  /\ \/ w' = Backoff(m) /\ UNCHANGED faults
     \/ Fault /\ UNCHANGED w
  /\ UNCHANGED <<now, delay, tagged, linked>>

\* The machine is patched, if that does not fail.
Patch(m) ==
  \/ linked' = linked \cup {m} /\ UNCHANGED faults
  \/ Fault /\ UNCHANGED linked

\* The volume is listed with the server and can be queried: it is tagged.
Tag ==
  /\ w # Nil /\ w.steps > 0 /\ Queryable(w.machine)
  /\ tagged' = tagged \cup {w.machine} /\ Patch(w.machine)
  /\ w' = Nil
  /\ UNCHANGED <<now, delay, born, created>>

\* A call that fails is repeated like one that comes too early.
NotYet == \/ ~Queryable(w.machine) /\ UNCHANGED faults
          \/ Fault

\* A poll in vain, and the sleep after it, in which the context of the
\* reconcile is not consulted.  There is none after the last step.
Sleep ==
  /\ w # Nil /\ w.steps > 0 /\ NotYet
  /\ \E j \in Jitter :
       now' = IF w.steps = 1 THEN now
              ELSE now + w.duration + (w.duration \div 10) * j
  /\ w' = Step(w)
  /\ UNCHANGED <<delay, born, created, tagged, linked>>

\* No steps are left: the wait ends with an error.
GiveUp ==
  /\ w # Nil /\ w.steps = 0
  /\ w' = Nil
  /\ UNCHANGED <<now, delay, born, created, tagged, linked, faults>>

\* The tags cannot be written.
TagFails ==
  /\ w # Nil /\ w.steps > 0 /\ Queryable(w.machine) /\ Fault
  /\ w' = Nil
  /\ UNCHANGED <<now, delay, born, created, tagged, linked>>

\* Mutant: Update waits like Create.
UpdateWaits(m) ==
  /\ Pending(m) /\ born[m] # Nil
  /\ w' = Backoff(m)
  /\ UNCHANGED <<now, delay, born, created, tagged, linked, faults>>

\* The server exists: it is updated, which tags the volume if it is there, and
\* else is an error at once.
Update(m) ==
  /\ Pending(m) /\ born[m] # Nil
  /\ Queryable(m) /\ tagged' = tagged \cup {m} /\ Patch(m)
  /\ UNCHANGED <<now, delay, born, created, w>>

\* Somebody deletes a server that its machine is not linked to, perhaps while it
\* is waited for: the next one has another root volume.
Vanishes(m) ==
  /\ born[m] # Nil /\ m \notin linked /\ Fault
  /\ born' = [born EXCEPT ![m] = Nil] /\ tagged' = tagged \ {m}
  /\ \E d \in Delay : delay' = [delay EXCEPT ![m] = d]
  /\ UNCHANGED <<now, created, linked, w>>

-----------------------------------------------------------------------------

Init ==
  /\ now = 0 /\ faults = 0 /\ created = 0
  /\ delay \in [Machine -> Delay]
  /\ born = [m \in Machine |-> Nil]
  /\ tagged = {} /\ linked = {} /\ w = Nil

\* What is not tagged now is for a later resync.
Rest ==
  /\ w = Nil /\ \A m \in Machine : born[m] # Nil
  /\ UNCHANGED vars

Next ==
  \/ \E m \in Machine : Create(m) \/ Update(m) \/ Vanishes(m)
  \/ Tag \/ Sleep \/ GiveUp \/ TagFails
  \/ Rest

Spec == Init /\ [][Next]_vars

-----------------------------------------------------------------------------
(* Properties *)

\* The worker is held for less than nine and a half minutes (511 seconds of
\* sleep, and a tenth) per server that is created, and only by the reconcile
\* that creates it, although its reply may be lost, its volume never come, the
\* tags or the patch fail, or the server vanish: what later reconciles find of a
\* server is not waited for again.
HoldsOncePerServer == now <= created * (511 * Second + 511)

\* Create gives up only on volumes that were not there after 255 seconds, the
\* time of its ninth and last poll.
TimelyIsTagged ==
  faults = 0 =>
    \A m \in Machine :
      /\ born[m] # Nil /\ m \notin tagged
      /\ w = Nil \/ w.machine # m
      => delay[m] > 255 * Second

\* Unless calls fail, the tags are written soon after that is possible: at
\* about twice the delay of the volume.
NoticedSoon ==
  [][\A m \in Machine :
       w # Nil /\ w.machine = m /\ m \in tagged' /\ faults = 0 =>
         10 * (now - born[m]) <= 21 * delay[m] + 11 * Second]_vars
===============================================================================
