------------------------ MODULE RootVolumeWaitProofs ------------------------
(***************************************************************************)
(* Proofs about RootVolumeWait for any number of machines, any delays of   *)
(* their root volumes and any number of failing calls.                     *)
(***************************************************************************)
EXTENDS RootVolumeWait, TLAPS

\* The sleeps before the cap, and the steps that are left before each.
Schedule == {<<10, 10>>, <<20, 9>>, <<40, 8>>, <<80, 7>>, <<160, 6>>,
             <<320, 5>>, <<640, 4>>, <<1280, 3>>, <<2560, 2>>}

\* A wait is at some point of the schedule, or has run out of steps.
Typed ==
  /\ now \in Nat /\ faults \in Nat /\ created \in Nat
  /\ delay \in [Machine -> Nat]
  /\ born \in [Machine -> Nat \cup {Nil}]
  /\ w = Nil \/ w \in Waiting
  /\ w # Nil => <<w.duration, w.steps>> \in Schedule \cup {<<Cap, 0>>}

\* The machine whose reconcile waits has no tags yet, and its server unless that
\* vanished; tags are those of a server, and a linked machine's are written.
Waits ==
  /\ w # Nil => /\ w.machine \notin tagged
                /\ faults = 0 => born[w.machine] # Nil
  /\ \A m \in tagged : born[m] # Nil
  /\ linked \subseteq tagged

Bound == 5621

\* What is left of the wait fits into the share of the server that is waited for.
Budget ==
  /\ now <= created * Bound
  /\ w # Nil /\ w.steps > 0 =>
       10 * now + 11 * (5120 - w.duration) <= 10 * created * Bound

\* What the polls in vain say of the delay: at the poll that is due the volume
\* is not late for long, as it was not there at the previous one; with no steps
\* left it was not there at the last one.
Elapsed ==
  w # Nil /\ faults = 0 =>
    LET m == w.machine
        elapsed == now - born[m]
    IN  IF w.steps = 0 THEN delay[m] > 2550
        ELSE /\ elapsed >= w.duration - 10
             /\ 10 * elapsed <= 21 * delay[m] + 110

Abandoned(m) == /\ born[m] # Nil /\ m \notin tagged
                /\ w = Nil \/ w.machine # m

GivenUpLate == faults = 0 => \A m \in Machine : Abandoned(m) => delay[m] > 2550

IInv == Typed /\ Waits /\ Budget /\ Elapsed /\ GivenUpLate

-----------------------------------------------------------------------------

LEMMA Constants == Cap = 3000 /\ Second = 10 /\ Factor = 2
  BY DEF Cap, Second, Factor

\* A point of the schedule is followed by the next one, or by no steps.
Follows(b, next) ==
  /\ next \in Waiting /\ next.machine = b.machine
  /\ b.steps > 1
  /\ \/ /\ <<next.duration, next.steps>> \in Schedule
        /\ next.duration = 2 * b.duration
     \/ /\ b.duration = 2560
        /\ next.duration = 3000 /\ next.steps = 0
  /\ b.duration \in Nat /\ b.duration <= 2560
  /\ 10 * (b.duration \div 10) = b.duration

LEMMA NextStep ==
  ASSUME NEW b \in Waiting, <<b.duration, b.steps>> \in Schedule,
         NEW next, next = Step(b)
  PROVE  Follows(b, next)
<1>1. PICK d \in Nat, n \in Nat : b.duration = d /\ b.steps = n
  BY DEF Waiting
<1>2. \/ d = 10 /\ n = 10
      \/ d = 20 /\ n = 9
      \/ d = 40 /\ n = 8
      \/ d = 80 /\ n = 7
      \/ d = 160 /\ n = 6
      \/ d = 320 /\ n = 5
      \/ d = 640 /\ n = 4
      \/ d = 1280 /\ n = 3
      \/ d = 2560 /\ n = 2
  BY <1>1 DEF Schedule
<1>3. 10 * (d \div 10) = d
  BY <1>2
<1>4. CASE d = 2560 /\ n = 2
  <2>1. PICK x \in Nat, y \in Nat : x = 3000 /\ y = 0
    OBVIOUS
  <2>2. next = [b EXCEPT !.duration = x, !.steps = y]
    BY <1>1, <1>4, <2>1, Constants DEF Step
  <2>3. next = [machine |-> b.machine, duration |-> x, steps |-> y]
    BY <2>2 DEF Waiting
  <2>4. /\ next \in Waiting /\ next.machine = b.machine
        /\ next.duration = x /\ next.steps = y
    BY <2>3 DEF Waiting
  <2> QED BY <1>1, <1>3, <1>4, <2>1, <2>4 DEF Follows
<1>5. CASE d < 2560 /\ n > 2
  <2>1. d * 2 <= 3000 /\ d * 2 \in Nat /\ n - 1 \in Nat
    BY <1>2, <1>5
  <2>2. next = [b EXCEPT !.duration = d * 2, !.steps = n - 1]
    BY <1>1, <2>1, Constants DEF Step
  <2>3. next = [machine |-> b.machine, duration |-> d * 2, steps |-> n - 1]
    BY <2>2 DEF Waiting
  <2>4. /\ next \in Waiting /\ next.machine = b.machine
        /\ next.duration = d * 2 /\ next.steps = n - 1
    BY <2>1, <2>3 DEF Waiting
  <2>5. <<d * 2, n - 1>> \in Schedule
    BY <1>2, <1>5 DEF Schedule
  <2> QED BY <1>1, <1>3, <1>5, <2>4, <2>5 DEF Follows
<1> QED BY <1>2, <1>4, <1>5

LEMMA InitSound == Init => IInv
<1> SUFFICES ASSUME Init PROVE IInv
  OBVIOUS
<1>1. Typed
  BY TimeAssumption DEF Init, Typed
<1>4. Budget
  BY DEF Init, Budget, Bound
<1>5. Waits /\ Elapsed
  BY DEF Init, Waits, Elapsed
<1>6. GivenUpLate
  BY DEF Init, GivenUpLate, Abandoned
<1> QED BY <1>1, <1>4, <1>5, <1>6 DEF IInv

\* A bound for some servers is one for more of them.
LEMMA Multiples ==
  ASSUME NEW x \in Nat, NEW y \in Nat, y >= x, NEW n \in Int
  PROVE  n <= 10 * x * 5621 => n <= 10 * y * 5621
  OBVIOUS

\* Nothing is waited for after the step, or what was waited for before; only
\* faults and what is written of the machines change.
LEMMA StillSound ==
  ASSUME IInv, UNCHANGED now, w' = Nil \/ w' = w, faults' \in Nat,
         created' \in Nat, created' >= created,
         delay' \in [Machine -> Nat], born' \in [Machine -> Nat \cup {Nil}],
         Waits',
         faults' = 0 =>
           /\ faults = 0 /\ UNCHANGED <<delay, born>>
           /\ \A m \in Machine : Abandoned(m)' =>
                 Abandoned(m) \/ delay[m] > 2550
  PROVE  IInv'
<1>1. Typed' /\ Elapsed'
  BY DEF IInv, Typed, Elapsed
<1>2. Budget'
  <2>1. /\ now \in Nat /\ created \in Nat /\ (w # Nil => w.duration \in Nat)
        /\ now' = now /\ created' \in Nat /\ created' >= created
    BY DEF IInv, Typed, Waiting
  <2>2. now' <= created' * Bound
    <3>1. PICK x \in Nat, y \in Nat, n \in Nat :
            x = created /\ y = created' /\ n = now
      BY <2>1
    <3>2. n <= x * 5621 /\ y >= x
      BY <2>1, <3>1 DEF IInv, Budget, Bound
    <3>3. n <= y * 5621
      BY <3>2
    <3>4. now' = n /\ created' = y /\ Bound = 5621
      BY <2>1, <3>1 DEF Bound
    <3> QED BY <3>3, <3>4
  <2>3. ASSUME w' # Nil, w'.steps > 0
        PROVE  10 * now' + 11 * (5120 - w'.duration) <= 10 * created' * Bound
    <3>1. w' = w /\ 10 * now + 11 * (5120 - w.duration) <= 10 * created * Bound
      BY <2>3 DEF IInv, Budget
    <3>2. 10 * now + 11 * (5120 - w.duration) \in Int
      BY <2>1, <2>3, <3>1
    <3> QED BY <2>1, <3>1, <3>2, Multiples DEF Bound
  <2> QED BY <2>2, <2>3 DEF Budget
<1>3. GivenUpLate'
  BY DEF IInv, GivenUpLate
<1> QED BY <1>1, <1>2, <1>3 DEF IInv

LEMMA FaultCounts ==
  ASSUME Typed, Fault PROVE faults' \in Nat /\ faults' # 0
  BY TimeAssumption DEF Typed, Fault

LEMMA CreateSound ==
  ASSUME IInv, NEW m \in Machine, Create(m)
  PROVE  IInv'
<1> DEFINE b == [machine |-> m, duration |-> 10, steps |-> 10]
<1>1. /\ w = Nil /\ m \notin linked /\ born[m] = Nil
      /\ born' = [born EXCEPT ![m] = now]
      /\ created' = created + 1
      /\ UNCHANGED <<now, delay, tagged, linked>>
  BY DEF Create, Pending
<1>2. m \notin tagged
  BY <1>1 DEF IInv, Waits
<1>3. born'[m] = now /\ now # Nil
  BY <1>1, NilAssumption DEF IInv, Typed
<1>4. born' \in [Machine -> Nat \cup {Nil}] /\ created' \in Nat
  BY <1>1 DEF IInv, Typed
<1>5. \A n \in tagged : born'[n] # Nil
  BY <1>1, <1>3 DEF IInv, Typed, Waits
<1>6. CASE w' = Backoff(m) /\ UNCHANGED faults
  <2>1. w' = b /\ b \in Waiting /\ w' # Nil
    BY <1>6, NilAssumption DEF Backoff, Second, Waiting
  <2>2. w'.machine = m /\ w'.duration = 10 /\ w'.steps = 10
    BY <2>1
  <2>3. Typed'
    BY <1>1, <1>4, <1>6, <2>1, <2>2 DEF IInv, Typed, Schedule
  <2>4. Waits'
    BY <1>1, <1>2, <1>3, <1>5, <2>2 DEF IInv, Waits
  <2>5. Budget'
    <3>1. now \in Nat /\ created \in Nat /\ now <= created * 5621
      BY DEF IInv, Typed, Budget, Bound
    <3>2. now' <= created' * 5621
      BY <1>1, <3>1
    <3>3. 10 * now' + 11 * (5120 - 10) <= 10 * created' * 5621
      BY <1>1, <3>1
    <3> QED BY <2>2, <3>2, <3>3 DEF Budget, Bound
  <2>6. Elapsed'
    <3>1. delay[m] \in Nat /\ now \in Nat
      BY DEF IInv, Typed
    <3>2. now' - born'[m] = 0
      BY <1>1, <1>3, <3>1
    <3> QED BY <1>1, <2>2, <3>1, <3>2 DEF Elapsed
  <2>7. GivenUpLate'
    <3>1. \A n \in Machine : Abandoned(n)' => Abandoned(n)
      BY <1>1, <2>1, <2>2 DEF IInv, Typed, Abandoned
    <3> QED BY <1>1, <1>6, <3>1 DEF IInv, GivenUpLate
  <2> QED BY <2>3, <2>4, <2>5, <2>6, <2>7 DEF IInv
<1>7. CASE Fault /\ UNCHANGED w
  <2>1. faults' \in Nat /\ faults' # 0
    BY <1>7, FaultCounts DEF IInv
  <2>2. Waits'
    BY <1>1, <1>5, <1>7 DEF IInv, Waits
  <2>3. created' >= created /\ delay' \in [Machine -> Nat]
    BY <1>1 DEF IInv, Typed
  <2> QED BY <1>1, <1>4, <1>7, <2>1, <2>2, <2>3, StillSound
<1> QED BY <1>6, <1>7 DEF Create

LEMMA Patched ==
  ASSUME IInv, NEW m \in Machine, Patch(m), born[m] # Nil,
         tagged' = tagged \cup {m}, UNCHANGED born, w' = Nil
  PROVE  /\ faults' \in Nat /\ (faults' = 0 => faults = 0)
         /\ Waits'
  BY FaultCounts DEF IInv, Typed, Waits, Patch

LEMMA TagSound ==
  ASSUME IInv, Tag PROVE IInv'
<1>1. w.machine \in Machine /\ created >= created
  BY DEF IInv, Typed, Tag, Waiting
<1>2. \A m \in Machine : Abandoned(m)' => Abandoned(m)
  BY DEF Tag, Abandoned
<1> QED BY <1>1, <1>2, Patched, StillSound DEF Tag, Queryable, IInv, Typed

LEMMA UpdateSound ==
  ASSUME IInv, NEW n \in Machine, Update(n) PROVE IInv'
<1>1. w = Nil /\ w' = Nil /\ created >= created
  BY DEF Update, Pending, IInv, Typed
<1>2. \A m \in Machine : Abandoned(m)' => Abandoned(m)
  BY <1>1 DEF Update, Abandoned
<1> QED BY <1>1, <1>2, Patched, StillSound DEF Update, Queryable, IInv, Typed

LEMMA GiveUpSound ==
  ASSUME IInv, GiveUp PROVE IInv'
<1>1. faults = 0 => delay[w.machine] > 2550
  BY DEF GiveUp, IInv, Elapsed
<1>2. \A m \in Machine :
        Abandoned(m)' => Abandoned(m) \/ m = w.machine
  BY DEF GiveUp, Abandoned
<1>3. Waits' /\ created >= created
  BY DEF GiveUp, IInv, Typed, Waits
<1> QED BY <1>1, <1>2, <1>3, StillSound DEF GiveUp, IInv, Typed

LEMMA TagFailsSound ==
  ASSUME IInv, TagFails PROVE IInv'
<1>1. faults' \in Nat /\ faults' # 0
  BY FaultCounts DEF TagFails, IInv
<1>2. Waits' /\ created >= created
  BY DEF TagFails, IInv, Typed, Waits
<1> QED BY <1>1, <1>2, StillSound DEF TagFails, IInv, Typed

LEMMA VanishesSound ==
  ASSUME IInv, NEW m \in Machine, Vanishes(m) PROVE IInv'
<1>1. faults' \in Nat /\ faults' # 0
  BY FaultCounts DEF Vanishes, IInv
<1>2. /\ born' \in [Machine -> Nat \cup {Nil}]
      /\ delay' \in [Machine -> Nat]
  BY TimeAssumption DEF Vanishes, IInv, Typed
<1>3. Waits'
  BY <1>1 DEF Vanishes, IInv, Typed, Waits
<1>4. created >= created
  BY DEF IInv, Typed
<1> QED BY <1>1, <1>2, <1>3, <1>4, StillSound DEF Vanishes, IInv, Typed

\* A poll in vain takes the wait to the next point of the schedule.
LEMMA SleepSound ==
  ASSUME IInv, Sleep PROVE IInv'
<1> DEFINE m == w.machine
           d == w.duration
<1>1. /\ w \in Waiting /\ m \in Machine /\ d \in Nat
      /\ w # Nil /\ w.steps > 0 /\ w' = Step(w)
      /\ UNCHANGED <<delay, born, created, tagged, linked>>
  BY DEF IInv, Typed, Sleep, Waiting
<1>2. <<d, w.steps>> \in Schedule
  BY <1>1 DEF IInv, Typed
<1>3. /\ w' \in Waiting /\ w'.machine = m /\ w' # Nil
      /\ w.steps > 1
      /\ \/ <<w'.duration, w'.steps>> \in Schedule /\ w'.duration = 2 * d
         \/ d = 2560 /\ w'.duration = Cap /\ w'.steps = 0
      /\ d <= 2560 /\ 10 * (d \div 10) = d
  <2>1. Follows(w, w')
    BY <1>1, <1>2, NextStep
  <2> QED BY <2>1, NilAssumption, Constants DEF Follows
<1>4. /\ now' \in Nat
      /\ now' >= now + d /\ 10 * now' <= 10 * now + 11 * d
  <2>1. PICK j \in Jitter : now' = now + d + (d \div 10) * j
    BY <1>3 DEF Sleep
  <2>2. j = 0 \/ j = 1
    BY TimeAssumption
  <2>3. now \in Nat
    BY DEF IInv, Typed
  <2>4. PICK q \in Nat : q = d \div 10
    BY <1>1, <1>3
  <2> QED BY <1>1, <1>3, <2>1, <2>2, <2>3, <2>4
<1>5. faults' \in Nat /\ (faults' = 0 => faults = 0 /\ ~Queryable(m))
  BY FaultCounts DEF IInv, Typed, Sleep, NotYet
<1>6. Typed'
  BY <1>1, <1>3, <1>4, <1>5 DEF IInv, Typed
<1>7. Waits'
  BY <1>1, <1>3, <1>5 DEF IInv, Waits
<1>8. Budget'
  <2>1. created' = created /\ created \in Nat
    BY <1>1 DEF IInv, Typed
  <2>2. 10 * now + 11 * (5120 - d) <= 10 * created * Bound
    BY <1>1 DEF IInv, Budget
  <2>3. now \in Nat
    BY DEF IInv, Typed
  <2>4. 10 * now' + 11 * (5120 - 2 * d) <= 10 * created * Bound
    BY <1>1, <1>4, <2>2, <2>3, <2>1 DEF Bound
  <2>5. now' <= created * Bound
    BY <1>1, <1>3, <1>4, <2>3, <2>4, <2>1 DEF Bound
  <2> QED BY <1>3, <2>1, <2>4, <2>5 DEF Budget
<1>9. Elapsed'
  <2> SUFFICES ASSUME faults' = 0 PROVE Elapsed'
    BY DEF Elapsed
  <2>1. /\ now \in Nat /\ born[m] \in Nat /\ delay[m] \in Nat
        /\ born[m] # Nil
    BY <1>1, <1>5 DEF IInv, Typed, Waits
  <2>2. now - born[m] >= d - 10
    BY <1>1, <1>5 DEF IInv, Elapsed
  <2>3. now < born[m] + delay[m]
    BY <1>5, <2>1 DEF Queryable
  <2>4. CASE w'.steps = 0
    <3>1. d = 2560
      BY <1>3, <2>4 DEF Schedule
    <3>2. delay[m] > 2550
      BY <2>1, <2>2, <2>3, <3>1
    <3> QED BY <1>1, <1>3, <2>4, <3>2 DEF Elapsed
  <2>5. CASE w'.steps # 0
    <3>1. w'.duration = 2 * d
      BY <1>3, <2>5
    <3>2. /\ now' - born[m] >= 2 * d - 10
          /\ 10 * (now' - born[m]) <= 21 * delay[m] + 110
      BY <1>1, <1>4, <2>1, <2>2, <2>3
    <3> QED BY <1>1, <1>3, <2>5, <3>1, <3>2 DEF Elapsed
  <2> QED BY <2>4, <2>5
<1>10. GivenUpLate'
  <2>1. \A n \in Machine : Abandoned(n)' => Abandoned(n)
    BY <1>1, <1>3 DEF Abandoned
  <2> QED BY <1>1, <1>5, <2>1 DEF IInv, GivenUpLate
<1> QED BY <1>6, <1>7, <1>8, <1>9, <1>10 DEF IInv

LEMMA Unmoved ==
  ASSUME IInv, UNCHANGED vars PROVE IInv'
  BY DEF IInv, vars, Typed, Waits, Budget, Elapsed, GivenUpLate,
         Abandoned

LEMMA NextSound == IInv /\ [Next]_vars => IInv'
  BY CreateSound, UpdateSound, VanishesSound, TagSound, SleepSound, GiveUpSound,
     TagFailsSound, Unmoved DEF Next, Rest

LEMMA Invariance == Spec => []IInv
  BY InitSound, NextSound, PTL DEF Spec

-----------------------------------------------------------------------------

\* With any number of machines, the worker is held for nine and a half minutes
\* per server that is created at most, however many calls fail and however many
\* servers vanish before their machine is linked.
THEOREM HeldOnce == Spec => []HoldsOncePerServer
<1>1. IInv => HoldsOncePerServer
  BY DEF IInv, Typed, Budget, Bound, HoldsOncePerServer, Second
<1> QED BY <1>1, Invariance, PTL

\* Whatever the delays are, Create gives up on late volumes only.
THEOREM Timely == Spec => []TimelyIsTagged
<1>1. IInv => TimelyIsTagged
  BY DEF IInv, GivenUpLate, Abandoned, TimelyIsTagged, Second
<1> QED BY <1>1, Invariance, PTL

\* Whatever the delays are, a volume is tagged at about twice its delay.
THEOREM Soon == Spec => NoticedSoon
<1> DEFINE A == \A m \in Machine :
                  w # Nil /\ w.machine = m /\ m \in tagged' /\ faults = 0 =>
                    10 * (now - born[m]) <= 21 * delay[m] + 11 * Second
<1>1. IInv /\ [Next]_vars => [A]_vars
  <2> SUFFICES ASSUME IInv, Next, NEW m \in Machine,
                      w # Nil, w.machine = m, m \in tagged', faults = 0
               PROVE  10 * (now - born[m]) <= 21 * delay[m] + 110
    BY DEF Second
  <2>1. m \notin tagged
    BY DEF IInv, Waits
  <2>0. \A n \in Machine : ~Update(n)
    BY DEF Update, Pending
  <2>2. Tag
    BY <2>1, <2>0 DEF Next, Create, Update, Vanishes, Sleep, GiveUp, TagFails, Rest,
                     vars
  <2>3. w.steps > 0 /\ w.steps # 0
    BY <2>2 DEF Tag
  <2> QED BY <2>3 DEF IInv, Elapsed
<1> QED BY <1>1, Invariance, PTL DEF Spec, NoticedSoon
=============================================================================
