------------------------ MODULE TimerSchedulerProofs ------------------------
(***************************************************************************)
(* The safety of TimerScheduler for any capacity, any number of timers,    *)
(* any delays and any length of time.                                      *)
(***************************************************************************)
EXTENDS TimerScheduler, FiniteSetTheorems, WellFoundedInduction, TLAPS

(* The types of everything but the flags.                                  *)
Types ==
    /\ now \in 0..MaxTime
    /\ next_id_ \in 1..(MaxIds + 1)
    /\ state \in [Ids -> {"NONE", "PENDING", "RUNNING", "CANCELLED"}]
    /\ mode \in [Ids -> {"ONE_SHOT", "FIXED_DELAY", "FIXED_RATE"}]
    /\ period \in [Ids -> Nat]
    /\ next_fire \in [Ids -> Nat]
    /\ loop \in {"none", "top", "waiting", "woken", "exec", "exited"}
    /\ deadline \in Nat
    /\ batch \subseteq Ids
    /\ to_run \subseteq batch
    /\ current \in Ids \cup {0}
    /\ threw \subseteq batch
    /\ created \in [Ids -> Nat]
    /\ fired \in [Ids -> Nat]
    /\ cancelled \subseteq Ids

Flags ==
    /\ running_ \in BOOLEAN
    /\ reschedule_needed_ \in BOOLEAN
    /\ thread_ \in BOOLEAN
    /\ joining \in BOOLEAN

Capacity == Cardinality(Entries) <= kMaxTimers

(* A scheduler thread is held by the object or being joined.               *)
LoopIsHeld == loop # "none" => thread_ \/ joining

(* Ids that were not handed out are unused.                                *)
FreshIds ==
    \A id \in Ids : id >= next_id_ => state[id] = "NONE" /\ id \notin cancelled

(* The callback that runs is one of the batch, and no longer in to_run.    *)
CurrentInBatch == current # 0 => current \in batch /\ current \notin to_run

(* The callback of id has yet to begin for its present deadline.           *)
Awaits(id) == state[id] = "PENDING" \/ id \in to_run

(* An entry that is gone has left nothing behind; one that is there has a  *)
(* positive period, its age a period for every callback that has begun,    *)
(* and its deadline one more while the next one has yet to begin.          *)
Paced(id) ==
    /\ created[id] + fired[id] * period[id] <= now
    /\ state[id] = "NONE" => fired[id] = 0 /\ period[id] = 0
    /\ state[id] # "NONE" =>
          /\ period[id] > 0
          /\ Awaits(id) =>
                created[id] + fired[id] * period[id] + period[id]
                    <= next_fire[id]
          /\ ~Awaits(id) =>
                created[id] + fired[id] * period[id] <= next_fire[id]
          /\ mode[id] = "ONE_SHOT" =>
                fired[id] = IF Awaits(id) THEN 0 ELSE 1
    /\ id \in batch => next_fire[id] <= now

Pacing == \A id \in Ids : Paced(id)

Inv ==
    /\ Types
    /\ Flags
    /\ Capacity
    /\ LoopIsHeld
    /\ FreshIds
    /\ CurrentInBatch
    /\ BatchOwnsActive
    /\ CancelIsFinal
    /\ Pacing

-----------------------------------------------------------------------------
(* Every nonempty set of naturals has a least element, which Least finds.  *)
LEMMA LeastOf ==
    ASSUME NEW S \in SUBSET Nat, S # {}
    PROVE  Least(S) \in S /\ \A y \in S : Least(S) <= y
<1> DEFINE Below(x) == {y \in S : y <= x}
           T == {Below(x) : x \in S}
           R == StrictSubsetOrdering(Nat)
<1>1. T \subseteq FiniteSubsetsOf(Nat) /\ T # {}
  <2>1. ASSUME NEW x \in S PROVE Below(x) \in SUBSET Nat /\ IsFiniteSet(Below(x))
    BY FS_BoundedSetOfNaturals
  <2> QED
    BY <2>1 DEF FiniteSubsetsOf
<1>2. PICK B \in T : \A C \in T : ~(<<C, B>> \in R)
  BY <1>1, FS_StrictSubsetOrderingWellFounded, WFMin
<1>3. PICK x \in S : B = Below(x)
  OBVIOUS
<1>4. ASSUME NEW y \in S, ~(x <= y) PROVE FALSE
  <2>0. x \in Nat /\ y \in Nat /\ y < x
    BY <1>4
  <2>1. /\ \A z \in S : z <= y => z <= x
        /\ x <= x /\ ~(x <= y)
    <3>1. \A z \in Nat : z <= y => z <= x
      BY <2>0
    <3> QED
      BY <2>0, <3>1
  <2>3. Below(y) \subseteq Below(x) /\ x \notin Below(y) /\ x \in Below(x)
    BY <2>1, Zenon
  <2>2. <<Below(y), Below(x)>> \in R
    BY <2>3 DEF StrictSubsetOrdering
  <2> QED
    BY <1>2, <1>3, <2>2
<1>5. \E z \in S : \A y \in S : z <= y
  BY <1>4
<1> QED
  BY <1>5 DEF Least

(* k periods, and one more.                                                *)
LEMMA OneMorePeriod ==
    ASSUME NEW k \in Nat, NEW p \in Nat
    PROVE  k * p \in Nat /\ (k + 1) * p = k * p + p /\ 0 * p = 0
  OBVIOUS

(* Sets of ids are finite.                                                 *)
LEMMA EntriesFinite ==
    ASSUME NEW S \in SUBSET Ids
    PROVE  IsFiniteSet(S) /\ Cardinality(S) \in Nat
<1>1. IsFiniteSet(Ids)
  BY FS_Interval, TimerAssumption DEF Ids
<1> QED
  BY <1>1, FS_Subset, FS_CardinalityType

(* Init establishes the invariant.                                         *)
LEMMA InitInv == Init => Inv
<1> SUFFICES ASSUME Init PROVE Inv
  OBVIOUS
<1> USE TimerAssumption DEF Init, Ids
<1>1. Types
  BY DEF Types
<1>2. Flags
  BY Zenon DEF Flags
<1>3. Capacity
  <2>1. Entries = {}
    BY DEF Entries, In
  <2> QED
    BY <2>1, FS_EmptySet DEF Capacity
<1>4. LoopIsHeld /\ FreshIds /\ CurrentInBatch /\ BatchOwnsActive /\ CancelIsFinal
  BY DEF LoopIsHeld, FreshIds, CurrentInBatch, BatchOwnsActive, CancelIsFinal, In
<1>5. Pacing
  BY DEF Pacing, Paced
<1> QED
  BY <1>1, <1>2, <1>3, <1>4, <1>5 DEF Inv

(* A step that leaves the timers and the batch alone, and the loop outside *)
(* of a batch in progress.                                                 *)
LEMMA QuietInv ==
    ASSUME Inv, Flags',
           loop' \in {"none", "top", "waiting", "woken", "exec", "exited"},
           loop = "exec" => loop' = "exec",
           LoopIsHeld',
           deadline' \in Nat,
           now' \in 0..MaxTime, now <= now',
           UNCHANGED <<clients, work>>
    PROVE  Inv'
<1> USE DEF clients, work
<1>1. Types'
  BY DEF Inv, Types
<1>2. Capacity'
  BY DEF Inv, Capacity, Entries, In
<1>3. FreshIds' /\ CurrentInBatch' /\ CancelIsFinal'
  BY DEF Inv, FreshIds, CurrentInBatch, CancelIsFinal
<1>4. BatchOwnsActive'
  BY DEF Inv, BatchOwnsActive, In
<1>5. Pacing'
  BY TimerAssumption DEF Inv, Types, Pacing, Paced, Awaits
<1> QED
  BY <1>1, <1>2, <1>3, <1>4, <1>5 DEF Inv

(* The flags.                                                              *)
LEMMA FlagsInv == Inv /\ Next => Flags'
<1> SUFFICES ASSUME Inv, Next PROVE Flags'
  OBVIOUS
<1>1. running_' \in {running_, TRUE, FALSE}
  BY DEF Next, Start, Stop, Join, JoinReturns, ScheduleOneShot,
         SchedulePeriodic, Arm, Cancel, LoopTop, LoopWakes, WaitInterrupted,
         BeginCallback, EndCallback, Reconcile, Tick
<1>2. reschedule_needed_' \in {reschedule_needed_, TRUE, FALSE}
  BY DEF Next, Start, Stop, Join, JoinReturns, ScheduleOneShot,
         SchedulePeriodic, Arm, Cancel, CancelPending, CancelRunning, LoopTop,
         LoopWakes, WaitInterrupted, AfterWait, Park, BeginCallback,
         EndCallback, Reconcile, Tick
<1>3. thread_' \in {thread_, TRUE, FALSE} /\ joining' \in {joining, TRUE, FALSE}
  BY DEF Next, Start, Stop, Join, JoinReturns, ScheduleOneShot,
         SchedulePeriodic, Arm, Cancel, LoopTop, LoopWakes, WaitInterrupted,
         BeginCallback, EndCallback, Reconcile, Tick
<1> QED
  BY <1>1, <1>2, <1>3, Zenon DEF Inv, Flags

(* Start, Stop, Join and its return, a wakeup and a tick of the clock.     *)
LEMMA LifecycleInv ==
    ASSUME Inv, Flags',
           Start \/ Stop \/ Join \/ JoinReturns \/ WaitInterrupted \/ Tick
    PROVE  Inv'
<1> USE DEF Inv, Types, LoopIsHeld
<1>1. CASE Start
  <2>1. loop = "none"
    BY <1>1 DEF Start
  <2> QED
    BY <1>1, <2>1, QuietInv DEF Start
<1>2. CASE Stop
  BY <1>2, QuietInv DEF Stop, Notified
<1>3. CASE Join
  BY <1>3, QuietInv DEF Join
<1>4. CASE JoinReturns
  BY <1>4, QuietInv DEF JoinReturns
<1>5. CASE WaitInterrupted
  BY <1>5, QuietInv DEF WaitInterrupted
<1>6. CASE Tick
  BY <1>6, QuietInv, TimerAssumption DEF Tick
<1> QED
  BY <1>1, <1>2, <1>3, <1>4, <1>5, <1>6

(* A new timer takes an id that was never used.                            *)
LEMMA ArmInv ==
    ASSUME Inv, Flags', NEW m \in {"ONE_SHOT", "FIXED_DELAY", "FIXED_RATE"},
           NEW d \in Periods, Arm(m, d)
    PROVE  Inv'
<1> DEFINE n == next_id_
<1> USE TimerAssumption DEF work
<1>1. n \in Ids /\ d \in Nat /\ d > 0 /\ now \in Nat
  BY DEF Arm, Inv, Types
<1>2. state[n] = "NONE" /\ n \notin cancelled /\ fired[n] = 0 /\ n \notin batch
  <2>1. state[n] = "NONE" /\ n \notin cancelled
    BY <1>1 DEF Inv, Types, FreshIds, Ids
  <2> QED
    BY <1>1, <2>1 DEF Inv, Types, BatchOwnsActive, In, Pacing, Paced
<1>3. Types'
  <2>1. /\ next_id_' \in 1..(MaxIds + 1)
        /\ loop' \in {"none", "top", "waiting", "woken", "exec", "exited"}
    BY <1>1 DEF Inv, Types, Arm, Ids, Notified
  <2>2. /\ period' \in [Ids -> Nat]
        /\ next_fire' \in [Ids -> Nat]
        /\ created' \in [Ids -> Nat]
    BY <1>1 DEF Inv, Types, Arm
  <2>3. /\ state' \in [Ids -> {"NONE", "PENDING", "RUNNING", "CANCELLED"}]
        /\ mode' \in [Ids -> {"ONE_SHOT", "FIXED_DELAY", "FIXED_RATE"}]
    BY <1>1 DEF Inv, Types, Arm
  <2> QED
    BY <2>1, <2>2, <2>3 DEF Inv, Types, Arm
<1>4. Capacity'
  <2>1. Entries' = Entries \cup {n}
    BY <1>1 DEF Inv, Types, Arm, Entries, In
  <2>2. Entries \in SUBSET Ids
    BY DEF Entries, In
  <2> QED
    BY <2>1, <2>2, FS_AddElement, EntriesFinite DEF Arm, CapacityLeft, Capacity
<1>5. LoopIsHeld' /\ CurrentInBatch'
  BY DEF Inv, LoopIsHeld, CurrentInBatch, Arm, Notified
<1>6. FreshIds'
  BY <1>1 DEF Inv, Types, FreshIds, Arm, Ids
<1>7. BatchOwnsActive'
  BY <1>1, <1>2 DEF Inv, Types, BatchOwnsActive, In, Arm, Notified
<1>8. CancelIsFinal'
  BY <1>1, <1>2 DEF Inv, Types, CancelIsFinal, Arm
<1>9. Pacing'
  <2> SUFFICES ASSUME NEW id \in Ids PROVE Paced(id)'
    BY DEF Pacing
  <2>1. CASE id = n
    <3>1. /\ state'[id] = "PENDING" /\ period'[id] = d /\ created'[id] = now
          /\ next_fire'[id] = now + d /\ fired'[id] = 0 /\ now' = now
          /\ id \notin batch'
      BY <1>1, <1>2, <2>1 DEF Inv, Types, Arm
    <3>2. fired'[id] * period'[id] = 0
      BY <3>1, <1>1, OneMorePeriod
    <3> QED
      BY <1>1, <3>1, <3>2 DEF Paced, Awaits
  <2>2. CASE id # n
    <3>1. /\ state'[id] = state[id] /\ mode'[id] = mode[id]
          /\ period'[id] = period[id] /\ created'[id] = created[id]
          /\ next_fire'[id] = next_fire[id]
          /\ UNCHANGED <<fired, now, batch, to_run>>
      BY <2>2 DEF Inv, Types, Arm
    <3> QED
      BY <3>1 DEF Inv, Pacing, Paced, Awaits
  <2> QED
    BY <2>1, <2>2
<1> QED
  BY <1>3, <1>4, <1>5, <1>6, <1>7, <1>8, <1>9 DEF Inv

(* Cancel erases a PENDING entry and marks a RUNNING one.                  *)
LEMMA CancelInv ==
    ASSUME Inv, Flags', NEW id \in Ids, Cancel(id)
    PROVE  Inv'
<1>1. CASE CancelPending(id)
  <2> USE <1>1 DEF Cancel, CancelPending, Forget
  <2>1. Types'
    BY DEF Inv, Types, Notified
  <2>2. id \notin batch
    BY DEF Inv, BatchOwnsActive, In
  <2>3. Capacity'
    <3>1. Entries' \in SUBSET Entries /\ Entries \in SUBSET Ids
      BY DEF Inv, Types, Entries, In
    <3>2. Cardinality(Entries') <= Cardinality(Entries)
      BY <3>1, EntriesFinite, FS_Subset
    <3>3. Cardinality(Entries') \in Nat /\ Cardinality(Entries) \in Nat
      BY <3>1, EntriesFinite
    <3> QED
      BY <3>2, <3>3, TimerAssumption DEF Inv, Capacity
  <2>4. LoopIsHeld' /\ CurrentInBatch'
    BY DEF Inv, LoopIsHeld, CurrentInBatch, Notified
  <2>5. FreshIds' /\ CancelIsFinal'
    BY DEF Inv, Types, FreshIds, CancelIsFinal
  <2>6. BatchOwnsActive'
    BY <2>2 DEF Inv, Types, BatchOwnsActive, In, Notified
  <2>7. Pacing'
    <3> SUFFICES ASSUME NEW i \in Ids PROVE Paced(i)'
      BY DEF Pacing
    <3>1. CASE i = id
      <4>1. /\ state'[i] = "NONE" /\ fired'[i] = 0 /\ period'[i] = 0
            /\ created'[i] = 0 /\ now' = now /\ batch' = batch
        BY <3>1 DEF Inv, Types
      <4> QED
        BY <2>2, <3>1, <4>1, TimerAssumption DEF Inv, Types, Paced
    <3>2. CASE i # id
      <4>1. /\ state'[i] = state[i] /\ mode'[i] = mode[i]
            /\ period'[i] = period[i] /\ created'[i] = created[i]
            /\ next_fire'[i] = next_fire[i] /\ fired'[i] = fired[i]
            /\ UNCHANGED <<now, batch, to_run>>
        BY <3>2 DEF Inv, Types
      <4> QED
        BY <4>1 DEF Inv, Pacing, Paced, Awaits
    <3> QED
      BY <3>1, <3>2
  <2> QED
    BY <2>1, <2>3, <2>4, <2>5, <2>6, <2>7 DEF Inv
<1>2. CASE CancelRunning(id)
  <2> USE <1>2 DEF Cancel, CancelRunning
  <2>1. Types'
    BY DEF Inv, Types
  <2>2. Capacity'
    <3>1. Entries' = Entries
      BY DEF Inv, Types, Entries, In
    <3> QED
      BY <3>1 DEF Inv, Capacity
  <2>3. LoopIsHeld' /\ CurrentInBatch'
    BY DEF Inv, LoopIsHeld, CurrentInBatch
  <2>4. FreshIds' /\ CancelIsFinal'
    BY DEF Inv, Types, FreshIds, CancelIsFinal
  <2>5. BatchOwnsActive'
    BY DEF Inv, Types, BatchOwnsActive, In
  <2>6. Pacing'
    BY DEF Inv, Types, Pacing, Paced, Awaits
  <2> QED
    BY <2>1, <2>2, <2>3, <2>4, <2>5, <2>6 DEF Inv
<1> QED
  BY <1>1, <1>2 DEF Cancel

(* Phases 1 to 3: the loop waits or ends, or it collects what is due.      *)
LEMMA LoopInv ==
    ASSUME Inv, Flags', LoopTop \/ LoopWakes
    PROVE  Inv'
<1>1. /\ loop \in {"top", "woken"}
      /\ UNCHANGED <<now, running_, thread_, joining, next_id_, mode, period,
                     next_fire, created, cancelled, current, threw, fired>>
  BY DEF LoopTop, LoopWakes
<1>2. \/ /\ UNCHANGED <<state, to_run, batch>>
         /\ loop' \in {"top", "waiting", "exited"}
         /\ deadline' \in {0, deadline, NextDeadline}
      \/ Collect
  BY DEF LoopTop, LoopWakes, AfterWait, Exit, Park
<1>3. CASE /\ UNCHANGED <<state, to_run, batch>>
           /\ loop' \in {"top", "waiting", "exited"}
           /\ deadline' \in {0, deadline, NextDeadline}
  <2>1. NextDeadline \in Nat
    <3> DEFINE D == {next_fire[id] : id \in In({"PENDING"})}
    <3>1. D \in SUBSET Nat
      BY DEF Inv, Types, In
    <3>2. D # {} => Least(D) \in Nat
      BY <3>1, LeastOf
    <3> QED
      BY <3>2 DEF NextDeadline
  <2>2. deadline' \in Nat
    BY <1>3, <2>1 DEF Inv, Types
  <2>3. LoopIsHeld'
    BY <1>1 DEF Inv, LoopIsHeld
  <2> QED
    BY <1>1, <1>3, <2>2, <2>3, QuietInv, TimerAssumption
       DEF clients, work, Inv, Types
<1>4. CASE Collect
  <2> DEFINE due == {id \in Ids : Due(id)}
  <2>1. /\ state' = [id \in Ids |-> IF id \in due THEN "RUNNING" ELSE state[id]]
        /\ to_run' = due /\ batch' = due /\ loop' = "exec" /\ deadline' = 0
    BY <1>4 DEF Collect
  <2>2. batch = {} /\ to_run = {} /\ threw = {} /\ current = 0
    BY <1>1 DEF Inv, Types, BatchOwnsActive, CurrentInBatch
  <2> HIDE DEF due
  <2>3. due \subseteq Ids /\ \A id \in Ids :
            id \in due <=> state[id] = "PENDING" /\ next_fire[id] <= now
    BY DEF due, Due
  <2>4. Types'
    BY <1>1, <2>1, <2>2, <2>3 DEF Inv, Types
  <2>5. Capacity'
    <3>1. Entries' = Entries
      BY <2>1, <2>3 DEF Inv, Types, Entries, In
    <3> QED
      BY <3>1 DEF Inv, Capacity
  <2>6. LoopIsHeld' /\ CurrentInBatch' /\ FreshIds' /\ CancelIsFinal'
    BY <1>1, <2>1, <2>2, <2>3
       DEF Inv, Types, LoopIsHeld, CurrentInBatch, FreshIds, CancelIsFinal
  <2>7. BatchOwnsActive'
    BY <2>1, <2>2, <2>3 DEF Inv, Types, BatchOwnsActive, In
  <2>8. Pacing'
    <3> SUFFICES ASSUME NEW id \in Ids PROVE Paced(id)'
      BY DEF Pacing
    <3>1. /\ state'[id] = IF id \in due THEN "RUNNING" ELSE state[id]
          /\ Awaits(id)' <=> Awaits(id)
      BY <2>1, <2>2, <2>3 DEF Inv, Types, Awaits
    <3>2. Paced(id)
      BY DEF Inv, Pacing
    <3> QED
      BY <1>1, <2>1, <2>3, <3>1, <3>2 DEF Paced
  <2> QED
    BY <2>4, <2>5, <2>6, <2>7, <2>8 DEF Inv
<1> QED
  BY <1>2, <1>3, <1>4

(* Phase 4: the first of the batch that remains is called.                 *)
LEMMA BeginCallbackInv ==
    ASSUME Inv, Flags', BeginCallback
    PROVE  Inv'
<1> DEFINE c == Least(to_run)
<1> USE DEF clients
<1>1. c \in to_run /\ c \in batch /\ c \in Ids /\ c # 0
  <2>1. to_run \in SUBSET Nat /\ to_run # {}
    BY TimerAssumption DEF Inv, Types, BeginCallback, Ids
  <2>2. c \in to_run
    BY <2>1, LeastOf
  <2> HIDE DEF c
  <2> QED
    BY <2>2 DEF Inv, Types, Ids
<1>2. /\ current' = c /\ to_run' = to_run \ {c}
      /\ fired' = [fired EXCEPT ![c] = fired[c] + 1]
      /\ UNCHANGED <<now, loop, thread_, joining, deadline, clients, batch, threw>>
  BY DEF BeginCallback
<1> HIDE DEF c
<1>3. Types'
  BY <1>1, <1>2 DEF Inv, Types
<1>4. Capacity' /\ LoopIsHeld' /\ FreshIds' /\ CurrentInBatch'
  BY <1>1, <1>2
     DEF Inv, Capacity, Entries, In, LoopIsHeld, FreshIds, CurrentInBatch
<1>5. BatchOwnsActive' /\ CancelIsFinal'
  BY <1>2 DEF Inv, BatchOwnsActive, In, CancelIsFinal
<1>6. Pacing'
  <2> SUFFICES ASSUME NEW id \in Ids PROVE Paced(id)'
    BY DEF Pacing
  <2>1. Paced(id)
    BY DEF Inv, Pacing
  <2>2. CASE id = c
    <3>1. Awaits(id) /\ state[id] \in {"RUNNING", "CANCELLED"} /\ ~Awaits(id)'
      BY <1>1, <1>2, <2>2 DEF Inv, BatchOwnsActive, In, Awaits
    <3>2. fired'[id] = fired[id] + 1
      BY <1>2, <2>2 DEF Inv, Types
    <3>3. /\ fired[id] \in Nat /\ period[id] \in Nat /\ created[id] \in Nat
          /\ fired'[id] * period[id] = fired[id] * period[id] + period[id]
          /\ fired[id] * period[id] \in Nat
      BY <3>2, OneMorePeriod DEF Inv, Types
    <3>4. created[id] + fired'[id] * period[id] <= next_fire[id]
      <4>1. created[id] + fired[id] * period[id] + period[id] <= next_fire[id]
        BY <2>1, <3>1 DEF Paced
      <4>2. ASSUME NEW k \in Nat, NEW p \in Nat, NEW a \in Nat, NEW b,
                   a + k + p <= b
            PROVE  a + (k + p) <= b
        BY <4>2
      <4>3. created[id] + (fired[id] * period[id] + period[id]) <= next_fire[id]
        BY <3>3, <4>1, <4>2
      <4> QED
        BY <3>3, <4>3
    <3>5. created[id] + fired'[id] * period[id] <= now
      <4>1. ASSUME NEW a \in Nat, NEW x \in Nat, NEW y \in Nat, NEW z \in Nat,
                   a + x <= y, y <= z
            PROVE  a + x <= z
        BY <4>1
      <4>2. next_fire[id] \in Nat /\ now \in Nat /\ next_fire[id] <= now
        BY <1>1, <2>1, <2>2, TimerAssumption DEF Inv, Types, Paced
      <4>3. fired'[id] * period[id] \in Nat
        BY <3>3
      <4> QED
        BY <3>3, <3>4, <4>1, <4>2, <4>3
    <3> QED
      BY <1>2, <2>1, <3>1, <3>2, <3>4, <3>5 DEF Paced
  <2>3. CASE id # c
    <3>1. fired'[id] = fired[id] /\ (Awaits(id)' <=> Awaits(id))
      BY <1>2, <2>3 DEF Inv, Types, Awaits
    <3> QED
      BY <1>2, <2>1, <3>1 DEF Paced
  <2> QED
    BY <2>2, <2>3
<1> QED
  BY <1>3, <1>4, <1>5, <1>6 DEF Inv

(* A callback that returned or threw.                                      *)
LEMMA EndCallbackInv ==
    ASSUME Inv, Flags', NEW throws \in BOOLEAN, EndCallback(throws)
    PROVE  Inv'
<1> USE DEF clients, EndCallback
<1>1. Types'
  BY DEF Inv, Types, CurrentInBatch
<1>2. Capacity' /\ LoopIsHeld' /\ FreshIds' /\ CurrentInBatch'
  BY DEF Inv, Capacity, Entries, In, LoopIsHeld, FreshIds, CurrentInBatch
<1>3. BatchOwnsActive' /\ CancelIsFinal' /\ Pacing'
  BY DEF Inv, BatchOwnsActive, In, CancelIsFinal, Pacing, Paced, Awaits
<1> QED
  BY <1>1, <1>2, <1>3 DEF Inv

(* A re-armed timer has left a period after its old deadline, and waits    *)
(* for one in the future.                                                  *)
LEMMA RearmedLater ==
    ASSUME Inv, NEW id \in batch, Reconcile, Rearms(id)
    PROVE  /\ RearmedDeadline(id) \in Nat
           /\ RearmedDeadline(id) > now
           /\ next_fire[id] + period[id] <= RearmedDeadline(id)
<1>1. /\ id \in Ids /\ period[id] \in Nat /\ next_fire[id] \in Nat /\ now \in Nat
      /\ period[id] > 0 /\ next_fire[id] <= now
  <2>1. /\ id \in Ids /\ state[id] # "NONE" /\ Paced(id)
        /\ period[id] \in Nat /\ next_fire[id] \in Nat /\ now \in Nat
    BY TimerAssumption DEF Inv, Types, Pacing, BatchOwnsActive, In
  <2> QED
    BY <2>1 DEF Paced
<1> QED
  BY <1>1 DEF RearmedDeadline

(* Phase 5: what was not cancelled, did not throw and is periodic is armed *)
(* again; the rest of the batch is erased.                                 *)
LEMMA ReconcileInv ==
    ASSUME Inv, Flags', Reconcile
    PROVE  Inv'
<1>1. /\ to_run = {} /\ to_run' = {} /\ current' = 0 /\ batch' = {} /\ threw' = {}
      /\ loop = "exec" /\ loop' = "top"
      /\ UNCHANGED <<now, thread_, joining, deadline, next_id_, cancelled>>
  BY DEF Inv, Reconcile
<1>2. ASSUME NEW id \in Ids, id \notin batch
      PROVE  /\ state'[id] = state[id] /\ mode'[id] = mode[id]
             /\ period'[id] = period[id] /\ created'[id] = created[id]
             /\ next_fire'[id] = next_fire[id] /\ fired'[id] = fired[id]
  BY <1>2 DEF Inv, Types, Reconcile, Forget
<1>3. ASSUME NEW id \in batch, Rearms(id)
      PROVE  /\ id \in Ids /\ state'[id] = "PENDING" /\ mode'[id] = mode[id]
             /\ period'[id] = period[id] /\ created'[id] = created[id]
             /\ next_fire'[id] = RearmedDeadline(id) /\ fired'[id] = fired[id]
             /\ state[id] = "RUNNING" /\ mode[id] # "ONE_SHOT"
  <2>1. id \in Ids /\ state[id] = "RUNNING"
    BY <1>3 DEF Inv, Types, BatchOwnsActive, In, Rearms
  <2> QED
    BY <1>3, <2>1 DEF Inv, Types, Reconcile, Forget, Rearms
<1>4. ASSUME NEW id \in batch, ~Rearms(id)
      PROVE  /\ id \in Ids /\ state'[id] = "NONE" /\ mode'[id] = "ONE_SHOT"
             /\ period'[id] = 0 /\ created'[id] = 0
             /\ next_fire'[id] = 0 /\ fired'[id] = 0
             /\ state[id] # "PENDING"
  <2>1. id \in Ids /\ state[id] # "PENDING"
    BY <1>4 DEF Inv, Types, BatchOwnsActive, In
  <2> QED
    BY <1>4, <2>1 DEF Inv, Types, Reconcile, Forget, Erased
<1>5. Types'
  <2>1. state' \in [Ids -> {"NONE", "PENDING", "RUNNING", "CANCELLED"}]
    BY DEF Inv, Types, Reconcile, Erased
  <2>2. mode' \in [Ids -> {"ONE_SHOT", "FIXED_DELAY", "FIXED_RATE"}]
    BY DEF Inv, Types, Reconcile, Forget
  <2>3. /\ period' \in [Ids -> Nat] /\ created' \in [Ids -> Nat]
        /\ fired' \in [Ids -> Nat]
    BY DEF Inv, Types, Reconcile, Forget
  <2>4. next_fire' \in [Ids -> Nat]
    <3>1. \A id \in batch : Rearms(id) => RearmedDeadline(id) \in Nat
      BY RearmedLater
    <3> QED
      BY <3>1 DEF Inv, Types, Reconcile
  <2> QED
    BY <1>1, <2>1, <2>2, <2>3, <2>4 DEF Inv, Types
<1>6. Capacity'
  <2>1. Entries' \in SUBSET Entries /\ Entries \in SUBSET Ids
    BY <1>2, <1>3, <1>4 DEF Entries, In
  <2>2. Cardinality(Entries') <= Cardinality(Entries)
    BY <2>1, EntriesFinite, FS_Subset
  <2>3. Cardinality(Entries') \in Nat /\ Cardinality(Entries) \in Nat
    BY <2>1, EntriesFinite
  <2> QED
    BY <2>2, <2>3, TimerAssumption DEF Inv, Capacity
<1>7. LoopIsHeld' /\ CurrentInBatch'
  BY <1>1 DEF Inv, LoopIsHeld, CurrentInBatch
<1>8. FreshIds'
  <2> SUFFICES ASSUME NEW id \in Ids, id >= next_id_
               PROVE  state'[id] = "NONE" /\ id \notin cancelled
    BY <1>1 DEF FreshIds
  <2>1. state[id] = "NONE" /\ id \notin cancelled
    BY DEF Inv, FreshIds
  <2> QED
    BY <1>2, <1>3, <1>4, <2>1
<1>9. BatchOwnsActive'
  <2>1. \A id \in Ids : state'[id] \notin {"RUNNING", "CANCELLED"}
    <3> SUFFICES ASSUME NEW id \in Ids PROVE state'[id] \notin {"RUNNING", "CANCELLED"}
      OBVIOUS
    <3>1. CASE id \in batch
      BY <1>3, <1>4, <3>1
    <3>2. CASE id \notin batch
      BY <1>2, <3>2 DEF Inv, BatchOwnsActive, In
    <3> QED
      BY <3>1, <3>2
  <2> QED
    BY <1>1, <2>1 DEF BatchOwnsActive, In
<1>10. CancelIsFinal'
  <2> SUFFICES ASSUME NEW id \in cancelled PROVE state'[id] \in {"NONE", "CANCELLED"}
    BY <1>1 DEF CancelIsFinal
  <2>1. id \in Ids /\ state[id] \in {"NONE", "CANCELLED"}
    BY DEF Inv, Types, CancelIsFinal
  <2> QED
    BY <1>2, <1>3, <1>4, <2>1
<1>11. Pacing'
  <2> SUFFICES ASSUME NEW id \in Ids PROVE Paced(id)'
    BY DEF Pacing
  <2>1. Paced(id)
    BY DEF Inv, Pacing
  <2>2. CASE id \notin batch
    BY <1>1, <1>2, <2>1, <2>2 DEF Paced, Awaits
  <2>3. CASE id \in batch /\ ~Rearms(id)
    BY <1>1, <1>4, <2>3, TimerAssumption DEF Inv, Types, Paced
  <2>4. CASE id \in batch /\ Rearms(id)
    <3>1. /\ state[id] = "RUNNING" /\ ~Awaits(id) /\ Awaits(id)'
          /\ state'[id] = "PENDING" /\ mode'[id] # "ONE_SHOT" /\ id \notin batch'
      BY <1>1, <1>3, <2>4 DEF Awaits
    <3>2. /\ created[id] \in Nat /\ period[id] \in Nat /\ next_fire[id] \in Nat
          /\ fired[id] * period[id] \in Nat
      BY OneMorePeriod DEF Inv, Types
    <3>3. created[id] + fired[id] * period[id] <= next_fire[id]
      BY <2>1, <3>1 DEF Paced
    <3>4. ASSUME NEW a \in Nat, NEW b \in Nat, NEW p \in Nat, NEW m \in Nat,
                 NEW n \in Nat, a + b <= m, m + p <= n
          PROVE  a + b + p <= n
      BY <3>4
    <3>5. created[id] + fired[id] * period[id] + period[id] <= RearmedDeadline(id)
      BY <2>4, <3>2, <3>3, <3>4, RearmedLater
    <3> QED
      BY <1>1, <1>3, <2>1, <2>4, <3>1, <3>5 DEF Paced
  <2> QED
    BY <2>2, <2>3, <2>4
<1> QED
  BY <1>5, <1>6, <1>7, <1>8, <1>9, <1>10, <1>11 DEF Inv

(* Every step preserves the invariant.                                     *)
LEMMA NextInv == Inv /\ [Next]_vars => Inv'
<1> SUFFICES ASSUME Inv, [Next]_vars PROVE Inv'
  OBVIOUS
<1>1. CASE UNCHANGED vars
  <2>1. Flags' /\ LoopIsHeld'
    BY <1>1, Zenon DEF Inv, Flags, LoopIsHeld, vars
  <2> QED
    BY <1>1, <2>1, QuietInv, TimerAssumption DEF vars, Inv, Types
<1>2. CASE Next
  <2>1. Flags'
    BY <1>2, FlagsInv
  <2> QED
    BY <1>2, <2>1, LifecycleInv, ArmInv, CancelInv, LoopInv, BeginCallbackInv,
       EndCallbackInv, ReconcileInv
       DEF Next, ScheduleOneShot, SchedulePeriodic
<1> QED
  BY <1>1, <1>2

(* The invariant holds in every reachable state.                           *)
LEMMA Invariance == Spec => []Inv
  BY InitInv, NextInv, PTL DEF Spec

-----------------------------------------------------------------------------
(* All state of the scheduler has its type, and the vector of timers never *)
(* outgrows its capacity.                                                  *)
THEOREM TypeCorrect == Spec => []TypeOK
<1>1. Inv => TypeOK
  BY DEF Inv, Types, Flags, Capacity, TypeOK
<1> QED
  BY <1>1, Invariance, PTL

(* No entry is left behind RUNNING or CANCELLED outside of the batch in    *)
(* progress, however Cancel, Stop and exceptions fall between the phases.  *)
THEOREM NoEntryIsStuck == Spec => []BatchOwnsActive
<1>1. Inv => BatchOwnsActive
  BY DEF Inv
<1> QED
  BY <1>1, Invariance, PTL

(* A timer whose Cancel succeeded is never armed again.                    *)
THEOREM CancelledForGood == Spec => []CancelIsFinal
<1>1. Inv => CancelIsFinal
  BY DEF Inv
<1> QED
  BY <1>1, Invariance, PTL

(* No timer fires early, twice if it is a one-shot, or in a burst after a  *)
(* slow callback.                                                          *)
THEOREM TimersArePaced == Spec => NoBurst
<1>1. Inv => \A id \in Ids :
                /\ fired[id] * period[id] <= now - created[id]
                /\ mode[id] = "ONE_SHOT" => fired[id] <= 1
  <2> SUFFICES ASSUME Inv, NEW id \in Ids
               PROVE  /\ fired[id] * period[id] <= now - created[id]
                      /\ mode[id] = "ONE_SHOT" => fired[id] <= 1
    OBVIOUS
  <2>1. /\ Paced(id) /\ now \in Nat /\ fired[id] * period[id] \in Nat
        /\ created[id] \in Nat /\ next_fire[id] \in Nat /\ period[id] \in Nat
        /\ fired[id] \in Nat
    BY OneMorePeriod, TimerAssumption DEF Inv, Types, Pacing
  <2>2. created[id] + fired[id] * period[id] <= now
    BY <2>1 DEF Paced
  <2>3. ASSUME NEW a \in Nat, NEW b \in Nat, NEW n \in Nat, a + b <= n
        PROVE  b <= n - a
    BY <2>3
  <2>4. mode[id] = "ONE_SHOT" => fired[id] <= 1
    BY <2>1 DEF Paced
  <2> QED
    BY <2>1, <2>2, <2>3, <2>4
<1>2. Inv /\ [Next]_vars =>
          [\A id \in Ids : (state[id] = "RUNNING" /\ state'[id] = "PENDING")
              => next_fire'[id] > now]_vars
  <2> SUFFICES ASSUME Inv, [Next]_vars, ~(UNCHANGED vars), NEW id \in Ids,
                      state[id] = "RUNNING", state'[id] = "PENDING"
               PROVE  next_fire'[id] > now
    OBVIOUS
  <2>1. Next
    OBVIOUS
  <2>2. Reconcile
    <3>1. ASSUME NEW m, NEW d, Arm(m, d) PROVE FALSE
      <4>1. next_id_ \in Ids /\ id = next_id_
        BY <3>1 DEF Inv, Types, Arm
      <4> QED
        BY <4>1 DEF Inv, Types, FreshIds
    <3>2. ASSUME NEW i \in Ids, Cancel(i) PROVE FALSE
      BY <3>2 DEF Inv, Types, Cancel, CancelPending, CancelRunning
    <3>3. ASSUME LoopTop \/ LoopWakes PROVE FALSE
      <4>1. state' = state \/ Collect
        BY <3>3 DEF LoopTop, LoopWakes, AfterWait, Exit, Park
      <4> QED
        BY <4>1 DEF Collect
    <3> QED
      BY <2>1, <3>1, <3>2, <3>3
         DEF Next, Start, Stop, Join, JoinReturns, ScheduleOneShot,
             SchedulePeriodic, WaitInterrupted, BeginCallback, EndCallback,
             Tick, clients
  <2>3. id \in batch /\ Rearms(id)
    BY <2>2 DEF Inv, Types, Reconcile, BatchOwnsActive, In, Erased
  <2>4. next_fire'[id] = RearmedDeadline(id)
    BY <2>2, <2>3 DEF Reconcile
  <2> QED
    BY <2>2, <2>3, <2>4, RearmedLater
<1> QED
  BY <1>1, <1>2, Invariance, PTL DEF NoBurst, Spec
=============================================================================
