--------------------------- MODULE TimerScheduler ---------------------------
(***************************************************************************)
(* TimerScheduler (framework/timer): one scheduler thread that runs the    *)
(* callbacks of one-shot and periodic timers, and any number of client     *)
(* threads (and callbacks) that schedule and cancel.                       *)
(*                                                                         *)
(* Everything happens under the mutex except the wait on the condition     *)
(* variable and the callbacks of phase 4, so those are where the other     *)
(* threads' calls interleave.  An owner calls Start, Stop and Join; it     *)
(* joins a stopped scheduler before it starts it again.                    *)
(***************************************************************************)
EXTENDS Integers, FiniteSets

CONSTANTS kMaxTimers,  \* capacity of timers_
          MaxIds,      \* bound on the number of timers ever created
          MaxTime,     \* bound on the clock
          Periods      \* delays and periods that clients ask for

ASSUME TimerAssumption ==
    /\ kMaxTimers \in Nat \ {0}
    /\ MaxIds \in Nat
    /\ MaxTime \in Nat
    /\ Periods \subseteq Nat \ {0}

VARIABLES now,          \* steady_clock
          running_,
          reschedule_needed_,
          next_id_,
          state,        \* TimerState of each id; NONE: not in timers_
          mode,         \* TimerMode and PeriodMode of each id
          period,       \* its delay or period
          next_fire,    \* its deadline
          thread_,      \* is the std::thread joinable?
          joining,      \* is the owner inside Join?
          loop,         \* where the scheduler thread is
          deadline,     \* what it waits for; 0: no deadline
          to_run,       \* ids of the batch whose callback has not begun
          batch,        \* all ids of the batch
          current,      \* id whose callback runs, 0 if none
          threw,        \* ids of the batch whose callback threw
          created,      \* history: when each timer was scheduled
          fired,        \* history: how often its callback began
          cancelled     \* history: ids whose Cancel returned SUCCESS

clients == <<next_id_, state, mode, period, next_fire, created, cancelled>>
work == <<to_run, batch, current, threw, fired>>
vars == <<now, running_, reschedule_needed_, thread_, joining, loop, deadline,
          clients, work>>

Ids == 1..MaxIds

In(s) == {id \in Ids : state[id] \in s}

Least(S) == CHOOSE x \in S : \A y \in S : x <= y

(* timers_: what the vector holds, in any state.                           *)
Entries == In({"PENDING", "RUNNING", "CANCELLED"})

(* The ids of S leave the vector, and with them the members of the entries *)
(* and the history kept of them.                                           *)
Forget(S) ==
    LET Cleared(f, v) == [id \in Ids |-> IF id \in S THEN v ELSE f[id]]
    IN  /\ mode' = Cleared(mode, "ONE_SHOT")
        /\ period' = Cleared(period, 0)
        /\ created' = Cleared(created, 0)
        /\ fired' = Cleared(fired, 0)

Init ==
    /\ now = 0
    /\ running_ = FALSE
    /\ reschedule_needed_ = FALSE
    /\ next_id_ = 1
    /\ state = [id \in Ids |-> "NONE"]
    /\ mode = [id \in Ids |-> "ONE_SHOT"]
    /\ period = [id \in Ids |-> 0]
    /\ next_fire = [id \in Ids |-> 0]
    /\ thread_ = FALSE
    /\ joining = FALSE
    /\ loop = "none"
    /\ deadline = 0
    /\ to_run = {}
    /\ batch = {}
    /\ current = 0
    /\ threw = {}
    /\ created = [id \in Ids |-> 0]
    /\ fired = [id \in Ids |-> 0]
    /\ cancelled = {}

-----------------------------------------------------------------------------
(* Lifecycle.                                                              *)

\* Mutant: no notify_all.
Unnotified == loop

(* cv_.notify_all(): the only waiter is the scheduler thread.              *)
Notified == IF loop = "waiting" THEN "woken" ELSE loop

(* Start; a failed std::thread changes nothing, and while running_ it is   *)
(* an early return.                                                        *)
Start ==
    /\ ~running_
    /\ ~thread_ /\ ~joining
    /\ thread_' = TRUE
    /\ running_' = TRUE
    /\ loop' = "top"
    /\ UNCHANGED <<now, reschedule_needed_, joining, deadline, clients, work>>

Stop ==
    /\ running_
    /\ running_' = FALSE
    /\ loop' = Notified
    /\ UNCHANGED <<now, reschedule_needed_, thread_, joining, deadline, clients, work>>

(* Join moves the thread out under the mutex, then waits for it.           *)
Join ==
    /\ thread_
    /\ thread_' = FALSE
    /\ joining' = TRUE
    /\ UNCHANGED <<now, running_, reschedule_needed_, loop, deadline, clients, work>>

JoinReturns ==
    /\ joining
    /\ loop = "exited"
    /\ joining' = FALSE
    /\ loop' = "none"
    /\ UNCHANGED <<now, running_, reschedule_needed_, thread_, deadline, clients, work>>

-----------------------------------------------------------------------------
(* Clients.                                                                *)

CapacityLeft == Cardinality(Entries) < kMaxTimers

(* A new PENDING entry with the next id and a deadline d from now.         *)
Arm(m, d) ==
    /\ running_
    /\ CapacityLeft
    /\ next_id_ \in Ids
    /\ next_id_' = next_id_ + 1
    /\ state' = [state EXCEPT ![next_id_] = "PENDING"]
    /\ mode' = [mode EXCEPT ![next_id_] = m]
    /\ period' = [period EXCEPT ![next_id_] = d]
    /\ next_fire' = [next_fire EXCEPT ![next_id_] = now + d]
    /\ created' = [created EXCEPT ![next_id_] = now]
    /\ reschedule_needed_' = TRUE
    /\ loop' = Notified
    /\ UNCHANGED <<now, running_, thread_, joining, deadline, work, cancelled>>

ScheduleOneShot(d) == Arm("ONE_SHOT", d)

SchedulePeriodic(d, m) == m # "ONE_SHOT" /\ Arm(m, d)

CancelPending(id) ==
    /\ state[id] = "PENDING"
    /\ state' = [state EXCEPT ![id] = "NONE"]
    /\ next_fire' = [next_fire EXCEPT ![id] = 0]
    /\ Forget({id})
    /\ reschedule_needed_' = TRUE
    /\ loop' = Notified

CancelRunning(id) ==
    /\ state[id] = "RUNNING"
    /\ state' = [state EXCEPT ![id] = "CANCELLED"]
    /\ UNCHANGED <<reschedule_needed_, loop, next_fire, mode, period, created,
                   fired>>

(* Cancel, when it returns SUCCESS; TIMER_NOT_FOUND changes nothing.       *)
Cancel(id) ==
    /\ CancelPending(id) \/ CancelRunning(id)
    /\ cancelled' = cancelled \cup {id}
    /\ UNCHANGED <<now, running_, thread_, joining, deadline, next_id_, to_run,
                   batch, current, threw>>

-----------------------------------------------------------------------------
(* SchedulerLoop.                                                          *)

(* The predicate of both waits.                                            *)
WaitOver == ~running_ \/ reschedule_needed_

(* Phase 1: the earliest deadline of a PENDING entry, 0 if there is none.  *)
NextDeadline ==
    LET D == {next_fire[id] : id \in In({"PENDING"})}
    IN  IF D = {} THEN 0 ELSE Least(D)

(* Phase 3's test.                                                         *)
Due(id) == state[id] = "PENDING" /\ next_fire[id] <= now

Exit ==
    /\ loop' = "exited"
    /\ UNCHANGED <<deadline, state, to_run, batch>>

Park(d) ==
    /\ loop' = "waiting"
    /\ deadline' = d
    /\ UNCHANGED <<reschedule_needed_, state, to_run, batch>>

(* Phase 3: due entries become RUNNING, then the mutex is released.        *)
Collect ==
    LET due == {id \in Ids : Due(id)}
    IN  /\ state' = [id \in Ids |-> IF id \in due THEN "RUNNING" ELSE state[id]]
        /\ to_run' = due
        /\ batch' = due
        /\ loop' = "exec"
        /\ deadline' = 0

(* Both waits return: reschedule_needed_ is cleared, then either the loop  *)
(* starts over (it waited without a deadline), or it ends, or it collects. *)
AfterWait(d) ==
    /\ reschedule_needed_' = FALSE
    /\ \/ /\ d = 0
          /\ loop' = "top"
          /\ deadline' = 0
          /\ UNCHANGED <<state, to_run, batch>>
       \/ d # 0 /\ ~running_ /\ Exit
       \/ d # 0 /\ running_ /\ Collect

(* From the top of the loop to the end of a wait that need not block, or   *)
(* until the thread parks.                                                 *)
LoopTop ==
    /\ loop = "top"
    /\ \/ /\ ~running_
          /\ Exit
          /\ UNCHANGED reschedule_needed_
       \/ running_ /\ WaitOver /\ AfterWait(NextDeadline)
       \/ running_ /\ ~WaitOver /\ Park(NextDeadline)
    /\ UNCHANGED <<now, running_, thread_, joining, next_id_, mode, period,
                   next_fire, created, cancelled, current, threw, fired>>

(* The wait is interrupted: timeout, or a spurious wakeup.                 *)
WaitInterrupted ==
    /\ loop = "waiting"
    /\ loop' = "woken"
    /\ UNCHANGED <<now, running_, reschedule_needed_, thread_, joining, deadline,
                   clients, work>>

(* Back from the condition variable with the mutex.                        *)
LoopWakes ==
    /\ loop = "woken"
    /\ IF WaitOver \/ (deadline # 0 /\ deadline <= now)
       THEN AfterWait(deadline)
       ELSE Park(deadline)
    /\ UNCHANGED <<now, running_, thread_, joining, next_id_, mode, period,
                   next_fire, created, cancelled, current, threw, fired>>

(* Phase 4: callbacks run without the lock, one after the other, in the    *)
(* order of the vector, which is the order of the ids.                     *)
BeginCallback ==
    /\ loop = "exec"
    /\ current = 0
    /\ to_run # {}
    /\ current' = Least(to_run)
    /\ to_run' = to_run \ {current'}
    /\ fired' = [fired EXCEPT ![current'] = @ + 1]
    /\ UNCHANGED <<now, running_, reschedule_needed_, thread_, joining, loop,
                   deadline, clients, batch, threw>>

(* The callback returns or throws; ExecuteCallback records the latter.     *)
EndCallback(throws) ==
    /\ loop = "exec"
    /\ current # 0
    /\ current' = 0
    /\ threw' = IF throws THEN threw \cup {current} ELSE threw
    /\ UNCHANGED <<now, running_, reschedule_needed_, thread_, joining, loop,
                   deadline, clients, to_run, batch, fired>>

\* Mutant: a timer cancelled while RUNNING is re-armed.
RearmsIfPeriodic(id) == id \notin threw /\ mode[id] # "ONE_SHOT"

(* Phase 5 re-arms only what was not cancelled, did not throw, is PERIODIC. *)
Rearms(id) ==
    /\ state[id] # "CANCELLED"
    /\ id \notin threw
    /\ mode[id] # "ONE_SHOT"

\* Mutant: catch-up without the cap.
UncappedDeadline(id) ==
    IF mode[id] = "FIXED_DELAY" THEN now + period[id] ELSE next_fire[id] + period[id]

(* The next deadline of a periodic timer; FIXED_RATE keeps its phase       *)
(* unless that deadline has passed already.                                *)
RearmedDeadline(id) ==
    IF mode[id] = "FIXED_RATE" /\ next_fire[id] + period[id] > now
    THEN next_fire[id] + period[id]
    ELSE now + period[id]

\* Mutant: the entry of a callback that threw is skipped, not erased.
ErasedUnlessThrown(id) == IF id \in threw THEN state[id] ELSE "NONE"

(* The entry is in to_erase and leaves the vector.                         *)
Erased(id) == "NONE"

(* Phase 5: under the lock again; what is not re-armed is erased.          *)
Reconcile ==
    /\ loop = "exec"
    /\ current = 0
    /\ to_run = {}
    /\ state' = [id \in Ids |-> IF id \notin batch THEN state[id]
                                ELSE IF Rearms(id) THEN "PENDING" ELSE Erased(id)]
    /\ next_fire' = [id \in Ids |-> IF id \notin batch THEN next_fire[id]
                                    ELSE IF Rearms(id) THEN RearmedDeadline(id)
                                    ELSE 0]
    /\ Forget({id \in batch : ~Rearms(id)})
    /\ batch' = {}
    /\ threw' = {}
    /\ loop' = "top"
    /\ UNCHANGED <<now, running_, reschedule_needed_, thread_, joining, deadline,
                   next_id_, cancelled, to_run, current>>

Tick ==
    /\ now < MaxTime
    /\ now' = now + 1
    /\ UNCHANGED <<running_, reschedule_needed_, thread_, joining, loop, deadline,
                   clients, work>>

-----------------------------------------------------------------------------
Loop == LoopTop \/ LoopWakes \/ BeginCallback \/ Reconcile

Next ==
    \/ Start \/ Stop \/ Join \/ JoinReturns
    \/ \E d \in Periods : ScheduleOneShot(d)
    \/ \E d \in Periods, m \in {"FIXED_DELAY", "FIXED_RATE"} : SchedulePeriodic(d, m)
    \/ \E id \in Ids : Cancel(id)
    \/ LoopTop \/ WaitInterrupted \/ LoopWakes
    \/ BeginCallback \/ Reconcile
    \/ \E throws \in BOOLEAN : EndCallback(throws)
    \/ Tick

Spec == Init /\ [][Next]_vars

(* The scheduler thread runs, callbacks return, a wait whose deadline has  *)
(* passed ends.                                                            *)
Fairness ==
    /\ WF_vars(Loop)
    /\ WF_vars(\E throws \in BOOLEAN : EndCallback(throws))
    /\ WF_vars(deadline # 0 /\ deadline <= now /\ WaitInterrupted)

FairSpec == Spec /\ Fairness

-----------------------------------------------------------------------------
(* Types, and never more than kMaxTimers entries, whatever their state.    *)
TypeOK ==
    /\ now \in 0..MaxTime
    /\ running_ \in BOOLEAN
    /\ reschedule_needed_ \in BOOLEAN
    /\ next_id_ \in 1..(MaxIds + 1)
    /\ state \in [Ids -> {"NONE", "PENDING", "RUNNING", "CANCELLED"}]
    /\ Cardinality(Entries) <= kMaxTimers
    /\ mode \in [Ids -> {"ONE_SHOT", "FIXED_DELAY", "FIXED_RATE"}]
    /\ period \in [Ids -> Nat]
    /\ next_fire \in [Ids -> Nat]
    /\ thread_ \in BOOLEAN
    /\ joining \in BOOLEAN
    /\ loop \in {"none", "top", "waiting", "woken", "exec", "exited"}
    /\ deadline \in Nat
    /\ batch \subseteq Ids
    /\ to_run \subseteq batch
    /\ current \in Ids \cup {0}
    /\ threw \subseteq batch
    /\ created \in [Ids -> Nat]
    /\ fired \in [Ids -> Nat]
    /\ cancelled \subseteq Ids

(* An entry is RUNNING or CANCELLED exactly while it is part of the batch  *)
(* in progress: none is left behind in a state from which it never fires   *)
(* again yet counts against the capacity.                                  *)
BatchOwnsActive ==
    /\ In({"RUNNING", "CANCELLED"}) = batch
    /\ batch # {} => loop = "exec"

(* A timer never fires early and never catches up in a burst: its k-th     *)
(* callback begins no earlier than k periods after it was scheduled, a     *)
(* one-shot fires once, and a periodic timer is re-armed to a deadline in  *)
(* the future however slow its callback was, so that it is not called      *)
(* back-to-back.                                                           *)
NoBurst ==
    /\ [](\A id \in Ids :
             /\ fired[id] * period[id] <= now - created[id]
             /\ mode[id] = "ONE_SHOT" => fired[id] <= 1)
    /\ [][\A id \in Ids : (state[id] = "RUNNING" /\ state'[id] = "PENDING")
             => next_fire'[id] > now]_vars

(* Cancel is final: the timer is never armed again.                        *)
CancelIsFinal == \A id \in cancelled : state[id] \in {"NONE", "CANCELLED"}

(* No due timer is forgotten while the scheduler runs.                     *)
DueTimersFire ==
    \A id \in Ids : Due(id) ~> (~Due(id) \/ ~running_)

(* Stop ends the scheduler thread, so Join returns.                        *)
StopEndsLoop == (~running_ /\ loop # "none") ~> (loop \in {"exited", "none"} \/ running_)
=============================================================================
