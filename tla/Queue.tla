-------------------------------- MODULE Queue --------------------------------
(***************************************************************************)
(* Queue<T> (framework/queue): a bounded FIFO shared by producer and       *)
(* consumer threads, with one mutex and two condition variables.           *)
(*                                                                         *)
(* Every member function holds the mutex from its first line to its        *)
(* return, except inside a wait on a condition variable.  So a call is one *)
(* step when it does not have to wait, and otherwise a step up to the      *)
(* wait, and a step from the reacquired mutex on.  Between the two a       *)
(* thread is                                                               *)
(*   blocked    parked on its condition variable (consumers on not_empty,  *)
(*              producers on not_full);                                    *)
(*   expired    its wait_for timed out, but it does not hold the mutex yet *)
(*              and, as POSIX allows, may still absorb a notification;     *)
(*   signalled  notified (or woken spuriously), waiting for the mutex.     *)
(***************************************************************************)
EXTENDS Integers, Sequences, FiniteSets

CONSTANTS Producers,  \* threads that call Push and PushFor
          Consumers,  \* threads that call Pop and PopFor
          Items,      \* payloads; each is moved into the queue at most once
          NoItem,     \* "no payload"
          capacity

ASSUME QueueAssumption ==
    /\ capacity \in Nat
    /\ IsFiniteSet(Producers)
    /\ IsFiniteSet(Consumers)
    /\ Producers \cap Consumers = {}
    /\ NoItem \notin Items

VARIABLES items,   \* the std::queue
          state,   \* QueueState
          pc,      \* where each thread is in its call
          arg,     \* the item a waiting PushFor offers
          timed,   \* is a consumer's wait a PopFor?
          ret,     \* QueueError of each thread's last call
          pushed,  \* history: items accepted, in order
          taken    \* history: items returned to consumers, in order

vars == <<items, state, pc, arg, timed, ret, pushed, taken>>

Threads == Producers \cup Consumers

Init ==
    /\ items = <<>>
    /\ state = IF capacity > 0 THEN "RUNNING" ELSE "SHUTDOWN"
    /\ pc = [t \in Threads |-> "idle"]
    /\ arg = [p \in Producers |-> NoItem]
    /\ timed = [c \in Consumers |-> FALSE]
    /\ ret = [t \in Threads |-> "none"]
    /\ pushed = <<>>
    /\ taken = <<>>

-----------------------------------------------------------------------------
(* The condition variables.                                                *)

Blocked(S) == {t \in S : pc[t] = "blocked"}
Signalled(S) == {t \in S : pc[t] = "signalled"}
Waiting(S) == {t \in S : pc[t] \in {"blocked", "expired"}}

\* Mutant: the notify_one call is missing.
NotifyNone(S) == {{}}

(* The sets of threads that notify_one may release.                        *)
NotifyOne(S) ==
    IF Waiting(S) = {} THEN {{}} ELSE {{t} : t \in Waiting(S)}

\* Mutant: notify_all only on not_full.
NotifyProducers == Waiting(Producers)

(* not_empty.notify_all() and not_full.notify_all().                       *)
NotifyAll == Waiting(Threads)

(* Thread t parks on its condition variable and releases the mutex.        *)
Block(t) == pc' = [pc EXCEPT ![t] = "blocked"]

(* Thread t returns r, having notified the threads in W.                   *)
Return(t, r, W) ==
    /\ pc' = [q \in Threads |-> IF q = t THEN "idle"
                                ELSE IF q \in W THEN "signalled" ELSE pc[q]]
    /\ ret' = [ret EXCEPT ![t] = r]

-----------------------------------------------------------------------------
(* Producers.                                                              *)

\* Mutant: off by one in the capacity check.
HasRoomOffByOne == Len(items) <= capacity

HasRoom == Len(items) < capacity

(* The predicate of PushFor's wait.                                        *)
PushReady == state # "RUNNING" \/ HasRoom

Enqueue(v) == items' = Append(items, v)

\* Mutant: a draining queue still takes items.
AcceptsUntilShutdown == state # "SHUTDOWN"

Accepts == state = "RUNNING"

(* What Push and PushFor do once they need not wait.                       *)
PushReturn(p, v) ==
    /\ arg' = [arg EXCEPT ![p] = NoItem]
    /\ \/ /\ ~Accepts
          /\ Return(p, "QUEUE_SHUTDOWN", {})
          /\ UNCHANGED <<items, pushed>>
       \/ /\ Accepts
          /\ Enqueue(v)
          /\ pushed' = Append(pushed, v)
          /\ \E W \in NotifyOne(Consumers) : Return(p, "SUCCESS", W)
    /\ UNCHANGED <<state, timed, taken>>

(* A payload still in a producer's hands: not moved in, not being offered. *)
Fresh(v) ==
    /\ \A i \in 1..Len(pushed) : pushed[i] # v
    /\ \A p \in Producers : arg[p] # v

Push(p, v) ==
    /\ pc[p] = "idle"
    /\ Fresh(v)
    /\ IF PushReady
       THEN PushReturn(p, v)
       ELSE /\ Return(p, "QUEUE_FULL", {})
            /\ UNCHANGED <<items, state, arg, timed, pushed, taken>>

PushFor(p, v) ==
    /\ pc[p] = "idle"
    /\ Fresh(v)
    /\ IF PushReady
       THEN PushReturn(p, v)
       ELSE /\ Block(p)
            /\ arg' = [arg EXCEPT ![p] = v]
            /\ UNCHANGED <<items, state, timed, ret, pushed, taken>>

(* The mutex is reacquired and the predicate evaluated again.              *)
PusherWakes(p) ==
    /\ pc[p] = "signalled"
    /\ IF PushReady
       THEN PushReturn(p, arg[p])
       ELSE /\ Block(p)
            /\ UNCHANGED <<items, state, arg, timed, ret, pushed, taken>>

(* wait_for returns the predicate's value after a timeout.                 *)
PusherTimesOut(p) ==
    /\ pc[p] = "expired"
    /\ IF PushReady
       THEN PushReturn(p, arg[p])
       ELSE /\ Return(p, "QUEUE_TIMEOUT", {})
            /\ arg' = [arg EXCEPT ![p] = NoItem]
            /\ UNCHANGED <<items, state, timed, pushed, taken>>

-----------------------------------------------------------------------------
(* Consumers.                                                              *)

(* The predicate of the waits in Pop and PopFor.                           *)
PopReady == items # <<>> \/ state # "RUNNING"

(* The item being popped is the last one of a drain.                       *)
LastOfDrain == state = "DRAINING" /\ Tail(items) = <<>>

\* Mutant: the state is looked at before the items.
PopSeesState == state = "RUNNING"

(* if (!items.empty()) comes before any look at the state.                 *)
PopSeesItem == items # <<>>

(* What Pop and PopFor do once they need not wait.                         *)
PopReturn(c) ==
    /\ timed' = [timed EXCEPT ![c] = FALSE]
    /\ \/ /\ PopSeesItem
          /\ taken' = Append(taken, Head(items))
          /\ items' = Tail(items)
          /\ state' = IF LastOfDrain THEN "SHUTDOWN" ELSE state
          /\ \E W \in NotifyOne(Producers) :
                Return(c, "SUCCESS", IF LastOfDrain THEN NotifyAll ELSE W)
       \/ /\ ~PopSeesItem
          /\ Return(c, "QUEUE_SHUTDOWN", {})
          /\ UNCHANGED <<items, state, taken>>
    /\ UNCHANGED <<arg, pushed>>

(* A call of Pop (isTimed = FALSE) or PopFor (isTimed = TRUE).             *)
Pop(c, isTimed) ==
    /\ pc[c] = "idle"
    /\ IF PopReady
       THEN PopReturn(c)
       ELSE /\ Block(c)
            /\ timed' = [timed EXCEPT ![c] = isTimed]
            /\ UNCHANGED <<items, state, arg, ret, pushed, taken>>

PopperWakes(c) ==
    /\ pc[c] = "signalled"
    /\ IF PopReady
       THEN PopReturn(c)
       ELSE /\ Block(c)
            /\ UNCHANGED <<items, state, arg, timed, ret, pushed, taken>>

PopperTimesOut(c) ==
    /\ pc[c] = "expired"
    /\ IF PopReady
       THEN PopReturn(c)
       ELSE /\ Return(c, "QUEUE_TIMEOUT", {})
            /\ timed' = [timed EXCEPT ![c] = FALSE]
            /\ UNCHANGED <<items, state, arg, pushed, taken>>

-----------------------------------------------------------------------------
(* Shutdown, and what the kernel does to a waiting thread.                 *)

(* Wakes everybody; no thread is returning.                                *)
WakeAll ==
    pc' = [q \in Threads |-> IF q \in NotifyAll THEN "signalled" ELSE pc[q]]

(* Shutdown(IMMEDIATE); on a queue already SHUTDOWN it changes nothing.    *)
ShutdownImmediate ==
    /\ state # "SHUTDOWN"
    /\ items' = <<>>
    /\ state' = "SHUTDOWN"
    /\ WakeAll
    /\ UNCHANGED <<arg, timed, ret, pushed, taken>>

ShutdownDrain ==
    /\ state # "SHUTDOWN"
    /\ state' = IF items = <<>> THEN "SHUTDOWN" ELSE "DRAINING"
    /\ WakeAll
    /\ UNCHANGED <<items, arg, timed, ret, pushed, taken>>

(* The timeout of a PushFor or PopFor elapses.                             *)
Expire(t) ==
    /\ pc[t] = "blocked"
    /\ t \in Consumers => timed[t]
    /\ pc' = [pc EXCEPT ![t] = "expired"]
    /\ UNCHANGED <<items, state, arg, timed, ret, pushed, taken>>

SpuriousWakeup(t) ==
    /\ pc[t] = "blocked"
    /\ pc' = [pc EXCEPT ![t] = "signalled"]
    /\ UNCHANGED <<items, state, arg, timed, ret, pushed, taken>>

-----------------------------------------------------------------------------
Next ==
    \/ \E p \in Producers, v \in Items : Push(p, v) \/ PushFor(p, v)
    \/ \E p \in Producers : PusherWakes(p) \/ PusherTimesOut(p)
    \/ \E c \in Consumers, isTimed \in BOOLEAN : Pop(c, isTimed)
    \/ \E c \in Consumers : PopperWakes(c) \/ PopperTimesOut(c)
    \/ ShutdownImmediate
    \/ ShutdownDrain
    \/ \E t \in Threads : Expire(t) \/ SpuriousWakeup(t)

Spec == Init /\ [][Next]_vars

(* A thread that was released gets the mutex: nobody holds it for ever.    *)
(* No fairness for calls, Shutdown, timeouts or spurious wakeups.          *)
Fairness ==
    /\ \A p \in Producers : WF_vars(PusherWakes(p) \/ PusherTimesOut(p))
    /\ \A c \in Consumers : WF_vars(PopperWakes(c) \/ PopperTimesOut(c))

FairSpec == Spec /\ Fairness

-----------------------------------------------------------------------------
(* Types, and the bound: never more than capacity items, whatever mix of   *)
(* Push and PushFor races for the last slot.                               *)
TypeOK ==
    /\ items \in Seq(Items)
    /\ Len(items) <= capacity
    /\ state \in {"RUNNING", "DRAINING", "SHUTDOWN"}
    /\ pc \in [Threads -> {"idle", "blocked", "expired", "signalled"}]
    /\ arg \in [Producers -> Items \cup {NoItem}]
    /\ timed \in [Consumers -> BOOLEAN]
    /\ ret \in [Threads -> {"none", "SUCCESS", "QUEUE_FULL",
                            "QUEUE_SHUTDOWN", "QUEUE_TIMEOUT"}]
    /\ pushed \in Seq(Items)
    /\ taken \in Seq(Items)

(* No lost wakeup, although Push and Pop notify a single thread: while a   *)
(* consumer is parked on not_empty, every queued item has a released       *)
(* consumer on its way to it; while a producer is parked on not_full,      *)
(* every free slot has a released producer on its way; and nobody is       *)
(* parked once the queue has left RUNNING.                                 *)
NoLostWakeup ==
    /\ Blocked(Consumers) # {} => Len(items) <= Cardinality(Signalled(Consumers))
    /\ Blocked(Producers) # {} =>
            capacity - Len(items) <= Cardinality(Signalled(Producers))
    /\ state # "RUNNING" => Blocked(Threads) = {}

(* DRAINING always has something left to drain (otherwise no Pop would     *)
(* ever complete the shutdown), and SHUTDOWN has nothing left.             *)
DrainHasWork ==
    /\ state = "DRAINING" => items # <<>>
    /\ state = "SHUTDOWN" => items = <<>>

(* QUEUE_SHUTDOWN is the end of the stream: once any consumer was told so, *)
(* the queue is shut down and no item is or will be left for anybody.      *)
EndOfStreamIsFinal ==
    (\E c \in Consumers : ret[c] = "QUEUE_SHUTDOWN") =>
        state = "SHUTDOWN" /\ items = <<>>

(* Items come out in the order they went in, none lost, none twice, until  *)
(* an IMMEDIATE shutdown cuts the tail off.                                *)
FifoOrder ==
    IF state = "SHUTDOWN"
    THEN /\ Len(taken) <= Len(pushed)
         /\ taken = SubSeq(pushed, 1, Len(taken))
    ELSE pushed = taken \o items

(* The concurrent queue implements the sequential log: every step is an    *)
(* accept, a delivery of the next item, a close, or invisible.             *)
Fifo == INSTANCE FifoLog WITH log <- pushed, delivered <- taken, phase <- state
ImplementsFifo == Fifo!Spec

(* After Shutdown in either mode every call that was waiting returns.      *)
ShutdownReleases ==
    \A t \in Threads :
        (pc[t] # "idle" /\ state # "RUNNING") ~> (pc[t] = "idle")

(* Items never sit in the queue for ever while every consumer is asleep    *)
(* in a Pop: again and again the queue is empty or a consumer is between   *)
(* two calls.                                                              *)
NoStall == []<>(items = <<>> \/ \E c \in Consumers : pc[c] = "idle")
=============================================================================
