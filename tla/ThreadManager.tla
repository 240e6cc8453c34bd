---------------------------- MODULE ThreadManager ----------------------------
(***************************************************************************)
(* ThreadManager (framework/thread): the lifecycle of one worker thread,   *)
(* driven by any number of caller threads, and the StopToken the worker    *)
(* polls.                                                                  *)
(*                                                                         *)
(* Each member function runs under the mutex, except inside the waits of   *)
(* Join and in the join() of CompleteJoin, which follow an unlock; so      *)
(* those are steps of their own.  Workers are numbered by the Start that   *)
(* created them.                                                           *)
(***************************************************************************)
EXTENDS Integers

CONSTANTS Callers,    \* threads that call the manager
          MaxStarts   \* bound on the number of worker threads created

ASSUME ThreadManagerAssumption == MaxStarts \in Nat \ {0}

VARIABLES running,         \* guarded by the mutex, like the next three
          worker_finished,
          worker_thread,   \* the worker the std::thread holds, 0 if none
          stop_requested,  \* the StopToken
          started,         \* how many workers were created
          worker,          \* where each worker is
          pc,              \* where each caller is in Join
          timed,           \* is the caller's Join a Join(timeout)?
          thread_to_join,  \* CompleteJoin's local
          ret,             \* ThreadError of each caller's last call
          told             \* history: workers whose Stop returned SUCCESS

vars == <<running, worker_finished, worker_thread, stop_requested, started,
          worker, pc, timed, thread_to_join, ret, told>>

Workers == 1..MaxStarts

Init ==
    /\ running = FALSE
    /\ worker_finished = FALSE
    /\ worker_thread = 0
    /\ stop_requested = FALSE
    /\ started = 0
    /\ worker = [g \in Workers |-> "none"]
    /\ pc = [c \in Callers |-> "idle"]
    /\ timed = [c \in Callers |-> FALSE]
    /\ thread_to_join = [c \in Callers |-> 0]
    /\ ret = [c \in Callers |-> "none"]
    /\ told = {}

Return(c, e) ==
    /\ pc' = [pc EXCEPT ![c] = "idle"]
    /\ ret' = [ret EXCEPT ![c] = e]

-----------------------------------------------------------------------------
(* Start's guard.                                                          *)
AlreadyRunning == running

\* Mutant: worker_finished is not reset.
FinishedKept == worker_finished

FinishedReset == FALSE

(* Start with a thread that can be created.                                *)
Start(c) ==
    /\ pc[c] = "idle"
    /\ ~AlreadyRunning
    /\ started < MaxStarts
    /\ stop_requested' = FALSE
    /\ worker_finished' = FinishedReset
    /\ started' = started + 1
    /\ worker_thread' = started + 1
    /\ worker' = [worker EXCEPT ![started + 1] = "run"]
    /\ running' = TRUE
    /\ Return(c, "SUCCESS")
    /\ UNCHANGED <<timed, thread_to_join, told>>

(* std::thread throws: the token and worker_finished are reset already.    *)
StartFails(c) ==
    /\ pc[c] = "idle"
    /\ ~AlreadyRunning
    /\ stop_requested' = FALSE
    /\ worker_finished' = FinishedReset
    /\ running' = FALSE
    /\ Return(c, "THREAD_CREATION_FAILED")
    /\ UNCHANGED <<worker_thread, started, worker, timed, thread_to_join, told>>

\* Mutant: the token is reset before the look at running.
TokenResetFirst == FALSE

(* The token after a Start that returns early.                             *)
TokenAfterRejection == stop_requested

StartRejected(c) ==
    /\ pc[c] = "idle"
    /\ AlreadyRunning
    /\ stop_requested' = TokenAfterRejection
    /\ Return(c, "ALREADY_RUNNING")
    /\ UNCHANGED <<running, worker_finished, worker_thread, started, worker,
                   timed, thread_to_join, told>>

Stoppable == running

(* Stop; without a worker it is an early return.                           *)
Stop(c) ==
    /\ pc[c] = "idle"
    /\ IF Stoppable
       THEN /\ stop_requested' = TRUE
            /\ told' = told \cup {worker_thread}
            /\ Return(c, "SUCCESS")
       ELSE /\ Return(c, "NOT_RUNNING")
            /\ UNCHANGED <<stop_requested, told>>
    /\ UNCHANGED <<running, worker_finished, worker_thread, started, worker,
                   timed, thread_to_join>>

-----------------------------------------------------------------------------
\* Mutant: running stays set until the join() has returned.
StaysRunning == running

(* What CompleteJoin assigns to running before it unlocks.                 *)
ClearsRunning == FALSE

\* Mutant: the thread is joined in place, not moved out.
KeepsHandle == worker_thread

(* worker_thread after std::move.                                          *)
MovedOut == 0

(* CompleteJoin up to its unlock.                                          *)
CompleteJoin(c) ==
    /\ \/ /\ ~running
          /\ Return(c, "NOT_RUNNING")
          /\ UNCHANGED <<running, worker_thread, thread_to_join>>
       \/ /\ running /\ worker_thread = 0
          /\ Return(c, "JOIN_FAILED")
          /\ UNCHANGED <<running, worker_thread, thread_to_join>>
       \/ /\ running /\ worker_thread # 0
          /\ thread_to_join' = [thread_to_join EXCEPT ![c] = worker_thread]
          /\ worker_thread' = MovedOut
          /\ running' = ClearsRunning
          /\ pc' = [pc EXCEPT ![c] = "joining"]
          /\ UNCHANGED ret
    /\ timed' = [timed EXCEPT ![c] = FALSE]
    /\ UNCHANGED <<worker_finished, stop_requested, started, worker, told>>

(* Parks on completion_cv.                                                 *)
Wait(c, isTimed) ==
    /\ pc' = [pc EXCEPT ![c] = "waiting"]
    /\ timed' = [timed EXCEPT ![c] = isTimed]
    /\ UNCHANGED <<running, worker_finished, worker_thread, stop_requested,
                   started, worker, thread_to_join, ret, told>>

(* Join() (isTimed = FALSE) and Join(timeout) (isTimed = TRUE).            *)
Join(c, isTimed) ==
    /\ pc[c] = "idle"
    /\ IF ~running
       THEN /\ Return(c, "NOT_RUNNING")
            /\ UNCHANGED <<running, worker_finished, worker_thread,
                           stop_requested, started, worker, timed,
                           thread_to_join, told>>
       ELSE IF worker_finished THEN CompleteJoin(c) ELSE Wait(c, isTimed)

(* Back from the condition variable with the mutex.                        *)
JoinWakes(c) ==
    /\ pc[c] = "woken"
    /\ IF worker_finished THEN CompleteJoin(c) ELSE Wait(c, timed[c])

(* The timeout of Join(timeout) elapses, or a spurious wakeup.             *)
WaitEnds(c) ==
    /\ pc[c] = "waiting"
    /\ \/ pc' = [pc EXCEPT ![c] = "woken"]
       \/ timed[c] /\ pc' = [pc EXCEPT ![c] = "expired"]
    /\ UNCHANGED <<running, worker_finished, worker_thread, stop_requested,
                   started, worker, timed, thread_to_join, ret, told>>

JoinTimesOut(c) ==
    /\ pc[c] = "expired"
    /\ IF worker_finished
       THEN CompleteJoin(c)
       ELSE /\ Return(c, "JOIN_TIMEOUT")
            /\ timed' = [timed EXCEPT ![c] = FALSE]
            /\ UNCHANGED <<running, worker_finished, worker_thread,
                           stop_requested, started, worker, thread_to_join,
                           told>>

(* thread_to_join.join() returns.                                          *)
JoinReturns(c) ==
    /\ pc[c] = "joining"
    /\ worker[thread_to_join[c]] = "exited"
    /\ thread_to_join' = [thread_to_join EXCEPT ![c] = 0]
    /\ Return(c, "SUCCESS")
    /\ UNCHANGED <<running, worker_finished, worker_thread, stop_requested,
                   started, worker, timed, told>>

-----------------------------------------------------------------------------
(* The worker's function returns, of its own accord or because it saw the  *)
(* stop request.                                                           *)
WorkerReturns(g) ==
    /\ worker[g] = "run"
    /\ worker' = [worker EXCEPT ![g] = "returned"]
    /\ UNCHANGED <<running, worker_finished, worker_thread, stop_requested,
                   started, pc, timed, thread_to_join, ret, told>>

\* Mutant: worker_finished is set without notify_all.
NotifyNobody(c) == FALSE

(* Callers that completion_cv.notify_all() releases.                       *)
NotifiedByAll(c) == pc[c] \in {"waiting", "expired"}

(* The locked epilogue of the lambda in Start.                             *)
WorkerFinishes(g) ==
    /\ worker[g] = "returned"
    /\ worker' = [worker EXCEPT ![g] = "finished"]
    /\ worker_finished' = TRUE
    /\ pc' = [c \in Callers |-> IF NotifiedByAll(c) THEN "woken" ELSE pc[c]]
    /\ UNCHANGED <<running, worker_thread, stop_requested, started, timed,
                   thread_to_join, ret, told>>

WorkerExits(g) ==
    /\ worker[g] = "finished"
    /\ worker' = [worker EXCEPT ![g] = "exited"]
    /\ UNCHANGED <<running, worker_finished, worker_thread, stop_requested,
                   started, pc, timed, thread_to_join, ret, told>>

(* Detach, called by the worker itself: IsCurrentThread() held.            *)
Detach(g) ==
    /\ worker[g] = "run"
    /\ worker_thread = g
    /\ worker_thread' = 0
    /\ running' = FALSE
    /\ UNCHANGED <<worker_finished, stop_requested, started, worker, pc, timed,
                   thread_to_join, ret, told>>

-----------------------------------------------------------------------------
CallerStep(c) ==
    \/ Start(c) \/ StartFails(c) \/ StartRejected(c)
    \/ Stop(c)
    \/ \E isTimed \in BOOLEAN : Join(c, isTimed)
    \/ JoinWakes(c) \/ WaitEnds(c) \/ JoinTimesOut(c) \/ JoinReturns(c)

WorkerStep(g) == WorkerReturns(g) \/ WorkerFinishes(g) \/ WorkerExits(g)

(* Callers that keep the manager alive and never detach the worker.        *)
Next ==
    \/ \E c \in Callers : CallerStep(c)
    \/ \E g \in Workers : WorkerStep(g)

Spec == Init /\ [][Next]_vars

(* Released callers get the mutex, a worker told to stop returns (the      *)
(* contract of StopToken), and a thread that is done exits.                *)
Fairness ==
    /\ \A c \in Callers : WF_vars(JoinWakes(c) \/ JoinTimesOut(c) \/ JoinReturns(c))
    /\ \A g \in Workers :
        /\ WF_vars(stop_requested /\ WorkerReturns(g))
        /\ WF_vars(WorkerFinishes(g))
        /\ WF_vars(WorkerExits(g))

FairSpec == Spec /\ Fairness

-----------------------------------------------------------------------------
(* Types; in particular a Stop that returned SUCCESS was meant for a       *)
(* worker that exists.                                                     *)
TypeOK ==
    /\ running \in BOOLEAN
    /\ worker_finished \in BOOLEAN
    /\ worker_thread \in 0..MaxStarts
    /\ stop_requested \in BOOLEAN
    /\ started \in 0..MaxStarts
    /\ worker \in [Workers -> {"none", "run", "returned", "finished", "exited"}]
    /\ pc \in [Callers -> {"idle", "waiting", "woken", "expired", "joining"}]
    /\ timed \in [Callers -> BOOLEAN]
    /\ thread_to_join \in [Callers -> 0..MaxStarts]
    /\ ret \in [Callers -> {"none", "SUCCESS", "ALREADY_RUNNING", "NOT_RUNNING",
                            "THREAD_CREATION_FAILED", "JOIN_FAILED",
                            "JOIN_TIMEOUT"}]
    /\ told \subseteq Workers

(* running and the std::thread agree, so Start never assigns over a        *)
(* joinable thread (std::terminate) and Join never reports JOIN_FAILED.    *)
HandleMatchesRunning ==
    /\ running <=> worker_thread # 0
    /\ \A c \in Callers : ret[c] # "JOIN_FAILED"

(* A worker inside its function is the one the manager holds: there is     *)
(* never a second one, and none that Stop and Join cannot reach.           *)
WorkerIsHeld ==
    \A g \in Workers : worker[g] \in {"run", "returned"} => worker_thread = g

(* Once Stop returned SUCCESS, the worker it was meant for sees the        *)
(* request until it returns: no later Start, failed or not, takes it back. *)
StopIsNotLost ==
    \A g \in told : worker[g] = "run" => stop_requested

(* The unlocked join() is called at most once per thread, and only on a    *)
(* worker past its function, so Join(timeout) is not held up beyond its    *)
(* timeout by a worker that runs on.                                       *)
JoinsAreBrief ==
    \A c \in Callers : pc[c] = "joining" =>
        /\ worker[thread_to_join[c]] \in {"finished", "exited"}
        /\ thread_to_join[c] # worker_thread
        /\ \A d \in Callers \ {c} :
               pc[d] = "joining" => thread_to_join[d] # thread_to_join[c]

(* A caller inside Join returns once the worker finished, unless a new     *)
(* Start resets the flag before it gets the mutex.                         *)
JoinersReleased ==
    \A c \in Callers :
        (pc[c] # "idle" /\ worker_finished) ~> (pc[c] = "idle" \/ ~worker_finished)
=============================================================================
