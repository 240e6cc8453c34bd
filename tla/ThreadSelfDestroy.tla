-------------------------- MODULE ThreadSelfDestroy --------------------------
(***************************************************************************)
(* A ThreadManager whose owner is destroyed inside the manager's own       *)
(* worker: the worker calls Detach, then the destructor, and returns.      *)
(***************************************************************************)
EXTENDS ThreadManager

VARIABLES destroyed,  \* has the destructor run?
          touched     \* history: did a thread use the destroyed object?

destroyVars == <<running, worker_finished, worker_thread, stop_requested,
                 started, worker, pc, timed, thread_to_join, ret, told,
                 destroyed, touched>>

InitDestroy ==
    /\ Init
    /\ destroyed = FALSE
    /\ touched = FALSE

(* Calls stop when the object is gone.                                     *)
Call ==
    /\ ~destroyed
    /\ \/ \E c \in Callers : CallerStep(c)
       \/ \E g \in Workers : Detach(g)
    /\ UNCHANGED <<destroyed, touched>>

(* The destructor inside worker g, no caller being inside the manager; a   *)
(* joinable thread would terminate the process.                            *)
DestroyInWorker(g) ==
    /\ ~destroyed
    /\ worker[g] = "run"
    /\ worker_thread = 0
    /\ \A c \in Callers : pc[c] = "idle"
    /\ destroyed' = TRUE
    /\ UNCHANGED <<running, worker_finished, worker_thread, stop_requested,
                   started, worker, pc, timed, thread_to_join, ret, told, touched>>

(* The worker unwinds; its epilogue locks the manager's mutex.             *)
Unwind(g) ==
    \/ /\ WorkerReturns(g) \/ WorkerExits(g)
       /\ UNCHANGED <<destroyed, touched>>
    \/ /\ WorkerFinishes(g)
       /\ touched' = destroyed
       /\ UNCHANGED destroyed

NextDestroy ==
    \/ Call
    \/ \E g \in Workers : DestroyInWorker(g) \/ Unwind(g)

SpecDestroy == InitDestroy /\ [][NextDestroy]_destroyVars

(* An owner may be destroyed from within its worker: nobody uses the       *)
(* manager after its destructor.                                           *)
NoUseAfterDestroy == ~touched
=============================================================================
