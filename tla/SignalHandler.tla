---------------------------- MODULE SignalHandler ----------------------------
(***************************************************************************)
(* SignalHandler (framework/signal): the callback for SIGINT and SIGTERM   *)
(* that only sets a static flag, and its installation and removal.         *)
(*                                                                         *)
(* Each system call and each assignment of the static flag is a step, so   *)
(* that a signal can arrive between any two of them.  Threads call the     *)
(* handler through FirmwareApp: at[t] is where thread t is in Initialize   *)
(* or Shutdown.                                                            *)
(***************************************************************************)
CONSTANT Threads

VARIABLES inherited,      \* kernel: the dispositions the process began with
          disposition,    \* kernel: what each signal does
          killed,         \* kernel: a signal has ended the process
          signalled,      \* SignalHandler::shutdown_requested, static
          installed,      \* state = INSTALLED
          old,            \* old_sigint and old_sigterm
          at,             \* where each thread is inside the handler
          caught          \* history: a callback since the installation began

handlerVars == <<inherited, disposition, killed, signalled, installed, old, at,
                 caught>>

Signals == {"SIGINT", "SIGTERM"}

(* What the process started with: a shell may have set signals to ignored. *)
Inherited == {"default", "ignored"}

HandlerInit ==
    /\ inherited \in [Signals -> Inherited]
    /\ disposition = inherited
    /\ killed = FALSE
    /\ signalled = FALSE
    /\ installed = FALSE
    /\ old = [s \in Signals |-> "default"]
    /\ at = [t \in Threads |-> "out"]
    /\ caught = FALSE

Goto(t, l) == at' = [at EXCEPT ![t] = l]

-----------------------------------------------------------------------------
(* The kernel delivers a signal; SignalCallback runs on some thread.       *)
SignalArrives(s) ==
    /\ ~killed
    /\ disposition[s] # "ignored"
    /\ killed' = (disposition[s] = "default")
    /\ signalled' = (signalled \/ disposition[s] = "callback")
    /\ caught' = (caught \/ disposition[s] = "callback")
    /\ UNCHANGED <<inherited, disposition, installed, old, at>>

-----------------------------------------------------------------------------
(* Initialize, after its test of state.                                    *)

(* The flag is cleared before any callback is installed.                   *)
InitializeClears(t) ==
    /\ at[t] = "clear"
    /\ signalled' = FALSE
    /\ caught' = FALSE
    /\ Goto(t, "sigint")
    /\ UNCHANGED <<inherited, disposition, killed, installed, old>>

(* sigaction(s, &action, &old).                                            *)
Install(s) ==
    /\ old' = [old EXCEPT ![s] = disposition[s]]
    /\ disposition' = [disposition EXCEPT ![s] = "callback"]

InstallInt(t) ==
    /\ at[t] = "sigint"
    /\ Install("SIGINT")
    /\ Goto(t, "sigterm")
    /\ UNCHANGED <<inherited, killed, signalled, installed, caught>>

InstallIntFails(t) ==
    /\ at[t] = "sigint"
    /\ Goto(t, "failed")
    /\ UNCHANGED <<inherited, disposition, killed, signalled, installed, old,
                   caught>>

\* Mutant: the flag is cleared once the callbacks are installed.
InstallTermThenClear(t) ==
    /\ at[t] = "sigterm"
    /\ Install("SIGTERM")
    /\ installed' = TRUE
    /\ signalled' = FALSE
    /\ Goto(t, "succeeded")
    /\ UNCHANGED <<inherited, killed, caught>>

InstallTerm(t) ==
    /\ at[t] = "sigterm"
    /\ Install("SIGTERM")
    /\ installed' = TRUE
    /\ Goto(t, "succeeded")
    /\ UNCHANGED <<inherited, killed, signalled, caught>>

(* sigaction(s, &old, nullptr).                                            *)
Restored(s) == [disposition EXCEPT ![s] = old[s]]

\* Mutant: no rollback of SIGINT.
NoRollback == disposition

Rollback == Restored("SIGINT")

InstallTermFails(t) ==
    /\ at[t] = "sigterm"
    /\ disposition' = Rollback
    /\ Goto(t, "failed")
    /\ UNCHANGED <<inherited, killed, signalled, installed, old, caught>>

-----------------------------------------------------------------------------
(* Shutdown.                                                               *)

ShutdownTests(t) ==
    /\ at[t] = "test"
    /\ Goto(t, IF installed THEN "restore_int" ELSE "down")
    /\ UNCHANGED <<inherited, disposition, killed, signalled, installed, old,
                   caught>>

RestoreInt(t) ==
    /\ at[t] = "restore_int"
    /\ disposition' = Restored("SIGINT")
    /\ Goto(t, "restore_term")
    /\ UNCHANGED <<inherited, killed, signalled, installed, old, caught>>

RestoreTerm(t) ==
    /\ at[t] = "restore_term"
    /\ disposition' = Restored("SIGTERM")
    /\ Goto(t, "unset")
    /\ UNCHANGED <<inherited, killed, signalled, installed, old, caught>>

ShutdownClears(t) ==
    /\ at[t] = "unset"
    /\ signalled' = FALSE
    /\ installed' = FALSE
    /\ Goto(t, "down")
    /\ UNCHANGED <<inherited, disposition, killed, old, caught>>

HandlerStep(t) ==
    /\ ~killed
    /\ \/ InitializeClears(t)
       \/ InstallInt(t) \/ InstallIntFails(t)
       \/ InstallTerm(t) \/ InstallTermFails(t)
       \/ ShutdownTests(t) \/ RestoreInt(t) \/ RestoreTerm(t)
       \/ ShutdownClears(t)
=============================================================================
