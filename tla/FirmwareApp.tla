----------------------------- MODULE FirmwareApp -----------------------------
(***************************************************************************)
(* FirmwareApp (app): the lifecycle of the process, composed with the      *)
(* SignalHandler it owns and the Logger singleton it brings up and down.   *)
(*                                                                         *)
(* The main thread makes an app, may Initialize it, Run it and shut it     *)
(* down, and destroys it; helpers may call RequestShutdown and Shutdown on *)
(* it meanwhile.  A later app finds what the earlier one left in the       *)
(* process: the dispositions, the static flag and the logger.              *)
(***************************************************************************)
EXTENDS SignalHandler, Integers

CONSTANTS Helpers,   \* the threads besides main
          MaxApps    \* bound on the apps made one after the other

ASSUME AppAssumption ==
    /\ Threads = Helpers \cup {"main"} /\ "main" \notin Helpers
    /\ MaxApps \in Nat \ {0}

VARIABLES state,
          shutdown_requested,
          logger,      \* Logger::initialized
          call,        \* where each thread is in a call of the app
          apps,        \* how many apps have been made
          cleanups,    \* history: Shutdown calls that cleaned this app up
          revived,     \* history: a SHUTDOWN of this app was overwritten
          abandoned    \* history: an app was destroyed as RUNNING

appVars == <<state, shutdown_requested, logger, call, apps, cleanups,
             revived, abandoned>>
vars == <<handlerVars, appVars>>

Init ==
    /\ HandlerInit
    /\ state = "UNINITIALIZED"
    /\ shutdown_requested = FALSE
    /\ logger = FALSE
    /\ call = [t \in Threads |-> "idle"]
    /\ apps = 1
    /\ cleanups = 0
    /\ revived = FALSE
    /\ abandoned = FALSE

Step(t, from, to) ==
    /\ ~killed
    /\ call[t] = from
    /\ call' = [call EXCEPT ![t] = to]

(* A store over whatever state another thread has put there.               *)
Store(s) ==
    /\ state' = s
    /\ revived' = (revived \/ state = "SHUTDOWN")

-----------------------------------------------------------------------------
(* Initialize: the load of state, the logger, the signal handler, and the  *)
(* store.                                                                  *)

InitializeLoads ==
    /\ Step("main", "idle", "logger")
    /\ state = "UNINITIALIZED"
    /\ UNCHANGED <<handlerVars, state, shutdown_requested, logger, apps,
                   cleanups, revived, abandoned>>

LoggerRefuses ==
    /\ Step("main", "logger", "idle")
    /\ logger
    /\ UNCHANGED <<handlerVars, state, shutdown_requested, logger, apps,
                   cleanups, revived, abandoned>>

LoggerInitialize ==
    /\ Step("main", "logger", "handler")
    /\ ~logger
    /\ logger' = TRUE
    /\ Goto("main", IF installed THEN "failed" ELSE "clear")
    /\ UNCHANGED <<inherited, disposition, killed, signalled, installed, old,
                   caught, state, shutdown_requested, apps, cleanups,
                   revived, abandoned>>

InitializeFails ==
    /\ Step("main", "handler", "idle")
    /\ at["main"] = "failed"
    /\ logger' = FALSE
    /\ Goto("main", "out")
    /\ UNCHANGED <<inherited, disposition, killed, signalled, installed, old,
                   caught, state, shutdown_requested, apps, cleanups,
                   revived, abandoned>>

InitializeStores ==
    /\ Step("main", "handler", "idle")
    /\ at["main"] = "succeeded"
    /\ Store("INITIALIZED")
    /\ Goto("main", "out")
    /\ UNCHANGED <<inherited, disposition, killed, signalled, installed, old,
                   caught, shutdown_requested, logger, apps, cleanups,
                   abandoned>>

-----------------------------------------------------------------------------
(* Run.                                                                    *)

RunLoads ==
    /\ Step("main", "idle", "run")
    /\ state = "INITIALIZED"
    /\ UNCHANGED <<handlerVars, state, shutdown_requested, logger, apps,
                   cleanups, revived, abandoned>>

RunStores ==
    /\ Step("main", "run", "loop")
    /\ Store("RUNNING")
    /\ UNCHANGED <<handlerVars, shutdown_requested, logger, apps, cleanups,
                   abandoned>>

IsShutdownRequested == shutdown_requested \/ signalled

(* The loop sleeps, which changes nothing, until a poll sees a request.    *)
RunReturns ==
    /\ Step("main", "loop", "idle")
    /\ IsShutdownRequested
    /\ UNCHANGED <<handlerVars, state, shutdown_requested, logger, apps,
                   cleanups, revived, abandoned>>

-----------------------------------------------------------------------------
(* Shutdown and RequestShutdown, on any thread, until the app is destroyed. *)

Alive == call["main"] \notin {"destroying", "members", "gone"}

RequestShutdown(t) ==
    /\ Alive
    /\ Step(t, "idle", "idle")
    /\ shutdown_requested' = TRUE
    /\ UNCHANGED <<handlerVars, state, logger, apps, cleanups, revived,
                   abandoned>>

(* There is something to clean up and nobody has claimed it.               *)
Claimed == state \in {"INITIALIZED", "RUNNING"}

\* Mutant: the state is read, not exchanged.
LoadOnly == state

Exchanged == "SHUTDOWN"

(* The exchange; the winner goes on to the handler's Shutdown and then to  *)
(* goal, the others return.                                                *)
Claim(t, from, goal, otherwise) ==
    /\ Step(t, from, IF Claimed THEN goal ELSE otherwise)
    /\ state' = Exchanged
    /\ cleanups' = IF Claimed THEN cleanups + 1 ELSE cleanups
    /\ Goto(t, IF Claimed THEN "test" ELSE "out")

Shutdown(t) ==
    /\ Alive
    /\ Claim(t, "idle", "cleanup", "idle")
    /\ UNCHANGED <<inherited, disposition, killed, signalled, installed, old,
                   caught, shutdown_requested, logger, apps, revived,
                   abandoned>>

(* Logger::Shutdown comes last.                                            *)
LoggerShutdown(t) ==
    /\ \/ Step(t, "cleanup", "idle")
       \/ Step(t, "destroying", "members")
    /\ at[t] = "down"
    /\ logger' = FALSE
    /\ Goto(t, "out")
    /\ UNCHANGED <<inherited, disposition, killed, signalled, installed, old,
                   caught, state, shutdown_requested, apps, cleanups,
                   revived, abandoned>>

-----------------------------------------------------------------------------
(* The destructor, once no other thread uses the app.                      *)

Unused == \A t \in Helpers : call[t] = "idle"

(* RUNNING: a message and nothing else, whether or not Run has returned.   *)
DestroyRunning ==
    /\ Unused
    /\ Step("main", "idle", "members")
    /\ state = "RUNNING"
    /\ abandoned' = TRUE
    /\ UNCHANGED <<handlerVars, state, shutdown_requested, logger, apps,
                   cleanups, revived>>

(* The safety net.                                                         *)
Destroy ==
    /\ Unused
    /\ state # "RUNNING"
    /\ Claim("main", "idle", "destroying", "members")
    /\ UNCHANGED <<inherited, disposition, killed, signalled, installed, old,
                   caught, shutdown_requested, logger, apps, revived,
                   abandoned>>

(* ~SignalHandler, which shuts an installed handler down.                  *)
DestroyHandler ==
    /\ Step("main", "members", "members")
    /\ installed /\ at["main"] = "out"
    /\ Goto("main", "test")
    /\ UNCHANGED <<inherited, disposition, killed, signalled, installed, old,
                   caught, state, shutdown_requested, logger, apps, cleanups,
                   revived, abandoned>>

Destroyed ==
    /\ Step("main", "members", "gone")
    /\ ~installed /\ at["main"] \in {"out", "down"}
    /\ Goto("main", "out")
    /\ UNCHANGED <<inherited, disposition, killed, signalled, installed, old,
                   caught, state, shutdown_requested, logger, apps, cleanups,
                   revived, abandoned>>

(* The constructors of the next app and of its signal handler.             *)
NextApp ==
    /\ apps < MaxApps
    /\ Step("main", "gone", "idle")
    /\ apps' = apps + 1
    /\ state' = "UNINITIALIZED"
    /\ shutdown_requested' = FALSE
    /\ installed' = FALSE
    /\ old' = [s \in Signals |-> "default"]
    /\ cleanups' = 0
    /\ revived' = FALSE
    /\ UNCHANGED <<inherited, disposition, killed, signalled, at, caught,
                   logger, abandoned>>

-----------------------------------------------------------------------------
InHandler(t) == HandlerStep(t) /\ UNCHANGED appVars

Initialize ==
    \/ InitializeLoads \/ LoggerRefuses \/ LoggerInitialize
    \/ InitializeFails \/ InitializeStores

Next ==
    \/ Initialize
    \/ RunLoads \/ RunStores \/ RunReturns
    \/ \E t \in Threads :
          \/ RequestShutdown(t) \/ Shutdown(t) \/ LoggerShutdown(t)
          \/ InHandler(t)
    \/ DestroyRunning \/ Destroy \/ DestroyHandler \/ Destroyed \/ NextApp
    \/ \E s \in Signals : SignalArrives(s) /\ UNCHANGED appVars

Spec == Init /\ [][Next]_vars

(* The scheduler runs a thread that is inside a call; the loop's sleeps    *)
(* end.                                                                    *)
FairSpec ==
    /\ Spec
    /\ WF_vars(RunStores \/ RunReturns)
    /\ WF_vars(LoggerRefuses \/ LoggerInitialize \/ InitializeFails
                             \/ InitializeStores)
    /\ \A t \in Threads : WF_vars(InHandler(t) \/ LoggerShutdown(t))

-----------------------------------------------------------------------------
(* However many threads call Shutdown, at most one of them cleans up,      *)
(* unless a store of Initialize or Run has overwritten the SHUTDOWN that   *)
(* an earlier call exchanged into state.                                   *)
OneCleanup == cleanups <= 1 \/ revived

(* When an app has been destroyed, by whatever path and with whatever      *)
(* failure on the way, the process has its signal dispositions back, and   *)
(* the logger is down, so that the next app can initialize, unless an app  *)
(* was destroyed in the state RUNNING.                                     *)
EndsAsItBegan ==
    call["main"] = "gone" =>
        /\ disposition = inherited
        /\ logger => abandoned

(* Run returns after RequestShutdown, whenever it was called, and after a  *)
(* signal caught at any time since the callbacks were installed, unless    *)
(* another thread's Shutdown removes them first.                           *)
RunEnds ==
    /\ (call["main"] \in {"run", "loop"} /\ shutdown_requested)
          ~> (call["main"] = "idle" \/ killed)
    /\ (call["main"] \in {"run", "loop"} /\ caught /\ installed)
          ~> (call["main"] = "idle" \/ killed \/ ~installed)
=============================================================================
