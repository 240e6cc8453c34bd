-------------------------- MODULE FirmwareAppProofs --------------------------
(***************************************************************************)
(* The safety of FirmwareApp and its SignalHandler for any number of       *)
(* threads and of apps.                                                    *)
(***************************************************************************)
EXTENDS FirmwareApp, TLAPS

Installing == {"clear", "sigint", "sigterm", "succeeded", "failed"}
Restoring == {"restore_int", "restore_term", "unset"}
Leaving == Restoring \cup {"test", "down"}
Destructing == {"destroying", "members", "gone"}
Cleaning == {"cleanup", "destroying"}
Dispositions == Inherited \cup {"callback"}

Types ==
    /\ inherited \in [Signals -> Inherited]
    /\ disposition \in [Signals -> Dispositions]
    /\ old \in [Signals -> Dispositions]
    /\ at \in [Threads -> Installing \cup Leaving \cup {"out"}]
    /\ call \in [Threads -> {"idle", "logger", "handler", "run", "loop",
                             "cleanup", "destroying", "members", "gone"}]
    /\ state \in {"UNINITIALIZED", "INITIALIZED", "RUNNING", "SHUTDOWN"}
    /\ cleanups \in Nat

(* Where a thread may be in the handler, by the call it is in: only main   *)
(* installs, only a thread that claimed the cleanup, or the destructor,    *)
(* removes.                                                                *)
InStep ==
    /\ \A t \in Helpers : call[t] \in {"idle", "cleanup"}
    /\ \A t \in Threads :
          /\ call[t] \in {"idle", "logger", "run", "loop", "gone"} => at[t] = "out"
          /\ call[t] = "handler" => at[t] \in Installing
          /\ call[t] \in Cleaning => at[t] \in Leaving
          /\ call[t] = "members" => at[t] \in Leaving \cup {"out"}

(* Once the destructor has begun, main is alone.                           *)
MainIsAlone ==
    call["main"] \in Destructing => \A t \in Helpers : call[t] = "idle"

(* A cleanup is counted, and none begins before Initialize is over.        *)
CleanupsAreLate ==
    /\ \A t \in Threads : call[t] \in Cleaning => cleanups > 0
    /\ state = "UNINITIALIZED" => cleanups = 0
    /\ call["main"] \in {"logger", "handler"} =>
          cleanups = 0 /\ state \in {"UNINITIALIZED", "SHUTDOWN"}
    /\ (cleanups = 0 /\ state \in {"UNINITIALIZED", "SHUTDOWN"}
           /\ at["main"] # "succeeded" /\ call["main"] \notin Destructing)
          => ~installed

(* Who finds the state claimable is the only one, until a store revives it. *)
ClaimedOnce ==
    ~revived => cleanups = 0 \/ (cleanups = 1 /\ state = "SHUTDOWN")

(* What was saved is what the process inherited.                           *)
SavedIsInherited ==
    /\ (installed \/ at["main"] = "succeeded"
           \/ \E t \in Threads : at[t] \in Restoring) => old = inherited
    /\ at["main"] = "sigterm" => old["SIGINT"] = inherited["SIGINT"]

(* A signal that has not been replaced, or has been restored, does what it *)
(* did before.                                                             *)
Restitution ==
    /\ ~installed /\ at["main"] # "sigterm" => disposition = inherited
    /\ at["main"] \in {"clear", "sigint", "sigterm"} => ~installed
    /\ call["main"] = "gone" => ~installed
    /\ at["main"] = "sigterm" => disposition["SIGTERM"] = inherited["SIGTERM"]
    /\ \A t \in Threads :
          /\ at[t] \in {"restore_term", "unset"} =>
                disposition["SIGINT"] = inherited["SIGINT"]
          /\ at[t] = "unset" => disposition["SIGTERM"] = inherited["SIGTERM"]

(* A logger that is up has somebody who will bring it down.                *)
LoggerHasAnOwner ==
    /\ logger =>
          \/ abandoned \/ Claimed \/ call["main"] = "handler"
          \/ \E t \in Threads : call[t] \in Cleaning
    /\ call["main"] \in Destructing => state = "SHUTDOWN" \/ abandoned

Inv ==
    /\ Types
    /\ InStep
    /\ MainIsAlone
    /\ CleanupsAreLate
    /\ ClaimedOnce
    /\ SavedIsInherited
    /\ Restitution
    /\ LoggerHasAnOwner

-----------------------------------------------------------------------------
(* Init establishes the invariant.                                         *)
LEMMA InitInv == Init => Inv
<1> SUFFICES ASSUME Init PROVE Inv
  OBVIOUS
<1> USE AppAssumption DEF Init, HandlerInit
<1>1. Types
  BY DEF Types, Inherited, Dispositions
<1>2. InStep /\ MainIsAlone /\ CleanupsAreLate /\ ClaimedOnce
  BY DEF InStep, MainIsAlone, CleanupsAreLate, ClaimedOnce, Cleaning, Destructing
<1>3. SavedIsInherited /\ Restitution /\ LoggerHasAnOwner
  BY DEF SavedIsInherited, Restitution, LoggerHasAnOwner, Restoring, Destructing
<1> QED
  BY <1>1, <1>2, <1>3 DEF Inv

(* A step that leaves what the invariant is about alone.                   *)
LEMMA OutsideInv ==
    ASSUME Inv,
           UNCHANGED <<inherited, disposition, installed, old, at, state, logger,
                       call, cleanups, revived, abandoned>>
    PROVE  Inv'
  BY DEF Inv, Types, InStep, MainIsAlone, CleanupsAreLate, ClaimedOnce,
         SavedIsInherited, Restitution, LoggerHasAnOwner, Claimed
-----------------------------------------------------------------------------
USE DEF Signals, Dispositions, Installing, Restoring, Leaving, Destructing,
        Cleaning

(* The load of Initialize: nothing has been claimed yet.                   *)
LEMMA InitializeLoadsInv ==
    ASSUME Inv, InitializeLoads
    PROVE  Inv'
<1> USE AppAssumption DEF InitializeLoads, Step, Goto, handlerVars
<1>1. Types'
  BY DEF Inv, Types
<1>2. InStep' /\ MainIsAlone'
  BY DEF Inv, Types, InStep, MainIsAlone
<1>3. CleanupsAreLate' /\ ClaimedOnce'
  BY DEF Inv, Types, InStep, MainIsAlone, CleanupsAreLate, ClaimedOnce
<1>4. SavedIsInherited'
  BY DEF Inv, Types, InStep, MainIsAlone, CleanupsAreLate, SavedIsInherited,
         Restitution
<1>5. Restitution'
  BY DEF Inv, Types, InStep, MainIsAlone, CleanupsAreLate, SavedIsInherited,
         Restitution
<1>6. LoggerHasAnOwner'
  BY DEF Inv, Types, InStep, MainIsAlone, CleanupsAreLate, LoggerHasAnOwner,
         Claimed
<1> QED
  BY <1>1, <1>2, <1>3, <1>4, <1>5, <1>6 DEF Inv

(* An early return of Initialize.                                          *)
LEMMA LoggerRefusesInv ==
    ASSUME Inv, LoggerRefuses
    PROVE  Inv'
<1> USE AppAssumption DEF LoggerRefuses, Step, Goto, handlerVars
<1>1. Types'
  BY DEF Inv, Types
<1>2. InStep' /\ MainIsAlone'
  BY DEF Inv, Types, InStep, MainIsAlone
<1>3. CleanupsAreLate' /\ ClaimedOnce'
  BY DEF Inv, Types, InStep, MainIsAlone, CleanupsAreLate, ClaimedOnce
<1>4. SavedIsInherited'
  BY DEF Inv, Types, InStep, MainIsAlone, CleanupsAreLate, SavedIsInherited,
         Restitution
<1>5. Restitution'
  BY DEF Inv, Types, InStep, MainIsAlone, CleanupsAreLate, SavedIsInherited,
         Restitution
<1>6. LoggerHasAnOwner'
  BY DEF Inv, Types, InStep, MainIsAlone, CleanupsAreLate, LoggerHasAnOwner,
         Claimed
<1> QED
  BY <1>1, <1>2, <1>3, <1>4, <1>5, <1>6 DEF Inv

(* The logger is up, and main is on its way through the handler.           *)
LEMMA LoggerInitializeInv ==
    ASSUME Inv, LoggerInitialize
    PROVE  Inv'
<1> USE AppAssumption DEF LoggerInitialize, Step, Goto
<1>1. Types'
  BY DEF Inv, Types
<1>2. InStep' /\ MainIsAlone'
  BY DEF Inv, Types, InStep, MainIsAlone
<1>3. CleanupsAreLate' /\ ClaimedOnce'
  BY DEF Inv, Types, InStep, MainIsAlone, CleanupsAreLate, ClaimedOnce
<1>4. SavedIsInherited'
  BY DEF Inv, Types, InStep, MainIsAlone, CleanupsAreLate, SavedIsInherited,
         Restitution
<1>5. Restitution'
  BY DEF Inv, Types, InStep, MainIsAlone, CleanupsAreLate, SavedIsInherited,
         Restitution
<1>6. LoggerHasAnOwner'
  BY DEF Inv, Types, InStep, MainIsAlone, CleanupsAreLate, LoggerHasAnOwner,
         Claimed
<1> QED
  BY <1>1, <1>2, <1>3, <1>4, <1>5, <1>6 DEF Inv

(* The logger is brought down again.                                       *)
LEMMA InitializeFailsInv ==
    ASSUME Inv, InitializeFails
    PROVE  Inv'
<1> USE AppAssumption DEF InitializeFails, Step, Goto
<1>1. Types'
  BY DEF Inv, Types
<1>2. InStep' /\ MainIsAlone'
  BY DEF Inv, Types, InStep, MainIsAlone
<1>3. CleanupsAreLate' /\ ClaimedOnce'
  BY DEF Inv, Types, InStep, MainIsAlone, CleanupsAreLate, ClaimedOnce
<1>4. SavedIsInherited'
  BY DEF Inv, Types, InStep, MainIsAlone, CleanupsAreLate, SavedIsInherited,
         Restitution
<1>5. Restitution'
  BY DEF Inv, Types, InStep, MainIsAlone, CleanupsAreLate, SavedIsInherited,
         Restitution
<1>6. LoggerHasAnOwner'
  BY DEF Inv, Types, InStep, MainIsAlone, CleanupsAreLate, LoggerHasAnOwner,
         Claimed
<1> QED
  BY <1>1, <1>2, <1>3, <1>4, <1>5, <1>6 DEF Inv

(* The state becomes claimable, over whatever was there.                   *)
LEMMA InitializeStoresInv ==
    ASSUME Inv, InitializeStores
    PROVE  Inv'
<1> USE AppAssumption DEF InitializeStores, Step, Goto, Store
<1>1. Types'
  BY DEF Inv, Types
<1>2. InStep' /\ MainIsAlone'
  BY DEF Inv, Types, InStep, MainIsAlone
<1>3. CleanupsAreLate' /\ ClaimedOnce'
  BY DEF Inv, Types, InStep, MainIsAlone, CleanupsAreLate, ClaimedOnce
<1>4. SavedIsInherited'
  BY DEF Inv, Types, InStep, MainIsAlone, CleanupsAreLate, SavedIsInherited,
         Restitution
<1>5. Restitution'
  BY DEF Inv, Types, InStep, MainIsAlone, CleanupsAreLate, SavedIsInherited,
         Restitution
<1>6. LoggerHasAnOwner'
  BY DEF Inv, Types, InStep, MainIsAlone, CleanupsAreLate, LoggerHasAnOwner,
         Claimed
<1> QED
  BY <1>1, <1>2, <1>3, <1>4, <1>5, <1>6 DEF Inv

(* The load of Run.                                                        *)
LEMMA RunLoadsInv ==
    ASSUME Inv, RunLoads
    PROVE  Inv'
<1> USE AppAssumption DEF RunLoads, Step, Goto, handlerVars
<1>1. Types'
  BY DEF Inv, Types
<1>2. InStep' /\ MainIsAlone'
  BY DEF Inv, Types, InStep, MainIsAlone
<1>3. CleanupsAreLate' /\ ClaimedOnce'
  BY DEF Inv, Types, InStep, MainIsAlone, CleanupsAreLate, ClaimedOnce
<1>4. SavedIsInherited'
  BY DEF Inv, Types, InStep, MainIsAlone, CleanupsAreLate, SavedIsInherited,
         Restitution
<1>5. Restitution'
  BY DEF Inv, Types, InStep, MainIsAlone, CleanupsAreLate, SavedIsInherited,
         Restitution
<1>6. LoggerHasAnOwner'
  BY DEF Inv, Types, InStep, MainIsAlone, CleanupsAreLate, LoggerHasAnOwner,
         Claimed
<1> QED
  BY <1>1, <1>2, <1>3, <1>4, <1>5, <1>6 DEF Inv

(* The store of Run may revive a state that was claimed.                   *)
LEMMA RunStoresInv ==
    ASSUME Inv, RunStores
    PROVE  Inv'
<1> USE AppAssumption DEF RunStores, Step, Goto, handlerVars, Store
<1>1. Types'
  BY DEF Inv, Types
<1>2. InStep' /\ MainIsAlone'
  BY DEF Inv, Types, InStep, MainIsAlone
<1>3. CleanupsAreLate' /\ ClaimedOnce'
  BY DEF Inv, Types, InStep, MainIsAlone, CleanupsAreLate, ClaimedOnce
<1>4. SavedIsInherited'
  BY DEF Inv, Types, InStep, MainIsAlone, CleanupsAreLate, SavedIsInherited,
         Restitution
<1>5. Restitution'
  BY DEF Inv, Types, InStep, MainIsAlone, CleanupsAreLate, SavedIsInherited,
         Restitution
<1>6. LoggerHasAnOwner'
  BY DEF Inv, Types, InStep, MainIsAlone, CleanupsAreLate, LoggerHasAnOwner,
         Claimed
<1> QED
  BY <1>1, <1>2, <1>3, <1>4, <1>5, <1>6 DEF Inv

(* The run loop ends.                                                      *)
LEMMA RunReturnsInv ==
    ASSUME Inv, RunReturns
    PROVE  Inv'
<1> USE AppAssumption DEF RunReturns, Step, Goto, handlerVars
<1>1. Types'
  BY DEF Inv, Types
<1>2. InStep' /\ MainIsAlone'
  BY DEF Inv, Types, InStep, MainIsAlone
<1>3. CleanupsAreLate' /\ ClaimedOnce'
  BY DEF Inv, Types, InStep, MainIsAlone, CleanupsAreLate, ClaimedOnce
<1>4. SavedIsInherited'
  BY DEF Inv, Types, InStep, MainIsAlone, CleanupsAreLate, SavedIsInherited,
         Restitution
<1>5. Restitution'
  BY DEF Inv, Types, InStep, MainIsAlone, CleanupsAreLate, SavedIsInherited,
         Restitution
<1>6. LoggerHasAnOwner'
  BY DEF Inv, Types, InStep, MainIsAlone, CleanupsAreLate, LoggerHasAnOwner,
         Claimed
<1> QED
  BY <1>1, <1>2, <1>3, <1>4, <1>5, <1>6 DEF Inv

(* The exchange claims the cleanup, or finds nothing to clean up.          *)
LEMMA ShutdownInv ==
    ASSUME Inv, NEW t \in Threads, Shutdown(t)
    PROVE  Inv'
<1> USE AppAssumption DEF Shutdown, Step, Goto, Claim, Claimed, Exchanged,
        Alive
<1>1. Types'
  BY DEF Inv, Types
<1>2. InStep' /\ MainIsAlone'
  BY DEF Inv, Types, InStep, MainIsAlone
<1>3. CleanupsAreLate' /\ ClaimedOnce'
  BY DEF Inv, Types, InStep, MainIsAlone, CleanupsAreLate, ClaimedOnce
<1>4. SavedIsInherited'
  BY DEF Inv, Types, InStep, MainIsAlone, CleanupsAreLate, SavedIsInherited,
         Restitution
<1>5. Restitution'
  BY DEF Inv, Types, InStep, MainIsAlone, CleanupsAreLate, SavedIsInherited,
         Restitution
<1>6. LoggerHasAnOwner'
  BY DEF Inv, Types, InStep, MainIsAlone, CleanupsAreLate, LoggerHasAnOwner,
         Claimed
<1> QED
  BY <1>1, <1>2, <1>3, <1>4, <1>5, <1>6 DEF Inv

(* The end of a cleanup.                                                   *)
LEMMA LoggerShutdownInv ==
    ASSUME Inv, NEW t \in Threads, LoggerShutdown(t)
    PROVE  Inv'
<1> USE AppAssumption DEF LoggerShutdown, Step, Goto
<1>1. Types'
  BY DEF Inv, Types
<1>2. InStep' /\ MainIsAlone'
  BY DEF Inv, Types, InStep, MainIsAlone
<1>3. CleanupsAreLate' /\ ClaimedOnce'
  BY DEF Inv, Types, InStep, MainIsAlone, CleanupsAreLate, ClaimedOnce
<1>4. SavedIsInherited'
  BY DEF Inv, Types, InStep, MainIsAlone, CleanupsAreLate, SavedIsInherited,
         Restitution
<1>5. Restitution'
  BY DEF Inv, Types, InStep, MainIsAlone, CleanupsAreLate, SavedIsInherited,
         Restitution
<1>6. LoggerHasAnOwner'
  BY DEF Inv, Types, InStep, MainIsAlone, CleanupsAreLate, LoggerHasAnOwner,
         Claimed
<1> QED
  BY <1>1, <1>2, <1>3, <1>4, <1>5, <1>6 DEF Inv

(* The destructor gives a running app up.                                  *)
LEMMA DestroyRunningInv ==
    ASSUME Inv, DestroyRunning
    PROVE  Inv'
<1> USE AppAssumption DEF DestroyRunning, Step, Goto, handlerVars, Unused
<1>1. Types'
  BY DEF Inv, Types
<1>2. InStep' /\ MainIsAlone'
  BY DEF Inv, Types, InStep, MainIsAlone
<1>3. CleanupsAreLate' /\ ClaimedOnce'
  BY DEF Inv, Types, InStep, MainIsAlone, CleanupsAreLate, ClaimedOnce
<1>4. SavedIsInherited'
  BY DEF Inv, Types, InStep, MainIsAlone, CleanupsAreLate, SavedIsInherited,
         Restitution
<1>5. Restitution'
  BY DEF Inv, Types, InStep, MainIsAlone, CleanupsAreLate, SavedIsInherited,
         Restitution
<1>6. LoggerHasAnOwner'
  BY DEF Inv, Types, InStep, MainIsAlone, CleanupsAreLate, LoggerHasAnOwner,
         Claimed
<1> QED
  BY <1>1, <1>2, <1>3, <1>4, <1>5, <1>6 DEF Inv

(* The destructor claims what nobody has.                                  *)
LEMMA DestroyInv ==
    ASSUME Inv, Destroy
    PROVE  Inv'
<1> USE AppAssumption DEF Destroy, Step, Goto, Unused, Claim, Claimed,
        Exchanged
<1>1. Types'
  BY DEF Inv, Types
<1>2. InStep' /\ MainIsAlone'
  BY DEF Inv, Types, InStep, MainIsAlone
<1>3. CleanupsAreLate' /\ ClaimedOnce'
  BY DEF Inv, Types, InStep, MainIsAlone, CleanupsAreLate, ClaimedOnce
<1>4. SavedIsInherited'
  BY DEF Inv, Types, InStep, MainIsAlone, CleanupsAreLate, SavedIsInherited,
         Restitution
<1>5. Restitution'
  BY DEF Inv, Types, InStep, MainIsAlone, CleanupsAreLate, SavedIsInherited,
         Restitution
<1>6. LoggerHasAnOwner'
  BY DEF Inv, Types, InStep, MainIsAlone, CleanupsAreLate, LoggerHasAnOwner,
         Claimed
<1> QED
  BY <1>1, <1>2, <1>3, <1>4, <1>5, <1>6 DEF Inv

(* The handler's own destructor.                                           *)
LEMMA DestroyHandlerInv ==
    ASSUME Inv, DestroyHandler
    PROVE  Inv'
<1> USE AppAssumption DEF DestroyHandler, Step, Goto
<1>1. Types'
  BY DEF Inv, Types
<1>2. InStep' /\ MainIsAlone'
  BY DEF Inv, Types, InStep, MainIsAlone
<1>3. CleanupsAreLate' /\ ClaimedOnce'
  BY DEF Inv, Types, InStep, MainIsAlone, CleanupsAreLate, ClaimedOnce
<1>4. SavedIsInherited'
  BY DEF Inv, Types, InStep, MainIsAlone, CleanupsAreLate, SavedIsInherited,
         Restitution
<1>5. Restitution'
  BY DEF Inv, Types, InStep, MainIsAlone, CleanupsAreLate, SavedIsInherited,
         Restitution
<1>6. LoggerHasAnOwner'
  BY DEF Inv, Types, InStep, MainIsAlone, CleanupsAreLate, LoggerHasAnOwner,
         Claimed
<1> QED
  BY <1>1, <1>2, <1>3, <1>4, <1>5, <1>6 DEF Inv

(* The app is gone.                                                        *)
LEMMA DestroyedInv ==
    ASSUME Inv, Destroyed
    PROVE  Inv'
<1> USE AppAssumption DEF Destroyed, Step, Goto
<1>1. Types'
  BY DEF Inv, Types
<1>2. InStep' /\ MainIsAlone'
  BY DEF Inv, Types, InStep, MainIsAlone
<1>3. CleanupsAreLate' /\ ClaimedOnce'
  BY DEF Inv, Types, InStep, MainIsAlone, CleanupsAreLate, ClaimedOnce
<1>4. SavedIsInherited'
  BY DEF Inv, Types, InStep, MainIsAlone, CleanupsAreLate, SavedIsInherited,
         Restitution
<1>5. Restitution'
  BY DEF Inv, Types, InStep, MainIsAlone, CleanupsAreLate, SavedIsInherited,
         Restitution
<1>6. LoggerHasAnOwner'
  BY DEF Inv, Types, InStep, MainIsAlone, CleanupsAreLate, LoggerHasAnOwner,
         Claimed
<1> QED
  BY <1>1, <1>2, <1>3, <1>4, <1>5, <1>6 DEF Inv

(* A new app has nothing installed and nothing saved.                      *)
LEMMA NextAppInv ==
    ASSUME Inv, NextApp
    PROVE  Inv'
<1> USE AppAssumption DEF NextApp, Step, Goto, Inherited
<1>1. Types'
  BY DEF Inv, Types
<1>2. InStep' /\ MainIsAlone'
  BY DEF Inv, Types, InStep, MainIsAlone
<1>3. CleanupsAreLate' /\ ClaimedOnce'
  BY DEF Inv, Types, InStep, MainIsAlone, CleanupsAreLate, ClaimedOnce
<1>4. SavedIsInherited'
  BY DEF Inv, Types, InStep, MainIsAlone, CleanupsAreLate, SavedIsInherited,
         Restitution
<1>5. Restitution'
  BY DEF Inv, Types, InStep, MainIsAlone, CleanupsAreLate, SavedIsInherited,
         Restitution
<1>6. LoggerHasAnOwner'
  BY DEF Inv, Types, InStep, MainIsAlone, CleanupsAreLate, LoggerHasAnOwner,
         Claimed
<1> QED
  BY <1>1, <1>2, <1>3, <1>4, <1>5, <1>6 DEF Inv

(* The flag is no concern of the invariant.                                *)
LEMMA InitializeClearsInv ==
    ASSUME Inv, NEW t \in Threads, InitializeClears(t), UNCHANGED appVars
    PROVE  Inv'
<1> USE AppAssumption DEF InitializeClears, Step, Goto, appVars
<1>1. Types'
  BY DEF Inv, Types
<1>2. InStep' /\ MainIsAlone'
  BY DEF Inv, Types, InStep, MainIsAlone
<1>3. CleanupsAreLate' /\ ClaimedOnce'
  BY DEF Inv, Types, InStep, MainIsAlone, CleanupsAreLate, ClaimedOnce
<1>4. SavedIsInherited'
  BY DEF Inv, Types, InStep, MainIsAlone, CleanupsAreLate, SavedIsInherited,
         Restitution
<1>5. Restitution'
  BY DEF Inv, Types, InStep, MainIsAlone, CleanupsAreLate, SavedIsInherited,
         Restitution
<1>6. LoggerHasAnOwner'
  BY DEF Inv, Types, InStep, MainIsAlone, CleanupsAreLate, LoggerHasAnOwner,
         Claimed
<1> QED
  BY <1>1, <1>2, <1>3, <1>4, <1>5, <1>6 DEF Inv

(* The disposition that was saved is the inherited one.                    *)
LEMMA InstallIntInv ==
    ASSUME Inv, NEW t \in Threads, InstallInt(t), UNCHANGED appVars
    PROVE  Inv'
<1> USE AppAssumption DEF InstallInt, Step, Goto, Install, appVars
<1>1. Types'
  BY DEF Inv, Types
<1>2. InStep' /\ MainIsAlone'
  BY DEF Inv, Types, InStep, MainIsAlone
<1>3. CleanupsAreLate' /\ ClaimedOnce'
  BY DEF Inv, Types, InStep, MainIsAlone, CleanupsAreLate, ClaimedOnce
<1>4. SavedIsInherited'
  <2>1. t = "main" /\ call["main"] = "handler"
    BY DEF Inv, Types, InStep
  <2>2. \A u \in Threads \ {"main"} : at[u] = "out"
    BY <2>1 DEF Inv, Types, InStep, CleanupsAreLate
  <2> QED
    BY <2>1, <2>2 DEF Inv, Types, SavedIsInherited, Restitution
<1>5. Restitution'
  <2>1. t = "main" /\ call["main"] = "handler"
    BY DEF Inv, Types, InStep
  <2>2. \A u \in Threads \ {"main"} : at[u] = "out"
    BY <2>1 DEF Inv, Types, InStep, CleanupsAreLate
  <2> QED
    BY <2>1, <2>2 DEF Inv, Types, SavedIsInherited, Restitution
<1>6. LoggerHasAnOwner'
  BY DEF Inv, Types, InStep, MainIsAlone, CleanupsAreLate, LoggerHasAnOwner,
         Claimed
<1> QED
  BY <1>1, <1>2, <1>3, <1>4, <1>5, <1>6 DEF Inv

(* Nothing has been replaced.                                              *)
LEMMA InstallIntFailsInv ==
    ASSUME Inv, NEW t \in Threads, InstallIntFails(t), UNCHANGED appVars
    PROVE  Inv'
<1> USE AppAssumption DEF InstallIntFails, Step, Goto, appVars
<1>1. Types'
  BY DEF Inv, Types
<1>2. InStep' /\ MainIsAlone'
  BY DEF Inv, Types, InStep, MainIsAlone
<1>3. CleanupsAreLate' /\ ClaimedOnce'
  BY DEF Inv, Types, InStep, MainIsAlone, CleanupsAreLate, ClaimedOnce
<1>4. SavedIsInherited'
  BY DEF Inv, Types, InStep, MainIsAlone, CleanupsAreLate, SavedIsInherited,
         Restitution
<1>5. Restitution'
  BY DEF Inv, Types, InStep, MainIsAlone, CleanupsAreLate, SavedIsInherited,
         Restitution
<1>6. LoggerHasAnOwner'
  BY DEF Inv, Types, InStep, MainIsAlone, CleanupsAreLate, LoggerHasAnOwner,
         Claimed
<1> QED
  BY <1>1, <1>2, <1>3, <1>4, <1>5, <1>6 DEF Inv

(* Both dispositions are saved.                                            *)
LEMMA InstallTermInv ==
    ASSUME Inv, NEW t \in Threads, InstallTerm(t), UNCHANGED appVars
    PROVE  Inv'
<1> USE AppAssumption DEF InstallTerm, Step, Goto, Install, appVars
<1>1. Types'
  BY DEF Inv, Types
<1>2. InStep' /\ MainIsAlone'
  BY DEF Inv, Types, InStep, MainIsAlone
<1>3. CleanupsAreLate' /\ ClaimedOnce'
  <2>1. t = "main" /\ call["main"] = "handler"
    BY DEF Inv, Types, InStep
  <2>2. \A u \in Threads \ {"main"} : at[u] = "out"
    BY <2>1 DEF Inv, Types, InStep, CleanupsAreLate
  <2> QED
    BY <2>1, <2>2 DEF Inv, Types, InStep, CleanupsAreLate, ClaimedOnce
<1>4. SavedIsInherited'
  <2>1. t = "main" /\ call["main"] = "handler"
    BY DEF Inv, Types, InStep
  <2>2. \A u \in Threads \ {"main"} : at[u] = "out"
    BY <2>1 DEF Inv, Types, InStep, CleanupsAreLate
  <2> QED
    BY <2>1, <2>2 DEF Inv, Types, SavedIsInherited, Restitution
<1>5. Restitution'
  <2>1. t = "main" /\ call["main"] = "handler"
    BY DEF Inv, Types, InStep
  <2>2. \A u \in Threads \ {"main"} : at[u] = "out"
    BY <2>1 DEF Inv, Types, InStep, CleanupsAreLate
  <2> QED
    BY <2>1, <2>2 DEF Inv, Types, SavedIsInherited, Restitution
<1>6. LoggerHasAnOwner'
  BY DEF Inv, Types, InStep, MainIsAlone, CleanupsAreLate, LoggerHasAnOwner,
         Claimed
<1> QED
  BY <1>1, <1>2, <1>3, <1>4, <1>5, <1>6 DEF Inv

(* The first one is rolled back.                                           *)
LEMMA InstallTermFailsInv ==
    ASSUME Inv, NEW t \in Threads, InstallTermFails(t), UNCHANGED appVars
    PROVE  Inv'
<1> USE AppAssumption DEF InstallTermFails, Step, Goto, Rollback, Restored,
        appVars
<1>1. Types'
  BY DEF Inv, Types
<1>2. InStep' /\ MainIsAlone'
  BY DEF Inv, Types, InStep, MainIsAlone
<1>3. CleanupsAreLate' /\ ClaimedOnce'
  BY DEF Inv, Types, InStep, MainIsAlone, CleanupsAreLate, ClaimedOnce
<1>4. SavedIsInherited'
  <2>1. t = "main" /\ call["main"] = "handler"
    BY DEF Inv, Types, InStep
  <2>2. \A u \in Threads \ {"main"} : at[u] = "out"
    BY <2>1 DEF Inv, Types, InStep, CleanupsAreLate
  <2> QED
    BY <2>1, <2>2 DEF Inv, Types, SavedIsInherited, Restitution
<1>5. Restitution'
  <2>1. t = "main" /\ call["main"] = "handler"
    BY DEF Inv, Types, InStep
  <2>2. \A u \in Threads \ {"main"} : at[u] = "out"
    BY <2>1 DEF Inv, Types, InStep, CleanupsAreLate
  <2> QED
    BY <2>1, <2>2 DEF Inv, Types, SavedIsInherited, Restitution
<1>6. LoggerHasAnOwner'
  BY DEF Inv, Types, InStep, MainIsAlone, CleanupsAreLate, LoggerHasAnOwner,
         Claimed
<1> QED
  BY <1>1, <1>2, <1>3, <1>4, <1>5, <1>6 DEF Inv

(* A handler that is not installed is left alone.                          *)
LEMMA ShutdownTestsInv ==
    ASSUME Inv, NEW t \in Threads, ShutdownTests(t), UNCHANGED appVars
    PROVE  Inv'
<1> USE AppAssumption DEF ShutdownTests, Step, Goto, appVars
<1>1. Types'
  BY DEF Inv, Types
<1>2. InStep' /\ MainIsAlone'
  BY DEF Inv, Types, InStep, MainIsAlone
<1>3. CleanupsAreLate' /\ ClaimedOnce'
  BY DEF Inv, Types, InStep, MainIsAlone, CleanupsAreLate, ClaimedOnce
<1>4. SavedIsInherited'
  BY DEF Inv, Types, InStep, MainIsAlone, CleanupsAreLate, SavedIsInherited,
         Restitution
<1>5. Restitution'
  BY DEF Inv, Types, InStep, MainIsAlone, CleanupsAreLate, SavedIsInherited,
         Restitution
<1>6. LoggerHasAnOwner'
  BY DEF Inv, Types, InStep, MainIsAlone, CleanupsAreLate, LoggerHasAnOwner,
         Claimed
<1> QED
  BY <1>1, <1>2, <1>3, <1>4, <1>5, <1>6 DEF Inv

(* What is restored is the inherited disposition, also if another thread   *)
(* has been here.                                                          *)
LEMMA RestoreIntInv ==
    ASSUME Inv, NEW t \in Threads, RestoreInt(t), UNCHANGED appVars
    PROVE  Inv'
<1> USE AppAssumption DEF RestoreInt, Step, Goto, Restored, appVars
<1>1. Types'
  BY DEF Inv, Types
<1>2. InStep' /\ MainIsAlone'
  BY DEF Inv, Types, InStep, MainIsAlone
<1>3. CleanupsAreLate' /\ ClaimedOnce'
  BY DEF Inv, Types, InStep, MainIsAlone, CleanupsAreLate, ClaimedOnce
<1>4. SavedIsInherited'
  BY DEF Inv, Types, InStep, MainIsAlone, CleanupsAreLate, SavedIsInherited,
         Restitution
<1>5. Restitution'
  BY DEF Inv, Types, InStep, MainIsAlone, CleanupsAreLate, SavedIsInherited,
         Restitution
<1>6. LoggerHasAnOwner'
  BY DEF Inv, Types, InStep, MainIsAlone, CleanupsAreLate, LoggerHasAnOwner,
         Claimed
<1> QED
  BY <1>1, <1>2, <1>3, <1>4, <1>5, <1>6 DEF Inv

(* The same for the second signal.                                         *)
LEMMA RestoreTermInv ==
    ASSUME Inv, NEW t \in Threads, RestoreTerm(t), UNCHANGED appVars
    PROVE  Inv'
<1> USE AppAssumption DEF RestoreTerm, Step, Goto, Restored, appVars
<1>1. Types'
  BY DEF Inv, Types
<1>2. InStep' /\ MainIsAlone'
  BY DEF Inv, Types, InStep, MainIsAlone
<1>3. CleanupsAreLate' /\ ClaimedOnce'
  BY DEF Inv, Types, InStep, MainIsAlone, CleanupsAreLate, ClaimedOnce
<1>4. SavedIsInherited'
  BY DEF Inv, Types, InStep, MainIsAlone, CleanupsAreLate, SavedIsInherited,
         Restitution
<1>5. Restitution'
  BY DEF Inv, Types, InStep, MainIsAlone, CleanupsAreLate, SavedIsInherited,
         Restitution
<1>6. LoggerHasAnOwner'
  BY DEF Inv, Types, InStep, MainIsAlone, CleanupsAreLate, LoggerHasAnOwner,
         Claimed
<1> QED
  BY <1>1, <1>2, <1>3, <1>4, <1>5, <1>6 DEF Inv

(* Both were restored before the handler counts as removed.                *)
LEMMA ShutdownClearsInv ==
    ASSUME Inv, NEW t \in Threads, ShutdownClears(t), UNCHANGED appVars
    PROVE  Inv'
<1> USE AppAssumption DEF ShutdownClears, Step, Goto, appVars
<1>1. Types'
  BY DEF Inv, Types
<1>2. InStep' /\ MainIsAlone'
  BY DEF Inv, Types, InStep, MainIsAlone
<1>3. CleanupsAreLate' /\ ClaimedOnce'
  BY DEF Inv, Types, InStep, MainIsAlone, CleanupsAreLate, ClaimedOnce
<1>4. SavedIsInherited'
  BY DEF Inv, Types, InStep, MainIsAlone, CleanupsAreLate, SavedIsInherited,
         Restitution
<1>5. Restitution'
  BY DEF Inv, Types, InStep, MainIsAlone, CleanupsAreLate, SavedIsInherited,
         Restitution
<1>6. LoggerHasAnOwner'
  BY DEF Inv, Types, InStep, MainIsAlone, CleanupsAreLate, LoggerHasAnOwner,
         Claimed
<1> QED
  BY <1>1, <1>2, <1>3, <1>4, <1>5, <1>6 DEF Inv

(* Every step preserves the invariant.                                     *)
LEMMA NextInv == Inv /\ [Next]_vars => Inv'
<1> SUFFICES ASSUME Inv, [Next]_vars PROVE Inv'
  OBVIOUS
<1>1. CASE UNCHANGED vars
  BY <1>1, OutsideInv DEF vars, handlerVars, appVars
<1>2. ASSUME NEW s \in Signals, SignalArrives(s), UNCHANGED appVars PROVE Inv'
  BY <1>2, OutsideInv DEF SignalArrives, appVars
<1>3. ASSUME NEW t \in Threads, RequestShutdown(t) PROVE Inv'
  <2>1. call' = call
    BY <1>3 DEF RequestShutdown, Step, Inv, Types
  <2> QED
    BY <1>3, <2>1, OutsideInv DEF RequestShutdown, handlerVars
<1>4. ASSUME NEW t \in Threads, InHandler(t) PROVE Inv'
  BY <1>4, InitializeClearsInv, InstallIntInv, InstallIntFailsInv, InstallTermInv,
     InstallTermFailsInv, ShutdownTestsInv, RestoreIntInv, RestoreTermInv,
     ShutdownClearsInv
     DEF InHandler, HandlerStep
<1>5. CASE Initialize \/ RunLoads \/ RunStores \/ RunReturns
  BY <1>5, InitializeLoadsInv, LoggerRefusesInv, LoggerInitializeInv,
     InitializeFailsInv, InitializeStoresInv, RunLoadsInv, RunStoresInv,
     RunReturnsInv
     DEF Initialize
<1>6. CASE DestroyRunning \/ Destroy \/ DestroyHandler \/ Destroyed \/ NextApp
  BY <1>6, DestroyRunningInv, DestroyInv, DestroyHandlerInv, DestroyedInv,
     NextAppInv
<1>7. ASSUME NEW t \in Threads, Shutdown(t) \/ LoggerShutdown(t) PROVE Inv'
  BY <1>7, ShutdownInv, LoggerShutdownInv
<1> QED
  BY <1>1, <1>2, <1>3, <1>4, <1>5, <1>6, <1>7 DEF Next

(* The invariant holds in every reachable state.                           *)
LEMMA Invariance == Spec => []Inv
  BY InitInv, NextInv, PTL DEF Spec

-----------------------------------------------------------------------------
(* However many threads call Shutdown, one of them cleans the app up,      *)
(* unless Initialize or Run has stored over the state it exchanged.        *)
THEOREM ShutdownIsExclusive == Spec => []OneCleanup
<1>1. Inv => OneCleanup
  BY DEF Inv, Types, ClaimedOnce, OneCleanup
<1> QED
  BY <1>1, Invariance, PTL

(* A destroyed app leaves the dispositions of its signals, and the logger, *)
(* as it found them, whichever threads removed them and whatever failed,   *)
(* unless it was destroyed as RUNNING.                                     *)
THEOREM DestructorCleansUp == Spec => []EndsAsItBegan
<1>1. Inv => EndsAsItBegan
  BY AppAssumption
     DEF Inv, Types, InStep, MainIsAlone, Restitution, LoggerHasAnOwner,
         Claimed, EndsAsItBegan
<1> QED
  BY <1>1, Invariance, PTL
=============================================================================
