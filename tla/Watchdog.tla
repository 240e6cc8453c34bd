------------------------------ MODULE Watchdog ------------------------------
(***************************************************************************)
(* Watchdog and LinuxWatchdogDevice (framework/watchdog): a monitor thread *)
(* that kicks the hardware timer while every registered checker reports    *)
(* healthy, and the owner that registers, starts, stops and joins.         *)
(*                                                                         *)
(* A unit of time covers a sleep of the poll interval, 50 ms in the code,  *)
(* and what the sleep overruns it by.  The model keeps what is left of     *)
(* each delay instead of the clock, so that no bound on the clock is       *)
(* needed.  The monitor may be late: up to MaxLag units pass between two   *)
(* of its steps.  The hardware timer, once armed, resets the system, where *)
(* all behaviours of the model end, unless it is kicked in time or         *)
(* disarmed by the magic close.                                            *)
(***************************************************************************)
EXTENDS Integers, FiniteSets

CONSTANTS Checkers,  \* names of the health checkers
          Timeouts,  \* values of timeout_seconds
          Second,    \* time units in a second
          MaxLag     \* how late the monitor thread may be

ASSUME WatchdogAssumption ==
    /\ Timeouts \subseteq Nat \ {0}
    /\ Second \in Nat \ {0}
    /\ MaxLag \in Nat \ {0}
    /\ IsFiniteSet(Checkers)

(* What half of a timeout leaves is enough for a monitor that is late at   *)
(* every step: when it begins, before the test that finds the kick due, at *)
(* each checker and at the kick.  A timeout of one second leaves nothing.  *)
ASSUME PunctualAssumption ==
    \A t \in Timeouts :
        /\ t >= 2
        /\ (Cardinality(Checkers) + 3) * MaxLag <= Second * (t - t \div 2)

VARIABLES running_,
          checkers,        \* the registered ones
          timeout,         \* timeout_seconds_, and the timer's own
          device,          \* is the descriptor open?
          token,           \* the StopToken of the monitor thread
          owner,           \* is the owner inside Join?
          monitor,         \* where the monitor thread is
          todo,            \* checkers that CheckAllHealth has yet to ask
          wait,            \* time left until next_kick
          lag,             \* time since the monitor's last step
          armed,           \* kernel: the hardware timer is counting
          hw,              \* kernel: time since it was last reset
          fired,           \* kernel: it has reset the system
          healthy,         \* what each checker would report
          refused,         \* history: a checker has failed since Start
          leaked           \* history: Open failed after arming the timer

vars == <<running_, checkers, timeout, device, token, owner, monitor, todo,
          wait, lag, armed, hw, fired, healthy, refused, leaked>>

Init ==
    /\ running_ = FALSE /\ checkers = {} /\ timeout = 0
    /\ device = FALSE /\ token = FALSE /\ owner = "idle"
    /\ monitor = "none" /\ todo = {} /\ wait = 0 /\ lag = 0
    /\ armed = FALSE /\ hw = 0 /\ fired = FALSE
    /\ healthy \in [Checkers -> BOOLEAN]
    /\ refused = FALSE /\ leaked = FALSE

-----------------------------------------------------------------------------
(* The owner.                                                              *)

RegisterChecker(k) ==
    /\ ~fired /\ owner = "idle"
    /\ ~running_
    /\ k \notin checkers
    /\ checkers' = checkers \cup {k}
    /\ UNCHANGED <<running_, timeout, device, token, owner, monitor, todo,
                   wait, lag, armed, hw, fired, healthy, refused, leaked>>

MayStart == ~fired /\ owner = "idle" /\ ~running_ /\ checkers # {} /\ ~device

(* Start: the device is opened, which arms the timer, and the monitor is   *)
(* created.                                                                *)
Start(t) ==
    /\ MayStart
    /\ device' = TRUE /\ armed' = TRUE /\ hw' = 0
    /\ timeout' = t
    /\ running_' = TRUE
    /\ token' = FALSE
    /\ monitor' = "begin" /\ lag' = 0
    /\ refused' = FALSE /\ leaked' = FALSE
    /\ UNCHANGED <<checkers, owner, todo, wait, fired, healthy>>

(* Open fails at its ioctl: the descriptor is closed without the magic     *)
(* character, and the timer, with a timeout of its own, goes on counting.  *)
StartLeaks(t) ==
    /\ MayStart
    /\ armed' = TRUE /\ hw' = 0 /\ timeout' = t
    /\ leaked' = TRUE
    /\ UNCHANGED <<running_, checkers, device, token, owner, monitor, todo,
                   wait, lag, fired, healthy, refused>>

\* Mutant: the descriptor is closed without the magic character.
PlainClose == armed

(* Close writes the magic character: the timer is disarmed.                *)
MagicClose == FALSE

(* The monitor thread cannot be created: the device is closed again.       *)
StartFails ==
    /\ MayStart
    /\ armed' = MagicClose
    /\ hw' = 0 /\ leaked' = FALSE
    /\ UNCHANGED <<running_, checkers, timeout, device, token, owner,
                   monitor, todo, wait, lag, fired, healthy, refused>>

Stop ==
    /\ ~fired /\ owner = "idle"
    /\ running_ /\ ~token
    /\ token' = TRUE
    /\ UNCHANGED <<running_, checkers, timeout, device, owner, monitor, todo,
                   wait, lag, armed, hw, fired, healthy, refused, leaked>>

(* Join requests the stop itself, and waits.                               *)
Join ==
    /\ ~fired /\ owner = "idle"
    /\ owner' = "joining"
    /\ token' = (token \/ running_)
    /\ UNCHANGED <<running_, checkers, timeout, device, monitor, todo, wait,
                   lag, armed, hw, fired, healthy, refused, leaked>>

\* Mutant: the device is closed without waiting for the monitor.
NoWait == TRUE

MonitorJoined == monitor \in {"none", "exited"}

JoinReturns ==
    /\ ~fired /\ owner = "joining"
    /\ MonitorJoined
    /\ device' = FALSE
    /\ armed' = IF device THEN MagicClose ELSE armed
    /\ hw' = IF device THEN 0 ELSE hw
    /\ running_' = FALSE
    /\ owner' = "idle"
    /\ monitor' = IF monitor = "exited" THEN "none" ELSE monitor
    /\ UNCHANGED <<checkers, timeout, token, todo, wait, lag, fired, healthy,
                   refused, leaked>>

-----------------------------------------------------------------------------
(* MonitorLoop.                                                            *)

\* Mutant: a kick at exactly the timeout.
FullInterval(t) == t * Second

(* max(1, timeout_seconds_ / 2) seconds.                                   *)
KickInterval(t) == Second * (IF t \div 2 > 1 THEN t \div 2 ELSE 1)

MonitorBegins ==
    /\ ~fired /\ monitor = "begin"
    /\ wait' = KickInterval(timeout)
    /\ monitor' = "loop" /\ lag' = 0
    /\ UNCHANGED <<running_, checkers, timeout, device, token, owner, todo,
                   armed, hw, fired, healthy, refused, leaked>>

(* The loop's tests.  When a kick is due, next_kick counts from here, and  *)
(* CheckAllHealth begins.                                                  *)
MonitorTests ==
    /\ ~fired /\ monitor = "loop"
    /\ lag' = 0
    /\ \/ token /\ monitor' = "exited" /\ UNCHANGED <<todo, wait>>
       \/ ~token /\ wait > 0 /\ monitor' = "sleep" /\ UNCHANGED <<todo, wait>>
       \/ /\ ~token /\ wait = 0
          /\ monitor' = "check"
          /\ todo' = checkers
          /\ wait' = KickInterval(timeout)
    /\ UNCHANGED <<running_, checkers, timeout, device, token, owner, armed,
                   hw, fired, healthy, refused, leaked>>

\* Mutant: the first healthy checker decides.
FirstDecides(k) == {}

(* What CheckAllHealth has left to ask after a healthy checker.            *)
StillToAsk(k) == todo \ {k}

MonitorAsks(k) ==
    /\ ~fired /\ monitor = "check"
    /\ k \in todo
    /\ lag' = 0
    /\ \/ /\ healthy[k]
          /\ todo' = StillToAsk(k)
          /\ UNCHANGED <<monitor, refused>>
       \/ /\ ~healthy[k]
          /\ todo' = {}
          /\ monitor' = "sleep"
          /\ refused' = TRUE
    /\ UNCHANGED <<running_, checkers, timeout, device, token, owner, wait,
                   armed, hw, fired, healthy, leaked>>

(* All are healthy: Kick.                                                  *)
MonitorKicks ==
    /\ ~fired /\ monitor = "check"
    /\ todo = {}
    /\ hw' = IF device THEN 0 ELSE hw
    /\ monitor' = "sleep" /\ lag' = 0
    /\ UNCHANGED <<running_, checkers, timeout, device, token, owner, todo,
                   wait, armed, fired, healthy, refused, leaked>>

(* sleep_for the poll interval.                                            *)
MonitorWakes ==
    /\ ~fired /\ monitor = "sleep"
    /\ lag > 0
    /\ monitor' = "loop"
    /\ UNCHANGED <<running_, checkers, timeout, device, token, owner, todo,
                   wait, lag, armed, hw, fired, healthy, refused, leaked>>

Monitor ==
    \/ MonitorBegins \/ MonitorTests \/ MonitorKicks \/ MonitorWakes
    \/ \E k \in Checkers : MonitorAsks(k)

-----------------------------------------------------------------------------
(* The environment.                                                        *)

HealthChanges(k) ==
    /\ ~fired
    /\ healthy' = [healthy EXCEPT ![k] = ~@]
    /\ UNCHANGED <<running_, checkers, timeout, device, token, owner,
                   monitor, todo, wait, lag, armed, hw, fired, refused,
                   leaked>>

Active == monitor \notin {"none", "exited"}

Tick ==
    /\ ~fired
    /\ armed \/ Active
    /\ Active => lag < MaxLag
    /\ lag' = IF Active THEN lag + 1 ELSE 0
    /\ wait' = IF wait > 0 THEN wait - 1 ELSE 0
    /\ hw' = IF armed THEN hw + 1 ELSE hw
    /\ fired' = (armed /\ hw + 1 = timeout * Second)
    /\ UNCHANGED <<running_, checkers, timeout, device, token, owner,
                   monitor, todo, armed, healthy, refused, leaked>>

Next ==
    \/ \E k \in Checkers : RegisterChecker(k) \/ HealthChanges(k)
    \/ \E t \in Timeouts : Start(t) \/ StartLeaks(t)
    \/ StartFails \/ Stop \/ Join \/ JoinReturns
    \/ Monitor
    \/ Tick

Spec == Init /\ [][Next]_vars

(* Time passes, the monitor thread runs, and Join ends with it.            *)
FairSpec == Spec /\ WF_vars(Tick) /\ WF_vars(Monitor) /\ WF_vars(JoinReturns)

-----------------------------------------------------------------------------
(* Types; the hardware timer never outruns the timeout it was given.       *)
TypeOK ==
    /\ {running_, device, token, armed, fired, refused, leaked}
          \subseteq BOOLEAN
    /\ checkers \subseteq Checkers /\ todo \subseteq Checkers
    /\ timeout \in Timeouts \cup {0}
    /\ owner \in {"idle", "joining"}
    /\ monitor \in {"none", "begin", "loop", "check", "sleep", "exited"}
    /\ wait \in Nat
    /\ lag \in 0..MaxLag
    /\ hw \in 0..(timeout * Second)
    /\ healthy \in [Checkers -> BOOLEAN]

(* A running watchdog resets the system only for a cause: some checker has *)
(* reported unhealthy, or the monitor was told to stop.  A monitor that is *)
(* late by up to MaxLag at each step, and checkers that take as long, are  *)
(* none.                                                                   *)
FiresForCause == fired /\ running_ => refused \/ token

(* After Join, and before Start, no hardware timer counts down with nobody *)
(* to kick it, and the monitor never runs without the device.  (Open's     *)
(* failure after arming the timer excepted.)                               *)
QuietWhenDown ==
    /\ armed => running_ \/ leaked
    /\ Active => device /\ armed /\ running_

(* A checker that stays unhealthy under a running monitor resets the       *)
(* system: nothing keeps kicking for it.                                   *)
SickSystemResets ==
    \A k \in Checkers :
        <>[](Active /\ ~token /\ k \in checkers /\ ~healthy[k]) => <>fired
=============================================================================
