--------------------------- MODULE WatchdogProofs ---------------------------
(***************************************************************************)
(* The safety of Watchdog for any checkers, any timeouts and any lag that  *)
(* the kick interval leaves room for.                                      *)
(***************************************************************************)
EXTENDS Watchdog, FiniteSetTheorems, TLAPS

(* The types of everything but the flags.                                  *)
Types ==
    /\ checkers \subseteq Checkers /\ todo \subseteq Checkers
    /\ timeout \in Timeouts \cup {0}
    /\ owner \in {"idle", "joining"}
    /\ monitor \in {"none", "begin", "loop", "check", "sleep", "exited"}
    /\ wait \in Nat
    /\ lag \in 0..MaxLag
    /\ hw \in Nat

Flags ==
    /\ {running_, device, token, armed, fired, refused, leaked} \subseteq BOOLEAN
    /\ healthy \in [Checkers -> BOOLEAN]

(* The device is open, and the timer armed, exactly while the watchdog     *)
(* runs, which it does as long as it has a monitor.                        *)
Held ==
    /\ running_ <=> device
    /\ running_ => armed /\ timeout \in Timeouts
    /\ armed => timeout \in Timeouts /\ (running_ \/ leaked)
    /\ running_ <=> monitor # "none"
    /\ monitor = "exited" => token

(* The timer fires at its timeout, and then time is over.                  *)
TimerCounts ==
    /\ hw <= timeout * Second
    /\ armed /\ ~fired => hw < timeout * Second

Undisturbed == running_ /\ ~refused /\ ~token

(* What a late monitor may have used up when it asks the checkers.         *)
Asked == (Cardinality(Checkers) - Cardinality(todo)) * MaxLag

(* Where the hardware timer stands while nothing disturbs the monitor.     *)
OnTime ==
    /\ monitor \in {"loop", "check", "sleep"} => wait <= KickInterval(timeout)
    /\ monitor = "begin" => hw <= lag
    /\ monitor \in {"loop", "sleep"} =>
          /\ wait > 0 => hw + wait <= KickInterval(timeout) + MaxLag
          /\ wait = 0 => hw < KickInterval(timeout) + MaxLag + lag
    /\ monitor = "check" =>
          hw < KickInterval(timeout) + 2 * MaxLag + Asked + lag

Inv ==
    /\ Types
    /\ Flags
    /\ Held
    /\ TimerCounts
    /\ Undisturbed => OnTime /\ ~fired

-----------------------------------------------------------------------------
(* Sets of checkers are finite.                                            *)
LEMMA CheckersFinite ==
    ASSUME NEW S \in SUBSET Checkers
    PROVE  /\ IsFiniteSet(S)
           /\ Cardinality(S) \in Nat /\ Cardinality(Checkers) \in Nat
           /\ Cardinality(S) <= Cardinality(Checkers)
  BY FS_Subset, FS_CardinalityType, WatchdogAssumption

(* The kick interval and what it leaves of the timeout.                    *)
LEMMA Slack ==
    ASSUME NEW t \in Timeouts
    PROVE  /\ KickInterval(t) \in Nat /\ KickInterval(t) > 0
           /\ t * Second \in Nat
           /\ Cardinality(Checkers) * MaxLag \in Nat
           /\ KickInterval(t) + Cardinality(Checkers) * MaxLag + 3 * MaxLag
                 <= t * Second
<1> DEFINE C == Cardinality(Checkers)
           h == t \div 2
<1>1. C \in Nat
  BY CheckersFinite
<1>2. t \in Nat /\ t >= 2 /\ Second \in Nat /\ Second > 0 /\ MaxLag \in Nat
  BY WatchdogAssumption, PunctualAssumption
<1>3. h \in Nat /\ h >= 1 /\ h <= t /\ t - h \in Nat
  BY <1>2
<1>4. (C + 3) * MaxLag <= Second * (t - h)
  BY PunctualAssumption
<1>5. KickInterval(t) = Second * h
  BY <1>2, <1>3 DEF KickInterval
<1> HIDE DEF C, h
<1>6. /\ Second * h \in Nat /\ Second * h > 0 /\ t * Second \in Nat
      /\ C * MaxLag \in Nat /\ Second * (t - h) \in Nat
  BY <1>1, <1>2, <1>3
<1>7. (C + 3) * MaxLag = C * MaxLag + 3 * MaxLag
  BY <1>1, <1>2
<1>8. Second * h + Second * (t - h) = t * Second
  BY <1>2, <1>3
<1>9. Second * h + (C * MaxLag + 3 * MaxLag) <= t * Second
  BY <1>2, <1>4, <1>6, <1>7, <1>8
<1> QED
  BY <1>2, <1>5, <1>6, <1>9 DEF C

(* One checker asked is one lag used up, and never more than all of them.  *)
LEMMA AskedGrows ==
    ASSUME NEW S \in SUBSET Checkers, NEW k \in S
    PROVE  LET Used(T) == (Cardinality(Checkers) - Cardinality(T)) * MaxLag
           IN  /\ Used(S) \in Nat
               /\ Used(S) <= Cardinality(Checkers) * MaxLag
               /\ Used(S \ {k}) = Used(S) + MaxLag
<1> DEFINE c == Cardinality(Checkers)
           s == Cardinality(S)
<1>1. c \in Nat /\ s \in Nat /\ s <= c /\ MaxLag \in Nat
  BY CheckersFinite, WatchdogAssumption
<1>2. Cardinality(S \ {k}) = s - 1
  BY CheckersFinite, FS_RemoveElement
<1> HIDE DEF c, s
<1>3. (c - s) * MaxLag \in Nat /\ (c - s) * MaxLag <= c * MaxLag
  BY <1>1
<1>4. (c - (s - 1)) * MaxLag = (c - s) * MaxLag + MaxLag
  BY <1>1
<1> QED
  BY <1>2, <1>3, <1>4 DEF c, s

(* The same bounds for any set of checkers, the empty one too.             *)
LEMMA AskedBound ==
    ASSUME NEW S \in SUBSET Checkers
    PROVE  LET Used(T) == (Cardinality(Checkers) - Cardinality(T)) * MaxLag
           IN  /\ Used(S) \in Nat
               /\ Used(S) <= Cardinality(Checkers) * MaxLag
<1> DEFINE c == Cardinality(Checkers)
           s == Cardinality(S)
<1>1. c \in Nat /\ s \in Nat /\ s <= c /\ MaxLag \in Nat
  BY CheckersFinite, WatchdogAssumption
<1> HIDE DEF c, s
<1>2. (c - s) * MaxLag \in Nat /\ (c - s) * MaxLag <= c * MaxLag
  BY <1>1
<1> QED
  BY <1>2 DEF c, s

-----------------------------------------------------------------------------
(* The products that the invariant compares, for any timeout the model     *)
(* has.                                                                    *)
LEMMA Products ==
    ASSUME Types
    PROVE  /\ timeout * Second \in Nat
           /\ \A t \in Timeouts : t \in Nat /\ t * Second \in Nat
                                /\ t * Second > 0
           /\ MaxLag \in Nat /\ MaxLag > 0
<1>1. \A t \in Timeouts : t \in Nat /\ t > 0
  BY WatchdogAssumption
<1>2. Second \in Nat /\ Second > 0
  BY WatchdogAssumption
<1>3. \A t, s \in Nat : t * s \in Nat /\ (t > 0 /\ s > 0 => t * s > 0)
  OBVIOUS
<1>4. timeout \in Nat
  BY <1>1 DEF Types
<1> QED
  BY <1>1, <1>2, <1>3, <1>4, WatchdogAssumption

(* Init establishes the invariant.                                         *)
LEMMA InitInv == Init => Inv
<1> SUFFICES ASSUME Init PROVE Inv
  OBVIOUS
<1> USE WatchdogAssumption DEF Init
<1>1. Types
  BY DEF Types
<1>2. Flags
  BY DEF Flags
<1>3. Held /\ TimerCounts
  BY <1>1, Products DEF Held, TimerCounts
<1>4. ~Undisturbed
  BY DEF Undisturbed
<1> QED
  BY <1>1, <1>2, <1>3, <1>4 DEF Inv

(* Registration: nothing runs.                                             *)
LEMMA RegisterCheckerInv ==
    ASSUME Inv, NEW k \in Checkers, RegisterChecker(k)
    PROVE  Inv'
<1> USE WatchdogAssumption DEF RegisterChecker
<1>1. Types'
  BY DEF Inv, Types
<1>2. Flags'
  BY Zenon DEF Inv, Flags
<1>3. Held'
  BY DEF Inv, Types, Held
<1>4. TimerCounts'
  BY Products DEF Inv, Types, Held, TimerCounts
<1>5. (Undisturbed => OnTime /\ ~fired)'
  BY Products, Slack, AskedBound DEF Inv, Types, Held, TimerCounts, Undisturbed,
         OnTime, Asked
<1> QED
  BY <1>1, <1>2, <1>3, <1>4, <1>5 DEF Inv

(* Start arms the timer and creates the monitor together.                  *)
LEMMA StartInv ==
    ASSUME Inv, NEW t \in Timeouts, Start(t)
    PROVE  Inv'
<1> USE WatchdogAssumption DEF Start, MayStart
<1>1. Types'
  BY DEF Inv, Types
<1>2. Flags'
  BY Zenon DEF Inv, Flags
<1>3. Held'
  BY DEF Inv, Types, Held
<1>4. TimerCounts'
  BY Products DEF Inv, Types, Held, TimerCounts
<1>5. (Undisturbed => OnTime /\ ~fired)'
  BY Products, Slack, AskedBound DEF Inv, Types, Held, TimerCounts, Undisturbed,
         OnTime, Asked
<1> QED
  BY <1>1, <1>2, <1>3, <1>4, <1>5 DEF Inv

(* An armed timer that nobody runs for.                                    *)
LEMMA StartLeaksInv ==
    ASSUME Inv, NEW t \in Timeouts, StartLeaks(t)
    PROVE  Inv'
<1> USE WatchdogAssumption DEF StartLeaks, MayStart
<1>1. Types'
  BY DEF Inv, Types
<1>2. Flags'
  BY Zenon DEF Inv, Flags
<1>3. Held'
  BY DEF Inv, Types, Held
<1>4. TimerCounts'
  BY Products DEF Inv, Types, Held, TimerCounts
<1>5. (Undisturbed => OnTime /\ ~fired)'
  BY Products, Slack, AskedBound DEF Inv, Types, Held, TimerCounts, Undisturbed,
         OnTime, Asked
<1> QED
  BY <1>1, <1>2, <1>3, <1>4, <1>5 DEF Inv

(* The magic close.                                                        *)
LEMMA StartFailsInv ==
    ASSUME Inv, StartFails
    PROVE  Inv'
<1> USE WatchdogAssumption DEF StartFails, MayStart, MagicClose
<1>1. Types'
  BY DEF Inv, Types
<1>2. Flags'
  BY Zenon DEF Inv, Flags
<1>3. Held'
  BY DEF Inv, Types, Held
<1>4. TimerCounts'
  BY Products DEF Inv, Types, Held, TimerCounts
<1>5. (Undisturbed => OnTime /\ ~fired)'
  BY Products, Slack, AskedBound DEF Inv, Types, Held, TimerCounts, Undisturbed,
         OnTime, Asked
<1> QED
  BY <1>1, <1>2, <1>3, <1>4, <1>5 DEF Inv

(* A stop disturbs the monitor.                                            *)
LEMMA StopInv ==
    ASSUME Inv, Stop
    PROVE  Inv'
<1> USE WatchdogAssumption DEF Stop
<1>1. Types'
  BY DEF Inv, Types
<1>2. Flags'
  BY Zenon DEF Inv, Flags
<1>3. Held'
  BY DEF Inv, Types, Held
<1>4. TimerCounts'
  BY Products DEF Inv, Types, Held, TimerCounts
<1>5. (Undisturbed => OnTime /\ ~fired)'
  BY Products, Slack, AskedBound DEF Inv, Types, Held, TimerCounts, Undisturbed,
         OnTime, Asked
<1> QED
  BY <1>1, <1>2, <1>3, <1>4, <1>5 DEF Inv

(* So does a join.                                                         *)
LEMMA JoinInv ==
    ASSUME Inv, Join
    PROVE  Inv'
<1> USE WatchdogAssumption DEF Join
<1>1. Types'
  BY DEF Inv, Types
<1>2. Flags'
  BY Zenon DEF Inv, Flags
<1>3. Held'
  BY DEF Inv, Types, Held
<1>4. TimerCounts'
  BY Products DEF Inv, Types, Held, TimerCounts
<1>5. (Undisturbed => OnTime /\ ~fired)'
  BY Products, Slack, AskedBound DEF Inv, Types, Held, TimerCounts, Undisturbed,
         OnTime, Asked
<1> QED
  BY <1>1, <1>2, <1>3, <1>4, <1>5 DEF Inv

(* The device is closed after the monitor is gone.                         *)
LEMMA JoinReturnsInv ==
    ASSUME Inv, JoinReturns
    PROVE  Inv'
<1> USE WatchdogAssumption DEF JoinReturns, MonitorJoined, MagicClose
<1>1. Types'
  BY DEF Inv, Types
<1>2. Flags'
  BY Zenon DEF Inv, Flags
<1>3. Held'
  BY DEF Inv, Types, Held
<1>4. TimerCounts'
  BY Products DEF Inv, Types, Held, TimerCounts
<1>5. (Undisturbed => OnTime /\ ~fired)'
  BY Products, Slack, AskedBound DEF Inv, Types, Held, TimerCounts, Undisturbed,
         OnTime, Asked
<1> QED
  BY <1>1, <1>2, <1>3, <1>4, <1>5 DEF Inv

(* The first interval begins at most MaxLag after the timer was armed.     *)
LEMMA MonitorBeginsInv ==
    ASSUME Inv, MonitorBegins
    PROVE  Inv'
<1> USE WatchdogAssumption DEF MonitorBegins
<1>1. Types'
  BY Slack DEF Inv, Types, Held
<1>2. Flags'
  BY Zenon DEF Inv, Flags
<1>3. Held'
  BY DEF Inv, Types, Held
<1>4. TimerCounts'
  BY Products DEF Inv, Types, Held, TimerCounts
<1>5. (Undisturbed => OnTime /\ ~fired)'
  BY Products, Slack, AskedBound DEF Inv, Types, Held, TimerCounts, Undisturbed,
         OnTime, Asked
<1> QED
  BY <1>1, <1>2, <1>3, <1>4, <1>5 DEF Inv

(* A kick falls due less than two lags after the interval.                 *)
LEMMA MonitorTestsInv ==
    ASSUME Inv, MonitorTests
    PROVE  Inv'
<1> USE WatchdogAssumption DEF MonitorTests
<1>1. Types'
  BY Slack DEF Inv, Types, Held
<1>2. Flags'
  BY Zenon DEF Inv, Flags
<1>3. Held'
  BY DEF Inv, Types, Held
<1>4. TimerCounts'
  BY Products DEF Inv, Types, Held, TimerCounts
<1>5. (Undisturbed => OnTime /\ ~fired)'
  <2>1. Asked' \in Nat
    BY <1>1, AskedBound DEF Types, Asked
  <2> QED
    BY <2>1, Products, Slack DEF Inv, Types, Held, Undisturbed, OnTime
<1> QED
  BY <1>1, <1>2, <1>3, <1>4, <1>5 DEF Inv

(* A checker that is asked costs at most one lag; a failure disturbs.      *)
LEMMA MonitorAsksInv ==
    ASSUME Inv, NEW k \in Checkers, MonitorAsks(k)
    PROVE  Inv'
<1> USE WatchdogAssumption DEF MonitorAsks, StillToAsk
<1>1. Types'
  BY DEF Inv, Types
<1>2. Flags'
  BY Zenon DEF Inv, Flags
<1>3. Held'
  BY DEF Inv, Types, Held
<1>4. TimerCounts'
  BY Products DEF Inv, Types, Held, TimerCounts
<1>5. (Undisturbed => OnTime /\ ~fired)'
  <2>1. CASE ~healthy[k]
    BY <2>1 DEF Undisturbed
  <2>2. CASE healthy[k]
    <3>1. Asked' = Asked + MaxLag /\ Asked \in Nat
      BY <2>2, AskedGrows DEF Inv, Types, Asked
    <3> QED
      BY <2>2, <3>1, Products, Slack DEF Inv, Types, Held, Undisturbed, OnTime
  <2> QED
    BY <2>1, <2>2
<1> QED
  BY <1>1, <1>2, <1>3, <1>4, <1>5 DEF Inv

(* The kick resets the timer: the new interval began with the questions.   *)
LEMMA MonitorKicksInv ==
    ASSUME Inv, MonitorKicks
    PROVE  Inv'
<1> USE WatchdogAssumption DEF MonitorKicks
<1>1. Types'
  BY DEF Inv, Types
<1>2. Flags'
  BY Zenon DEF Inv, Flags
<1>3. Held'
  BY DEF Inv, Types, Held
<1>4. TimerCounts'
  BY Products DEF Inv, Types, Held, TimerCounts
<1>5. (Undisturbed => OnTime /\ ~fired)'
  BY Products, Slack, AskedBound DEF Inv, Types, Held, TimerCounts, Undisturbed,
         OnTime, Asked
<1> QED
  BY <1>1, <1>2, <1>3, <1>4, <1>5 DEF Inv

(* The sleep ends.                                                         *)
LEMMA MonitorWakesInv ==
    ASSUME Inv, MonitorWakes
    PROVE  Inv'
<1> USE WatchdogAssumption DEF MonitorWakes
<1>1. Types'
  BY DEF Inv, Types
<1>2. Flags'
  BY Zenon DEF Inv, Flags
<1>3. Held'
  BY DEF Inv, Types, Held
<1>4. TimerCounts'
  BY Products DEF Inv, Types, Held, TimerCounts
<1>5. (Undisturbed => OnTime /\ ~fired)'
  BY Products, Slack, AskedBound DEF Inv, Types, Held, TimerCounts, Undisturbed,
         OnTime, Asked
<1> QED
  BY <1>1, <1>2, <1>3, <1>4, <1>5 DEF Inv

(* The checkers' health is the environment's.                              *)
LEMMA HealthChangesInv ==
    ASSUME Inv, NEW k \in Checkers, HealthChanges(k)
    PROVE  Inv'
<1> USE WatchdogAssumption DEF HealthChanges
<1>1. Types'
  BY DEF Inv, Types
<1>2. Flags'
  BY Zenon DEF Inv, Flags
<1>3. Held'
  BY DEF Inv, Types, Held
<1>4. TimerCounts'
  BY Products DEF Inv, Types, Held, TimerCounts
<1>5. (Undisturbed => OnTime /\ ~fired)'
  BY Products, Slack, AskedBound DEF Inv, Types, Held, TimerCounts, Undisturbed,
         OnTime, Asked
<1> QED
  BY <1>1, <1>2, <1>3, <1>4, <1>5 DEF Inv

(* Time passes: an undisturbed monitor is always ahead of the timer.       *)
LEMMA TickInv ==
    ASSUME Inv, Tick
    PROVE  Inv'
<1> USE WatchdogAssumption DEF Tick, Active
<1>1. Types'
  BY DEF Inv, Types
<1>2. Flags'
  BY Zenon DEF Inv, Flags
<1>3. Held'
  BY DEF Inv, Types, Held
<1>4. TimerCounts'
  <2>1. timeout * Second \in Nat /\ hw \in Nat
    BY Products DEF Inv, Types
  <2> DEFINE W == timeout * Second
  <2>2. W' = W
    OBVIOUS
  <2> HIDE DEF W
  <2>3. CASE armed /\ hw + 1 = W
    <3>1. fired' /\ hw' = W
      BY <2>3 DEF W
    <3> QED
      BY <2>1, <2>2, <3>1 DEF TimerCounts, W
  <2>4. CASE ~(armed /\ hw + 1 = W)
    BY <2>1, <2>2, <2>4 DEF Inv, TimerCounts, W
  <2> QED
    BY <2>3, <2>4
<1>5. (Undisturbed => OnTime /\ ~fired)'
  <2> SUFFICES ASSUME Undisturbed'
               PROVE  OnTime' /\ ~fired'
    OBVIOUS
  <2> DEFINE K == KickInterval(timeout)
             W == timeout * Second
             P == Cardinality(Checkers) * MaxLag
  <2>1. Undisturbed /\ OnTime /\ armed /\ monitor \notin {"none", "exited"}
    BY DEF Inv, Held, Undisturbed
  <2>2. timeout \in Timeouts /\ MaxLag \in Nat /\ lag < MaxLag
    BY <2>1 DEF Inv, Held
  <2>3. /\ K \in Nat /\ W \in Nat /\ P \in Nat
        /\ K + P + 3 * MaxLag <= W
    BY <2>2, Slack
  <2>4. Asked \in Nat /\ Asked <= P /\ Asked' = Asked
    BY AskedBound DEF Inv, Types, Asked
  <2>5. K' = K
    BY DEF KickInterval
  <2>6. fired' = (hw + 1 = W) /\ hw' = hw + 1 /\ lag' = lag + 1
    BY <2>1
  <2> HIDE DEF K, W, P
  <2>7. OnTime'
    BY <2>1, <2>2, <2>3, <2>4, <2>5, <2>6 DEF Inv, Types, OnTime, K
  <2>8. hw + 1 < W
    BY <2>1, <2>2, <2>3, <2>4 DEF Inv, Types, OnTime, K
  <2>9. hw + 1 # W
    BY <2>3, <2>8 DEF Inv, Types
  <2> QED
    BY <2>6, <2>7, <2>9, Zenon
<1> QED
  BY <1>1, <1>2, <1>3, <1>4, <1>5 DEF Inv

(* Every step keeps the invariant.                                         *)
LEMMA NextInv == Inv /\ [Next]_vars => Inv'
<1> SUFFICES ASSUME Inv, [Next]_vars
             PROVE  Inv'
  OBVIOUS
<1>1. CASE \E k \in Checkers : RegisterChecker(k) \/ HealthChanges(k)
  BY <1>1, RegisterCheckerInv, HealthChangesInv
<1>2. CASE \E t \in Timeouts : Start(t) \/ StartLeaks(t)
  BY <1>2, StartInv, StartLeaksInv
<1>3. CASE StartFails \/ Stop \/ Join \/ JoinReturns
  BY <1>3, StartFailsInv, StopInv, JoinInv, JoinReturnsInv
<1>4. CASE Monitor
  BY <1>4, MonitorBeginsInv, MonitorTestsInv, MonitorKicksInv, MonitorWakesInv,
     MonitorAsksInv DEF Monitor
<1>5. CASE Tick
  BY <1>5, TickInv
<1>6. CASE UNCHANGED vars
  BY <1>6 DEF Inv, Types, Flags, Held, TimerCounts, Undisturbed, OnTime, Asked, vars
<1> QED
  BY <1>1, <1>2, <1>3, <1>4, <1>5, <1>6 DEF Next

THEOREM Invariance == Spec => []Inv
<1>1. Init => Inv
  BY InitInv
<1>2. Inv /\ [Next]_vars => Inv'
  BY NextInv
<1> QED
  BY <1>1, <1>2, PTL DEF Spec

-----------------------------------------------------------------------------
(* The variables keep their types, and the hardware timer never counts past *)
(* the timeout it was given.                                               *)
THEOREM TypeCorrect == Spec => []TypeOK
<1>1. Inv => TypeOK
  <2> SUFFICES ASSUME Inv PROVE TypeOK
    OBVIOUS
  <2>1. hw \in 0..(timeout * Second)
    BY Products DEF Inv, Types, TimerCounts
  <2> QED
    BY <2>1 DEF Inv, Types, Flags, TypeOK
<1> QED
  BY <1>1, Invariance, PTL

(* However late the monitor is at each step, within what half the timeout  *)
(* leaves, and however many checkers it asks, a running watchdog never     *)
(* resets a system whose checkers all answered healthy and that nobody     *)
(* asked to stop.                                                          *)
THEOREM HealthySystemStaysUp == Spec => []FiresForCause
<1>1. Inv => FiresForCause
  BY DEF Inv, Undisturbed, FiresForCause
<1> QED
  BY <1>1, Invariance, PTL

(* No timer is left counting after Join or before Start, and the monitor   *)
(* always runs with its device open.                                       *)
THEOREM NoTimerLeftBehind == Spec => []QuietWhenDown
<1>1. Inv => QuietWhenDown
  BY DEF Inv, Held, QuietWhenDown, Active
<1> QED
  BY <1>1, Invariance, PTL
=============================================================================
