------------------------------- MODULE FifoLog -------------------------------
(***************************************************************************)
(* What Queue<T> (framework/queue) promises, without threads, mutex or     *)
(* condition variables: a log of the accepted items, a reader that hands   *)
(* them out from the front, one by one and in order, and a close that      *)
(* either lets the reader finish (DRAIN) or cuts it off (IMMEDIATE).       *)
(***************************************************************************)
EXTENDS Naturals, Sequences

CONSTANTS Items,      \* the payloads
          capacity    \* how many accepted items may be undelivered

VARIABLES log,        \* every accepted item, in the order of acceptance
          delivered,  \* every item handed to a consumer, in that order
          phase       \* RUNNING, DRAINING or SHUTDOWN

logVars == <<log, delivered, phase>>

Backlog == Len(log) - Len(delivered)

Init ==
    /\ log = <<>>
    /\ delivered = <<>>
    /\ phase = IF capacity > 0 THEN "RUNNING" ELSE "SHUTDOWN"

(* Items are accepted only while running and only up to the capacity.      *)
Accept(v) ==
    /\ phase = "RUNNING"
    /\ Backlog < capacity
    /\ log' = Append(log, v)
    /\ UNCHANGED <<delivered, phase>>

(* The next item in acceptance order; the last one completes a drain.      *)
Deliver ==
    /\ phase # "SHUTDOWN"
    /\ Backlog > 0
    /\ delivered' = Append(delivered, log[Len(delivered) + 1])
    /\ phase' = IF phase = "DRAINING" /\ Backlog = 1 THEN "SHUTDOWN" ELSE phase
    /\ UNCHANGED log

Drain ==
    /\ phase = "RUNNING"
    /\ phase' = IF Backlog = 0 THEN "SHUTDOWN" ELSE "DRAINING"
    /\ UNCHANGED <<log, delivered>>

Discard ==
    /\ phase # "SHUTDOWN"
    /\ phase' = "SHUTDOWN"
    /\ UNCHANGED <<log, delivered>>

Next ==
    \/ \E v \in Items : Accept(v)
    \/ Deliver
    \/ Drain
    \/ Discard

Spec == Init /\ [][Next]_logVars
=============================================================================
