------------------------------ MODULE EventBus ------------------------------
(***************************************************************************)
(* EventBus and Subscription (framework/event/event_bus.h): synchronous    *)
(* dispatch on the publisher's thread.  Publish copies the subscribers of  *)
(* the event's type under the mutex and calls them with the mutex          *)
(* released, so that other threads, and the callbacks themselves,          *)
(* subscribe, cancel and publish while a dispatch is going on.             *)
(*                                                                         *)
(* A callback is a pair of steps, Call and Return; between them its thread *)
(* may use the bus like any other caller.  The callables are abstracted to *)
(* the ids of their subscriptions.                                         *)
(***************************************************************************)
EXTENDS Integers, SequencesExt

CONSTANTS Threads,
          Types,            \* event types
          Slots,            \* the Subscription objects of the program
          kMaxSubscribers,
          MaxIds            \* bound on the subscriptions ever made

NoEvent == "none"

ASSUME EventBusAssumption == /\ kMaxSubscribers \in Nat
                             /\ MaxIds \in Nat
                             /\ NoEvent \notin Types

VARIABLES alive,              \* the State has not been destroyed
          subscribers,        \* by type, in the order of subscription
          next_id,
          total_subscribers,
          handle,             \* id_ of each Subscription object, 0 if empty
          temp,               \* Subscribe's result, not yet assigned
          dispatching,        \* thread local
          snapshot,           \* subscribers this thread has yet to call
          current,            \* the subscriber whose callback is running
          event,              \* the type this thread is publishing
          began,              \* history: next_id when the snapshot was taken
          called              \* history: callbacks of this publish, in order

busVars == <<alive, subscribers, next_id, total_subscribers, handle, temp,
             dispatching, snapshot, current, event, began, called>>

Ids == 1..MaxIds

(* The registered subscriptions.                                           *)
Registered == UNION {Range(subscribers[e]) : e \in Types}

BusInit ==
    /\ alive = TRUE
    /\ subscribers = [e \in Types |-> <<>>]
    /\ next_id = 1
    /\ total_subscribers = 0
    /\ handle = [s \in Slots |-> 0]
    /\ temp = [t \in Threads |-> 0]
    /\ dispatching = [t \in Threads |-> FALSE]
    /\ snapshot = [t \in Threads |-> <<>>]
    /\ current = [t \in Threads |-> 0]
    /\ event = [t \in Threads |-> NoEvent]
    /\ began = [t \in Threads |-> 0]
    /\ called = [t \in Threads |-> <<>>]

(* The thread runs code of a caller: it is not inside Publish, or it is in *)
(* a callback.                                                             *)
RunsCaller(t) == (event[t] # NoEvent => current[t] # 0) /\ temp[t] = 0

-----------------------------------------------------------------------------
(* Subscribe's refusal at the limit.                                       *)
SubscriberLimitReached == total_subscribers >= kMaxSubscribers

(* Subscribe<E>(callback): an entry at the end of the type's list and a    *)
(* handle that owns it.                                                    *)
Subscribe(t, e) ==
    /\ alive
    /\ RunsCaller(t)
    /\ ~SubscriberLimitReached
    /\ next_id <= MaxIds
    /\ next_id' = next_id + 1
    /\ subscribers' = [subscribers EXCEPT ![e] = Append(@, next_id)]
    /\ total_subscribers' = total_subscribers + 1
    /\ temp' = [temp EXCEPT ![t] = next_id]
    /\ UNCHANGED <<alive, handle, dispatching, snapshot, current, event,
                   began, called>>

(* RemoveSubscriberFromState finds an entry with the id.                   *)
FoundEntry(id) == id \in Registered

(* RemoveSubscriberFromState, which Cancel skips once the bus is gone: the *)
(* first entry with the id is erased.                                      *)
RemoveSubscriberFromState(id) ==
    IF alive /\ FoundEntry(id)
    THEN /\ subscribers' = [e \in Types |-> RemoveFirst(subscribers[e], id)]
         /\ total_subscribers' = total_subscribers - 1
    ELSE UNCHANGED <<subscribers, total_subscribers>>

(* Cancel, explicit or by the Subscription's destructor.                   *)
Cancel(t, s) ==
    /\ RunsCaller(t)
    /\ handle[s] # 0
    /\ RemoveSubscriberFromState(handle[s])
    /\ handle' = [handle EXCEPT ![s] = 0]
    /\ UNCHANGED <<alive, next_id, temp, dispatching, snapshot, current,
                   event, began, called>>

\* Mutant: move assignment forgets the registration it overwrites.
OverwrittenLeaks(s) == UNCHANGED <<subscribers, total_subscribers>>

(* operator= cancels what the target owned.                                *)
OverwrittenCancelled(s) == RemoveSubscriberFromState(handle[s])

(* The handle Subscribe returned is moved into an object of the program.   *)
AssignResult(t, s) ==
    /\ temp[t] # 0
    /\ OverwrittenCancelled(s)
    /\ handle' = [handle EXCEPT ![s] = temp[t]]
    /\ temp' = [temp EXCEPT ![t] = 0]
    /\ UNCHANGED <<alive, next_id, dispatching, snapshot, current, event,
                   began, called>>

(* Move assignment between two Subscription objects.                       *)
MoveAssign(t, s, other) ==
    /\ RunsCaller(t)
    /\ s # other
    /\ OverwrittenCancelled(s)
    /\ handle' = [handle EXCEPT ![s] = handle[other],
                                ![other] = 0]
    /\ UNCHANGED <<alive, next_id, temp, dispatching, snapshot, current,
                   event, began, called>>

(* Subscribe refuses, at the limit or, at any time, for an empty callback: *)
(* the invalid handle it returns is assigned like any other.               *)
SubscribeRefused(t, s) ==
    /\ alive
    /\ RunsCaller(t)
    /\ OverwrittenCancelled(s)
    /\ handle' = [handle EXCEPT ![s] = 0]
    /\ UNCHANGED <<alive, next_id, temp, dispatching, snapshot, current,
                   event, began, called>>

-----------------------------------------------------------------------------
(* Publish returns REENTRANT_PUBLISH.                                      *)
Reentrant(t) == dispatching[t]

\* Mutant: the snapshot lists the newest subscriber first.
NewestFirst(e) ==
    [i \in DOMAIN subscribers[e] |->
        subscribers[e][Len(subscribers[e]) + 1 - i]]

(* The copy of the type's subscribers.                                     *)
Snapshot(e) == subscribers[e]

(* Publish<E>(event).  A call that is rejected, or finds no subscriber,    *)
(* changes nothing.                                                        *)
Publish(t, e) ==
    /\ alive
    /\ RunsCaller(t)
    /\ IF Reentrant(t) \/ subscribers[e] = <<>>
       THEN UNCHANGED busVars
       ELSE /\ snapshot' = [snapshot EXCEPT ![t] = Snapshot(e)]
            /\ dispatching' = [dispatching EXCEPT ![t] = TRUE]
            /\ event' = [event EXCEPT ![t] = e]
            /\ current' = [current EXCEPT ![t] = 0]
            /\ began' = [began EXCEPT ![t] = next_id]
            /\ called' = [called EXCEPT ![t] = <<>>]
            /\ UNCHANGED <<alive, subscribers, next_id, total_subscribers,
                           handle, temp>>

(* The next subscriber of the snapshot is called.                          *)
Call(t) ==
    /\ event[t] # NoEvent /\ current[t] = 0
    /\ snapshot[t] # <<>>
    /\ current' = [current EXCEPT ![t] = Head(snapshot[t])]
    /\ called' = [called EXCEPT ![t] = Append(@, Head(snapshot[t]))]
    /\ snapshot' = [snapshot EXCEPT ![t] = Tail(@)]
    /\ UNCHANGED <<alive, subscribers, next_id, total_subscribers, handle,
                   temp, dispatching, event, began>>

(* The callback returns.                                                   *)
CallReturns(t) ==
    /\ current[t] # 0 /\ temp[t] = 0
    /\ current' = [current EXCEPT ![t] = 0]
    /\ UNCHANGED <<alive, subscribers, next_id, total_subscribers, handle,
                   temp, dispatching, snapshot, event, began, called>>

\* Mutant: an exception leaves Publish, past the reset of the flag.
ThrowLeavesPublish(t) ==
    /\ event' = [event EXCEPT ![t] = NoEvent]
    /\ snapshot' = [snapshot EXCEPT ![t] = <<>>]

\* Mutant: the try block encloses the loop instead of the call.
ThrowEndsLoop(t) ==
    /\ snapshot' = [snapshot EXCEPT ![t] = <<>>]
    /\ UNCHANGED event

(* The catch clauses swallow the exception: the loop goes on.              *)
ThrowIsCaught(t) == UNCHANGED <<event, snapshot>>

(* The callback throws.                                                    *)
CallThrows(t) ==
    /\ current[t] # 0 /\ temp[t] = 0
    /\ current' = [current EXCEPT ![t] = 0]
    /\ ThrowIsCaught(t)
    /\ UNCHANGED <<alive, subscribers, next_id, total_subscribers, handle,
                   temp, dispatching, began, called>>

(* Every subscriber of the snapshot was called: Publish returns SUCCESS.   *)
PublishReturns(t) ==
    /\ event[t] # NoEvent /\ current[t] = 0
    /\ snapshot[t] = <<>>
    /\ dispatching' = [dispatching EXCEPT ![t] = FALSE]
    /\ event' = [event EXCEPT ![t] = NoEvent]
    /\ called' = [called EXCEPT ![t] = <<>>]
    /\ began' = [began EXCEPT ![t] = 0]
    /\ UNCHANGED <<alive, subscribers, next_id, total_subscribers, handle,
                   temp, snapshot, current>>

(* The owner destroys the bus when no thread is inside it; the handles     *)
(* that outlive it hold expired pointers.                                  *)
DestroyBus ==
    /\ alive
    /\ \A t \in Threads : event[t] = NoEvent /\ temp[t] = 0
    /\ alive' = FALSE
    /\ subscribers' = [e \in Types |-> <<>>]
    /\ total_subscribers' = 0
    /\ UNCHANGED <<next_id, handle, temp, dispatching, snapshot, current,
                   event, began, called>>

Next ==
    \/ \E t \in Threads :
          \/ \E e \in Types : Subscribe(t, e) \/ Publish(t, e)
          \/ \E s \in Slots : \/ Cancel(t, s)
                             \/ AssignResult(t, s)
                             \/ SubscribeRefused(t, s)
          \/ \E s, other \in Slots : MoveAssign(t, s, other)
          \/ Call(t) \/ CallReturns(t) \/ CallThrows(t) \/ PublishReturns(t)
    \/ DestroyBus

Spec == BusInit /\ [][Next]_busVars

-----------------------------------------------------------------------------
(* Types, and never more than kMaxSubscribers subscribers, over all event  *)
(* types and whichever threads subscribe at once.                          *)
TypeOK ==
    /\ alive \in BOOLEAN
    /\ subscribers \in [Types -> Seq(Ids)]
    /\ next_id \in 1..(MaxIds + 1)
    /\ total_subscribers \in 0..kMaxSubscribers
    /\ handle \in [Slots -> {0} \cup Ids]
    /\ temp \in [Threads -> {0} \cup Ids]
    /\ dispatching \in [Threads -> BOOLEAN]
    /\ snapshot \in [Threads -> Seq(Ids)]
    /\ current \in [Threads -> {0} \cup Ids]
    /\ event \in [Threads -> Types \cup {NoEvent}]
    /\ began \in [Threads -> 0..(MaxIds + 1)]
    /\ called \in [Threads -> Seq(Ids)]

(* The ids that some Subscription object of the program holds.             *)
Owned == ({handle[s] : s \in Slots} \cup {temp[t] : t \in Threads}) \ {0}

(* While the bus lives, total_subscribers, on which the limit rests, is    *)
(* the number of entries in the lists, and the entries are exactly those   *)
(* that some handle owns: none is left behind without a handle to cancel   *)
(* it and none is removed while its handle is held.                        *)
HandlesOwnEntries ==
    alive => /\ Registered = Owned
             /\ total_subscribers = Cardinality(Registered)

(* Nobody is skipped: a subscriber that was registered when Publish took   *)
(* its snapshot and is still registered has been called by this publish or *)
(* is still to be called, whatever the callbacks subscribed, cancelled,    *)
(* published or threw in between.                                          *)
NobodyIsSkipped ==
    \A t \in Threads : event[t] # NoEvent =>
        \A id \in Range(subscribers[event[t]]) :
            id < began[t] => id \in Range(called[t]) \cup Range(snapshot[t])

(* Delivery order is subscription order, no subscriber is called twice for *)
(* one event, and none that subscribed after the publish began is called.  *)
DeliveryInOrder ==
    \A t \in Threads :
        LET all == called[t] \o snapshot[t]
        IN  /\ \A i, j \in DOMAIN all : i < j => all[i] < all[j]
            /\ \A i \in DOMAIN all : all[i] < began[t]

(* A publish is rejected only inside a dispatch: the thread-local flag is  *)
(* set exactly while its thread is between the snapshot and the return of  *)
(* Publish, also after callbacks that threw.                               *)
RejectsOnlyNested == \A t \in Threads : dispatching[t] <=> event[t] # NoEvent
=============================================================================
