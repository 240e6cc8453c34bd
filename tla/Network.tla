------------------------------- MODULE Network -------------------------------
(***************************************************************************)
(* NetworkServer, NetworkConnection and NetworkClient (services/network),  *)
(* composed with the EventBus they publish on.  The threads are the accept *)
(* thread, the owner that calls Start and Stop, a service thread that uses *)
(* the connections it was handed, and one sender per connection, named by  *)
(* the connection.                                                         *)
(*                                                                         *)
(* Teardown may run on any of them: td[t] is thread t's activation of it,  *)
(* and its Publish, and the callbacks that runs, are steps of the bus.     *)
(* Shared pointers are counted: the thread that drops the last reference   *)
(* to a connection runs its destructor.  The kernel is the table of open   *)
(* descriptors, which hands out the lowest free number, as accept and      *)
(* socket do, so that a closed number comes back.                          *)
(***************************************************************************)
EXTENDS Integers, Sequences, FiniteSets

CONSTANTS Conns,          \* connections, each made at most once
          None,           \* no connection
          MaxStarts,      \* bound on successful and failed calls of Start
          MaxQueue        \* kSendQueueCapacity

ASSUME NetworkAssumption == /\ None \notin Conns
                            /\ {"accept", "owner", "service"} \cap Conns = {}
                            /\ IsFiniteSet(Conns)
                            /\ MaxStarts \in Nat /\ MaxQueue \in Nat \ {0}

VARIABLES alive, subscribers, next_id, total_subscribers, handle, temp,
          dispatching, snapshot, current, event, began, called,
          running, token, connections,
          owner,       \* where the owner is in Start or Stop
          to_close,    \* Stop's local copy of connections_
          closing,     \* the connections of it Stop has yet to close
          accept,      \* where the accept thread is
          accepted,    \* AcceptLoop's local conn
          service,     \* where the service thread is
          using,       \* its local copy of a connection's shared_ptr
          polled,      \* Recv's local fd
          held,        \* the connections the service keeps
          life,        \* of each connection object
          server_side, connected, stop_requested,
          queue,       \* chunks in the send queue, -1 once it is shut down
          fd,          \* fd_ of each connection, 0 stands for -1
          sender,      \* where each sender thread is
          td,          \* the Teardown each thread is in
          evref,       \* the connection of the event it publishes
          dtor,        \* the connection it is destroying
          table,       \* kernel: the connection behind each descriptor
          peer,        \* kernel: has a remote end connected?
          announced,   \* history: NetworkConnected was published
          gone,        \* history: how often NetworkDisconnected was, or
                       \* Rejected if the bus refused it
          left         \* history: in connections_ when Stop returned

busVars == <<alive, subscribers, next_id, total_subscribers, handle, temp,
             dispatching, snapshot, current, event, began, called>>
serverVars == <<running, token, connections, owner, to_close, closing,
                accept, accepted, left>>
serviceVars == <<service, using, polled, held>>
connVars == <<server_side, connected, stop_requested, queue, fd, sender,
              table, peer>>
objVars == <<life, td, evref, dtor, announced, gone>>
vars == <<busVars, serverVars, serviceVars, connVars, objVars>>

Threads == {"accept", "owner", "service"} \cup Conns
Fds == 1..Cardinality(Conns)

Bus == INSTANCE EventBus
         WITH Types <- {"NetworkConnected", "NetworkDisconnected"},
              Slots <- {"connect_sub", "app_sub", "disconnect_sub"},
              kMaxSubscribers <- 128, MaxIds <- 2 + MaxStarts

(* The application subscribed to both events before it started the server, *)
(* with these ids.                                                         *)
AppConnected == 1
AppDisconnected == 2

NoFrame == [c |-> None, at |-> "none"]

Rejected == -1

Init ==
    /\ alive = TRUE
    /\ subscribers = [e \in {"NetworkConnected", "NetworkDisconnected"} |->
                        IF e = "NetworkConnected" THEN <<AppConnected>>
                                                  ELSE <<AppDisconnected>>]
    /\ next_id = 3
    /\ total_subscribers = 2
    /\ handle = [s \in {"connect_sub", "app_sub", "disconnect_sub"} |->
                   CASE s = "connect_sub" -> AppConnected
                     [] s = "app_sub" -> AppDisconnected
                     [] OTHER -> 0]
    /\ temp = [t \in Threads |-> 0]
    /\ dispatching = [t \in Threads |-> FALSE]
    /\ snapshot = [t \in Threads |-> <<>>]
    /\ current = [t \in Threads |-> 0]
    /\ event = [t \in Threads |-> Bus!NoEvent]
    /\ began = [t \in Threads |-> 0]
    /\ called = [t \in Threads |-> <<>>]
    /\ running = FALSE /\ token = FALSE
    /\ connections = {} /\ to_close = {} /\ closing = {} /\ left = {}
    /\ owner = "idle" /\ accept = "none" /\ service = "idle"
    /\ accepted = None /\ using = None /\ polled = 0 /\ held = {}
    /\ life = [c \in Conns |-> "none"]
    /\ server_side = [c \in Conns |-> FALSE]
    /\ connected = [c \in Conns |-> FALSE]
    /\ stop_requested = [c \in Conns |-> FALSE]
    /\ queue = [c \in Conns |-> 0]
    /\ fd = [c \in Conns |-> 0]
    /\ sender = [c \in Conns |-> "none"]
    /\ td = [t \in Threads |-> NoFrame]
    /\ evref = [t \in Threads |-> None]
    /\ dtor = [t \in Threads |-> None]
    /\ table = [n \in Fds |-> None]
    /\ peer = [c \in Conns |-> "none"]
    /\ announced = {}
    /\ gone = [c \in Conns |-> 0]

-----------------------------------------------------------------------------
(* References, and the destructor.                                         *)

Referenced(c) ==
    \/ c \in connections \cup held \cup to_close
    \/ c \in {accepted, using}
    \/ \E t \in Threads : evref[t] = c

(* Thread t has just dropped a reference to c: if it was the last one, the *)
(* destructor, which begins with Close(), runs on t.                       *)
Dropped(t, c) ==
    \E d \in {c} :   \* c before the step, whatever expression c is
        IF Referenced(d)'
        THEN td' = [td EXCEPT ![t] = NoFrame] /\ UNCHANGED dtor
        ELSE /\ td' = [td EXCEPT ![t] = [c |-> d, at |-> "exchange"]]
             /\ dtor' = [dtor EXCEPT ![t] = d]

(* The thread is in no Teardown, destructor or Publish of its own.         *)
Free(t) == td[t] = NoFrame /\ dtor[t] = None /\ event[t] = Bus!NoEvent

\* Mutant: the destructor always detaches the sender.
NeverJoins(t, c) == TRUE

\* Mutant: the destructor joins the sender even on the sender.
JoinsItself(t, c) == sender[c] \in {"none", "done"}

(* ~NetworkConnection joins the sender, unless it runs on the sender.      *)
SenderJoined(t, c) == sender[c] \in {"none", "done"} \/ t = c

(* The rest of the destructor, after Close().                              *)
FinishDestructor(t) ==
    /\ dtor[t] # None /\ td[t] = NoFrame
    /\ SenderJoined(t, dtor[t])
    /\ life' = [life EXCEPT ![dtor[t]] = "dead"]
    /\ dtor' = [dtor EXCEPT ![t] = None]
    /\ UNCHANGED <<busVars, serverVars, serviceVars, connVars, td, evref,
                   announced, gone>>

(* accept and socket return the lowest free descriptor.                    *)
Lowest(n) == table[n] = None /\ \A m \in 1..(n - 1) : table[m] # None

(* A connection object on a new descriptor.                                *)
Construct(c, n, side) ==
    /\ life' = [life EXCEPT ![c] = "live"]
    /\ server_side' = [server_side EXCEPT ![c] = side]
    /\ connected' = [connected EXCEPT ![c] = TRUE]
    /\ fd' = [fd EXCEPT ![c] = n]
    /\ table' = [table EXCEPT ![n] = c]
    /\ peer' = [peer EXCEPT ![c] = "open"]

-----------------------------------------------------------------------------
(* Teardown, on any thread.                                                *)

Enter(t, c) == td' = [td EXCEPT ![t] = [c |-> c, at |-> "exchange"]]
Goto(t, l) == td' = [td EXCEPT ![t].at = l]
Leave(t) == td' = [td EXCEPT ![t] = NoFrame]

\* Mutant: connected_ is read here and cleared only later.
LoadOnly(c) == connected

(* connected_.exchange(false).                                             *)
Exchanged(c) == [connected EXCEPT ![c] = FALSE]

TeardownExchange(t) ==
    /\ td[t].at = "exchange"
    /\ LET c == td[t].c
       IN  /\ IF connected[c] THEN Goto(t, "mark") ELSE Leave(t)
           /\ connected' = Exchanged(c)
    /\ UNCHANGED <<busVars, serverVars, serviceVars, server_side,
                   stop_requested, queue, fd, sender, table, peer, life,
                   evref, dtor, announced, gone>>

(* The stop flag and the IMMEDIATE shutdown of the send queue.             *)
TeardownMark(t) ==
    /\ td[t].at = "mark"
    /\ stop_requested' = [stop_requested EXCEPT ![td[t].c] = TRUE]
    /\ queue' = [queue EXCEPT ![td[t].c] = -1]
    /\ Goto(t, "close")
    /\ UNCHANGED <<busVars, serverVars, serviceVars, server_side, connected,
                   fd, sender, table, peer, life, evref, dtor, announced,
                   gone>>

(* shutdown and close; fd_ still names the descriptor.                     *)
TeardownClose(t) ==
    /\ td[t].at = "close"
    /\ table' = IF fd[td[t].c] = 0 THEN table
                                   ELSE [table EXCEPT ![fd[td[t].c]] = None]
    /\ Goto(t, "clear")
    /\ UNCHANGED <<busVars, serverVars, serviceVars, server_side, connected,
                   stop_requested, queue, fd, sender, peer, life, evref,
                   dtor, announced, gone>>

\* Mutant: the test of is_server_side_ is inverted.
ClientPublishes(c) == ~server_side[c]

(* Only server-side connections publish.                                   *)
ServerPublishes(c) == server_side[c]

TeardownClear(t) ==
    /\ td[t].at = "clear"
    /\ connected' = [connected EXCEPT ![td[t].c] = FALSE]
    /\ fd' = [fd EXCEPT ![td[t].c] = 0]
    /\ IF ServerPublishes(td[t].c) THEN Goto(t, "publish") ELSE Leave(t)
    /\ UNCHANGED <<busVars, serverVars, serviceVars, server_side,
                   stop_requested, queue, sender, table, peer, life, evref,
                   dtor, announced, gone>>

(* weak_from_this().lock() fails in the destructor; a rejected Publish is  *)
(* ignored.                                                                *)
TeardownPublish(t) ==
    /\ td[t].at = "publish"
    /\ LET c == td[t].c
       IN  IF Referenced(c)
           THEN /\ Bus!Publish(t, "NetworkDisconnected")
                /\ evref' = [evref EXCEPT ![t] = IF dispatching[t] THEN @ ELSE c]
                /\ gone' = [gone EXCEPT ![c] = IF dispatching[t] THEN Rejected
                                                                 ELSE @ + 1]
                /\ IF dispatching[t] THEN Leave(t) ELSE Goto(t, "dispatch")
           ELSE Leave(t) /\ UNCHANGED <<busVars, evref, gone>>
    /\ UNCHANGED <<serverVars, serviceVars, connVars, life, dtor, announced>>

(* Publish returns and the event, with its reference, is destroyed.        *)
TeardownReturn(t) ==
    /\ td[t].at = "dispatch"
    /\ \/ Bus!PublishReturns(t)
       \/ event[t] = Bus!NoEvent /\ UNCHANGED busVars
    /\ evref' = [evref EXCEPT ![t] = None]
    /\ UNCHANGED <<serverVars, serviceVars, connVars, life, announced, gone>>
    /\ Dropped(t, td[t].c)

Teardown(t) ==
    \/ TeardownExchange(t)
    \/ TeardownMark(t)
    \/ TeardownClose(t)
    \/ TeardownClear(t)
    \/ TeardownPublish(t)
    \/ TeardownReturn(t)

-----------------------------------------------------------------------------
(* The callbacks.                                                          *)

Dispatch(t) ==
    /\ Bus!Call(t)
    /\ UNCHANGED <<serverVars, serviceVars, connVars, objVars>>

\* Mutant: the server erases nothing.
KeptOnDisconnect(c) == connections

Erased(c) == connections \ {c}

(* NetworkServer's handler; any id but the application's is its own.  On a *)
(* destroyed server the access is undefined: the model leaves the state    *)
(* alone.                                                                  *)
OnDisconnected(t) ==
    /\ current[t] \notin {0, AppConnected, AppDisconnected}
    /\ Bus!CallReturns(t)
    /\ connections' = IF owner = "destroyed" THEN connections
                                             ELSE Erased(evref[t])
    /\ UNCHANGED <<running, token, owner, to_close, closing, accept,
                   accepted, left, serviceVars, connVars, objVars>>

(* The application's handlers: keep the connection or not, and drop it     *)
(* when it is gone.                                                        *)
AppOnConnected(t) ==
    /\ current[t] = AppConnected /\ td[t] = NoFrame
    /\ Bus!CallReturns(t)
    /\ held' \in {held, held \cup {evref[t]}}
    /\ UNCHANGED <<serverVars, service, using, polled, connVars, objVars>>

(* It turns the peer away: Close() in the handler, that is Teardown on the *)
(* thread that is dispatching.                                             *)
AppClosesInHandler(t) ==
    /\ current[t] = AppConnected /\ td[t] = NoFrame
    /\ connected[evref[t]]
    /\ Enter(t, evref[t])
    /\ UNCHANGED <<busVars, serverVars, serviceVars, connVars, life, evref,
                   dtor, announced, gone>>

AppOnDisconnected(t) ==
    /\ current[t] = AppDisconnected
    /\ Bus!CallReturns(t)
    /\ held' = held \ {evref[t]}
    /\ UNCHANGED <<serverVars, service, using, polled, connVars, objVars>>

-----------------------------------------------------------------------------
(* NetworkServer::Start.  A failure before the subscription changes        *)
(* nothing.                                                                *)

StartSubscribes ==
    /\ owner = "idle" /\ ~running
    /\ Bus!Subscribe("owner", "NetworkDisconnected")
    /\ owner' = "assign"
    /\ UNCHANGED <<running, token, connections, to_close, closing, accept,
                   accepted, left, serviceVars, connVars, objVars>>

StartAssigns ==
    /\ owner = "assign"
    /\ Bus!AssignResult("owner", "disconnect_sub")
    /\ owner' = "spawn"
    /\ UNCHANGED <<running, token, connections, to_close, closing, accept,
                   accepted, left, serviceVars, connVars, objVars>>

StartSpawns ==
    /\ owner = "spawn"
    /\ token' = FALSE
    /\ accept' = "loop"
    /\ running' = TRUE
    /\ owner' = "idle"
    /\ UNCHANGED <<busVars, connections, to_close, closing, accepted, left,
                   serviceVars, connVars, objVars>>

(* The accept thread cannot be created.                                    *)
StartFails ==
    /\ owner = "spawn"
    /\ Bus!Cancel("owner", "disconnect_sub")
    /\ owner' = "idle"
    /\ UNCHANGED <<running, token, connections, to_close, closing, accept,
                   accepted, left, serviceVars, connVars, objVars>>

\* Mutant: the accept thread is not asked to stop.
TokenKept == token

TokenRequested == TRUE

(* NetworkServer::Stop, step by step.                                      *)
StopBegins ==
    /\ owner = "idle" /\ running
    /\ running' = FALSE
    /\ token' = TokenRequested
    /\ owner' = "join"
    /\ UNCHANGED <<busVars, connections, to_close, closing, accept, accepted,
                   left, serviceVars, connVars, objVars>>

\* Mutant: Stop does not wait for the accept thread.
NoJoin == TRUE

AcceptJoined == accept = "exited"

StopSnapshots ==
    /\ owner = "join"
    /\ AcceptJoined
    /\ to_close' = connections
    /\ closing' = connections
    /\ owner' = "close"
    /\ UNCHANGED <<busVars, running, token, connections, accept, accepted,
                   left, serviceVars, connVars, objVars>>

StopCloses(c) ==
    /\ owner = "close" /\ Free("owner")
    /\ c \in closing
    /\ closing' = closing \ {c}
    /\ Enter("owner", c)
    /\ UNCHANGED <<busVars, running, token, connections, owner, to_close,
                   accept, accepted, left, serviceVars, connVars, life,
                   evref, dtor, announced, gone>>

StopCancels ==
    /\ owner = "close" /\ Free("owner")
    /\ closing = {}
    /\ Bus!Cancel("owner", "disconnect_sub")
    /\ owner' = "drop"
    /\ UNCHANGED <<running, token, connections, to_close, closing, accept,
                   accepted, left, serviceVars, connVars, objVars>>

(* to_close goes out of scope, element by element.                         *)
StopDrops(c) ==
    /\ owner = "drop" /\ Free("owner")
    /\ c \in to_close
    /\ to_close' = to_close \ {c}
    /\ UNCHANGED <<busVars, running, token, connections, owner, closing,
                   accept, accepted, left, serviceVars, connVars, life,
                   evref, announced, gone>>
    /\ Dropped("owner", c)

StopReturns ==
    /\ owner = "drop" /\ Free("owner")
    /\ to_close = {}
    /\ owner' = "idle"
    /\ left' = left \cup connections
    /\ UNCHANGED <<busVars, running, token, connections, to_close, closing,
                   accept, accepted, serviceVars, connVars, objVars>>

(* ~NetworkServer, after Stop: its connections_ go with it.                *)
ServerDestroyed ==
    /\ owner = "idle" /\ ~running
    /\ owner' = "destroyed"
    /\ UNCHANGED <<busVars, running, token, connections, to_close, closing,
                   accept, accepted, left, serviceVars, connVars, objVars>>

ServerDrops(c) ==
    /\ owner = "destroyed" /\ Free("owner")
    /\ c \in connections
    /\ connections' = connections \ {c}
    /\ UNCHANGED <<busVars, running, token, owner, to_close, closing, accept,
                   accepted, left, serviceVars, connVars, life, evref,
                   announced, gone>>
    /\ Dropped("owner", c)

Owner ==
    \/ StartSubscribes \/ StartAssigns \/ StartSpawns \/ StartFails
    \/ StopBegins \/ StopSnapshots \/ StopCancels \/ StopReturns
    \/ \E c \in Conns : StopCloses(c) \/ StopDrops(c) \/ ServerDrops(c)
    \/ ServerDestroyed

-----------------------------------------------------------------------------
(* AcceptLoop.                                                             *)

AcceptChecks ==
    /\ accept = "loop" /\ Free("accept")
    /\ accept' = IF token THEN "exited" ELSE "poll"
    /\ UNCHANGED <<busVars, running, token, connections, owner, to_close,
                   closing, accepted, left, serviceVars, connVars, objVars>>

(* poll times out or is interrupted, or accept fails.                      *)
AcceptNothing ==
    /\ accept = "poll"
    /\ accept' = "loop"
    /\ UNCHANGED <<busVars, running, token, connections, owner, to_close,
                   closing, accepted, left, serviceVars, connVars, objVars>>

(* poll fails for good.                                                    *)
AcceptGivesUp ==
    /\ accept = "poll"
    /\ accept' = "exited"
    /\ UNCHANGED <<busVars, running, token, connections, owner, to_close,
                   closing, accepted, left, serviceVars, connVars, objVars>>

(* A connection is accepted and wrapped; its sender starts.                *)
AcceptStarts(c, n) ==
    /\ accept = "poll" /\ peer[c] = "waiting"
    /\ Lowest(n)
    /\ Construct(c, n, TRUE)
    /\ accepted' = c
    /\ sender' = [sender EXCEPT ![c] = "pop"]
    /\ accept' = "register"
    /\ UNCHANGED <<busVars, running, token, connections, owner, to_close,
                   closing, left, serviceVars, stop_requested, queue, td,
                   evref, dtor, announced, gone>>

(* The sender cannot be created: conn goes out of scope and is destroyed.  *)
AcceptFails(c, n) ==
    /\ accept = "poll" /\ peer[c] = "waiting"
    /\ Lowest(n)
    /\ Construct(c, n, TRUE)
    /\ accept' = "loop"
    /\ dtor' = [dtor EXCEPT !["accept"] = c]
    /\ Enter("accept", c)
    /\ UNCHANGED <<busVars, running, token, connections, owner, to_close,
                   closing, accepted, left, serviceVars, stop_requested,
                   queue, sender, evref, announced, gone>>

AcceptRegisters ==
    /\ accept = "register"
    /\ connections' = connections \cup {accepted}
    /\ accept' = "announce"
    /\ UNCHANGED <<busVars, running, token, owner, to_close, closing,
                   accepted, left, serviceVars, connVars, objVars>>

AcceptPublishes ==
    /\ accept = "announce"
    /\ Bus!Publish("accept", "NetworkConnected")
    /\ evref' = [evref EXCEPT !["accept"] = accepted]
    /\ announced' = announced \cup {accepted}
    /\ accept' = "dispatch"
    /\ UNCHANGED <<running, token, connections, owner, to_close, closing,
                   accepted, left, serviceVars, connVars, life, td, dtor,
                   gone>>

(* The end of the iteration destroys the event and conn.                   *)
AcceptIterates ==
    /\ accept = "dispatch"
    /\ Bus!PublishReturns("accept")
    /\ accept' = "loop"
    /\ accepted' = None
    /\ evref' = [evref EXCEPT !["accept"] = None]
    /\ UNCHANGED <<running, token, connections, owner, to_close, closing,
                   left, serviceVars, connVars, life, announced, gone>>
    /\ Dropped("accept", accepted)

AcceptLoop ==
    \/ AcceptChecks \/ AcceptNothing \/ AcceptGivesUp
    \/ \E c \in Conns, n \in Fds : AcceptStarts(c, n) \/ AcceptFails(c, n)
    \/ AcceptRegisters \/ AcceptPublishes \/ AcceptIterates

-----------------------------------------------------------------------------
(* SendLoop of connection c.                                               *)

SenderAt(c, from, to) ==
    /\ sender[c] = from
    /\ sender' = [sender EXCEPT ![c] = to]
    /\ UNCHANGED <<busVars, serverVars, serviceVars, server_side, connected,
                   stop_requested, fd, table, peer, objVars>>

SenderPops(c) ==
    /\ SenderAt(c, "pop", "check")
    /\ ~stop_requested[c]
    /\ queue[c] > 0
    /\ queue' = [queue EXCEPT ![c] = @ - 1]

(* The stop flag, or QUEUE_SHUTDOWN.                                       *)
SenderStops(c) ==
    /\ \/ SenderAt(c, "pop", "done") /\ (stop_requested[c] \/ queue[c] = -1)
       \/ SenderAt(c, "check", "done") /\ stop_requested[c]
    /\ UNCHANGED queue

SenderChecks(c) ==
    /\ SenderAt(c, "check", "write")
    /\ ~stop_requested[c]
    /\ UNCHANGED queue

(* send takes the rest of the chunk, or must be tried again.               *)
SenderWrites(c) ==
    /\ SenderAt(c, "write", "pop") \/ SenderAt(c, "write", "check")
    /\ fd[c] # 0 /\ table[fd[c]] # None
    /\ UNCHANGED queue

(* send fails: EPIPE, a bad descriptor, or any other error.                *)
SenderFails(c) ==
    /\ sender[c] = "write"
    /\ sender' = [sender EXCEPT ![c] = "ending"]
    /\ Enter(c, c)
    /\ UNCHANGED <<busVars, serverVars, serviceVars, server_side, connected,
                   stop_requested, queue, fd, table, peer, life, evref,
                   dtor, announced, gone>>

(* Teardown returned; the thread ends without touching the object.         *)
SenderEnds(c) ==
    /\ SenderAt(c, "ending", "done")
    /\ Free(c)
    /\ UNCHANGED queue

SendLoop(c) ==
    \/ SenderPops(c) \/ SenderStops(c) \/ SenderChecks(c)
    \/ SenderWrites(c) \/ SenderFails(c) \/ SenderEnds(c)

-----------------------------------------------------------------------------
(* The service thread, and the peers.                                      *)

(* NetworkClient::Connect; a failure changes nothing.                      *)
ClientConnect(c, n) ==
    /\ service = "idle" /\ Free("service")
    /\ life[c] = "none" /\ peer[c] = "none"
    /\ Lowest(n)
    /\ Construct(c, n, FALSE)
    /\ sender' = [sender EXCEPT ![c] = "pop"]
    /\ held' = held \cup {c}
    /\ UNCHANGED <<busVars, serverVars, service, using, polled,
                   stop_requested, queue, td, evref, dtor, announced, gone>>

(* Connect gets a connection whose sender cannot be created.               *)
ClientConnectFails(c, n) ==
    /\ service = "idle" /\ Free("service")
    /\ life[c] = "none" /\ peer[c] = "none"
    /\ Lowest(n)
    /\ Construct(c, n, FALSE)
    /\ dtor' = [dtor EXCEPT !["service"] = c]
    /\ Enter("service", c)
    /\ UNCHANGED <<busVars, serverVars, serviceVars, stop_requested, queue,
                   sender, evref, announced, gone>>

(* Send: the queue refuses when it is full or shut down.                   *)
Send(c) ==
    /\ service = "idle" /\ Free("service")
    /\ c \in held
    /\ connected[c]
    /\ queue[c] \in 0..(MaxQueue - 1)
    /\ queue' = [queue EXCEPT ![c] = @ + 1]
    /\ UNCHANGED <<busVars, serverVars, serviceVars, server_side, connected,
                   stop_requested, fd, sender, table, peer, objVars>>

Close(c) ==
    /\ service = "idle" /\ Free("service")
    /\ c \in held
    /\ using' = c
    /\ service' = "closing"
    /\ Enter("service", c)
    /\ UNCHANGED <<busVars, serverVars, polled, held, connVars, life, evref,
                   dtor, announced, gone>>

(* Recv: connected, and fd_ copied into a local.                           *)
Recv(c) ==
    /\ service = "idle" /\ Free("service")
    /\ c \in held
    /\ connected[c] /\ fd[c] # 0
    /\ using' = c
    /\ polled' = fd[c]
    /\ service' = "recv"
    /\ UNCHANGED <<busVars, serverVars, held, connVars, objVars>>

(* recv returns bytes of whatever socket the descriptor now names.         *)
RecvReads ==
    /\ service = "recv"
    /\ table[polled] # None
    /\ service' = "closing"
    /\ UNCHANGED <<busVars, serverVars, using, polled, held, connVars,
                   objVars>>

(* The wait timed out or was interrupted.                                  *)
RecvTimesOut ==
    /\ service = "recv"
    /\ service' = "closing"
    /\ UNCHANGED <<busVars, serverVars, using, polled, held, connVars,
                   objVars>>

(* The peer closed, the descriptor is closed, or recv fails.               *)
RecvFails ==
    /\ service = "recv"
    /\ service' = "closing"
    /\ Enter("service", using)
    /\ UNCHANGED <<busVars, serverVars, using, polled, held, connVars, life,
                   evref, dtor, announced, gone>>

(* The call is over and its copy of the shared_ptr is dropped.             *)
ServiceReturns ==
    /\ service = "closing" /\ Free("service")
    /\ service' = "idle"
    /\ using' = None
    /\ polled' = 0
    /\ UNCHANGED <<busVars, serverVars, held, connVars, life, evref,
                   announced, gone>>
    /\ Dropped("service", using)

(* The service lets go of a connection.                                    *)
Forget(c) ==
    /\ service = "idle" /\ Free("service")
    /\ c \in held
    /\ held' = held \ {c}
    /\ UNCHANGED <<busVars, serverVars, service, using, polled, connVars,
                   life, evref, announced, gone>>
    /\ Dropped("service", c)

ServiceCalls ==
    \E c \in Conns : \/ Send(c) \/ Close(c) \/ Recv(c) \/ Forget(c)
                     \/ \E n \in Fds : \/ ClientConnect(c, n)
                                       \/ ClientConnectFails(c, n)

ServiceEnds == RecvReads \/ RecvTimesOut \/ RecvFails \/ ServiceReturns

PeerConnects(c) ==
    /\ life[c] = "none" /\ peer[c] = "none"
    /\ peer' = [peer EXCEPT ![c] = "waiting"]
    /\ UNCHANGED <<busVars, serverVars, serviceVars, server_side, connected,
                   stop_requested, queue, fd, sender, table, objVars>>

-----------------------------------------------------------------------------
Callbacks(t) ==
    \/ Dispatch(t) \/ OnDisconnected(t)
    \/ AppOnConnected(t) \/ AppClosesInHandler(t) \/ AppOnDisconnected(t)

Next ==
    \/ Owner \/ AcceptLoop \/ ServiceCalls \/ ServiceEnds
    \/ \E c \in Conns : SendLoop(c) \/ PeerConnects(c)
    \/ \E t \in Threads : Teardown(t) \/ FinishDestructor(t) \/ Callbacks(t)

Spec == Init /\ [][Next]_vars

(* Every thread goes on with the call it is in: the polls time out, the    *)
(* handlers return, and the scheduler runs every thread.  No call need     *)
(* ever be made.                                                           *)
FairSpec ==
    /\ Spec
    /\ WF_vars(StartAssigns) /\ WF_vars(StartSpawns \/ StartFails)
    /\ WF_vars(StopSnapshots) /\ WF_vars(StopCancels) /\ WF_vars(StopReturns)
    /\ WF_vars(\E c \in Conns : StopCloses(c) \/ StopDrops(c) \/ ServerDrops(c))
    /\ WF_vars(AcceptLoop) /\ WF_vars(ServiceEnds)
    /\ \A c \in Conns : WF_vars(SendLoop(c))
    /\ \A t \in Threads : WF_vars(Teardown(t) \/ FinishDestructor(t)
                                               \/ Callbacks(t))

-----------------------------------------------------------------------------
(* Types, the bus's among them; the send queue keeps to its capacity and   *)
(* no connection counts more than one NetworkDisconnected.                 *)
TypeOK ==
    /\ Bus!TypeOK
    /\ running \in BOOLEAN /\ token \in BOOLEAN
    /\ \A s \in {connections, to_close, closing, held, announced, left} :
          s \subseteq Conns
    /\ owner \in {"idle", "assign", "spawn", "join", "close", "drop",
                  "destroyed"}
    /\ accept \in {"none", "loop", "poll", "register", "announce",
                   "dispatch", "exited"}
    /\ service \in {"idle", "closing", "recv"}
    /\ accepted \in Conns \cup {None} /\ using \in Conns \cup {None}
    /\ polled \in Fds \cup {0}
    /\ life \in [Conns -> {"none", "live", "dead"}]
    /\ server_side \in [Conns -> BOOLEAN]
    /\ connected \in [Conns -> BOOLEAN]
    /\ stop_requested \in [Conns -> BOOLEAN]
    /\ queue \in [Conns -> -1..MaxQueue]
    /\ fd \in [Conns -> Fds \cup {0}]
    /\ sender \in [Conns -> {"none", "pop", "check", "write", "ending",
                             "done"}]
    /\ td \in [Threads -> [c : Conns \cup {None},
                           at : {"none", "exchange", "mark", "close",
                                 "clear", "publish", "dispatch"}]]
    /\ evref \in [Threads -> Conns \cup {None}]
    /\ dtor \in [Threads -> Conns \cup {None}]
    /\ table \in [Fds -> Conns \cup {None}]
    /\ peer \in [Conns -> {"none", "waiting", "open"}]
    /\ gone \in [Conns -> {Rejected, 0, 1}]

(* However many threads tear a connection down at once, its descriptor is  *)
(* closed once: the number about to be closed is still this connection's,  *)
(* never one the kernel has taken back or given to another connection.     *)
ClosesOwnSocket ==
    \A t \in Threads : td[t].at = "close" => table[fd[td[t].c]] = td[t].c

(* NetworkDisconnected is published at most once per connection, only by   *)
(* server-side ones, and only for a connection that NetworkConnected has   *)
(* announced.                                                              *)
OneDisconnect ==
    \A c \in Conns : gone[c] > 0 =>
        gone[c] = 1 /\ server_side[c] /\ c \in announced

(* The end of a connection is published: one that was announced and is     *)
(* closed has had its NetworkDisconnected, unless a thread is still        *)
(* tearing it down.  Excepted is Close() inside a handler, whose Publish   *)
(* the bus rejects, and a server that is destroyed: with connections_      *)
(* gone, a sender in Teardown may hold no reference to publish.            *)
EndIsPublished ==
    owner # "destroyed" => \A c \in announced :
        \/ connected[c] \/ gone[c] = 1
        \/ gone[c] = Rejected
        \/ \E t \in Threads : td[t].c = c

(* While the server runs, a connection that is closed and that no thread   *)
(* is still tearing down has left connections_, so that ConnectionCount    *)
(* counts live peers.  Excepted are those an earlier Stop left behind and  *)
(* those whose NetworkDisconnected the bus rejected.                       *)
ClosedIsForgotten ==
    running => \A c \in connections \ left :
        \/ connected[c] \/ gone[c] = Rejected
        \/ \E t \in Threads : td[t].c = c

(* After Stop, no connection the server accepted is open.                  *)
StopClosesAll ==
    owner \in {"idle", "destroyed"} /\ ~running =>
        \A c \in Conns : server_side[c] => ~connected[c]

(* No thread is in a member function of a connection object that has been  *)
(* destroyed, whichever thread dropped the last reference.                 *)
NoUseAfterFree ==
    \A c \in Conns : life[c] = "dead" =>
        /\ sender[c] \in {"none", "ending", "done"}
        /\ ~Referenced(c)
        /\ \A t \in Threads : td[t].c # c

(* Stop always returns, also when it has to destroy connections, and with  *)
(* other threads closing the same ones.                                    *)
StopEnds == owner \in {"join", "close", "drop"} ~> owner = "idle"

(* A torn down connection's sender thread ends.                            *)
SendersEnd ==
    \A c \in Conns : sender[c] # "none" /\ ~connected[c] ~> sender[c] = "done"

(* Stop is "safe to call from the destructor": no handler of the server    *)
(* runs once the server is destroyed.                                      *)
NoCallbackAfterDestroy ==
    \A t \in Threads : current[t] > AppDisconnected => owner # "destroyed"
=============================================================================
