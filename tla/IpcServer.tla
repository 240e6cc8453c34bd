------------------------------ MODULE IpcServer ------------------------------
(***************************************************************************)
(* IpcServer and IpcClient (framework/ipc): server processes that compete  *)
(* for one socket path, guarded by a lock on a file of its own, and the    *)
(* clients that connect to whichever of them the path leads to.            *)
(*                                                                         *)
(* Each system call of Start and Stop is a step, so that another server    *)
(* runs, and a crash happens, between any two.  The kernel releases what a *)
(* dead process held in the order of its descriptors: the lock first, then *)
(* the sockets.  The lock file itself is never removed.                    *)
(***************************************************************************)
EXTENDS IpcSocket

CONSTANTS Servers,      \* server processes
          MaxAttempts   \* max_attempts of ConnectWithRetry

ASSUME IpcServerAssumption ==
    /\ {"none", "stale"} \cap Servers = {} /\ "none" \notin Conns
    /\ MaxAttempts \in Nat

VARIABLES at,          \* where each server is in Start, Stop or between them
          lock,        \* kernel: who holds the flock, or "none"
          path,        \* kernel: whose listener the socket file names,
                       \* "stale" if it is closed, "none" if there is no file
          listening,   \* kernel: the servers whose listener takes connections
          backlog,     \* kernel: connections not yet accepted
          client_,     \* the accepted connection of each server, or "none"
          attempts     \* connect attempts used up for each connection

vars == <<socketVars, at, lock, path, listening, backlog, client_, attempts,
          events>>

Init ==
    /\ SocketInit
    /\ at = [s \in Servers |-> "down"]
    /\ lock = "none"
    /\ path \in {"none", "stale"}
    /\ listening = {}
    /\ backlog = [s \in Servers |-> <<>>]
    /\ client_ = [s \in Servers |-> "none"]
    /\ attempts = [c \in Conns |-> 0]

Goto(s, from, to) == at[s] = from /\ at' = [at EXCEPT ![s] = to]

-----------------------------------------------------------------------------
(* Start.  A flock that is taken is ALREADY_RUNNING and changes nothing.   *)

StartLocks(s) ==
    /\ Event
    /\ Goto(s, "down", "locked")
    /\ lock = "none"
    /\ lock' = s
    /\ UNCHANGED <<socketVars, path, listening, backlog, client_, attempts>>

\* Mutant: a socket file left behind is not removed.
NothingUnlinked == path

Unlinked == "none"

StartUnlinks(s) ==
    /\ Goto(s, "locked", "unlinked")
    /\ path' = Unlinked
    /\ UNCHANGED <<socketVars, lock, listening, backlog, client_, attempts,
                   events>>

(* socket() or bind() fails; no file has been made.                        *)
StartBindFails(s) ==
    /\ Goto(s, "unlinked", "unlock")
    /\ UNCHANGED <<socketVars, lock, path, listening, backlog, client_,
                   attempts, events>>

(* bind() needs the name to be free.                                       *)
StartBinds(s) ==
    /\ Goto(s, "unlinked", "bound")
    /\ path = "none"
    /\ path' = s
    /\ UNCHANGED <<socketVars, lock, listening, backlog, client_, attempts,
                   events>>

StartListens(s) ==
    /\ Goto(s, "bound", "listening")
    /\ listening' = listening \cup {s}
    /\ UNCHANGED <<socketVars, lock, path, backlog, client_, attempts, events>>

(* listen() or SetNonBlocking fails: close, unlink, unlock, as in Stop.    *)
StartFailsLate(s) ==
    /\ Goto(s, "bound", "close") \/ Goto(s, "listening", "close")
    /\ UNCHANGED <<socketVars, lock, path, listening, backlog, client_,
                   attempts, events>>

StartCommits(s) ==
    /\ Goto(s, "listening", "running")
    /\ UNCHANGED <<socketVars, lock, path, listening, backlog, client_,
                   attempts, events>>

-----------------------------------------------------------------------------
(* Stop, by a server that is not in a Send or Recv.                        *)

Owned(s) == IF client_[s] = "none" THEN {} ELSE {ServerEnd(client_[s])}

AtRest(s) == at[s] = "running" /\ \A e \in Owned(s) : Idle(e)

\* Mutant: Stop forgets its client.
StopKeepsClient(s) == {}

StopCloses(s) == Owned(s)

StopsClient(s) ==
    /\ AtRest(s)
    /\ Goto(s, "running", "close")
    /\ Close(StopCloses(s))
    /\ client_' = [client_ EXCEPT ![s] = "none"]
    /\ UNCHANGED <<lock, path, listening, backlog, attempts, events>>

(* close(listen_fd): the connections it holds are reset, and the file      *)
(* names a socket that is gone.                                            *)
Pending(s) == {ServerEnd(c) : c \in ToSet(backlog[s])}

ListenerGone(s) ==
    /\ listening' = listening \ {s}
    /\ backlog' = [backlog EXCEPT ![s] = <<>>]
    /\ path' = IF path = s THEN "stale" ELSE path

ClosesListener(s) ==
    /\ Goto(s, "close", "unlink")
    /\ Close(Pending(s))
    /\ ListenerGone(s)
    /\ UNCHANGED <<lock, client_, attempts, events>>

(* unlink() removes whatever the name leads to; then the lock is released. *)
Unlinks(s) ==
    /\ Goto(s, "unlink", "unlock")
    /\ path' = "none"
    /\ UNCHANGED <<socketVars, lock, listening, backlog, client_, attempts,
                   events>>

Unlocks(s) ==
    /\ Goto(s, "unlock", "down")
    /\ lock' = "none"
    /\ UNCHANGED <<socketVars, path, listening, backlog, client_, attempts,
                   events>>

-----------------------------------------------------------------------------
(* A server process dies at any step.                                      *)

Crash(s) ==
    /\ at[s] \notin {"down", "dying"}
    /\ Event
    /\ at' = [at EXCEPT ![s] = "dying"]
    /\ lock' = IF lock = s THEN "none" ELSE lock
    /\ UNCHANGED <<socketVars, path, listening, backlog, client_, attempts>>

CrashCloses(s) ==
    /\ Goto(s, "dying", "down")
    /\ Close(Pending(s) \cup Owned(s))
    /\ ListenerGone(s)
    /\ client_' = [client_ EXCEPT ![s] = "none"]
    /\ UNCHANGED <<lock, attempts, events>>

-----------------------------------------------------------------------------
(* The clients.  An attempt goes where the path leads at that moment.      *)

Reachable == {s \in listening : path = s}

Connect(c) ==
    /\ attempts[c] < MaxAttempts
    /\ \E s \in Reachable : backlog' = [backlog EXCEPT ![s] = Append(@, c)]
    /\ Open(c)
    /\ attempts' = [attempts EXCEPT ![c] = MaxAttempts]
    /\ UNCHANGED <<at, lock, path, listening, client_, events>>

(* No file, or nobody listens: the loop of ConnectWithRetry goes on.       *)
ConnectFails(c) ==
    /\ attempts[c] < MaxAttempts
    /\ Reachable = {}
    /\ attempts' = [attempts EXCEPT ![c] = @ + 1]
    /\ UNCHANGED <<socketVars, at, lock, path, listening, backlog, client_,
                   events>>

(* Disconnect between two calls, or the death of the process in one.       *)
ClientEnds(c) ==
    /\ open[ClientEnd(c)]
    /\ IF Idle(ClientEnd(c)) THEN UNCHANGED events ELSE Event
    /\ Close({ClientEnd(c)})
    /\ UNCHANGED <<at, lock, path, listening, backlog, client_, attempts>>

-----------------------------------------------------------------------------
(* Accept takes the oldest connection; without SetNonBlocking it is        *)
(* closed again.  A TIMEOUT changes nothing.                               *)

Accept(s) ==
    /\ at[s] = "running" /\ client_[s] = "none" /\ backlog[s] # <<>>
    /\ client_' = [client_ EXCEPT ![s] = Head(backlog[s])]
    /\ backlog' = [backlog EXCEPT ![s] = Tail(@)]
    /\ UNCHANGED <<socketVars, at, lock, path, listening, attempts, events>>

AcceptFails(s) ==
    /\ at[s] = "running" /\ client_[s] = "none" /\ backlog[s] # <<>>
    /\ Close({ServerEnd(Head(backlog[s]))})
    /\ backlog' = [backlog EXCEPT ![s] = Tail(@)]
    /\ UNCHANGED <<at, lock, path, listening, client_, attempts, events>>

Disconnect(s) ==
    /\ AtRest(s) /\ client_[s] # "none"
    /\ Close(Owned(s))
    /\ client_' = [client_ EXCEPT ![s] = "none"]
    /\ UNCHANGED <<at, lock, path, listening, backlog, attempts, events>>

-----------------------------------------------------------------------------
(* Send and Recv of IpcClient and, once it has a client, of IpcServer.     *)

Usable(e) == \/ e = ClientEnd(e[1])
             \/ \E s \in Servers : at[s] = "running" /\ client_[s] = e[1]

InSocket(A) == A /\ UNCHANGED <<at, lock, path, listening, backlog, client_,
                                attempts>>

BeginCall(e) ==
    /\ Usable(e)
    /\ InSocket(Recv(e) \/ \E m \in Messages : Send(e, m))

ContinueCall(e) == Usable(e) /\ InSocket(CallStep(e))

-----------------------------------------------------------------------------
ServerStep(s) ==
    \/ StartUnlinks(s) \/ StartBindFails(s) \/ StartBinds(s)
    \/ StartListens(s) \/ StartFailsLate(s) \/ StartCommits(s)
    \/ ClosesListener(s) \/ Unlinks(s) \/ Unlocks(s)
    \/ CrashCloses(s)

Next ==
    \/ \E s \in Servers :
          \/ StartLocks(s) \/ ServerStep(s) \/ StopsClient(s) \/ Crash(s)
          \/ Accept(s) \/ AcceptFails(s) \/ Disconnect(s)
    \/ \E c \in Conns : Connect(c) \/ ConnectFails(c) \/ ClientEnds(c)
    \/ \E e \in Ends : BeginCall(e) \/ ContinueCall(e)

Spec == Init /\ [][Next]_vars

(* A thread inside Send or Recv is scheduled, and a deadline passes; the   *)
(* kernel finishes the closing of a dead process.                          *)
FairSpec ==
    /\ Spec
    /\ \A e \in Ends : WF_vars(ContinueCall(e))
    /\ \A s \in Servers : WF_vars(CrashCloses(s))

-----------------------------------------------------------------------------
(* Two servers never get in each other's way, whatever crashes: one that   *)
(* has bound the path holds the lock, and the path leads to it, until it   *)
(* closes its own listener; one about to bind finds the name free; and     *)
(* with the lock free the path leads to nobody but a process on its way    *)
(* out, so that removing the file hurts nobody.                            *)
LockGuardsPath ==
    /\ \A s \in Servers :
          /\ at[s] \in {"bound", "listening", "running", "close"}
                => path = s /\ lock = s
          /\ at[s] = "unlinked" => path = "none"
    /\ lock = "none" =>
          path \in {"none", "stale"} \cup {s \in Servers : at[s] = "dying"}

(* No connection outlives its server: an end that the server side holds    *)
(* belongs to a server that is running, stopping or about to be cleaned    *)
(* up, as its client or in its backlog, and to one only.                   *)
NoOrphans ==
    \A c \in Conns : open[ServerEnd(c)] =>
        \E s \in Servers :
            /\ at[s] \notin {"down", "locked", "unlinked", "bound"}
            /\ {z \in Servers : client_[z] = c \/ c \in ToSet(backlog[z])}
                  = {s}
=============================================================================
