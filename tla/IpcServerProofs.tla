--------------------------- MODULE IpcServerProofs ---------------------------
(***************************************************************************)
(* The safety of IpcServer for any servers, connections, messages and      *)
(* buffers, in two parts: the lock, the path and who holds a connection,   *)
(* where the bytes of the streams play no part; and the framing of the     *)
(* messages, where only the making of a connection does.                   *)
(***************************************************************************)
EXTENDS IpcServer, TLAPS

Bound == {"bound", "listening", "running", "close"}
Locked == Bound \cup {"locked", "unlinked", "unlink", "unlock"}

(* The types of what the two properties speak of.                          *)
Types ==
    /\ at \in [Servers -> Locked \cup {"down", "dying"}]
    /\ lock \in Servers \cup {"none"}
    /\ path \in Servers \cup {"none", "stale"}
    /\ listening \subseteq Servers
    /\ backlog \in [Servers -> Seq(Conns)]
    /\ client_ \in [Servers -> Conns \cup {"none"}]
    /\ attempts \in [Conns -> Nat]

(* The lock is held exactly by who is between its flock and its unlock.    *)
LockIsHeld ==
    /\ \A s \in Servers : at[s] \in Locked => lock = s
    /\ lock # "none" => at[lock] \in Locked

(* Whom the path leads to, and when it leads nowhere.                      *)
PathIsOwned ==
    /\ \A s \in Servers :
          /\ at[s] \in Bound => path = s
          /\ at[s] \in {"unlinked", "unlock"} => path = "none"
    /\ path \in Servers => at[path] \in Bound \cup {"dying"}

Holds(s, c) == client_[s] = c \/ c \in ToSet(backlog[s])

(* A listener, a backlog and a client belong to somebody who closes them.  *)
HeldUntilClosed ==
    \A s \in Servers :
        /\ s \in listening \/ backlog[s] # <<>>
              => at[s] \in {"listening", "running", "close", "dying"}
        /\ client_[s] # "none" => at[s] \in {"running", "dying"}

(* A connection that has yet to be made is nobody's.                       *)
UnmadeIsNobodys ==
    \A c \in Conns : attempts[c] < MaxAttempts =>
        ~open[ServerEnd(c)] /\ \A s \in Servers : ~Holds(s, c)

(* Exactly one server holds the server's end of a connection.              *)
OneHolder ==
    \A c \in Conns : open[ServerEnd(c)] =>
        \E s \in Servers : /\ Holds(s, c)
                           /\ \A z \in Servers : Holds(z, c) => z = s

Inv ==
    /\ Types
    /\ LockIsHeld
    /\ PathIsOwned
    /\ HeldUntilClosed
    /\ UnmadeIsNobodys
    /\ OneHolder

-----------------------------------------------------------------------------
USE IpcServerAssumption DEF Bound, Locked

(* Closing a set of ends.                                                  *)
LEMMA CloseShrinks ==
    ASSUME NEW S, Close(S), NEW c \in Conns
    PROVE  open'[ServerEnd(c)] <=> open[ServerEnd(c)] /\ ServerEnd(c) \notin S
  BY DEF Close, Ends, ServerEnd

(* The server's ends are as many as the connections, and no client's end.  *)
LEMMA EndsDiffer ==
    ASSUME NEW c, NEW d
    PROVE  /\ ServerEnd(c) = ServerEnd(d) <=> c = d
           /\ ServerEnd(c) # ClientEnd(d)
  BY DEF ServerEnd, ClientEnd

(* The elements of an empty sequence, of a tail and of an appended one.    *)
LEMMA Elements ==
    ASSUME NEW q \in Seq(Conns)
    PROVE  /\ <<>> \in Seq(Conns) /\ ToSet(<<>>) = {}
           /\ q = <<>> <=> ToSet(q) = {}
           /\ \A c \in Conns : /\ Append(q, c) \in Seq(Conns)
                               /\ ToSet(Append(q, c)) = ToSet(q) \cup {c}
           /\ q # <<>> => /\ Head(q) \in Conns /\ Tail(q) \in Seq(Conns)
                          /\ ToSet(q) = {Head(q)} \cup ToSet(Tail(q))
<1>1. <<>> \in Seq(Conns) /\ ToSet(<<>>) = {} /\ (q = <<>> <=> ToSet(q) = {})
  <2>1. <<>> \in Seq(Conns) /\ ToSet(<<>>) = {}
    BY DEF ToSet
  <2>2. ASSUME q # <<>> PROVE q[1] \in ToSet(q)
    BY <2>2 DEF ToSet
  <2> QED
    BY <2>1, <2>2
<1>2. ASSUME NEW c \in Conns
      PROVE  /\ Append(q, c) \in Seq(Conns)
             /\ ToSet(Append(q, c)) = ToSet(q) \cup {c}
  <2>1. /\ DOMAIN Append(q, c) = 1..(Len(q) + 1) /\ DOMAIN q = 1..Len(q)
        /\ Len(q) \in Nat /\ Append(q, c)[Len(q) + 1] = c
        /\ \A i \in 1..Len(q) : Append(q, c)[i] = q[i]
    OBVIOUS
  <2>2. ToSet(Append(q, c)) \subseteq ToSet(q) \cup {c}
    BY <2>1 DEF ToSet
  <2>3. ToSet(q) \cup {c} \subseteq ToSet(Append(q, c))
    BY <2>1 DEF ToSet
  <2> QED
    BY <2>2, <2>3
<1>3. ASSUME q # <<>>
      PROVE  /\ Head(q) \in Conns /\ Tail(q) \in Seq(Conns)
             /\ ToSet(q) = {Head(q)} \cup ToSet(Tail(q))
  <2>1. /\ Head(q) \in Conns /\ Tail(q) \in Seq(Conns)
        /\ DOMAIN q = 1..Len(q) /\ DOMAIN Tail(q) = 1..(Len(q) - 1)
        /\ Len(q) \in Nat /\ Len(q) > 0 /\ Head(q) = q[1]
        /\ \A i \in 1..(Len(q) - 1) : Tail(q)[i] = q[i + 1]
    BY <1>3
  <2>2. ASSUME NEW i \in 1..Len(q), i # 1 PROVE q[i] \in ToSet(Tail(q))
    <3>1. i - 1 \in 1..(Len(q) - 1) /\ Tail(q)[i - 1] = q[i]
      BY <2>1, <2>2
    <3> QED
      BY <2>1, <3>1 DEF ToSet
  <2>3. ToSet(q) \subseteq {Head(q)} \cup ToSet(Tail(q))
    BY <2>1, <2>2 DEF ToSet
  <2>4. {Head(q)} \cup ToSet(Tail(q)) \subseteq ToSet(q)
    BY <2>1 DEF ToSet
  <2> QED
    BY <2>1, <2>3, <2>4
<1> QED
  BY <1>1, <1>2, <1>3

-----------------------------------------------------------------------------
(* A step that makes nobody hold anything new, and nobody give up anything *)
(* without closing it.                                                     *)
LEMMA HoldersKept ==
    ASSUME Inv, attempts' = attempts,
           \A z \in Servers, c \in Conns : Holds(z, c)' => Holds(z, c),
           \A c \in Conns : open'[ServerEnd(c)] =>
               /\ open[ServerEnd(c)]
               /\ \A z \in Servers : Holds(z, c) => Holds(z, c)'
    PROVE  UnmadeIsNobodys' /\ OneHolder'
  BY DEF Inv, UnmadeIsNobodys, OneHolder

(* Init establishes the invariant.                                         *)
LEMMA InitInv == Init => Inv
<1> SUFFICES ASSUME Init PROVE Inv
  OBVIOUS
<1> USE DEF Init, SocketInit
<1>1. Types
  BY Elements DEF Types
<1>2. LockIsHeld /\ PathIsOwned /\ HeldUntilClosed
  BY DEF LockIsHeld, PathIsOwned, HeldUntilClosed
<1>3. \A c \in Conns : ~open[ServerEnd(c)]
  BY DEF Ends, ServerEnd
<1>4. \A s \in Servers, c \in Conns : ~Holds(s, c)
  BY DEF Holds, ToSet
<1> QED
  BY <1>1, <1>2, <1>3, <1>4 DEF Inv, UnmadeIsNobodys, OneHolder

(* The lock was free: nobody else is between flock and unlock.             *)
LEMMA StartLocksInv ==
    ASSUME Inv, NEW s \in Servers, StartLocks(s)
    PROVE  Inv'
<1> USE DEF StartLocks, Goto, socketVars, Event
<1>1. Types'
  BY Elements DEF Inv, Types
<1>2. LockIsHeld'
  BY DEF Inv, Types, LockIsHeld
<1>3. PathIsOwned'
  BY DEF Inv, Types, LockIsHeld, PathIsOwned
<1>4. HeldUntilClosed'
  BY Elements DEF Inv, Types, HeldUntilClosed
<1>5. UnmadeIsNobodys' /\ OneHolder'
  BY Elements
     DEF Inv, Types, HeldUntilClosed, UnmadeIsNobodys, OneHolder, Holds
<1> QED
  BY <1>1, <1>2, <1>3, <1>4, <1>5 DEF Inv

(* Who is removed is dying: no bound server loses its name.                *)
LEMMA StartUnlinksInv ==
    ASSUME Inv, NEW s \in Servers, StartUnlinks(s)
    PROVE  Inv'
<1> USE DEF StartUnlinks, Goto, socketVars, Unlinked
<1>1. Types'
  BY Elements DEF Inv, Types
<1>2. LockIsHeld'
  BY DEF Inv, Types, LockIsHeld
<1>3. PathIsOwned'
  BY DEF Inv, Types, LockIsHeld, PathIsOwned
<1>4. HeldUntilClosed'
  BY Elements DEF Inv, Types, HeldUntilClosed
<1>5. UnmadeIsNobodys' /\ OneHolder'
  BY Elements
     DEF Inv, Types, HeldUntilClosed, UnmadeIsNobodys, OneHolder, Holds
<1> QED
  BY <1>1, <1>2, <1>3, <1>4, <1>5 DEF Inv

(* A server without a socket goes on to unlock.                            *)
LEMMA StartBindFailsInv ==
    ASSUME Inv, NEW s \in Servers, StartBindFails(s)
    PROVE  Inv'
<1> USE DEF StartBindFails, Goto, socketVars
<1>1. Types'
  BY Elements DEF Inv, Types
<1>2. LockIsHeld'
  BY DEF Inv, Types, LockIsHeld
<1>3. PathIsOwned'
  BY DEF Inv, Types, LockIsHeld, PathIsOwned
<1>4. HeldUntilClosed'
  BY Elements DEF Inv, Types, HeldUntilClosed
<1>5. UnmadeIsNobodys' /\ OneHolder'
  BY Elements
     DEF Inv, Types, HeldUntilClosed, UnmadeIsNobodys, OneHolder, Holds
<1> QED
  BY <1>1, <1>2, <1>3, <1>4, <1>5 DEF Inv

(* The name is free and becomes the server's.                              *)
LEMMA StartBindsInv ==
    ASSUME Inv, NEW s \in Servers, StartBinds(s)
    PROVE  Inv'
<1> USE DEF StartBinds, Goto, socketVars
<1>1. Types'
  BY Elements DEF Inv, Types
<1>2. LockIsHeld'
  BY DEF Inv, Types, LockIsHeld
<1>3. PathIsOwned'
  BY DEF Inv, Types, LockIsHeld, PathIsOwned
<1>4. HeldUntilClosed'
  BY Elements DEF Inv, Types, HeldUntilClosed
<1>5. UnmadeIsNobodys' /\ OneHolder'
  BY Elements
     DEF Inv, Types, HeldUntilClosed, UnmadeIsNobodys, OneHolder, Holds
<1> QED
  BY <1>1, <1>2, <1>3, <1>4, <1>5 DEF Inv

(* The listener opens.                                                     *)
LEMMA StartListensInv ==
    ASSUME Inv, NEW s \in Servers, StartListens(s)
    PROVE  Inv'
<1> USE DEF StartListens, Goto, socketVars
<1>1. Types'
  BY Elements DEF Inv, Types
<1>2. LockIsHeld'
  BY DEF Inv, Types, LockIsHeld
<1>3. PathIsOwned'
  BY DEF Inv, Types, LockIsHeld, PathIsOwned
<1>4. HeldUntilClosed'
  BY Elements DEF Inv, Types, HeldUntilClosed
<1>5. UnmadeIsNobodys' /\ OneHolder'
  BY Elements
     DEF Inv, Types, HeldUntilClosed, UnmadeIsNobodys, OneHolder, Holds
<1> QED
  BY <1>1, <1>2, <1>3, <1>4, <1>5 DEF Inv

(* A late failure closes what Start has opened.                            *)
LEMMA StartFailsLateInv ==
    ASSUME Inv, NEW s \in Servers, StartFailsLate(s)
    PROVE  Inv'
<1> USE DEF StartFailsLate, Goto, socketVars
<1>1. Types'
  BY Elements DEF Inv, Types
<1>2. LockIsHeld'
  BY DEF Inv, Types, LockIsHeld
<1>3. PathIsOwned'
  BY DEF Inv, Types, LockIsHeld, PathIsOwned
<1>4. HeldUntilClosed'
  BY Elements DEF Inv, Types, HeldUntilClosed
<1>5. UnmadeIsNobodys' /\ OneHolder'
  BY Elements
     DEF Inv, Types, HeldUntilClosed, UnmadeIsNobodys, OneHolder, Holds
<1> QED
  BY <1>1, <1>2, <1>3, <1>4, <1>5 DEF Inv

(* The server runs.                                                        *)
LEMMA StartCommitsInv ==
    ASSUME Inv, NEW s \in Servers, StartCommits(s)
    PROVE  Inv'
<1> USE DEF StartCommits, Goto, socketVars
<1>1. Types'
  BY Elements DEF Inv, Types
<1>2. LockIsHeld'
  BY DEF Inv, Types, LockIsHeld
<1>3. PathIsOwned'
  BY DEF Inv, Types, LockIsHeld, PathIsOwned
<1>4. HeldUntilClosed'
  BY Elements DEF Inv, Types, HeldUntilClosed
<1>5. UnmadeIsNobodys' /\ OneHolder'
  BY Elements
     DEF Inv, Types, HeldUntilClosed, UnmadeIsNobodys, OneHolder, Holds
<1> QED
  BY <1>1, <1>2, <1>3, <1>4, <1>5 DEF Inv

(* Stop closes its client.                                                 *)
LEMMA StopsClientInv ==
    ASSUME Inv, NEW s \in Servers, StopsClient(s)
    PROVE  Inv'
<1> USE DEF StopsClient, Goto, socketVars, AtRest, StopCloses, Owned
<1>1. Types'
  BY Elements DEF Inv, Types
<1>2. LockIsHeld'
  BY DEF Inv, Types, LockIsHeld
<1>3. PathIsOwned'
  BY DEF Inv, Types, LockIsHeld, PathIsOwned
<1>4. HeldUntilClosed'
  BY Elements DEF Inv, Types, HeldUntilClosed
<1>5. UnmadeIsNobodys' /\ OneHolder'
  <2>1. \A z \in Servers, c \in Conns : Holds(z, c)' => Holds(z, c)
    BY Elements DEF Inv, Types, Holds
  <2>2. \A c \in Conns : open'[ServerEnd(c)] =>
           open[ServerEnd(c)] /\ c # client_[s]
    BY CloseShrinks, EndsDiffer DEF Inv, Types
  <2>3. \A z \in Servers, c \in Conns :
           c # client_[s] /\ Holds(z, c) => Holds(z, c)'
    BY Elements DEF Inv, Types, HeldUntilClosed, Holds
  <2> QED
    BY <2>1, <2>2, <2>3, HoldersKept
<1> QED
  BY <1>1, <1>2, <1>3, <1>4, <1>5 DEF Inv

(* Stop closes its listener and what waits there.                          *)
LEMMA ClosesListenerInv ==
    ASSUME Inv, NEW s \in Servers, ClosesListener(s)
    PROVE  Inv'
<1> USE DEF ClosesListener, Goto, socketVars, ListenerGone, Pending
<1>1. Types'
  BY Elements DEF Inv, Types
<1>2. LockIsHeld'
  BY DEF Inv, Types, LockIsHeld
<1>3. PathIsOwned'
  BY DEF Inv, Types, LockIsHeld, PathIsOwned
<1>4. HeldUntilClosed'
  BY Elements DEF Inv, Types, HeldUntilClosed
<1>5. UnmadeIsNobodys' /\ OneHolder'
  <2>1. \A z \in Servers, c \in Conns : Holds(z, c)' => Holds(z, c)
    BY Elements DEF Inv, Types, Holds
  <2>2. \A c \in Conns : open'[ServerEnd(c)] =>
           open[ServerEnd(c)] /\ c \notin ToSet(backlog[s])
    BY CloseShrinks, EndsDiffer DEF Inv, Types
  <2>3. \A z \in Servers, c \in Conns :
           c \notin ToSet(backlog[s]) /\ Holds(z, c) => Holds(z, c)'
    BY Elements DEF Inv, Types, HeldUntilClosed, Holds
  <2> QED
    BY <2>1, <2>2, <2>3, HoldersKept
<1> QED
  BY <1>1, <1>2, <1>3, <1>4, <1>5 DEF Inv

(* Stop removes the file, which nobody else can have bound.                *)
LEMMA UnlinksInv ==
    ASSUME Inv, NEW s \in Servers, Unlinks(s)
    PROVE  Inv'
<1> USE DEF Unlinks, Goto, socketVars
<1>1. Types'
  BY Elements DEF Inv, Types
<1>2. LockIsHeld'
  BY DEF Inv, Types, LockIsHeld
<1>3. PathIsOwned'
  BY DEF Inv, Types, LockIsHeld, PathIsOwned
<1>4. HeldUntilClosed'
  BY Elements DEF Inv, Types, HeldUntilClosed
<1>5. UnmadeIsNobodys' /\ OneHolder'
  BY Elements
     DEF Inv, Types, HeldUntilClosed, UnmadeIsNobodys, OneHolder, Holds
<1> QED
  BY <1>1, <1>2, <1>3, <1>4, <1>5 DEF Inv

(* Who unlocks holds nothing any more.                                     *)
LEMMA UnlocksInv ==
    ASSUME Inv, NEW s \in Servers, Unlocks(s)
    PROVE  Inv'
<1> USE DEF Unlocks, Goto, socketVars
<1>1. Types'
  BY Elements DEF Inv, Types
<1>2. LockIsHeld'
  BY DEF Inv, Types, LockIsHeld
<1>3. PathIsOwned'
  BY DEF Inv, Types, LockIsHeld, PathIsOwned
<1>4. HeldUntilClosed'
  BY Elements DEF Inv, Types, HeldUntilClosed
<1>5. UnmadeIsNobodys' /\ OneHolder'
  BY Elements
     DEF Inv, Types, HeldUntilClosed, UnmadeIsNobodys, OneHolder, Holds
<1> QED
  BY <1>1, <1>2, <1>3, <1>4, <1>5 DEF Inv

(* A crash frees the lock; the rest stays until the kernel closes it.      *)
LEMMA CrashInv ==
    ASSUME Inv, NEW s \in Servers, Crash(s)
    PROVE  Inv'
<1> USE DEF Crash, Goto, socketVars, Event
<1>1. Types'
  BY Elements DEF Inv, Types
<1>2. LockIsHeld'
  BY DEF Inv, Types, LockIsHeld
<1>3. PathIsOwned'
  BY DEF Inv, Types, LockIsHeld, PathIsOwned
<1>4. HeldUntilClosed'
  BY Elements DEF Inv, Types, HeldUntilClosed
<1>5. UnmadeIsNobodys' /\ OneHolder'
  BY Elements
     DEF Inv, Types, HeldUntilClosed, UnmadeIsNobodys, OneHolder, Holds
<1> QED
  BY <1>1, <1>2, <1>3, <1>4, <1>5 DEF Inv

(* The kernel closes all that a dead server held.                          *)
LEMMA CrashClosesInv ==
    ASSUME Inv, NEW s \in Servers, CrashCloses(s)
    PROVE  Inv'
<1> USE DEF CrashCloses, Goto, socketVars, ListenerGone, Pending, Owned
<1>1. Types'
  BY Elements DEF Inv, Types
<1>2. LockIsHeld'
  BY DEF Inv, Types, LockIsHeld
<1>3. PathIsOwned'
  BY DEF Inv, Types, LockIsHeld, PathIsOwned
<1>4. HeldUntilClosed'
  BY Elements DEF Inv, Types, HeldUntilClosed
<1>5. UnmadeIsNobodys' /\ OneHolder'
  <2>1. \A z \in Servers, c \in Conns : Holds(z, c)' => Holds(z, c)
    BY Elements DEF Inv, Types, Holds
  <2>2. \A c \in Conns : open'[ServerEnd(c)] =>
           open[ServerEnd(c)] /\ ~Holds(s, c)
    BY CloseShrinks, EndsDiffer DEF Inv, Types, Holds
  <2>3. \A z \in Servers, c \in Conns :
           ~Holds(s, c) /\ Holds(z, c) => Holds(z, c)'
    BY Elements DEF Inv, Types, HeldUntilClosed, Holds
  <2> QED
    BY <2>1, <2>2, <2>3, HoldersKept
<1> QED
  BY <1>1, <1>2, <1>3, <1>4, <1>5 DEF Inv

(* A new connection waits in one backlog.                                  *)
LEMMA ConnectInv ==
    ASSUME Inv, NEW c \in Conns, Connect(c)
    PROVE  Inv'
<1> USE DEF Connect, Goto, socketVars, Reachable, Open
<1>1. Types'
  BY Elements DEF Inv, Types
<1>2. LockIsHeld'
  BY DEF Inv, Types, LockIsHeld
<1>3. PathIsOwned'
  BY DEF Inv, Types, LockIsHeld, PathIsOwned
<1>4. HeldUntilClosed'
  BY Elements DEF Inv, Types, HeldUntilClosed
<1>5. UnmadeIsNobodys' /\ OneHolder'
  <2>1. PICK s \in Servers : backlog' = [backlog EXCEPT ![s] = Append(@, c)]
    BY DEF Inv, Types
  <2>2. \A z \in Servers, d \in Conns :
           Holds(z, d)' <=> Holds(z, d) \/ (z = s /\ d = c)
    BY <2>1, Elements DEF Inv, Types, Holds
  <2>3. \A d \in Conns : open'[ServerEnd(d)] <=> open[ServerEnd(d)] \/ d = c
    BY DEF ServerEnd, Ends
  <2>4. \A z \in Servers : ~Holds(z, c)
    BY DEF Inv, UnmadeIsNobodys
  <2>5. \A d \in Conns : attempts'[d] = IF d = c THEN MaxAttempts ELSE attempts[d]
    BY DEF Inv, Types
  <2>6. ~(MaxAttempts < MaxAttempts)
    OBVIOUS
  <2>7. UnmadeIsNobodys'
    BY <2>2, <2>3, <2>5, <2>6 DEF Inv, UnmadeIsNobodys
  <2>8. OneHolder'
    <3> HIDE DEF Connect
    <3> SUFFICES ASSUME NEW d \in Conns, open'[ServerEnd(d)]
                 PROVE  \E z \in Servers : /\ Holds(z, d)'
                                           /\ \A y \in Servers : Holds(y, d)' => y = z
      BY DEF OneHolder
    <3>1. CASE d = c
      BY <2>2, <2>4, <3>1
    <3>2. CASE d # c
      <4>1. open[ServerEnd(d)]
        BY <2>3, <3>2
      <4>2. PICK z \in Servers : /\ Holds(z, d)
                                 /\ \A y \in Servers : Holds(y, d) => y = z
        BY <4>1 DEF Inv, OneHolder
      <4> QED
        BY <2>2, <3>2, <4>2
    <3> QED
      BY <3>1, <3>2
  <2> QED
    BY <2>7, <2>8
<1> QED
  BY <1>1, <1>2, <1>3, <1>4, <1>5 DEF Inv

(* A failed attempt.                                                       *)
LEMMA ConnectFailsInv ==
    ASSUME Inv, NEW c \in Conns, ConnectFails(c)
    PROVE  Inv'
<1> USE DEF ConnectFails, Goto, socketVars
<1>1. Types'
  BY Elements DEF Inv, Types
<1>2. LockIsHeld'
  BY DEF Inv, Types, LockIsHeld
<1>3. PathIsOwned'
  BY DEF Inv, Types, LockIsHeld, PathIsOwned
<1>4. HeldUntilClosed'
  BY Elements DEF Inv, Types, HeldUntilClosed
<1>5. UnmadeIsNobodys' /\ OneHolder'
  BY Elements
     DEF Inv, Types, HeldUntilClosed, UnmadeIsNobodys, OneHolder, Holds
<1> QED
  BY <1>1, <1>2, <1>3, <1>4, <1>5 DEF Inv

(* The client's end is not the server's.                                   *)
LEMMA ClientEndsInv ==
    ASSUME Inv, NEW c \in Conns, ClientEnds(c)
    PROVE  Inv'
<1> USE DEF ClientEnds, Goto, socketVars, Event
<1>1. Types'
  BY Elements DEF Inv, Types
<1>2. LockIsHeld'
  BY DEF Inv, Types, LockIsHeld
<1>3. PathIsOwned'
  BY DEF Inv, Types, LockIsHeld, PathIsOwned
<1>4. HeldUntilClosed'
  BY Elements DEF Inv, Types, HeldUntilClosed
<1>5. UnmadeIsNobodys' /\ OneHolder'
  BY Elements, CloseShrinks, EndsDiffer
     DEF Inv, Types, HeldUntilClosed, UnmadeIsNobodys, OneHolder, Holds
<1> QED
  BY <1>1, <1>2, <1>3, <1>4, <1>5 DEF Inv

(* The oldest connection becomes the client.                               *)
LEMMA AcceptInv ==
    ASSUME Inv, NEW s \in Servers, Accept(s)
    PROVE  Inv'
<1> USE DEF Accept, Goto, socketVars
<1>1. Types'
  BY Elements DEF Inv, Types
<1>2. LockIsHeld'
  BY DEF Inv, Types, LockIsHeld
<1>3. PathIsOwned'
  BY DEF Inv, Types, LockIsHeld, PathIsOwned
<1>4. HeldUntilClosed'
  BY Elements DEF Inv, Types, HeldUntilClosed
<1>5. UnmadeIsNobodys' /\ OneHolder'
  <2>1. \A z \in Servers, c \in Conns : Holds(z, c)' <=> Holds(z, c)
    BY Elements DEF Inv, Types, Holds
  <2> QED
    BY <2>1, HoldersKept
<1> QED
  BY <1>1, <1>2, <1>3, <1>4, <1>5 DEF Inv

(* The oldest connection is closed.                                        *)
LEMMA AcceptFailsInv ==
    ASSUME Inv, NEW s \in Servers, AcceptFails(s)
    PROVE  Inv'
<1> USE DEF AcceptFails, Goto, socketVars
<1>1. Types'
  BY Elements DEF Inv, Types
<1>2. LockIsHeld'
  BY DEF Inv, Types, LockIsHeld
<1>3. PathIsOwned'
  BY DEF Inv, Types, LockIsHeld, PathIsOwned
<1>4. HeldUntilClosed'
  BY Elements DEF Inv, Types, HeldUntilClosed
<1>5. UnmadeIsNobodys' /\ OneHolder'
  <2>1. \A z \in Servers, c \in Conns : Holds(z, c)' => Holds(z, c)
    BY Elements DEF Inv, Types, Holds
  <2>2. \A c \in Conns : open'[ServerEnd(c)] =>
           open[ServerEnd(c)] /\ c # Head(backlog[s])
    BY CloseShrinks, EndsDiffer DEF Inv, Types
  <2>3. \A z \in Servers, c \in Conns :
           c # Head(backlog[s]) /\ Holds(z, c) => Holds(z, c)'
    BY Elements DEF Inv, Types, HeldUntilClosed, Holds
  <2> QED
    BY <2>1, <2>2, <2>3, HoldersKept
<1> QED
  BY <1>1, <1>2, <1>3, <1>4, <1>5 DEF Inv

(* The client is closed.                                                   *)
LEMMA DisconnectInv ==
    ASSUME Inv, NEW s \in Servers, Disconnect(s)
    PROVE  Inv'
<1> USE DEF Disconnect, Goto, socketVars, AtRest, Owned
<1>1. Types'
  BY Elements DEF Inv, Types
<1>2. LockIsHeld'
  BY DEF Inv, Types, LockIsHeld
<1>3. PathIsOwned'
  BY DEF Inv, Types, LockIsHeld, PathIsOwned
<1>4. HeldUntilClosed'
  BY Elements DEF Inv, Types, HeldUntilClosed
<1>5. UnmadeIsNobodys' /\ OneHolder'
  <2>1. \A z \in Servers, c \in Conns : Holds(z, c)' => Holds(z, c)
    BY Elements DEF Inv, Types, Holds
  <2>2. \A c \in Conns : open'[ServerEnd(c)] =>
           open[ServerEnd(c)] /\ c # client_[s]
    BY CloseShrinks, EndsDiffer DEF Inv, Types
  <2>3. \A z \in Servers, c \in Conns :
           c # client_[s] /\ Holds(z, c) => Holds(z, c)'
    BY Elements DEF Inv, Types, HeldUntilClosed, Holds
  <2> QED
    BY <2>1, <2>2, <2>3, HoldersKept
<1> QED
  BY <1>1, <1>2, <1>3, <1>4, <1>5 DEF Inv

(* A call on a socket opens and closes nothing.                            *)
LEMMA CallsInv ==
    ASSUME Inv, NEW e \in Ends, BeginCall(e) \/ ContinueCall(e)
    PROVE  Inv'
<1>1. UNCHANGED <<open, at, lock, path, listening, backlog, client_, attempts>>
  BY DEF BeginCall, ContinueCall, InSocket, Recv, Send, CallStep, Write, Read,
     GiveUp
<1> QED
  BY <1>1 DEF Inv, Types, LockIsHeld, PathIsOwned, HeldUntilClosed,
     UnmadeIsNobodys, OneHolder, Holds

(* Every step keeps the invariant.                                         *)
LEMMA NextInv == Inv /\ [Next]_vars => Inv'
<1> SUFFICES ASSUME Inv, [Next]_vars
             PROVE  Inv'
  OBVIOUS
<1>1. ASSUME NEW s \in Servers,
             StartLocks(s) \/ ServerStep(s) \/ StopsClient(s) \/ Crash(s)
                \/ Accept(s) \/ AcceptFails(s) \/ Disconnect(s)
      PROVE  Inv'
  <2>1. CASE ServerStep(s)
    BY <2>1, StartUnlinksInv, StartBindFailsInv, StartBindsInv,
       StartListensInv, StartFailsLateInv, StartCommitsInv, ClosesListenerInv,
       UnlinksInv, UnlocksInv, CrashClosesInv DEF ServerStep
  <2> QED
    BY <1>1, <2>1, StartLocksInv, StopsClientInv, CrashInv, AcceptInv,
       AcceptFailsInv, DisconnectInv
<1>2. ASSUME NEW c \in Conns, Connect(c) \/ ConnectFails(c) \/ ClientEnds(c)
      PROVE  Inv'
  BY <1>2, ConnectInv, ConnectFailsInv, ClientEndsInv
<1>3. ASSUME NEW e \in Ends, BeginCall(e) \/ ContinueCall(e)
      PROVE  Inv'
  BY <1>3, CallsInv
<1>4. CASE UNCHANGED vars
  BY <1>4 DEF vars, socketVars, Inv, Types, LockIsHeld, PathIsOwned,
     HeldUntilClosed, UnmadeIsNobodys, OneHolder, Holds
<1> QED
  BY <1>1, <1>2, <1>3, <1>4 DEF Next

THEOREM Invariance == Spec => []Inv
<1>1. Init => Inv
  BY InitInv
<1>2. Inv /\ [Next]_vars => Inv'
  BY NextInv
<1> QED
  BY <1>1, <1>2, PTL DEF Spec

-----------------------------------------------------------------------------
(* However many servers compete and wherever they crash, one that has      *)
(* bound the socket path holds the lock and keeps the path, and nobody     *)
(* removes a file that leads to a server still using it.                   *)
THEOREM ServersExclude == Spec => []LockGuardsPath
<1>1. Inv => LockGuardsPath
  BY DEF Inv, Types, LockIsHeld, PathIsOwned, LockGuardsPath
<1> QED
  BY <1>1, Invariance, PTL

(* The server's end of a connection always has exactly one server that     *)
(* will close it, or a kernel that will.                                   *)
THEOREM ConnectionsHaveAServer == Spec => []NoOrphans
<1>1. Inv => NoOrphans
  <2> SUFFICES ASSUME Inv, NEW c \in Conns, open[ServerEnd(c)]
               PROVE  \E s \in Servers :
                        /\ at[s] \notin {"down", "locked", "unlinked", "bound"}
                        /\ {z \in Servers : client_[z] = c
                                              \/ c \in ToSet(backlog[z])} = {s}
    BY DEF NoOrphans
  <2>1. PICK s \in Servers : /\ Holds(s, c)
                             /\ \A z \in Servers : Holds(z, c) => z = s
    BY DEF Inv, OneHolder
  <2>2. {z \in Servers : client_[z] = c \/ c \in ToSet(backlog[z])} = {s}
    BY <2>1 DEF Holds
  <2>3. at[s] \in {"listening", "running", "close", "dying"}
    BY <2>1, Elements DEF Inv, Types, Holds, HeldUntilClosed
  <2> QED
    BY <2>2, <2>3
<1> QED
  BY <1>1, Invariance, PTL

-----------------------------------------------------------------------------
HIDE IpcServerAssumption DEF Bound, Locked

(***************************************************************************)
(* The framing.  Number the bytes of all the frames a stream ever carries: *)
(* the frame of the i-th message begins at off[i].  Then the stream holds  *)
(* consecutive bytes of that numbering, from where the reader has got to   *)
(* up to where the writer has, and either stands within a frame as its     *)
(* call says.  No induction over the messages is needed: each step adds to *)
(* or takes from the ends of that range.                                   *)
(***************************************************************************)
Octets == 0..255
Payloads == Seq(Octets)

(* The bytes of the frame of a message.                                    *)
FrameSize(m) == kIpcFrameHeaderSize + Len(m)
FrameByte(m, k) == IF k <= kIpcFrameHeaderSize THEN EncodeHeader(Len(m))[k]
                   ELSE m[k - kIpcFrameHeaderSize]

(* a are the bytes of the frame of m after the first w, up to v.           *)
Part(a, m, w, v) ==
    /\ a \in Payloads /\ w + Len(a) = v
    /\ \A j \in 1..Len(a) : a[j] = FrameByte(m, w + j)

(* The frames of the messages S, and then of m, begin at these offsets.    *)
Msg(S, m, i) == IF i = Len(S) + 1 THEN m ELSE S[i]

Laid(off, S) ==
    /\ off \in Seq(Nat) /\ Len(off) = Len(S) + 1
    /\ \A i \in 1..Len(S) : /\ Len(S[i]) <= kIpcMaxMessageSize
                            /\ off[i + 1] = off[i] + FrameSize(S[i])
                            /\ off[i + 1] <= off[Len(S) + 1]

(* The bytes of q follow each other in those frames, from an offset on.    *)
Carries(off, S, m, q, from) ==
    \A i \in 1..(Len(S) + 1), j \in 1..Len(q) :
        \A k \in 1..FrameSize(Msg(S, m, i)) :
            from + j = off[i] + k => q[j] = FrameByte(Msg(S, m, i), k)

(* The messages S were sent, and w bytes of m are written; R of them were  *)
(* received, and t bytes of the next are taken; q lies between.            *)
Flow(off, S, m, R, q, w, t) ==
    /\ Laid(off, S) /\ Len(m) <= kIpcMaxMessageSize
    /\ Len(R) <= Len(S) /\ \A i \in 1..Len(R) : R[i] = S[i]
    /\ w < FrameSize(m) /\ t < FrameSize(Msg(S, m, Len(R) + 1))
    /\ off[Len(R) + 1] + t + Len(q) = off[Len(S) + 1] + w
    /\ Carries(off, S, m, q, off[Len(R) + 1] + t)

(* The size of a frame.                                                    *)
LEMMA Sizes ==
    ASSUME NEW m \in Payloads
    PROVE  Len(m) \in Nat /\ FrameSize(m) \in Nat /\ FrameSize(m) = Len(m) + 4
  BY DEF Payloads, FrameSize, kIpcFrameHeaderSize

(* A sequence cut after n bytes.                                           *)
LEMMA Cut ==
    ASSUME NEW q \in Payloads, NEW n \in Nat, n <= Len(q)
    PROVE  /\ SubSeq(q, 1, n) \in Payloads /\ Len(SubSeq(q, 1, n)) = n
           /\ \A j \in 1..n : SubSeq(q, 1, n)[j] = q[j]
           /\ SubSeq(q, n + 1, Len(q)) \in Payloads
           /\ Len(SubSeq(q, n + 1, Len(q))) = Len(q) - n
           /\ \A j \in 1..(Len(q) - n) : SubSeq(q, n + 1, Len(q))[j] = q[n + j]
<1>1. q \in Seq(Octets) /\ Len(q) \in Nat
  BY DEF Payloads
<1>2. SubSeq(q, 1, n) \in Seq(Octets) /\ Len(SubSeq(q, 1, n)) = n
  BY <1>1
<1>3. \A j \in 1..n : SubSeq(q, 1, n)[j] = q[j]
  BY <1>1
<1>4. SubSeq(q, n + 1, Len(q)) \in Seq(Octets)
  BY <1>1
<1>5. Len(SubSeq(q, n + 1, Len(q))) = Len(q) - n
  BY <1>1
<1>6. \A j \in 1..(Len(q) - n) : SubSeq(q, n + 1, Len(q))[j] = q[n + j]
  BY <1>1
<1> QED
  BY <1>2, <1>3, <1>4, <1>5, <1>6 DEF Payloads

(* A length survives its header.                                           *)
LEMMA HeaderDecodes ==
    ASSUME NEW m \in Payloads, Len(m) <= kIpcMaxMessageSize,
           NEW h, \A k \in 1..4 : h[k] = FrameByte(m, k)
    PROVE  DecodeHeader(h) = Len(m)
<1> DEFINE n == Len(m)
<1>1. n \in Nat /\ n \div 16777216 < 256
  BY IpcSocketAssumption, HeaderAssumption DEF Payloads
<1>2. /\ h[1] = Byte(n, 16777216) /\ h[2] = Byte(n, 65536)
      /\ h[3] = Byte(n, 256) /\ h[4] = Byte(n, 1)
  BY DEF FrameByte, EncodeHeader, kIpcFrameHeaderSize
<1> HIDE DEF n
<1>3. Byte(n, 16777216) * 16777216 + Byte(n, 65536) * 65536
         + Byte(n, 256) * 256 + Byte(n, 1) = n
  BY <1>1 DEF Byte
<1> QED
  BY <1>2, <1>3 DEF DecodeHeader, n

-----------------------------------------------------------------------------
(* The messages of a flow and their frames.                                *)
LEMMA Msgs ==
    ASSUME NEW S \in Seq(Payloads), NEW m \in Payloads
    PROVE  /\ Len(S) \in Nat /\ Msg(S, m, Len(S) + 1) = m
           /\ \A i \in 1..Len(S) : Msg(S, m, i) = S[i] /\ S[i] \in Payloads
           /\ \A i \in 1..(Len(S) + 1) :
                 /\ Msg(S, m, i) \in Payloads
                 /\ FrameSize(Msg(S, m, i)) \in Nat
                 /\ FrameSize(Msg(S, m, i)) = Len(Msg(S, m, i)) + 4
                 /\ Len(Msg(S, m, i)) \in Nat
<1>1. /\ Len(S) \in Nat /\ Msg(S, m, Len(S) + 1) = m
      /\ \A i \in 1..Len(S) : Msg(S, m, i) = S[i] /\ S[i] \in Payloads
  BY DEF Msg
<1>2. ASSUME NEW i \in 1..(Len(S) + 1) PROVE Msg(S, m, i) \in Payloads
  <2>1. i = Len(S) + 1 \/ i \in 1..Len(S)
    BY <1>1
  <2> QED
    BY <1>1, <2>1
<1> QED
  BY <1>1, <1>2, Sizes

(* One more message.                                                       *)
LEMMA MsgsAppended ==
    ASSUME NEW S \in Seq(Payloads), NEW m \in Payloads, NEW x
    PROVE  \A i \in 1..(Len(S) + 1) : Msg(Append(S, m), x, i) = Msg(S, m, i)
<1>1. /\ Len(S) \in Nat /\ Len(Append(S, m)) = Len(S) + 1
      /\ Append(S, m)[Len(S) + 1] = m
      /\ \A i \in 1..Len(S) : Append(S, m)[i] = S[i]
  OBVIOUS
<1>2. ASSUME NEW i \in 1..(Len(S) + 1)
      PROVE  Msg(Append(S, m), x, i) = Msg(S, m, i)
  <2>1. Msg(Append(S, m), x, i) = Append(S, m)[i]
    BY <1>1 DEF Msg
  <2>2. CASE i = Len(S) + 1
    BY <1>1, <2>1, <2>2 DEF Msg
  <2>3. CASE i \in 1..Len(S)
    BY <1>1, <2>1, <2>3 DEF Msg
  <2> QED
    BY <1>1, <2>2, <2>3
<1> QED
  BY <1>2

(* The numbers of a flow.                                                  *)
LEMMA FlowNumbers ==
    ASSUME NEW off, NEW S \in Seq(Payloads), NEW m \in Payloads,
           NEW R \in Seq(Payloads), NEW q \in Payloads,
           NEW w \in Nat, NEW t \in Nat, Flow(off, S, m, R, q, w, t)
    PROVE  /\ Len(S) + 1 \in Nat /\ Len(R) + 1 \in Nat /\ Len(q) \in Nat
           /\ Len(R) + 1 \in 1..(Len(S) + 1)
           /\ off[Len(S) + 1] \in Nat /\ off[Len(R) + 1] \in Nat
           /\ \A i \in 1..(Len(S) + 1) : off[i] \in Nat
<1>1. Len(S) \in Nat /\ Len(R) \in Nat /\ Len(q) \in Nat
  BY DEF Payloads
<1>2. off \in Seq(Nat) /\ Len(off) = Len(S) + 1 /\ Len(R) <= Len(S)
  BY DEF Flow, Laid
<1>3. \A i \in 1..(Len(S) + 1) : off[i] \in Nat
  BY <1>1, <1>2
<1>4. Len(R) + 1 \in 1..(Len(S) + 1) /\ Len(S) + 1 \in 1..(Len(S) + 1)
  BY <1>1, <1>2
<1> QED
  BY <1>1, <1>3, <1>4

(* The next bytes of m are written.                                        *)
LEMMA CarriesMore ==
    ASSUME NEW off, NEW S \in Seq(Payloads), NEW m \in Payloads,
           NEW R \in Seq(Payloads), NEW q \in Payloads,
           NEW w \in Nat, NEW t \in Nat, Flow(off, S, m, R, q, w, t),
           NEW a, NEW v \in Nat, Part(a, m, w, v)
    PROVE  /\ q \o a \in Payloads
           /\ off[Len(R) + 1] + t + Len(q \o a) = off[Len(S) + 1] + v
           /\ Carries(off, S, m, q \o a, off[Len(R) + 1] + t)
<1>1. /\ Len(S) + 1 \in Nat /\ Len(R) + 1 \in Nat /\ Len(q) \in Nat
      /\ off[Len(S) + 1] \in Nat /\ off[Len(R) + 1] \in Nat
      /\ \A i \in 1..(Len(S) + 1) : off[i] \in Nat
  BY FlowNumbers
<1>2. Len(a) \in Nat /\ a \in Payloads
  BY DEF Part, Payloads
<1>3. SUFFICES ASSUME NEW L \in Nat, NEW r \in Nat, NEW n \in Nat, NEW z \in Nat,
                      NEW last \in Nat, NEW next \in Nat,
                      L = Len(S) + 1, r = Len(R) + 1, n = Len(q), z = Len(a),
                      last = off[L], next = off[r]
               PROVE  /\ q \o a \in Payloads
                      /\ next + t + Len(q \o a) = last + v
                      /\ Carries(off, S, m, q \o a, next + t)
  BY <1>1, <1>2, Zenon
<1>4. PICK b : /\ b = q \o a /\ b \in Payloads /\ Len(b) = n + z
               /\ \A j \in 1..n : b[j] = q[j]
               /\ \A j \in 1..z : b[n + j] = a[j]
  <2>1. q \o a \in Payloads /\ Len(q \o a) = Len(q) + Len(a)
    BY <1>2 DEF Payloads
  <2>2. /\ \A j \in 1..Len(q) : (q \o a)[j] = q[j]
        /\ \A j \in 1..Len(a) : (q \o a)[Len(q) + j] = a[j]
    BY <1>2 DEF Payloads
  <2> QED
    BY <1>3, <2>1, <2>2
<1>5. next + t + n = last + w /\ w + z = v
  BY <1>3 DEF Flow, Part
<1>6. \A x \in 1..z : a[x] = FrameByte(m, w + x)
  BY <1>3 DEF Part
<1>7. ASSUME NEW i \in Nat, i \in 1..L, NEW j \in Nat, j \in 1..Len(b),
             NEW k \in Nat, k \in 1..FrameSize(Msg(S, m, i)),
             next + t + j = off[i] + k
      PROVE  b[j] = FrameByte(Msg(S, m, i), k)
  <2>0. FrameSize(Msg(S, m, i)) \in Nat
    BY <1>3, <1>7, Msgs
  <2>1. SUFFICES ASSUME NEW o \in Nat, NEW f \in Nat, o = off[i],
                        f = FrameSize(Msg(S, m, i))
                 PROVE  b[j] = FrameByte(Msg(S, m, i), k)
    BY <1>1, <1>3, <1>7, <2>0, Zenon
  <2>2. 1 <= k /\ k <= f /\ 1 <= j /\ j <= n + z /\ next + t + j = o + k
    BY <1>4, <1>7, <2>1
  <2>3. CASE j <= n
    <3>1. j \in 1..n
      BY <2>2, <2>3
    <3>2. q[j] = FrameByte(Msg(S, m, i), k)
      BY <1>3, <1>7, <3>1 DEF Flow, Carries
    <3> QED
      BY <1>4, <3>1, <3>2
  <2>4. CASE j > n
    <3>1. PICK x \in Nat : x = j - n
      BY <2>4
    <3>2. x \in 1..z /\ j = n + x
      BY <2>2, <2>4, <3>1
    <3>3. last + w + x = o + k
      BY <1>5, <2>2, <3>2
    <3>4. i < L => o + f <= last
      <4>1. SUFFICES ASSUME i < L PROVE o + f <= last
        OBVIOUS
      <4>2. i \in 1..Len(S)
        BY <1>1, <1>3, <1>7, <4>1
      <4>3. Msg(S, m, i) = S[i]
        BY <4>2, Msgs
      <4>4. off[i + 1] = o + f /\ off[i + 1] <= last
        BY <1>3, <2>1, <4>2, <4>3 DEF Flow, Laid
      <4> QED
        BY <4>4
    <3>5. i = L /\ o = last
      <4>1. ~(o + f <= last)
        BY <2>2, <3>2, <3>3
      <4>2. i = L
        BY <1>7, <3>4, <4>1
      <4> QED
        BY <1>3, <2>1, <4>2
    <3>6. k = w + x
      BY <3>3, <3>5
    <3>7. b[j] = a[x] /\ a[x] = FrameByte(m, w + x)
      BY <1>4, <1>6, <3>2
    <3>8. Msg(S, m, i) = m
      BY <1>3, <3>5, Msgs
    <3> QED
      BY <3>6, <3>7, <3>8
  <2> QED
    BY <2>3, <2>4
<1>8. next + t + Len(b) = last + v
  BY <1>4, <1>5
<1>9. Carries(off, S, m, b, next + t)
  <2> SUFFICES ASSUME NEW i \in 1..(Len(S) + 1), NEW j \in 1..Len(b),
                      NEW k \in 1..FrameSize(Msg(S, m, i)),
                      next + t + j = off[i] + k
               PROVE  b[j] = FrameByte(Msg(S, m, i), k)
    BY DEF Carries
  <2>1. j \in Nat /\ k \in Nat /\ i \in 1..L /\ i \in Nat
    BY <1>1, <1>3, <1>4, Msgs
  <2> QED
    BY <1>7, <2>1
<1> QED
  BY <1>4, <1>8, <1>9

(* A part of the frame is written.                                         *)
LEMMA FlowWrites ==
    ASSUME NEW off, NEW S \in Seq(Payloads), NEW m \in Payloads,
           NEW R \in Seq(Payloads), NEW q \in Payloads,
           NEW w \in Nat, NEW t \in Nat, Flow(off, S, m, R, q, w, t),
           NEW a, NEW v \in Nat, Part(a, m, w, v), v < FrameSize(m)
    PROVE  q \o a \in Payloads /\ Flow(off, S, m, R, q \o a, v, t)
<1>1. /\ q \o a \in Payloads
      /\ off[Len(R) + 1] + t + Len(q \o a) = off[Len(S) + 1] + v
      /\ Carries(off, S, m, q \o a, off[Len(R) + 1] + t)
  BY CarriesMore
<1> QED
  BY <1>1 DEF Flow

(* The frame is written to its end.  Nothing is known of the next.         *)
LEMMA FlowSends ==
    ASSUME NEW off, NEW S \in Seq(Payloads), NEW m \in Payloads,
           NEW R \in Seq(Payloads), NEW q \in Payloads,
           NEW w \in Nat, NEW t \in Nat, Flow(off, S, m, R, q, w, t),
           NEW a, Part(a, m, w, FrameSize(m))
    PROVE  /\ q \o a \in Payloads /\ Append(S, m) \in Seq(Payloads)
           /\ Msg(Append(S, m), <<>>, Len(R) + 1) = Msg(S, m, Len(R) + 1)
           /\ Flow(Append(off, off[Len(S) + 1] + FrameSize(m)),
                   Append(S, m), <<>>, R, q \o a, 0, t)
<1>1. /\ Len(S) + 1 \in Nat /\ Len(R) + 1 \in Nat
      /\ off[Len(S) + 1] \in Nat /\ off[Len(R) + 1] \in Nat
      /\ Len(R) + 1 \in 1..(Len(S) + 1)
      /\ \A i \in 1..(Len(S) + 1) : off[i] \in Nat
  BY FlowNumbers
<1>2. FrameSize(m) \in Nat /\ FrameSize(m) >= 4
  BY Sizes
<1>3. /\ q \o a \in Payloads
      /\ off[Len(R) + 1] + t + Len(q \o a) = off[Len(S) + 1] + FrameSize(m)
      /\ Carries(off, S, m, q \o a, off[Len(R) + 1] + t)
  BY <1>2, CarriesMore
<1>4. Len(q \o a) \in Nat
  BY <1>3 DEF Payloads
<1>5. SUFFICES
        ASSUME NEW L \in Nat, NEW r \in Nat, NEW n \in Nat, NEW f \in Nat,
               NEW last \in Nat, NEW next \in Nat, NEW off2, NEW S2, NEW b,
               L = Len(S) + 1, r = Len(R) + 1, b = q \o a, n = Len(b),
               f = FrameSize(m), next = off[r], last = off[L],
               off2 = Append(off, last + f), S2 = Append(S, m)
        PROVE  /\ b \in Payloads /\ S2 \in Seq(Payloads)
               /\ Msg(S2, <<>>, r) = Msg(S, m, r)
               /\ Flow(off2, S2, <<>>, R, b, 0, t)
  BY <1>1, <1>2, <1>4, Zenon
<1>6. /\ r \in 1..L /\ L \in 1..L /\ next + t + n = last + f /\ f >= 4
      /\ Carries(off, S, m, b, next + t)
  BY <1>1, <1>2, <1>3, <1>5
<1>7. /\ off \in Seq(Nat) /\ Len(off) = L
      /\ \A i \in 1..Len(S) : /\ Len(S[i]) <= kIpcMaxMessageSize
                              /\ off[i + 1] = off[i] + FrameSize(S[i])
                              /\ off[i + 1] <= last
  BY <1>5 DEF Flow, Laid
<1>8. /\ off2 \in Seq(Nat) /\ Len(off2) = L + 1 /\ off2[L + 1] = last + f
      /\ \A i \in 1..L : off2[i] = off[i]
  <2>1. PICK e \in Nat : e = last + f
    OBVIOUS
  <2>2. off2 = Append(off, e)
    BY <1>5, <2>1
  <2>3. /\ off2 \in Seq(Nat) /\ Len(off2) = Len(off) + 1
        /\ off2[Len(off) + 1] = e
        /\ \A i \in 1..Len(off) : off2[i] = off[i]
    BY <1>7, <2>2
  <2> QED
    BY <1>7, <2>1, <2>3
<1>9. /\ S2 \in Seq(Payloads) /\ Len(S2) = L /\ S2[L] = m
      /\ \A i \in 1..Len(S) : S2[i] = S[i]
  BY <1>5
<1>10. FrameSize(<<>>) = 4 /\ Len(<<>>) = 0 /\ <<>> \in Payloads
  BY DEF FrameSize, kIpcFrameHeaderSize, Payloads
<1>11. Laid(off2, S2)
  <2>1. ASSUME NEW i \in 1..L
        PROVE  /\ Len(S2[i]) <= kIpcMaxMessageSize
               /\ off2[i + 1] = off2[i] + FrameSize(S2[i])
               /\ off2[i + 1] <= last + f
    <3>1. CASE i = L
      <4>1. Len(m) <= kIpcMaxMessageSize
        BY DEF Flow
      <4>2. S2[i] = m /\ off2[i] = last /\ off2[i + 1] = last + f
        BY <1>5, <1>6, <1>8, <1>9, <3>1
      <4>3. last + f <= last + f
        OBVIOUS
      <4> QED
        BY <1>5, <4>1, <4>2, <4>3
    <3>2. CASE i # L
      <4>1. i \in 1..Len(S) /\ i \in 1..L /\ i + 1 \in 1..L
        BY <1>1, <1>5, <3>2
      <4>2. off2[i] = off[i] /\ off2[i + 1] = off[i + 1] /\ S2[i] = S[i]
        BY <1>8, <1>9, <4>1
      <4>3. off[i + 1] \in Nat /\ off[i + 1] <= last
        BY <1>1, <1>5, <1>7, <4>1
      <4>4. off[i + 1] <= last + f
        BY <4>3
      <4> QED
        BY <1>7, <4>1, <4>2, <4>4
    <3> QED
      BY <3>1, <3>2
  <2> QED
    BY <1>8, <1>9, <2>1 DEF Laid
<1>12. \A i \in 1..L : Msg(S2, <<>>, i) = Msg(S, m, i)
  BY <1>5, MsgsAppended
<1>13. Carries(off2, S2, <<>>, b, next + t)
  <2>1. SUFFICES ASSUME NEW i \in 1..(L + 1), NEW j \in 1..n,
                        NEW k \in 1..FrameSize(Msg(S2, <<>>, i)),
                        next + t + j = off2[i] + k
                 PROVE  b[j] = FrameByte(Msg(S2, <<>>, i), k)
    BY <1>5, <1>9 DEF Carries
  <2>2. CASE i = L + 1
    <3>1. Msg(S2, <<>>, i) = <<>>
      BY <1>9, <2>2 DEF Msg
    <3>2. k \in Nat /\ k >= 1 /\ next + t + j = last + f + k
      BY <1>8, <1>10, <2>1, <2>2, <3>1
    <3> QED
      BY <1>6, <3>2
  <2>3. CASE i \in 1..L
    <3>1. Msg(S2, <<>>, i) = Msg(S, m, i) /\ off2[i] = off[i]
      BY <1>8, <1>12, <2>3
    <3>2. /\ i \in 1..(Len(S) + 1) /\ j \in 1..Len(b)
          /\ k \in 1..FrameSize(Msg(S, m, i)) /\ next + t + j = off[i] + k
      BY <1>5, <2>1, <2>3, <3>1
    <3> QED
      BY <1>6, <3>1, <3>2 DEF Carries
  <2> QED
    BY <2>2, <2>3
<1>14. Len(R) <= Len(S2) /\ \A i \in 1..Len(R) : R[i] = S2[i]
  <2>1. Len(R) <= Len(S) /\ \A i \in 1..Len(R) : R[i] = S[i]
    BY DEF Flow
  <2>2. Len(R) \in Nat /\ Len(S) \in Nat
    OBVIOUS
  <2>3. \A i \in 1..Len(R) : i \in 1..Len(S)
    BY <2>1, <2>2
  <2>4. Len(R) <= L
    BY <1>5, <2>1, <2>2
  <2> QED
    BY <1>9, <2>1, <2>3, <2>4
<1>15. t < FrameSize(Msg(S2, <<>>, r)) /\ Msg(S2, <<>>, r) = Msg(S, m, r)
  BY <1>5, <1>6, <1>12 DEF Flow
<1>16. off2[r] = next /\ off2[L + 1] = last + f
  BY <1>5, <1>6, <1>8
<1>17. next + t + Len(b) = last + f + 0 /\ 0 < FrameSize(<<>>)
  <2>1. Len(b) = n
    BY <1>5
  <2>2. next + t + n = last + f + 0
    BY <1>6
  <2> QED
    BY <1>10, <2>1, <2>2
<1>18. Len(<<>>) <= kIpcMaxMessageSize
  BY <1>10, IpcSocketAssumption
<1>19. Flow(off2, S2, <<>>, R, b, 0, t)
  BY <1>5, <1>9, <1>11, <1>13, <1>14, <1>15, <1>16, <1>17, <1>18 DEF Flow
<1> QED
  BY <1>3, <1>5, <1>9, <1>15, <1>19

(* Another message begins where nothing of the last is written.            *)
LEMMA FlowBegins ==
    ASSUME NEW off, NEW S \in Seq(Payloads), NEW m \in Payloads,
           NEW R \in Seq(Payloads), NEW q \in Payloads,
           NEW t \in Nat, Flow(off, S, m, R, q, 0, t),
           NEW x \in Payloads, Len(x) <= kIpcMaxMessageSize
    PROVE  /\ Flow(off, S, x, R, q, 0, t)
           /\ t # 0 => Msg(S, x, Len(R) + 1) = Msg(S, m, Len(R) + 1)
<1>1. /\ Len(S) + 1 \in Nat /\ Len(R) + 1 \in Nat /\ Len(q) \in Nat
      /\ off[Len(S) + 1] \in Nat /\ off[Len(R) + 1] \in Nat
      /\ Len(R) + 1 \in 1..(Len(S) + 1)
      /\ \A i \in 1..(Len(S) + 1) : off[i] \in Nat
  BY FlowNumbers
<1>2. SUFFICES
        ASSUME NEW L \in Nat, NEW r \in Nat, NEW n \in Nat,
               NEW last \in Nat, NEW next \in Nat,
               L = Len(S) + 1, r = Len(R) + 1, n = Len(q),
               next = off[r], last = off[L]
        PROVE  /\ Flow(off, S, x, R, q, 0, t)
               /\ t # 0 => Msg(S, x, r) = Msg(S, m, r)
  BY <1>1, Zenon
<1>3. next + t + n = last /\ r \in 1..L
  <2>1. next + t + n = last + 0
    BY <1>2 DEF Flow
  <2> QED
    BY <1>1, <1>2, <2>1
<1>4. ASSUME NEW i \in 1..L, i # L
      PROVE  Msg(S, x, i) = Msg(S, m, i) /\ i \in 1..Len(S) /\ Msg(S, m, i) = S[i]
  BY <1>1, <1>2, <1>4, Msgs DEF Msg
<1>5. FrameSize(x) \in Nat /\ FrameSize(x) >= 4
  BY Sizes
<1>6. Carries(off, S, x, q, next + t)
  <2>1. SUFFICES ASSUME NEW i \in 1..L, NEW j \in 1..n,
                        NEW k \in 1..FrameSize(Msg(S, x, i)),
                        next + t + j = off[i] + k
                 PROVE  q[j] = FrameByte(Msg(S, x, i), k)
    BY <1>2 DEF Carries
  <2>2. CASE i = L
    <3>1. Msg(S, x, i) = x
      BY <1>2, <2>2, Msgs
    <3>2. k \in Nat /\ k >= 1
      BY <1>5, <3>1
    <3>3. next + t + j = last + k
      BY <1>2, <2>1, <2>2
    <3> QED
      BY <1>3, <3>2, <3>3
  <2>3. CASE i # L
    <3>1. /\ i \in 1..(Len(S) + 1) /\ j \in 1..Len(q)
          /\ k \in 1..FrameSize(Msg(S, m, i)) /\ next + t + j = off[i] + k
      BY <1>2, <1>4, <2>1, <2>3
    <3>2. q[j] = FrameByte(Msg(S, m, i), k)
      BY <1>2, <3>1 DEF Flow, Carries
    <3> QED
      BY <1>4, <2>3, <3>2
  <2> QED
    BY <2>2, <2>3
<1>7. t < FrameSize(Msg(S, x, r)) /\ (t # 0 => Msg(S, x, r) = Msg(S, m, r))
  <2>1. CASE r = L
    <3>1. t = 0
      BY <1>2, <1>3, <2>1
    <3>2. Msg(S, x, r) = x
      BY <1>2, <2>1, Msgs
    <3> QED
      BY <1>5, <3>1, <3>2
  <2>2. CASE r # L
    <3>1. Msg(S, x, r) = Msg(S, m, r)
      BY <1>3, <1>4, <2>2
    <3>2. t < FrameSize(Msg(S, m, r))
      BY <1>2 DEF Flow
    <3> QED
      BY <3>1, <3>2
  <2> QED
    BY <2>1, <2>2
<1>8. Flow(off, S, x, R, q, 0, t)
  <2>1. 0 < FrameSize(x)
    BY <1>5
  <2> QED
    BY <1>2, <1>6, <1>7, <2>1 DEF Flow
<1> QED
  BY <1>7, <1>8

(* What is next in the stream is the rest of the frame in hand.            *)
LEMMA FlowBytes ==
    ASSUME NEW off, NEW S \in Seq(Payloads), NEW m \in Payloads,
           NEW R \in Seq(Payloads), NEW q \in Payloads,
           NEW w \in Nat, NEW t \in Nat, Flow(off, S, m, R, q, w, t),
           NEW j \in 1..Len(q), t + j <= FrameSize(Msg(S, m, Len(R) + 1))
    PROVE  q[j] = FrameByte(Msg(S, m, Len(R) + 1), t + j)
<1>1. /\ Len(q) \in Nat /\ off[Len(R) + 1] \in Nat
      /\ Len(R) + 1 \in 1..(Len(S) + 1)
  BY FlowNumbers
<1>2. FrameSize(Msg(S, m, Len(R) + 1)) \in Nat
  BY <1>1, Msgs
<1>3. t + j \in 1..FrameSize(Msg(S, m, Len(R) + 1))
  BY <1>1, <1>2
<1>4. off[Len(R) + 1] + t + j = off[Len(R) + 1] + (t + j)
  BY <1>1
<1> QED
  BY <1>1, <1>3, <1>4 DEF Flow, Carries

(* The first n bytes are taken from the stream.                            *)
LEMMA CarriesRest ==
    ASSUME NEW off, NEW S \in Seq(Payloads), NEW m \in Payloads,
           NEW q \in Payloads, NEW from \in Nat,
           \A i \in 1..(Len(S) + 1) : off[i] \in Nat,
           Carries(off, S, m, q, from), NEW n \in Nat, n <= Len(q)
    PROVE  /\ SubSeq(q, n + 1, Len(q)) \in Payloads
           /\ Len(SubSeq(q, n + 1, Len(q))) = Len(q) - n
           /\ Carries(off, S, m, SubSeq(q, n + 1, Len(q)), from + n)
<1>1. PICK d : /\ d = SubSeq(q, n + 1, Len(q)) /\ d \in Payloads
               /\ Len(d) = Len(q) - n /\ Len(q) \in Nat
               /\ \A j \in 1..Len(d) : d[j] = q[n + j]
  <2>1. Len(q) \in Nat
    BY DEF Payloads
  <2>2. /\ SubSeq(q, n + 1, Len(q)) \in Payloads
        /\ Len(SubSeq(q, n + 1, Len(q))) = Len(q) - n
        /\ \A j \in 1..(Len(q) - n) : SubSeq(q, n + 1, Len(q))[j] = q[n + j]
    BY Cut
  <2>3. SUFFICES ASSUME NEW d, d = SubSeq(q, n + 1, Len(q))
                 PROVE  /\ d \in Payloads
                        /\ Len(d) = Len(q) - n
                        /\ \A j \in 1..Len(d) : d[j] = q[n + j]
    BY <2>1, Zenon
  <2> QED
    BY <2>2, <2>3
<1>2. ASSUME NEW i \in 1..(Len(S) + 1), NEW j \in 1..Len(d),
             NEW k \in 1..FrameSize(Msg(S, m, i)), from + n + j = off[i] + k
      PROVE  d[j] = FrameByte(Msg(S, m, i), k)
  <2>1. n + j \in 1..Len(q) /\ j \in Nat
    BY <1>1
  <2>2. from + (n + j) = off[i] + k
    BY <1>2, <2>1
  <2>3. q[n + j] = FrameByte(Msg(S, m, i), k)
    BY <2>1, <2>2 DEF Carries
  <2> QED
    BY <1>1, <2>3
<1> QED
  BY <1>1, <1>2 DEF Carries

(* A part of the frame in hand is read.                                    *)
LEMMA FlowReads ==
    ASSUME NEW off, NEW S \in Seq(Payloads), NEW m \in Payloads,
           NEW R \in Seq(Payloads), NEW q \in Payloads,
           NEW w \in Nat, NEW t \in Nat, Flow(off, S, m, R, q, w, t),
           NEW n \in Nat, n <= Len(q),
           t + n < FrameSize(Msg(S, m, Len(R) + 1))
    PROVE  /\ SubSeq(q, n + 1, Len(q)) \in Payloads
           /\ Flow(off, S, m, R, SubSeq(q, n + 1, Len(q)), w, t + n)
<1>1. /\ Len(q) \in Nat /\ off[Len(R) + 1] \in Nat /\ off[Len(S) + 1] \in Nat
      /\ \A i \in 1..(Len(S) + 1) : off[i] \in Nat
  BY FlowNumbers
<1>2. SUFFICES ASSUME NEW z \in Nat, NEW last \in Nat, NEW next \in Nat, NEW d,
                      z = Len(q), next = off[Len(R) + 1], last = off[Len(S) + 1],
                      d = SubSeq(q, n + 1, Len(q))
               PROVE  d \in Payloads /\ Flow(off, S, m, R, d, w, t + n)
  BY <1>1, Zenon
<1>3. next + t + z = last + w /\ Carries(off, S, m, q, next + t)
  <2>1. /\ off[Len(R) + 1] + t + Len(q) = off[Len(S) + 1] + w
        /\ Carries(off, S, m, q, off[Len(R) + 1] + t)
    BY DEF Flow
  <2> QED
    BY <1>2, <2>1
<1>4. d \in Payloads /\ Len(d) = z - n /\ Carries(off, S, m, d, next + t + n)
  <2>1. SUFFICES ASSUME NEW from \in Nat, from = next + t
                 PROVE  /\ d \in Payloads /\ Len(d) = z - n
                        /\ Carries(off, S, m, d, from + n)
    OBVIOUS
  <2>2. Carries(off, S, m, q, from)
    BY <1>3, <2>1
  <2>3. /\ SubSeq(q, n + 1, Len(q)) \in Payloads
        /\ Len(SubSeq(q, n + 1, Len(q))) = Len(q) - n
        /\ Carries(off, S, m, SubSeq(q, n + 1, Len(q)), from + n)
    BY <1>1, <2>2, CarriesRest
  <2> QED
    BY <1>2, <2>3
<1>5. next + (t + n) = next + t + n /\ next + (t + n) + (z - n) = last + w
  BY <1>3
<1> QED
  BY <1>2, <1>4, <1>5 DEF Flow

(* The frame in hand is read to its end: it is one of those that were      *)
(* sent, and the next is in hand.                                          *)
LEMMA FlowReceives ==
    ASSUME NEW off, NEW S \in Seq(Payloads), NEW m \in Payloads,
           NEW R \in Seq(Payloads), NEW q \in Payloads,
           NEW w \in Nat, NEW t \in Nat, Flow(off, S, m, R, q, w, t),
           NEW n \in Nat, n <= Len(q), NEW x,
           x = Msg(S, m, Len(R) + 1), t + n = FrameSize(x)
    PROVE  /\ SubSeq(q, n + 1, Len(q)) \in Payloads
           /\ x \in Payloads /\ Append(R, x) \in Seq(Payloads)
           /\ Flow(off, S, m, Append(R, x), SubSeq(q, n + 1, Len(q)), w, 0)
<1>1. /\ Len(q) \in Nat /\ Len(R) + 1 \in Nat /\ Len(S) + 1 \in Nat
      /\ off[Len(R) + 1] \in Nat /\ off[Len(S) + 1] \in Nat
      /\ Len(R) + 1 \in 1..(Len(S) + 1)
      /\ \A i \in 1..(Len(S) + 1) : off[i] \in Nat
  BY FlowNumbers
<1>2. x \in Payloads /\ FrameSize(x) \in Nat /\ FrameSize(m) \in Nat
  BY <1>1, Msgs, Sizes
<1>3. SUFFICES ASSUME NEW z \in Nat, NEW last \in Nat, NEW next \in Nat,
                      NEW r \in Nat, NEW L \in Nat, NEW f \in Nat,
                      NEW d, NEW R2, r = Len(R) + 1, L = Len(S) + 1,
                      z = Len(q), next = off[r], last = off[L],
                      f = FrameSize(x), R2 = Append(R, x),
                      d = SubSeq(q, n + 1, Len(q))
               PROVE  /\ d \in Payloads /\ R2 \in Seq(Payloads)
                      /\ Flow(off, S, m, R2, d, w, 0)
  BY <1>1, <1>2, Zenon
<1>4. next + t + z = last + w /\ Carries(off, S, m, q, next + t)
  <2>1. /\ off[Len(R) + 1] + t + Len(q) = off[Len(S) + 1] + w
        /\ Carries(off, S, m, q, off[Len(R) + 1] + t)
    BY DEF Flow
  <2> QED
    BY <1>3, <2>1
<1>5. d \in Payloads /\ Len(d) = z - n /\ Carries(off, S, m, d, next + t + n)
  <2>1. SUFFICES ASSUME NEW from \in Nat, from = next + t
                 PROVE  /\ d \in Payloads /\ Len(d) = z - n
                        /\ Carries(off, S, m, d, from + n)
    OBVIOUS
  <2>2. Carries(off, S, m, q, from)
    BY <1>4, <2>1
  <2>3. /\ SubSeq(q, n + 1, Len(q)) \in Payloads
        /\ Len(SubSeq(q, n + 1, Len(q))) = Len(q) - n
        /\ Carries(off, S, m, SubSeq(q, n + 1, Len(q)), from + n)
    BY <1>1, <2>2, CarriesRest
  <2> QED
    BY <1>3, <2>3
<1>6. t + n = f /\ n <= z /\ w < FrameSize(m) /\ r \in 1..L
  BY <1>1, <1>3 DEF Flow
<1>7. r < L
  <2>1. SUFFICES ASSUME r = L PROVE FALSE
    BY <1>6
  <2>2. f = FrameSize(m) /\ next = last
    BY <1>3, <2>1, Msgs
  <2>3. w < f
    BY <1>6, <2>2
  <2> QED
    BY <1>4, <1>6, <2>2, <2>3
<1>8. r \in 1..Len(S) /\ r + 1 \in 1..L /\ x = S[r]
  <2>1. r \in 1..Len(S)
    BY <1>3, <1>6, <1>7
  <2>2. r + 1 \in 1..L
    BY <1>7
  <2> QED
    BY <1>3, <2>1, <2>2, Msgs
<1>9. off[r + 1] = next + f
  BY <1>3, <1>8 DEF Flow, Laid
<1>10. /\ R2 \in Seq(Payloads) /\ Len(R2) = r /\ R2[r] = x
       /\ \A i \in 1..Len(R) : R2[i] = R[i]
  BY <1>2, <1>3
<1>11. Len(R2) <= Len(S) /\ \A i \in 1..Len(R2) : R2[i] = S[i]
  <2>1. \A i \in 1..Len(R) : R[i] = S[i]
    BY DEF Flow
  <2>2. \A i \in 1..r : i \in 1..Len(R) \/ i = r
    BY <1>3
  <2>3. Len(R2) <= Len(S)
    BY <1>8, <1>10
  <2> QED
    BY <1>8, <1>10, <2>1, <2>2, <2>3
<1>12. 0 < FrameSize(Msg(S, m, r + 1))
  <2>1. /\ FrameSize(Msg(S, m, r + 1)) = Len(Msg(S, m, r + 1)) + 4
        /\ Len(Msg(S, m, r + 1)) \in Nat
    BY <1>3, <1>8, Msgs
  <2> QED
    BY <2>1
<1>13. next + t + n = next + f + 0 /\ next + f + 0 + (z - n) = last + w
  BY <1>4, <1>6
<1>14. Flow(off, S, m, R2, d, w, 0)
  <2>1. /\ off[Len(R2) + 1] + 0 + Len(d) = off[Len(S) + 1] + w
        /\ Carries(off, S, m, d, off[Len(R2) + 1] + 0)
        /\ 0 < FrameSize(Msg(S, m, Len(R2) + 1))
    BY <1>3, <1>5, <1>9, <1>10, <1>12, <1>13
  <2> QED
    BY <1>11, <2>1 DEF Flow
<1> QED
  BY <1>5, <1>10, <1>14

(* Nothing is under way: everything sent is received.                      *)
LEMMA FlowEmpty ==
    ASSUME NEW off, NEW S \in Seq(Payloads), NEW m \in Payloads,
           NEW R \in Seq(Payloads), Flow(off, S, m, R, <<>>, 0, 0)
    PROVE  R = S
<1>1. <<>> \in Payloads /\ Len(<<>>) = 0
  BY DEF Payloads
<1>2. /\ off[Len(R) + 1] \in Nat /\ off[Len(S) + 1] \in Nat
      /\ Len(R) + 1 \in 1..(Len(S) + 1)
  BY <1>1, FlowNumbers
<1>3. Len(R) \in Nat /\ Len(S) \in Nat
  OBVIOUS
<1>4. off[Len(R) + 1] + 0 + 0 = off[Len(S) + 1] + 0
  BY <1>1 DEF Flow
<1>5. Len(R) = Len(S)
  <2>1. SUFFICES ASSUME Len(R) # Len(S) PROVE FALSE
    OBVIOUS
  <2>2. Len(R) + 1 \in 1..Len(S)
    BY <1>2, <1>3, <2>1
  <2>3. /\ off[Len(R) + 1 + 1] = off[Len(R) + 1] + FrameSize(S[Len(R) + 1])
        /\ off[Len(R) + 1 + 1] <= off[Len(S) + 1]
    BY <2>2 DEF Flow, Laid
  <2>4. FrameSize(S[Len(R) + 1]) \in Nat /\ FrameSize(S[Len(R) + 1]) >= 4
    BY <2>2, Sizes
  <2> QED
    BY <1>2, <1>4, <2>3, <2>4
<1>6. \A i \in 1..Len(R) : R[i] = S[i]
  BY DEF Flow
<1> QED
  BY <1>3, <1>5, <1>6

(* The flow of a new connection.                                           *)
LEMMA FlowInit == Flow(<<0>>, <<>>, <<>>, <<>>, <<>>, 0, 0)
<1>1. <<>> \in Payloads /\ <<>> \in Seq(Payloads) /\ Len(<<>>) = 0
  BY DEF Payloads
<1>2. Msg(<<>>, <<>>, 1) = <<>> /\ FrameSize(<<>>) = 4
  BY <1>1 DEF Msg, FrameSize, kIpcFrameHeaderSize
<1>3. <<0>> \in Seq(Nat) /\ Len(<<0>>) = 1 /\ <<0>>[1] = 0
  OBVIOUS
<1>4. 1..Len(<<>>) = {}
  BY <1>1
<1>5. Laid(<<0>>, <<>>)
  BY <1>1, <1>3, <1>4 DEF Laid
<1>6. Carries(<<0>>, <<>>, <<>>, <<>>, 0)
  BY <1>4 DEF Carries
<1> QED
  BY <1>1, <1>2, <1>3, <1>4, <1>5, <1>6, IpcSocketAssumption DEF Flow

-----------------------------------------------------------------------------
(* Parts of a frame: what a call still has to send, or has received.       *)

(* A part is cut in two.                                                   *)
LEMMA PartCut ==
    ASSUME NEW m \in Payloads, NEW w \in Nat, NEW v \in Nat,
           NEW a, Part(a, m, w, v), NEW n \in Nat, n <= Len(a)
    PROVE  /\ Part(SubSeq(a, 1, n), m, w, w + n)
           /\ Part(SubSeq(a, n + 1, Len(a)), m, w + n, v)
           /\ Len(SubSeq(a, n + 1, Len(a))) = Len(a) - n
<1>1. a \in Payloads /\ Len(a) \in Nat /\ w + Len(a) = v
  BY DEF Part, Payloads
<1>2. PICK b : /\ b = SubSeq(a, 1, n) /\ b \in Payloads /\ Len(b) = n
               /\ \A j \in 1..n : b[j] = a[j]
  <2> SUFFICES ASSUME NEW b, b = SubSeq(a, 1, n)
               PROVE  b \in Payloads /\ Len(b) = n /\ \A j \in 1..n : b[j] = a[j]
    BY Zenon
  <2> QED
    BY <1>1, Cut
<1>3. PICK d : /\ d = SubSeq(a, n + 1, Len(a)) /\ d \in Payloads
               /\ Len(d) = Len(a) - n
               /\ \A j \in 1..(Len(a) - n) : d[j] = a[n + j]
  <2> SUFFICES ASSUME NEW d, d = SubSeq(a, n + 1, Len(a))
               PROVE  /\ d \in Payloads /\ Len(d) = Len(a) - n
                      /\ \A j \in 1..(Len(a) - n) : d[j] = a[n + j]
    BY Zenon
  <2> QED
    BY <1>1, Cut
<1>4. Part(b, m, w, w + n)
  BY <1>1, <1>2 DEF Part
<1>5. Part(d, m, w + n, v)
  <2>1. ASSUME NEW j \in 1..Len(d) PROVE d[j] = FrameByte(m, w + n + j)
    <3>1. n + j \in 1..Len(a) /\ w + (n + j) = w + n + j
      BY <1>1, <1>3
    <3>2. a[n + j] = FrameByte(m, w + (n + j))
      BY <3>1 DEF Part
    <3> QED
      BY <1>3, <3>1, <3>2
  <2>2. w + n + Len(d) = v
    <3>1. \A l \in Nat : w + l = v => w + n + (l - n) = v
      OBVIOUS
    <3> QED
      BY <1>1, <1>3, <3>1
  <2> QED
    BY <1>3, <2>1, <2>2 DEF Part
<1> QED
  BY <1>2, <1>3, <1>4, <1>5

(* Two parts are put together.                                             *)
LEMMA PartJoined ==
    ASSUME NEW m \in Payloads, NEW u \in Nat, NEW v \in Nat, NEW w \in Nat,
           NEW a, Part(a, m, u, v), NEW b, Part(b, m, v, w)
    PROVE  Part(a \o b, m, u, w)
<1>1. /\ a \in Payloads /\ Len(a) \in Nat /\ u + Len(a) = v
      /\ b \in Payloads /\ Len(b) \in Nat /\ v + Len(b) = w
  BY DEF Part, Payloads
<1>2. PICK d : /\ d = a \o b /\ d \in Payloads /\ Len(d) = Len(a) + Len(b)
               /\ \A j \in 1..Len(a) : d[j] = a[j]
               /\ \A j \in 1..Len(b) : d[Len(a) + j] = b[j]
  <2>1. a \o b \in Payloads /\ Len(a \o b) = Len(a) + Len(b)
    BY <1>1 DEF Payloads
  <2>2. /\ \A j \in 1..Len(a) : (a \o b)[j] = a[j]
        /\ \A j \in 1..Len(b) : (a \o b)[Len(a) + j] = b[j]
    BY <1>1 DEF Payloads
  <2> SUFFICES ASSUME NEW d, d = a \o b
               PROVE  /\ d \in Payloads /\ Len(d) = Len(a) + Len(b)
                      /\ \A j \in 1..Len(a) : d[j] = a[j]
                      /\ \A j \in 1..Len(b) : d[Len(a) + j] = b[j]
    BY Zenon
  <2> QED
    BY <2>1, <2>2
<1>3. ASSUME NEW j \in 1..Len(d) PROVE d[j] = FrameByte(m, u + j)
  <2>1. CASE j <= Len(a)
    <3>1. j \in 1..Len(a)
      BY <1>1, <2>1
    <3> QED
      BY <1>2, <3>1 DEF Part
  <2>2. CASE j > Len(a)
    <3>1. PICK x \in Nat : x = j - Len(a)
      BY <1>1, <2>2
    <3>2. x \in 1..Len(b) /\ j = Len(a) + x /\ v + x = u + j
      <4>1. \A l \in Nat, k \in Nat :
               /\ j \in 1..(l + k) /\ j > l /\ x = j - l /\ u + l = v
               => x \in 1..k /\ j = l + x /\ v + x = u + j
        OBVIOUS
      <4>2. j \in 1..(Len(a) + Len(b))
        BY <1>2
      <4> QED
        BY <1>1, <2>2, <3>1, <4>1, <4>2
    <3>3. d[j] = b[x] /\ b[x] = FrameByte(m, v + x)
      BY <1>2, <3>2 DEF Part
    <3> QED
      BY <3>2, <3>3
  <2> QED
    BY <1>1, <2>1, <2>2
<1>4. u + Len(d) = w
  BY <1>1, <1>2
<1> QED
  BY <1>2, <1>3, <1>4 DEF Part

(* The header is the first part of a frame, and the message the second.    *)
LEMMA PartsOfFrame ==
    ASSUME NEW m \in Payloads
    PROVE  /\ Part(EncodeHeader(Len(m)), m, 0, 4) /\ Part(<<>>, m, 0, 0)
           /\ Len(EncodeHeader(Len(m))) = 4
           /\ Part(m, m, 4, FrameSize(m)) /\ Part(<<>>, m, 4, 4)
<1>1. Len(m) \in Nat /\ FrameSize(m) = Len(m) + 4 /\ m \in Payloads
  BY Sizes
<1>2. <<>> \in Payloads /\ Len(<<>>) = 0 /\ 1..0 = {}
  BY DEF Payloads
<1>3. Part(<<>>, m, 0, 0) /\ Part(<<>>, m, 4, 4)
  BY <1>2 DEF Part
<1>4. Part(m, m, 4, FrameSize(m))
  <2>1. ASSUME NEW j \in 1..Len(m) PROVE m[j] = FrameByte(m, 4 + j)
    <3>1. ~(4 + j <= 4) /\ 4 + j - 4 = j
      BY <1>1
    <3> QED
      BY <3>1 DEF FrameByte, kIpcFrameHeaderSize
  <2>2. 4 + Len(m) = FrameSize(m)
    BY <1>1
  <2> QED
    BY <2>1, <2>2 DEF Part
<1>5. PICK h : /\ h = EncodeHeader(Len(m)) /\ h \in Payloads /\ Len(h) = 4
  <2>1. /\ Byte(Len(m), 1) \in Octets /\ Byte(Len(m), 256) \in Octets
        /\ Byte(Len(m), 65536) \in Octets /\ Byte(Len(m), 16777216) \in Octets
    <3>1. \A n \in Nat, u \in {1, 256, 65536, 16777216} : Byte(n, u) \in 0..255
      BY SMT DEF Byte
    <3> QED
      BY <1>1, <3>1, SMT DEF Octets
  <2>2. EncodeHeader(Len(m)) \in Seq(Octets) /\ Len(EncodeHeader(Len(m))) = 4
    BY <2>1, SMT DEF EncodeHeader
  <2> QED
    BY <2>2 DEF Payloads
<1>6. Part(h, m, 0, 4)
  <2>1. ASSUME NEW j \in 1..4 PROVE h[j] = FrameByte(m, 0 + j)
    BY <1>5 DEF FrameByte, kIpcFrameHeaderSize
  <2>2. 0 + Len(h) = 4
    BY <1>5
  <2> QED
    BY <1>5, <2>1, <2>2 DEF Part
<1> QED
  BY <1>3, <1>4, <1>5, <1>6

(* The message is all of the second part.                                  *)
LEMMA PartIsMessage ==
    ASSUME NEW m \in Payloads, NEW a, Part(a, m, 4, FrameSize(m))
    PROVE  a = m
<1>1. /\ Len(m) \in Nat /\ FrameSize(m) = Len(m) + 4
      /\ a \in Payloads /\ Len(a) \in Nat /\ 4 + Len(a) = FrameSize(m)
  BY Sizes DEF Part, Payloads
<1>2. Len(a) = Len(m)
  BY <1>1
<1>3. ASSUME NEW j \in 1..Len(m) PROVE a[j] = m[j]
  <2>1. ~(4 + j <= 4) /\ 4 + j - 4 = j
    BY <1>1
  <2>2. a[j] = FrameByte(m, 4 + j)
    BY <1>2 DEF Part
  <2> QED
    BY <2>1, <2>2 DEF FrameByte, kIpcFrameHeaderSize
<1> QED
  BY <1>1, <1>2, <1>3 DEF Payloads

(* The first part tells the length.                                        *)
LEMMA PartDecodes ==
    ASSUME NEW m \in Payloads, Len(m) <= kIpcMaxMessageSize,
           NEW h, Part(h, m, 0, 4)
    PROVE  DecodeHeader(h) = Len(m)
<1>1. 0 + Len(h) = 4 /\ Len(h) \in Nat
  BY DEF Part, Payloads
<1>2. Len(h) = 4
  BY <1>1
<1>3. ASSUME NEW k \in 1..4 PROVE h[k] = FrameByte(m, k)
  <2>1. h[k] = FrameByte(m, 0 + k)
    BY <1>2 DEF Part
  <2>2. 0 + k = k
    OBVIOUS
  <2> QED
    BY <2>1, <2>2
<1> QED
  BY <1>3, HeaderDecodes

(* What is next in the stream is a part of the frame in hand.              *)
LEMMA FlowPart ==
    ASSUME NEW off, NEW S \in Seq(Payloads), NEW m \in Payloads,
           NEW R \in Seq(Payloads), NEW q \in Payloads,
           NEW w \in Nat, NEW t \in Nat, Flow(off, S, m, R, q, w, t),
           NEW n \in Nat, n <= Len(q), NEW x, x = Msg(S, m, Len(R) + 1),
           t + n <= FrameSize(x)
    PROVE  Part(SubSeq(q, 1, n), x, t, t + n)
<1>1. /\ SubSeq(q, 1, n) \in Payloads /\ Len(SubSeq(q, 1, n)) = n
      /\ \A j \in 1..n : SubSeq(q, 1, n)[j] = q[j]
  BY Cut
<1>2. Len(q) \in Nat
  BY DEF Payloads
<1>3. FrameSize(x) \in Nat
  BY FlowNumbers, Msgs
<1>4. ASSUME NEW j \in 1..n PROVE q[j] = FrameByte(x, t + j)
  <2>1. j \in 1..Len(q) /\ t + j <= FrameSize(x)
    BY <1>2, <1>3
  <2> QED
    BY <2>1, FlowBytes
<1> QED
  BY <1>1, <1>4 DEF Part

-----------------------------------------------------------------------------
(* A stream in step with the calls at its two ends.                        *)

(* A call that sends m has written w bytes of its frame and holds the rest *)
(* of the header or of the body; an open end that sends nothing has        *)
(* written no part of a frame.                                             *)
Sender(c, o, m, w) ==
    \/ /\ c.op = "send_header" /\ c.body = m
       /\ Part(c.left, m, w, 4) /\ c.left # <<>>
    \/ /\ c.op = "send_body" /\ c.body = m
       /\ Part(c.left, m, w, FrameSize(m)) /\ c.left # <<>>
    \/ c.op \notin {"send_header", "send_body"} /\ (o => w = 0)

(* A call that receives x has taken t bytes of its frame and holds those   *)
(* of the header, or of the body, and wants the rest.                      *)
Receiver(d, x, t) ==
    \/ /\ d.op = "recv_header" /\ Part(d.left, x, 0, t)
       /\ d.want \in Nat \ {0} /\ t + d.want = 4
    \/ /\ d.op = "recv_body" /\ Part(d.left, x, 4, t)
       /\ d.want \in Nat \ {0} /\ t + d.want = FrameSize(x)
    \/ d.op \notin {"recv_header", "recv_body"} /\ t = 0

Synced(off, m, w, t, S, R, q, c, o, d) ==
    /\ m \in Payloads /\ w \in Nat /\ t \in Nat
    /\ Flow(off, S, m, R, q, w, t)
    /\ Sender(c, o, m, w)
    /\ Receiver(d, Msg(S, m, Len(R) + 1), t)

(* S sent, R received, q under way, c and d the calls of the two ends, and *)
(* o whether the writing end is open.                                      *)
InSync(S, R, q, c, o, d) ==
    /\ S \in Seq(Payloads) /\ R \in Seq(Payloads) /\ q \in Payloads
    /\ \E off, m, w, t : Synced(off, m, w, t, S, R, q, c, o, d)

(* A new connection.                                                       *)
LEMMA SyncInit ==
    ASSUME NEW o, NEW c, c.op = "idle", NEW d, d.op = "idle"
    PROVE  InSync(<<>>, <<>>, <<>>, c, o, d)
<1>1. <<>> \in Payloads /\ <<>> \in Seq(Payloads) /\ 0 \in Nat
  BY DEF Payloads
<1>2. Sender(c, o, <<>>, 0)
  BY DEF Sender
<1>3. Receiver(d, Msg(<<>>, <<>>, Len(<<>>) + 1), 0)
  BY DEF Receiver
<1>4. Synced(<<0>>, <<>>, 0, 0, <<>>, <<>>, <<>>, c, o, d)
  BY <1>1, <1>2, <1>3, FlowInit DEF Synced
<1> QED
  BY <1>1, <1>4, Zenon DEF InSync

(* What an end does that sends nothing, before and after, is nothing to    *)
(* the stream it writes to, nor is the closing of that end.                *)
LEMMA SyncSenderIdle ==
    ASSUME NEW S, NEW R, NEW q, NEW c, NEW o, NEW d, InSync(S, R, q, c, o, d),
           NEW b, b.op \notin {"send_header", "send_body"}, NEW p,
           \/ p => o /\ c.op \notin {"send_header", "send_body"}
           \/ o /\ c.op = "send_header" /\ Len(c.left) = 4
    PROVE  InSync(S, R, q, b, p, d)
<1>1. PICK off, m, w, t : Synced(off, m, w, t, S, R, q, c, o, d)
  BY Zenon DEF InSync
<1>2. m \in Payloads /\ w \in Nat
  BY <1>1 DEF Synced
<1>3. p => w = 0
  <2>1. CASE p /\ o /\ c.op \notin {"send_header", "send_body"}
    BY <1>1, <2>1 DEF Synced, Sender
  <2>2. CASE c.op = "send_header" /\ Len(c.left) = 4
    <3>1. Part(c.left, m, w, 4)
      BY <1>1, <2>2 DEF Synced, Sender
    <3>2. w + Len(c.left) = 4
      BY <3>1 DEF Part
    <3> QED
      BY <1>2, <2>2, <3>2
  <2> QED
    BY <2>1, <2>2
<1>4. Sender(b, p, m, w)
  BY <1>3 DEF Sender
<1>5. Synced(off, m, w, t, S, R, q, b, p, d)
  BY <1>1, <1>4 DEF Synced
<1> QED
  BY <1>5, Zenon DEF InSync

(* The same of the end that reads.                                         *)
LEMMA SyncReceiverIdle ==
    ASSUME NEW S, NEW R, NEW q, NEW c, NEW o, NEW d, InSync(S, R, q, c, o, d),
           NEW b, b.op \notin {"recv_header", "recv_body"},
           \/ d.op \notin {"recv_header", "recv_body"}
           \/ d.op = "recv_header" /\ d.left = <<>>
    PROVE  InSync(S, R, q, c, o, b)
<1>1. PICK off, m, w, t : Synced(off, m, w, t, S, R, q, c, o, d)
  BY Zenon DEF InSync
<1>2. t \in Nat
  BY <1>1 DEF Synced
<1>3. t = 0
  <2>1. CASE d.op \notin {"recv_header", "recv_body"}
    BY <1>1, <2>1 DEF Synced, Receiver
  <2>2. CASE d.op = "recv_header" /\ d.left = <<>>
    <3>1. Part(d.left, Msg(S, m, Len(R) + 1), 0, t)
      BY <1>1, <2>2 DEF Synced, Receiver
    <3>2. 0 + Len(d.left) = t /\ Len(d.left) = 0
      BY <2>2, <3>1 DEF Part
    <3> QED
      BY <1>2, <3>2
  <2> QED
    BY <2>1, <2>2
<1>4. Receiver(b, Msg(S, m, Len(R) + 1), t)
  BY <1>3 DEF Receiver
<1>5. Synced(off, m, w, t, S, R, q, c, o, b)
  BY <1>1, <1>4 DEF Synced
<1> QED
  BY <1>5, Zenon DEF InSync

(* A Send begins.                                                          *)
LEMMA SyncSend ==
    ASSUME NEW S, NEW R, NEW q, NEW c, NEW o, NEW d, InSync(S, R, q, c, o, d),
           o, c.op \notin {"send_header", "send_body"},
           NEW x \in Payloads, Len(x) <= kIpcMaxMessageSize,
           NEW b, b.op = "send_header", b.body = x,
           b.left = EncodeHeader(Len(x))
    PROVE  InSync(S, R, q, b, o, d)
<1>1. PICK off, m, w, t : Synced(off, m, w, t, S, R, q, c, o, d)
  BY Zenon DEF InSync
<1>2. /\ m \in Payloads /\ w = 0 /\ t \in Nat /\ Flow(off, S, m, R, q, 0, t)
      /\ Receiver(d, Msg(S, m, Len(R) + 1), t)
  BY <1>1 DEF Synced, Sender
<1>3. S \in Seq(Payloads) /\ R \in Seq(Payloads) /\ q \in Payloads
  BY Zenon DEF InSync
<1>4. /\ Flow(off, S, x, R, q, 0, t)
      /\ t # 0 => Msg(S, x, Len(R) + 1) = Msg(S, m, Len(R) + 1)
  BY <1>2, <1>3, FlowBegins
<1>5. Part(b.left, x, 0, 4) /\ b.left # <<>>
  <2>1. Part(EncodeHeader(Len(x)), x, 0, 4) /\ Len(EncodeHeader(Len(x))) = 4
    BY PartsOfFrame
  <2> QED
    BY <2>1
<1>6. Sender(b, o, x, 0)
  BY <1>5 DEF Sender
<1>7. Receiver(d, Msg(S, x, Len(R) + 1), t)
  <2>1. CASE t # 0
    BY <1>2, <1>4, <2>1
  <2>2. CASE t = 0
    <3>1. CASE d.op \notin {"recv_header", "recv_body"}
      BY <2>2, <3>1 DEF Receiver
    <3>2. CASE d.op = "recv_header"
      <4>1. /\ Part(d.left, Msg(S, m, Len(R) + 1), 0, 0)
            /\ d.want \in Nat \ {0} /\ t + d.want = 4
        BY <1>2, <2>2, <3>2 DEF Receiver
      <4>2. Part(d.left, Msg(S, x, Len(R) + 1), 0, 0)
        <5>1. d.left \in Payloads /\ 0 + Len(d.left) = 0 /\ Len(d.left) \in Nat
          BY <4>1 DEF Part, Payloads
        <5>2. 1..Len(d.left) = {}
          BY <5>1
        <5> QED
          BY <5>1, <5>2 DEF Part
      <4> QED
        BY <2>2, <3>2, <4>1, <4>2 DEF Receiver
    <3>3. CASE d.op = "recv_body"
      <4>1. Part(d.left, Msg(S, m, Len(R) + 1), 4, 0)
        BY <1>2, <2>2, <3>3 DEF Receiver
      <4>2. Len(d.left) \in Nat /\ 4 + Len(d.left) = 0
        BY <4>1 DEF Part, Payloads
      <4> QED
        BY <4>2
    <3> QED
      BY <3>1, <3>2, <3>3
  <2> QED
    BY <2>1, <2>2
<1>8. Synced(off, x, 0, t, S, R, q, b, o, d)
  BY <1>2, <1>4, <1>6, <1>7 DEF Synced
<1> QED
  BY <1>3, <1>8, Zenon DEF InSync

(* A Recv begins.                                                          *)
LEMMA SyncRecv ==
    ASSUME NEW S, NEW R, NEW q, NEW c, NEW o, NEW d, InSync(S, R, q, c, o, d),
           d.op \notin {"recv_header", "recv_body"},
           NEW b, b.op = "recv_header", b.left = <<>>, b.want = 4
    PROVE  InSync(S, R, q, c, o, b)
<1>1. PICK off, m, w, t : Synced(off, m, w, t, S, R, q, c, o, d)
  BY Zenon DEF InSync
<1>2. t = 0 /\ m \in Payloads /\ w \in Nat /\ Flow(off, S, m, R, q, w, t)
  BY <1>1 DEF Synced, Receiver
<1>3. S \in Seq(Payloads) /\ R \in Seq(Payloads) /\ q \in Payloads
  BY Zenon DEF InSync
<1>4. Msg(S, m, Len(R) + 1) \in Payloads
  <2>1. t \in Nat
    BY <1>2
  <2> QED
    BY <1>2, <1>3, <2>1, FlowNumbers, Msgs
<1>5. Part(b.left, Msg(S, m, Len(R) + 1), 0, 0)
  BY <1>4, PartsOfFrame
<1>6. Receiver(b, Msg(S, m, Len(R) + 1), t)
  BY <1>2, <1>5 DEF Receiver
<1>7. Synced(off, m, w, t, S, R, q, c, o, b)
  BY <1>1, <1>6 DEF Synced
<1> QED
  BY <1>7, Zenon DEF InSync

(* What a call that sends still holds is a part of a frame.                *)
LEMMA SenderHolds ==
    ASSUME NEW m \in Payloads, NEW w \in Nat, NEW c, NEW o, Sender(c, o, m, w),
           c.op \in {"send_header", "send_body"}
    PROVE  /\ c.body = m /\ c.left \in Payloads
           /\ Len(c.left) \in Nat \ {0}
           /\ c.op = "send_header" => Part(c.left, m, w, 4)
           /\ c.op = "send_body" => Part(c.left, m, w, FrameSize(m))
<1>1. /\ c.body = m /\ c.left \in Payloads /\ c.left # <<>>
      /\ c.op = "send_header" => Part(c.left, m, w, 4)
      /\ c.op = "send_body" => Part(c.left, m, w, FrameSize(m))
  BY DEF Sender, Part
<1>2. Len(c.left) \in Nat \ {0}
  BY <1>1 DEF Payloads
<1> QED
  BY <1>1, <1>2

(* A ::send takes a part of the header or of the body.                     *)
LEMMA SyncWritesPart ==
    ASSUME NEW S, NEW R, NEW q, NEW c, NEW o, NEW d, InSync(S, R, q, c, o, d),
           c.op \in {"send_header", "send_body"},
           NEW n \in Nat, n < Len(c.left),
           NEW b, b.op = c.op, b.body = c.body,
           b.left = SubSeq(c.left, n + 1, Len(c.left))
    PROVE  InSync(S, R, q \o SubSeq(c.left, 1, n), b, o, d)
<1>1. PICK off, m, w, t : Synced(off, m, w, t, S, R, q, c, o, d)
  BY Zenon DEF InSync
<1>2. /\ m \in Payloads /\ w \in Nat /\ t \in Nat /\ Flow(off, S, m, R, q, w, t)
      /\ Receiver(d, Msg(S, m, Len(R) + 1), t) /\ Sender(c, o, m, w)
  BY <1>1 DEF Synced
<1>3. S \in Seq(Payloads) /\ R \in Seq(Payloads) /\ q \in Payloads
  BY Zenon DEF InSync
<1>4. /\ c.body = m /\ c.left \in Payloads /\ Len(c.left) \in Nat \ {0}
      /\ c.op = "send_header" => Part(c.left, m, w, 4)
      /\ c.op = "send_body" => Part(c.left, m, w, FrameSize(m))
  BY <1>2, SenderHolds
<1>5. PICK v \in Nat : /\ Part(c.left, m, w, v) /\ v <= FrameSize(m)
                       /\ c.op = "send_header" => v = 4
                       /\ c.op = "send_body" => v = FrameSize(m)
  <2>1. FrameSize(m) \in Nat /\ 4 <= FrameSize(m) /\ FrameSize(m) <= FrameSize(m)
    BY <1>2, Sizes
  <2>2. CASE c.op = "send_header"
    BY <1>4, <2>1, <2>2
  <2>3. CASE c.op = "send_body"
    BY <1>4, <2>1, <2>3
  <2> QED
    BY <2>2, <2>3
<1>6. /\ Part(SubSeq(c.left, 1, n), m, w, w + n)
      /\ Part(b.left, m, w + n, v)
      /\ Len(b.left) = Len(c.left) - n
  <2>1. n <= Len(c.left)
    BY <1>4
  <2>2. /\ Part(SubSeq(c.left, 1, n), m, w, w + n)
        /\ Part(SubSeq(c.left, n + 1, Len(c.left)), m, w + n, v)
        /\ Len(SubSeq(c.left, n + 1, Len(c.left))) = Len(c.left) - n
    BY <1>2, <1>5, <2>1, PartCut
  <2> QED
    BY <2>2
<1>7. w + n < FrameSize(m) /\ w + n \in Nat /\ b.left # <<>>
  <2>1. w + Len(c.left) = v
    BY <1>5 DEF Part
  <2>2. FrameSize(m) \in Nat
    BY <1>2, Sizes
  <2>3. \A l \in Nat, f \in Nat : n < l /\ w + l = v /\ v <= f
           => w + n < f /\ l - n # 0
    BY <1>2, <1>5
  <2>4. w + n < FrameSize(m) /\ Len(b.left) # 0
    BY <1>4, <1>5, <1>6, <2>1, <2>2, <2>3
  <2>5. Len(<<>>) = 0
    OBVIOUS
  <2>6. b.left # <<>>
    BY <2>4, <2>5, Zenon
  <2> QED
    BY <1>2, <2>4, <2>6
<1>8. /\ q \o SubSeq(c.left, 1, n) \in Payloads
      /\ Flow(off, S, m, R, q \o SubSeq(c.left, 1, n), w + n, t)
  BY <1>2, <1>3, <1>6, <1>7, FlowWrites
<1>9. Sender(b, o, m, w + n)
  <2>1. CASE c.op = "send_header"
    BY <1>4, <1>5, <1>6, <1>7, <2>1 DEF Sender
  <2>2. CASE c.op = "send_body"
    BY <1>4, <1>5, <1>6, <1>7, <2>2 DEF Sender
  <2> QED
    BY <2>1, <2>2
<1>10. Synced(off, m, w + n, t, S, R, q \o SubSeq(c.left, 1, n), b, o, d)
  BY <1>2, <1>7, <1>8, <1>9 DEF Synced
<1> QED
  BY <1>3, <1>8, <1>10, Zenon DEF InSync

(* All of a sequence.                                                      *)
LEMMA WholeCut ==
    ASSUME NEW a \in Payloads
    PROVE  SubSeq(a, 1, Len(a)) = a
  BY DEF Payloads

(* A ::send takes the last of a header that a body follows.                *)
LEMMA SyncWritesHeader ==
    ASSUME NEW S, NEW R, NEW q, NEW c, NEW o, NEW d, InSync(S, R, q, c, o, d),
           c.op = "send_header", c.body # <<>>,
           NEW b, b.op = "send_body", b.body = c.body, b.left = c.body
    PROVE  InSync(S, R, q \o SubSeq(c.left, 1, Len(c.left)), b, o, d)
<1>1. PICK off, m, w, t : Synced(off, m, w, t, S, R, q, c, o, d)
  BY Zenon DEF InSync
<1>2. /\ m \in Payloads /\ w \in Nat /\ t \in Nat /\ Flow(off, S, m, R, q, w, t)
      /\ Receiver(d, Msg(S, m, Len(R) + 1), t) /\ Sender(c, o, m, w)
  BY <1>1 DEF Synced
<1>3. S \in Seq(Payloads) /\ R \in Seq(Payloads) /\ q \in Payloads
  BY Zenon DEF InSync
<1>4. c.body = m /\ c.left \in Payloads /\ Part(c.left, m, w, 4)
  BY <1>2, SenderHolds
<1>5. 4 < FrameSize(m) /\ m # <<>>
  <2>1. Len(m) # 0 /\ Len(m) \in Nat
    BY <1>2, <1>4 DEF Payloads
  <2>2. FrameSize(m) = Len(m) + 4
    BY <1>2, Sizes
  <2> QED
    BY <1>4, <2>1, <2>2
<1>6. q \o c.left \in Payloads /\ Flow(off, S, m, R, q \o c.left, 4, t)
  BY <1>2, <1>3, <1>4, <1>5, FlowWrites
<1>7. Part(m, m, 4, FrameSize(m))
  BY <1>2, PartsOfFrame
<1>8. Sender(b, o, m, 4)
  BY <1>4, <1>5, <1>7 DEF Sender
<1>9. Synced(off, m, 4, t, S, R, q \o c.left, b, o, d)
  BY <1>2, <1>6, <1>8 DEF Synced
<1>10. InSync(S, R, q \o c.left, b, o, d)
  BY <1>3, <1>6, <1>9, Zenon DEF InSync
<1> QED
  BY <1>4, <1>10, WholeCut

(* A ::send takes the last of a frame.                                     *)
LEMMA SyncWritesFrame ==
    ASSUME NEW S, NEW R, NEW q, NEW c, NEW o, NEW d, InSync(S, R, q, c, o, d),
           c.op \in {"send_header", "send_body"},
           c.op = "send_body" \/ c.body = <<>>,
           NEW b, b.op \notin {"send_header", "send_body"}
    PROVE  InSync(Append(S, c.body), R, q \o SubSeq(c.left, 1, Len(c.left)),
                  b, o, d)
<1>1. PICK off, m, w, t : Synced(off, m, w, t, S, R, q, c, o, d)
  BY Zenon DEF InSync
<1>2. /\ m \in Payloads /\ w \in Nat /\ t \in Nat /\ Flow(off, S, m, R, q, w, t)
      /\ Receiver(d, Msg(S, m, Len(R) + 1), t) /\ Sender(c, o, m, w)
  BY <1>1 DEF Synced
<1>3. S \in Seq(Payloads) /\ R \in Seq(Payloads) /\ q \in Payloads
  BY Zenon DEF InSync
<1>4. /\ c.body = m /\ c.left \in Payloads
      /\ c.op = "send_header" => Part(c.left, m, w, 4)
      /\ c.op = "send_body" => Part(c.left, m, w, FrameSize(m))
  BY <1>2, SenderHolds
<1>5. Part(c.left, m, w, FrameSize(m))
  <2>1. CASE c.op = "send_body"
    BY <1>4, <2>1
  <2>2. CASE c.op = "send_header" /\ c.body = <<>>
    <3>1. FrameSize(m) = 4
      BY <1>4, <2>2 DEF FrameSize, kIpcFrameHeaderSize
    <3> QED
      BY <1>4, <2>2, <3>1
  <2> QED
    BY <2>1, <2>2
<1>6. PICK off2 :
        /\ q \o c.left \in Payloads /\ Append(S, m) \in Seq(Payloads)
        /\ Msg(Append(S, m), <<>>, Len(R) + 1) = Msg(S, m, Len(R) + 1)
        /\ Flow(off2, Append(S, m), <<>>, R, q \o c.left, 0, t)
  BY <1>2, <1>3, <1>5, FlowSends
<1>7. Sender(b, o, <<>>, 0)
  BY DEF Sender
<1>8. <<>> \in Payloads /\ 0 \in Nat
  BY DEF Payloads
<1>9. Synced(off2, <<>>, 0, t, Append(S, m), R, q \o c.left, b, o, d)
  BY <1>2, <1>6, <1>7, <1>8 DEF Synced
<1>10. InSync(Append(S, m), R, q \o c.left, b, o, d)
  BY <1>3, <1>6, <1>9, Zenon DEF InSync
<1> QED
  BY <1>4, <1>10, WholeCut

(* What a call that receives has of the frame in hand, and what it wants.  *)
LEMMA ReceiverHolds ==
    ASSUME NEW x \in Payloads, NEW t \in Nat, NEW d, Receiver(d, x, t),
           d.op \in {"recv_header", "recv_body"}
    PROVE  /\ d.want \in Nat \ {0} /\ t + d.want <= FrameSize(x)
           /\ d.op = "recv_header" => Part(d.left, x, 0, t) /\ t + d.want = 4
           /\ d.op = "recv_body" => /\ Part(d.left, x, 4, t)
                                    /\ t + d.want = FrameSize(x)
<1>1. /\ d.want \in Nat \ {0}
      /\ d.op = "recv_header" => Part(d.left, x, 0, t) /\ t + d.want = 4
      /\ d.op = "recv_body" => /\ Part(d.left, x, 4, t)
                               /\ t + d.want = FrameSize(x)
  BY DEF Receiver
<1>2. FrameSize(x) \in Nat /\ 4 <= FrameSize(x) /\ FrameSize(x) <= FrameSize(x)
  BY Sizes
<1>3. t + d.want <= FrameSize(x)
  BY <1>1, <1>2
<1> QED
  BY <1>1, <1>3

(* The frame in hand is one that Send accepts.                             *)
LEMMA FlowBounded ==
    ASSUME NEW off, NEW S \in Seq(Payloads), NEW m \in Payloads,
           NEW R \in Seq(Payloads), NEW q \in Payloads,
           NEW w \in Nat, NEW t \in Nat, Flow(off, S, m, R, q, w, t)
    PROVE  /\ Msg(S, m, Len(R) + 1) \in Payloads
           /\ Len(Msg(S, m, Len(R) + 1)) <= kIpcMaxMessageSize
<1>1. Len(R) + 1 \in 1..(Len(S) + 1)
  BY FlowNumbers
<1>2. Msg(S, m, Len(R) + 1) \in Payloads
  BY <1>1, Msgs
<1>3. CASE Len(R) + 1 = Len(S) + 1
  <2>1. Msg(S, m, Len(R) + 1) = m
    BY <1>3, Msgs
  <2> QED
    BY <1>2, <2>1 DEF Flow
<1>4. CASE Len(R) + 1 \in 1..Len(S)
  <2>1. Msg(S, m, Len(R) + 1) = S[Len(R) + 1]
    BY <1>4, Msgs
  <2> QED
    BY <1>2, <1>4, <2>1 DEF Flow, Laid
<1> QED
  BY <1>1, <1>3, <1>4

(* A ::recv takes a part of what is wanted.                                *)
LEMMA SyncReadsPart ==
    ASSUME NEW S, NEW R, NEW q, NEW c, NEW o, NEW d, InSync(S, R, q, c, o, d),
           d.op \in {"recv_header", "recv_body"},
           NEW n \in Nat, n <= Len(q), n < d.want,
           NEW b, b.op = d.op, b.left = d.left \o SubSeq(q, 1, n),
           b.want = d.want - n
    PROVE  InSync(S, R, SubSeq(q, n + 1, Len(q)), c, o, b)
<1>1. PICK off, m, w, t : Synced(off, m, w, t, S, R, q, c, o, d)
  BY Zenon DEF InSync
<1>2. PICK x : x = Msg(S, m, Len(R) + 1)
  OBVIOUS
<1>3. /\ m \in Payloads /\ w \in Nat /\ t \in Nat /\ Flow(off, S, m, R, q, w, t)
      /\ Receiver(d, x, t) /\ Sender(c, o, m, w)
  BY <1>1, <1>2 DEF Synced
<1>4. S \in Seq(Payloads) /\ R \in Seq(Payloads) /\ q \in Payloads
  BY Zenon DEF InSync
<1>5. x \in Payloads
  BY <1>2, <1>3, <1>4, FlowBounded
<1>6. /\ d.want \in Nat \ {0} /\ t + d.want <= FrameSize(x)
      /\ d.op = "recv_header" => Part(d.left, x, 0, t) /\ t + d.want = 4
      /\ d.op = "recv_body" => /\ Part(d.left, x, 4, t)
                               /\ t + d.want = FrameSize(x)
  BY <1>3, <1>5, ReceiverHolds
<1>7. /\ t + n \in Nat /\ t + n < FrameSize(x) /\ t + n <= FrameSize(x)
      /\ b.want \in Nat \ {0} /\ t + n + b.want = t + d.want
  <2>1. FrameSize(x) \in Nat
    BY <1>5, Sizes
  <2> QED
    BY <1>3, <1>6, <2>1
<1>8. /\ SubSeq(q, n + 1, Len(q)) \in Payloads
      /\ Flow(off, S, m, R, SubSeq(q, n + 1, Len(q)), w, t + n)
  BY <1>2, <1>3, <1>4, <1>7, FlowReads
<1>9. Part(SubSeq(q, 1, n), x, t, t + n)
  BY <1>2, <1>3, <1>4, <1>7, FlowPart
<1>10. Receiver(b, x, t + n)
  <2>1. CASE d.op = "recv_header"
    <3>1. Part(b.left, x, 0, t + n)
      BY <1>3, <1>5, <1>6, <1>7, <1>9, <2>1, PartJoined
    <3>2. t + n + b.want = 4
      BY <1>6, <1>7, <2>1
    <3> QED
      BY <1>7, <2>1, <3>1, <3>2 DEF Receiver
  <2>2. CASE d.op = "recv_body"
    <3>1. Part(b.left, x, 4, t + n)
      BY <1>3, <1>5, <1>6, <1>7, <1>9, <2>2, PartJoined
    <3>2. t + n + b.want = FrameSize(x)
      BY <1>6, <1>7, <2>2
    <3> QED
      BY <1>7, <2>2, <3>1, <3>2 DEF Receiver
  <2> QED
    BY <2>1, <2>2
<1>11. Synced(off, m, w, t + n, S, R, SubSeq(q, n + 1, Len(q)), c, o, b)
  BY <1>2, <1>3, <1>7, <1>8, <1>10 DEF Synced
<1> QED
  BY <1>4, <1>8, <1>11, Zenon DEF InSync

(* A ::recv takes the last of a header: it tells the length of a message   *)
(* that Send accepted, and with no body that message is received.          *)
LEMMA SyncReadsHeader ==
    ASSUME NEW S, NEW R, NEW q, NEW c, NEW o, NEW d, InSync(S, R, q, c, o, d),
           d.op = "recv_header", d.want <= Len(q),
           NEW got, got = d.left \o SubSeq(q, 1, d.want),
           NEW len, len = DecodeHeader(got)
    PROVE  /\ len \in Nat /\ len <= kIpcMaxMessageSize
           /\ \A b : /\ len # 0 /\ b.op = "recv_body"
                     /\ b.left = <<>> /\ b.want = len
                     => InSync(S, R, SubSeq(q, d.want + 1, Len(q)), c, o, b)
           /\ \A b : /\ len = 0 /\ b.op \notin {"recv_header", "recv_body"}
                     => InSync(S, Append(R, <<>>),
                               SubSeq(q, d.want + 1, Len(q)), c, o, b)
<1>1. PICK off, m, w, t : Synced(off, m, w, t, S, R, q, c, o, d)
  BY Zenon DEF InSync
<1>2. PICK x : x = Msg(S, m, Len(R) + 1)
  OBVIOUS
<1>3. /\ m \in Payloads /\ w \in Nat /\ t \in Nat /\ Flow(off, S, m, R, q, w, t)
      /\ Receiver(d, x, t) /\ Sender(c, o, m, w)
  BY <1>1, <1>2 DEF Synced
<1>4. S \in Seq(Payloads) /\ R \in Seq(Payloads) /\ q \in Payloads
  BY Zenon DEF InSync
<1>5. x \in Payloads /\ Len(x) <= kIpcMaxMessageSize
  BY <1>2, <1>3, <1>4, FlowBounded
<1>6. PICK n \in Nat : /\ n = d.want /\ t + n <= FrameSize(x) /\ t + n = 4
                       /\ Part(d.left, x, 0, t) /\ n <= Len(q)
  BY <1>3, <1>5, ReceiverHolds
<1>7. Part(SubSeq(q, 1, n), x, t, t + n)
  BY <1>2, <1>3, <1>4, <1>6, FlowPart
<1>8. Part(got, x, 0, 4)
  BY <1>3, <1>5, <1>6, <1>7, PartJoined
<1>9. len = Len(x)
  BY <1>5, <1>8, PartDecodes
<1>10. len \in Nat /\ FrameSize(x) = len + 4
  BY <1>5, <1>9, Sizes
<1>11. ASSUME NEW b, len # 0, b.op = "recv_body", b.left = <<>>, b.want = len
       PROVE  InSync(S, R, SubSeq(q, n + 1, Len(q)), c, o, b)
  <2>1. t + n < FrameSize(x) /\ 4 + b.want = FrameSize(x)
    BY <1>6, <1>10, <1>11
  <2>2. /\ SubSeq(q, n + 1, Len(q)) \in Payloads
        /\ Flow(off, S, m, R, SubSeq(q, n + 1, Len(q)), w, t + n)
    BY <1>2, <1>3, <1>4, <1>6, <2>1, FlowReads
  <2>3. Part(b.left, x, 4, 4)
    BY <1>5, <1>11, PartsOfFrame
  <2>4. Receiver(b, x, 4)
    BY <1>10, <1>11, <2>1, <2>3 DEF Receiver
  <2>5. Synced(off, m, w, 4, S, R, SubSeq(q, n + 1, Len(q)), c, o, b)
    BY <1>2, <1>3, <1>6, <2>2, <2>4 DEF Synced
  <2> QED
    BY <1>4, <2>2, <2>5, Zenon DEF InSync
<1>12. ASSUME NEW b, len = 0, b.op \notin {"recv_header", "recv_body"}
       PROVE  InSync(S, Append(R, <<>>), SubSeq(q, n + 1, Len(q)), c, o, b)
  <2>1. x = <<>> /\ t + n = FrameSize(x)
    <3>1. Len(x) = 0
      BY <1>9, <1>12
    <3>2. x = <<>>
      BY <1>5, <3>1 DEF Payloads
    <3> QED
      BY <1>6, <1>10, <1>12, <3>2
  <2>2. /\ SubSeq(q, n + 1, Len(q)) \in Payloads /\ Append(R, x) \in Seq(Payloads)
        /\ Flow(off, S, m, Append(R, x), SubSeq(q, n + 1, Len(q)), w, 0)
    BY <1>2, <1>3, <1>4, <1>6, <2>1, FlowReceives
  <2>3. Receiver(b, Msg(S, m, Len(Append(R, x)) + 1), 0)
    BY <1>12 DEF Receiver
  <2>4. Synced(off, m, w, 0, S, Append(R, x), SubSeq(q, n + 1, Len(q)), c, o, b)
    BY <1>3, <2>2, <2>3 DEF Synced
  <2>5. InSync(S, Append(R, x), SubSeq(q, n + 1, Len(q)), c, o, b)
    BY <1>4, <2>2, <2>4, Zenon DEF InSync
  <2> QED
    BY <2>1, <2>5
<1>13. len <= kIpcMaxMessageSize
  BY <1>5, <1>9
<1> QED
  BY <1>6, <1>10, <1>11, <1>12, <1>13

(* A ::recv takes the last of a body: it is a message that was sent.       *)
LEMMA SyncReadsBody ==
    ASSUME NEW S, NEW R, NEW q, NEW c, NEW o, NEW d, InSync(S, R, q, c, o, d),
           d.op = "recv_body", d.want <= Len(q),
           NEW got, got = d.left \o SubSeq(q, 1, d.want),
           NEW b, b.op \notin {"recv_header", "recv_body"}
    PROVE  InSync(S, Append(R, got), SubSeq(q, d.want + 1, Len(q)), c, o, b)
<1>1. PICK off, m, w, t : Synced(off, m, w, t, S, R, q, c, o, d)
  BY Zenon DEF InSync
<1>2. PICK x : x = Msg(S, m, Len(R) + 1)
  OBVIOUS
<1>3. /\ m \in Payloads /\ w \in Nat /\ t \in Nat /\ Flow(off, S, m, R, q, w, t)
      /\ Receiver(d, x, t) /\ Sender(c, o, m, w)
  BY <1>1, <1>2 DEF Synced
<1>4. S \in Seq(Payloads) /\ R \in Seq(Payloads) /\ q \in Payloads
  BY Zenon DEF InSync
<1>5. x \in Payloads
  BY <1>2, <1>3, <1>4, FlowBounded
<1>6. PICK n \in Nat : /\ n = d.want /\ t + n <= FrameSize(x)
                       /\ t + n = FrameSize(x)
                       /\ Part(d.left, x, 4, t) /\ n <= Len(q)
  BY <1>3, <1>5, ReceiverHolds
<1>7. Part(SubSeq(q, 1, n), x, t, t + n)
  BY <1>2, <1>3, <1>4, <1>6, FlowPart
<1>8. Part(got, x, 4, t + n)
  <2>1. t + n \in Nat /\ 4 \in Nat
    BY <1>3
  <2> QED
    BY <1>3, <1>5, <1>6, <1>7, <2>1, PartJoined
<1>9. got = x
  BY <1>5, <1>6, <1>8, PartIsMessage
<1>10. /\ SubSeq(q, n + 1, Len(q)) \in Payloads /\ Append(R, x) \in Seq(Payloads)
       /\ Flow(off, S, m, Append(R, x), SubSeq(q, n + 1, Len(q)), w, 0)
  BY <1>2, <1>3, <1>4, <1>6, FlowReceives
<1>11. Receiver(b, Msg(S, m, Len(Append(R, x)) + 1), 0)
  BY DEF Receiver
<1>12. Synced(off, m, w, 0, S, Append(R, x), SubSeq(q, n + 1, Len(q)), c, o, b)
  BY <1>3, <1>10, <1>11 DEF Synced
<1>13. InSync(S, Append(R, x), SubSeq(q, n + 1, Len(q)), c, o, b)
  BY <1>4, <1>10, <1>12, Zenon DEF InSync
<1> QED
  BY <1>6, <1>9, <1>13

(* What was received is a prefix of what was sent.                         *)
LEMMA SyncPrefix ==
    ASSUME NEW S, NEW R, NEW q, NEW c, NEW o, NEW d, InSync(S, R, q, c, o, d)
    PROVE  IsPrefix(R, S)
<1>1. PICK off, m, w, t : Synced(off, m, w, t, S, R, q, c, o, d)
  BY Zenon DEF InSync
<1>2. S \in Seq(Payloads) /\ R \in Seq(Payloads)
  BY Zenon DEF InSync
<1>3. Len(R) <= Len(S) /\ \A i \in 1..Len(R) : R[i] = S[i]
  BY <1>1 DEF Synced, Flow
<1>4. Len(R) \in Nat /\ Len(S) \in Nat
  BY <1>2
<1>5. /\ SubSeq(R, 1, Len(R)) = [i \in 1..Len(R) |-> R[i]]
      /\ SubSeq(S, 1, Len(R)) = [i \in 1..Len(R) |-> S[i]]
  BY <1>2, <1>3, <1>4
<1>6. SubSeq(R, 1, Len(R)) = SubSeq(S, 1, Len(R))
  BY <1>3, <1>5
<1> QED
  BY <1>3, <1>6 DEF IsPrefix

(* It is all of it when nothing is under way and neither end is in a call. *)
LEMMA SyncEmpty ==
    ASSUME NEW S, NEW R, NEW q, NEW c, NEW o, NEW d, InSync(S, R, q, c, o, d),
           o, q = <<>>, c.op = "idle", d.op = "idle"
    PROVE  R = S
<1>1. PICK off, m, w, t : Synced(off, m, w, t, S, R, q, c, o, d)
  BY Zenon DEF InSync
<1>2. /\ m \in Payloads /\ Flow(off, S, m, R, q, w, t)
      /\ Receiver(d, Msg(S, m, Len(R) + 1), t) /\ Sender(c, o, m, w)
  BY <1>1 DEF Synced
<1>3. S \in Seq(Payloads) /\ R \in Seq(Payloads)
  BY Zenon DEF InSync
<1>4. w = 0 /\ t = 0
  BY <1>2 DEF Sender, Receiver
<1> QED
  BY <1>2, <1>3, <1>4, FlowEmpty

-----------------------------------------------------------------------------
(* The sockets.                                                            *)

SocketMaps ==
    /\ open \in [Ends -> BOOLEAN] /\ torn \in [Ends -> BOOLEAN]
    /\ refused \in [Ends -> BOOLEAN]
    /\ DOMAIN stream = Ends /\ DOMAIN call = Ends
    /\ DOMAIN sent = Ends /\ DOMAIN received = Ends
    /\ \A e \in Ends : DOMAIN call[e] = {"op", "left", "body", "want"}

(* A closed end is in no call; nothing is left of a connection once both   *)
(* of its ends are closed, nor anything there of one yet to be made.       *)
Emptied(e) == /\ stream[e] = <<>> /\ sent[e] = <<>> /\ received[e] = <<>>
              /\ torn[e] = FALSE /\ refused[e] = FALSE

ClosedIsEmpty ==
    \A e \in Ends :
        /\ ~open[e] => call[e].op = "idle"
        /\ ~open[e] /\ ~open[Peer(e)] => Emptied(e)
        /\ attempts[e[1]] < MaxAttempts => ~open[e]

(* The stream that e writes to is in step with the calls, unless it is     *)
(* torn, as long as there is somebody to read it.                          *)
InStep(e) ==
    InSync(sent[e], received[Peer(e)], stream[e], call[e], open[e],
           call[Peer(e)])

Framed(e) ==
    ~torn[e] => /\ IsPrefix(received[Peer(e)], sent[e])
                /\ ~refused[Peer(e)]
                /\ open[Peer(e)] => InStep(e)

SocketInv ==
    /\ SocketMaps
    /\ ClosedIsEmpty
    /\ \A e \in Ends : Framed(e)

(* The two ends of a connection.                                           *)
LEMMA Peers ==
    ASSUME NEW e \in Ends
    PROVE  /\ Peer(e) \in Ends /\ Peer(e) # e /\ Peer(Peer(e)) = e
           /\ e[1] \in Conns /\ Peer(e)[1] = e[1]
           /\ \A f \in Ends : f # e => Peer(f) # Peer(e)
<1>1. PICK c \in Conns : e = ClientEnd(c) \/ e = ServerEnd(c)
  BY DEF Ends, ClientEnd, ServerEnd
<1>2. \A d \in Conns : /\ ClientEnd(d) \in Ends /\ ServerEnd(d) \in Ends
                       /\ Peer(ClientEnd(d)) = ServerEnd(d)
                       /\ Peer(ServerEnd(d)) = ClientEnd(d)
                       /\ ClientEnd(d) # ServerEnd(d)
                       /\ ClientEnd(d)[1] = d /\ ServerEnd(d)[1] = d
  BY DEF Ends, ClientEnd, ServerEnd, Peer
<1>3. /\ Peer(e) \in Ends /\ Peer(e) # e /\ Peer(Peer(e)) = e
      /\ e[1] \in Conns /\ Peer(e)[1] = e[1]
  BY <1>1, <1>2
<1>4. ASSUME NEW f \in Ends PROVE Peer(Peer(f)) = f
  <2>1. PICK d \in Conns : f = ClientEnd(d) \/ f = ServerEnd(d)
    BY DEF Ends, ClientEnd, ServerEnd
  <2> QED
    BY <1>2, <2>1
<1> QED
  BY <1>3, <1>4

(* A stream in step is framed.                                             *)
LEMMA FramedInStep ==
    ASSUME NEW f \in Ends, InStep(f)', ~refused'[Peer(f)]
    PROVE  Framed(f)'
<1>1. IsPrefix(received'[Peer(f)], sent'[f])
  <2>1. InSync(sent'[f], received'[Peer(f)], stream'[f], call'[f], open'[f],
               call'[Peer(f)])
    BY DEF InStep
  <2> QED
    BY <2>1, SyncPrefix
<1> QED
  BY <1>1 DEF Framed

(* So is a stream that nobody reads any more, as it was left.              *)
LEMMA FramedUnread ==
    ASSUME NEW f \in Ends, Framed(f), ~open'[Peer(f)], ~torn'[f] => ~torn[f],
           sent'[f] = sent[f], received'[Peer(f)] = received[Peer(f)],
           refused'[Peer(f)] = refused[Peer(f)]
    PROVE  Framed(f)'
  BY DEF Framed

(* So is a stream that a step has nothing to do with.                      *)
LEMMA FramedKept ==
    ASSUME NEW f \in Ends, Framed(f), ~torn'[f] => ~torn[f],
           open'[f] = open[f], open'[Peer(f)] = open[Peer(f)],
           call'[f] = call[f], call'[Peer(f)] = call[Peer(f)],
           stream'[f] = stream[f], sent'[f] = sent[f],
           received'[Peer(f)] = received[Peer(f)],
           refused'[Peer(f)] = refused[Peer(f)]
    PROVE  Framed(f)'
<1>1. InStep(f) => InStep(f)'
  BY DEF InStep
<1> QED
  BY <1>1 DEF Framed

(* Init establishes the invariant.                                         *)
LEMMA InitSocketInv == Init => SocketInv
<1>1. SUFFICES ASSUME Init PROVE SocketInv
  OBVIOUS
<1>2. \A e \in Ends :
         /\ open[e] = FALSE /\ torn[e] = FALSE /\ refused[e] = FALSE
         /\ stream[e] = <<>> /\ sent[e] = <<>> /\ received[e] = <<>>
         /\ call[e] = NoCall
  BY <1>1 DEF Init, SocketInit
<1>3. SocketMaps
  BY <1>1 DEF Init, SocketInit, SocketMaps, NoCall
<1>4. ClosedIsEmpty
  BY <1>2 DEF ClosedIsEmpty, Emptied, NoCall
<1>5. ASSUME NEW e \in Ends PROVE Framed(e)
  <2>1. Peer(e) \in Ends
    BY Peers
  <2>2. received[Peer(e)] = <<>> /\ sent[e] = <<>> /\ ~refused[Peer(e)]
        /\ ~open[Peer(e)]
    BY <1>2, <2>1
  <2>3. IsPrefix(<<>>, <<>>)
    BY DEF IsPrefix
  <2> QED
    BY <2>2, <2>3 DEF Framed
<1> QED
  BY <1>3, <1>4, <1>5 DEF SocketInv

(* A step that does not concern the sockets.                               *)
LEMMA OtherSocketInv ==
    ASSUME SocketInv, UNCHANGED socketVars,
           \A c \in Conns : attempts'[c] < MaxAttempts => attempts[c] < MaxAttempts
    PROVE  SocketInv'
<1>1. /\ open' = open /\ stream' = stream /\ call' = call /\ sent' = sent
      /\ received' = received /\ torn' = torn /\ refused' = refused
  BY DEF socketVars
<1>2. SocketMaps'
  BY <1>1 DEF SocketInv, SocketMaps
<1>3. ClosedIsEmpty'
  BY <1>1, Peers DEF SocketInv, ClosedIsEmpty, Emptied
<1>4. ASSUME NEW f \in Ends PROVE Framed(f)'
  BY <1>1, FramedKept DEF SocketInv
<1> QED
  BY <1>2, <1>3, <1>4 DEF SocketInv

(* A step of a call: the other connections have nothing to do with it.     *)
LEMMA CallSocketInv ==
    ASSUME SocketInv, NEW e \in Ends, open[e], open' = open,
           attempts' = attempts,
           DOMAIN call' = Ends, \A f \in Ends : f # e => call'[f] = call[f],
           DOMAIN call'[e] = {"op", "left", "body", "want"},
           torn' \in [Ends -> BOOLEAN], refused' \in [Ends -> BOOLEAN],
           DOMAIN stream' = Ends, DOMAIN sent' = Ends, DOMAIN received' = Ends,
           \A f \in Ends : f # e /\ f # Peer(e) =>
               /\ stream'[f] = stream[f] /\ sent'[f] = sent[f]
               /\ received'[f] = received[f] /\ torn'[f] = torn[f]
               /\ refused'[f] = refused[f],
           Framed(e)', Framed(Peer(e))'
    PROVE  SocketInv'
<1>1. SocketMaps'
  BY DEF SocketInv, SocketMaps
<1>2. ASSUME NEW f \in Ends, f # e, f # Peer(e)
      PROVE  Peer(f) \in Ends /\ Peer(f) # e /\ Peer(f) # Peer(e)
  BY <1>2, Peers
<1>3. ClosedIsEmpty'
  <2>1. SUFFICES ASSUME NEW f \in Ends
                 PROVE  /\ ~open'[f] => call'[f].op = "idle"
                        /\ ~open'[f] /\ ~open'[Peer(f)] => Emptied(f)'
                        /\ attempts'[f[1]] < MaxAttempts => ~open'[f]
    BY DEF ClosedIsEmpty
  <2>2. ~open'[f] => call'[f].op = "idle"
    BY DEF SocketInv, ClosedIsEmpty
  <2>3. ~open'[f] /\ ~open'[Peer(f)] => Emptied(f)'
    <3>1. SUFFICES ASSUME ~open[f], ~open[Peer(f)] PROVE Emptied(f)'
      OBVIOUS
    <3>2. f # e /\ f # Peer(e)
      BY <3>1, Peers
    <3>3. Emptied(f)
      BY <3>1 DEF SocketInv, ClosedIsEmpty
    <3> QED
      BY <3>2, <3>3 DEF Emptied
  <2>4. attempts'[f[1]] < MaxAttempts => ~open'[f]
    BY DEF SocketInv, ClosedIsEmpty
  <2> QED
    BY <2>2, <2>3, <2>4
<1>4. ASSUME NEW f \in Ends PROVE Framed(f)'
  <2>1. CASE f = e \/ f = Peer(e)
    BY <2>1
  <2>2. CASE f # e /\ f # Peer(e)
    <3>1. Peer(f) \in Ends /\ Peer(f) # e /\ Peer(f) # Peer(e)
      BY <1>2, <2>2
    <3> QED
      BY <2>2, <3>1, FramedKept DEF SocketInv
  <2> QED
    BY <2>1, <2>2
<1> QED
  BY <1>1, <1>3, <1>4 DEF SocketInv

(* What is known of an open end and its peer.                              *)
LEMMA SocketFacts ==
    ASSUME SocketInv, NEW e \in Ends
    PROVE  /\ Peer(e) \in Ends /\ Peer(e) # e /\ Peer(Peer(e)) = e
           /\ ~Idle(e) => open[e]
           /\ open[e] \in BOOLEAN /\ torn[e] \in BOOLEAN
           /\ refused[e] \in BOOLEAN /\ e \in DOMAIN call
           /\ DOMAIN call = Ends /\ DOMAIN stream = Ends
           /\ DOMAIN sent = Ends /\ DOMAIN received = Ends
           /\ DOMAIN call[e] = {"op", "left", "body", "want"}
           /\ Framed(e) /\ Framed(Peer(e))
           /\ ~torn[e] /\ open[Peer(e)] => InStep(e)
           /\ ~torn[Peer(e)] /\ open[e] =>
                 InSync(sent[Peer(e)], received[e], stream[Peer(e)],
                        call[Peer(e)], open[Peer(e)], call[e])
<1>1. Peer(e) \in Ends /\ Peer(e) # e /\ Peer(Peer(e)) = e
  BY Peers
<1>2. Framed(e) /\ Framed(Peer(e))
  BY <1>1 DEF SocketInv
<1>3. ~Idle(e) => open[e]
  BY DEF SocketInv, ClosedIsEmpty, Idle
<1>4. ~torn[e] /\ open[Peer(e)] => InStep(e)
  BY <1>2 DEF Framed
<1>5. ~torn[Peer(e)] /\ open[e] => InStep(Peer(e))
  BY <1>1, <1>2 DEF Framed
<1>6. InStep(Peer(e)) =>
          InSync(sent[Peer(e)], received[e], stream[Peer(e)],
                 call[Peer(e)], open[Peer(e)], call[e])
  BY <1>1 DEF InStep
<1>7. /\ open[e] \in BOOLEAN /\ torn[e] \in BOOLEAN
      /\ refused[e] \in BOOLEAN /\ e \in DOMAIN call
      /\ DOMAIN call = Ends /\ DOMAIN stream = Ends
      /\ DOMAIN sent = Ends /\ DOMAIN received = Ends
      /\ DOMAIN call[e] = {"op", "left", "body", "want"}
  BY DEF SocketInv, SocketMaps
<1> QED
  BY <1>1, <1>2, <1>3, <1>4, <1>5, <1>6, <1>7

(* The stream that the peer of e writes, when e is in another call.        *)
LEMMA FramedReader ==
    ASSUME SocketInv, NEW e \in Ends,
           ~torn'[Peer(e)] => ~torn[Peer(e)], refused'[e] = refused[e],
           ~torn'[Peer(e)] /\ open[e] =>
               InSync(sent'[Peer(e)], received'[e], stream'[Peer(e)],
                      call'[Peer(e)], open'[Peer(e)], call'[e]),
           open[e]
    PROVE  Framed(Peer(e))'
<1>1. Peer(e) \in Ends /\ Peer(Peer(e)) = e
  BY Peers
<1>2. SUFFICES ASSUME ~torn'[Peer(e)] PROVE Framed(Peer(e))'
  BY DEF Framed
<1>3. InStep(Peer(e))'
  BY <1>1, <1>2 DEF InStep
<1>4. ~refused'[Peer(Peer(e))]
  BY <1>1, <1>2 DEF SocketInv, Framed
<1> QED
  BY <1>1, <1>3, <1>4, FramedInStep

(* A Send begins.                                                          *)
LEMMA SendSocketInv ==
    ASSUME SocketInv, NEW e \in Ends, NEW m \in Messages, Send(e, m),
           attempts' = attempts
    PROVE  SocketInv'
<1>1. PICK b : /\ b.op = "send_header" /\ b.left = EncodeHeader(Len(m))
               /\ b.body = m /\ DOMAIN b = {"op", "left", "body", "want"}
               /\ call' = [call EXCEPT ![e] = b]
  BY DEF Send
<1>2. /\ open[e] /\ call[e].op = "idle" /\ Len(m) <= kIpcMaxMessageSize
      /\ open' = open /\ stream' = stream /\ sent' = sent
      /\ received' = received /\ torn' = torn /\ refused' = refused
  BY DEF Send, Idle
<1>3. m \in Payloads
  BY IpcSocketAssumption DEF Payloads, Octets
<1>4. /\ Peer(e) \in Ends /\ Peer(e) # e /\ Peer(Peer(e)) = e
      /\ DOMAIN call = Ends /\ Framed(e)
      /\ ~torn[e] /\ open[Peer(e)] => InStep(e)
      /\ ~torn[Peer(e)] /\ open[e] =>
                 InSync(sent[Peer(e)], received[e], stream[Peer(e)],
                        call[Peer(e)], open[Peer(e)], call[e])
  BY SocketFacts
<1>5. DOMAIN call' = Ends /\ call'[e] = b /\ \A f \in Ends : f # e => call'[f] = call[f]
  BY <1>1, <1>4
<1>6. Framed(e)'
  <2>1. CASE ~open[Peer(e)] \/ torn[e]
    BY <1>2, <1>4, <2>1 DEF Framed
  <2>2. CASE open[Peer(e)] /\ ~torn[e]
    <3>1. InSync(sent[e], received[Peer(e)], stream[e], call[e], open[e],
                 call[Peer(e)])
      BY <1>4, <2>2 DEF InStep
    <3>2. InSync(sent[e], received[Peer(e)], stream[e], b, open[e],
                 call[Peer(e)])
      BY <1>1, <1>2, <1>3, <3>1, SyncSend
    <3>3. InStep(e)'
      BY <1>2, <1>4, <1>5, <3>2 DEF InStep
    <3>4. ~refused'[Peer(e)]
      BY <1>2, <1>4, <2>2 DEF Framed
    <3> QED
      BY <3>3, <3>4, FramedInStep
  <2> QED
    BY <2>1, <2>2
<1>7. Framed(Peer(e))'
  <2>1. ~torn[Peer(e)] =>
          InSync(sent[Peer(e)], received[e], stream[Peer(e)],
                 call[Peer(e)], open[Peer(e)], b)
    BY <1>1, <1>2, <1>4, SyncReceiverIdle
  <2> QED
    BY <1>2, <1>4, <1>5, <2>1, FramedReader
<1> QED
  BY <1>1, <1>2, <1>4, <1>5, <1>6, <1>7, CallSocketInv DEF SocketInv, SocketMaps

(* A Recv begins.                                                          *)
LEMMA RecvSocketInv ==
    ASSUME SocketInv, NEW e \in Ends, Recv(e), attempts' = attempts
    PROVE  SocketInv'
<1>1. PICK b : /\ b.op = "recv_header" /\ b.left = <<>> /\ b.want = 4
               /\ DOMAIN b = {"op", "left", "body", "want"}
               /\ call' = [call EXCEPT ![e] = b]
  BY DEF Recv, NoCall, kIpcFrameHeaderSize
<1>2. /\ open[e] /\ call[e].op = "idle"
      /\ open' = open /\ stream' = stream /\ sent' = sent
      /\ received' = received /\ torn' = torn /\ refused' = refused
  BY DEF Recv, Idle
<1>4. /\ Peer(e) \in Ends /\ Peer(e) # e /\ Peer(Peer(e)) = e
      /\ DOMAIN call = Ends /\ Framed(e)
      /\ ~torn[e] /\ open[Peer(e)] => InStep(e)
      /\ ~torn[Peer(e)] /\ open[e] =>
                 InSync(sent[Peer(e)], received[e], stream[Peer(e)],
                        call[Peer(e)], open[Peer(e)], call[e])
  BY SocketFacts
<1>5. DOMAIN call' = Ends /\ call'[e] = b /\ \A f \in Ends : f # e => call'[f] = call[f]
  BY <1>1, <1>4
<1>6. Framed(e)'
  <2>1. CASE ~open[Peer(e)] \/ torn[e]
    BY <1>2, <1>4, <2>1 DEF Framed
  <2>2. CASE open[Peer(e)] /\ ~torn[e]
    <3>1. InSync(sent[e], received[Peer(e)], stream[e], call[e], open[e],
                 call[Peer(e)])
      BY <1>4, <2>2 DEF InStep
    <3>2. InSync(sent[e], received[Peer(e)], stream[e], b, open[e],
                 call[Peer(e)])
      BY <1>1, <1>2, <3>1, SyncSenderIdle
    <3>3. InStep(e)'
      BY <1>2, <1>4, <1>5, <3>2 DEF InStep
    <3>4. ~refused'[Peer(e)]
      BY <1>2, <1>4, <2>2 DEF Framed
    <3> QED
      BY <3>3, <3>4, FramedInStep
  <2> QED
    BY <2>1, <2>2
<1>7. Framed(Peer(e))'
  <2>1. ~torn[Peer(e)] =>
          InSync(sent[Peer(e)], received[e], stream[Peer(e)],
                 call[Peer(e)], open[Peer(e)], b)
    BY <1>1, <1>2, <1>4, SyncRecv
  <2> QED
    BY <1>2, <1>4, <1>5, <2>1, FramedReader
<1> QED
  BY <1>1, <1>2, <1>4, <1>5, <1>6, <1>7, CallSocketInv DEF SocketInv, SocketMaps

(* The smaller of two numbers.                                             *)
LEMMA Smaller ==
    ASSUME NEW x \in Nat, NEW y \in Nat
    PROVE  /\ Min({x, y}) \in {x, y}
           /\ Min({x, y}) <= x /\ Min({x, y}) <= y
<1>1. \E z \in {x, y} : \A u \in {x, y} : z <= u
  <2>1. CASE x <= y
    BY <2>1
  <2>2. CASE y <= x
    BY <2>2
  <2> QED
    BY <2>1, <2>2
<1>2. Min({x, y}) \in {x, y} /\ \A u \in {x, y} : Min({x, y}) <= u
  BY <1>1 DEF Min
<1> QED
  BY <1>2

(* One ::send.                                                             *)
LEMMA WriteSocketInv ==
    ASSUME SocketInv, NEW e \in Ends, Write(e), attempts' = attempts
    PROVE  SocketInv'
<1> DEFINE c == call[e]
           n == Min({Room(e), Len(c.left)})
           done == n = Len(c.left)
           last == done /\ (c.op = "send_body" \/ c.body = <<>>)
           b == IF last THEN NoCall
                ELSE IF done THEN [c EXCEPT !.op = "send_body", !.left = c.body]
                ELSE [c EXCEPT !.left = SubSeq(c.left, n + 1, Len(c.left))]
<1>1. /\ c.op \in {"send_header", "send_body"} /\ open[Peer(e)] /\ Room(e) > 0
      /\ stream' = [stream EXCEPT ![e] = @ \o SubSeq(c.left, 1, n)]
      /\ call' = [call EXCEPT ![e] = b]
      /\ sent' = [sent EXCEPT ![e] = IF last THEN Append(@, c.body) ELSE @]
      /\ open' = open /\ received' = received /\ torn' = torn
      /\ refused' = refused
  BY DEF Write, Sending
<1>2. /\ Peer(e) \in Ends /\ Peer(e) # e /\ Peer(Peer(e)) = e
      /\ ~Idle(e) => open[e]
      /\ DOMAIN call = Ends /\ DOMAIN stream = Ends
      /\ DOMAIN sent = Ends /\ DOMAIN received = Ends
      /\ DOMAIN call[e] = {"op", "left", "body", "want"}
      /\ Framed(e)
      /\ ~torn[e] /\ open[Peer(e)] => InStep(e)
      /\ ~torn[Peer(e)] /\ open[e] =>
                 InSync(sent[Peer(e)], received[e], stream[Peer(e)],
                        call[Peer(e)], open[Peer(e)], call[e])
  BY SocketFacts
<1>3. open[e]
  BY <1>1, <1>2 DEF Idle
<1>4. /\ DOMAIN b = {"op", "left", "body", "want"}
      /\ last => b.op = "idle"
      /\ done /\ ~last => b.op = "send_body" /\ b.left = c.body /\ b.body = c.body
      /\ ~done => /\ b.op = c.op /\ b.body = c.body
                  /\ b.left = SubSeq(c.left, n + 1, Len(c.left))
      /\ b.op \notin {"recv_header", "recv_body"}
  <2>1. CASE last
    BY <2>1 DEF NoCall
  <2>2. CASE done /\ ~last
    BY <1>2, <2>2
  <2>3. CASE ~done
    BY <1>1, <1>2, <2>3
  <2> QED
    BY <2>1, <2>2, <2>3
<1>5. /\ call'[e] = b /\ stream'[e] = stream[e] \o SubSeq(c.left, 1, n)
      /\ sent'[e] = IF last THEN Append(sent[e], c.body) ELSE sent[e]
      /\ DOMAIN call' = Ends /\ DOMAIN stream' = Ends /\ DOMAIN sent' = Ends
      /\ \A f \in Ends : f # e => /\ call'[f] = call[f]
                                  /\ stream'[f] = stream[f]
                                  /\ sent'[f] = sent[f]
  <2> HIDE DEF c, n, last, b
  <2> QED
    BY <1>1, <1>2
<1>6. Framed(e)'
  <2>1. CASE torn[e]
    BY <1>1, <2>1 DEF Framed
  <2>2. CASE ~torn[e]
    <3>1. InSync(sent[e], received[Peer(e)], stream[e], c, open[e],
                 call[Peer(e)])
      BY <1>1, <1>2, <2>2 DEF InStep
    <3>2. /\ stream[e] \in Payloads /\ c.left \in Payloads
          /\ Len(c.left) \in Nat
      <4>1. PICK off, m, w, t : Synced(off, m, w, t, sent[e], received[Peer(e)],
                                       stream[e], c, open[e], call[Peer(e)])
        BY <3>1, Zenon DEF InSync
      <4>2. m \in Payloads /\ w \in Nat /\ Sender(c, open[e], m, w)
        BY <4>1 DEF Synced
      <4>3. c.left \in Payloads /\ Len(c.left) \in Nat \ {0}
        BY <1>1, <4>2, SenderHolds
      <4>4. stream[e] \in Payloads
        BY <3>1, Zenon DEF InSync
      <4> QED
        BY <4>3, <4>4
    <3>3. n \in Nat /\ n <= Len(c.left)
      <4>1. Len(stream[e]) \in Nat
        BY <3>2 DEF Payloads
      <4>2. Room(e) \in Nat
        BY <1>1, <4>1, IpcSocketAssumption DEF Room
      <4> QED
        BY <3>2, <4>2, Smaller
    <3> HIDE DEF n, b
    <3>4. InSync(sent'[e], received[Peer(e)], stream'[e], b, open[e],
                 call[Peer(e)])
      <4>1. CASE ~done
        <5>1. n < Len(c.left)
          BY <3>2, <3>3, <4>1
        <5>2. InSync(sent[e], received[Peer(e)],
                     stream[e] \o SubSeq(c.left, 1, n), b, open[e],
                     call[Peer(e)])
          BY <1>1, <1>4, <3>1, <3>3, <4>1, <5>1, SyncWritesPart
        <5> QED
          BY <1>5, <4>1, <5>2
      <4>2. CASE done /\ ~last
        <5>1. InSync(sent[e], received[Peer(e)],
                     stream[e] \o SubSeq(c.left, 1, Len(c.left)), b, open[e],
                     call[Peer(e)])
          BY <1>1, <1>4, <3>1, <4>2, SyncWritesHeader
        <5> QED
          BY <1>5, <4>2, <5>1
      <4>3. CASE last
        <5>1. InSync(Append(sent[e], c.body), received[Peer(e)],
                     stream[e] \o SubSeq(c.left, 1, Len(c.left)), b, open[e],
                     call[Peer(e)])
          BY <1>1, <1>4, <3>1, <4>3, SyncWritesFrame
        <5> QED
          BY <1>5, <4>3, <5>1
      <4> QED
        BY <4>1, <4>2, <4>3
    <3>5. InStep(e)'
      BY <1>1, <1>2, <1>5, <3>4 DEF InStep
    <3>6. ~refused'[Peer(e)]
      BY <1>1, <1>2, <2>2 DEF Framed
    <3> QED
      BY <3>5, <3>6, FramedInStep
  <2> QED
    BY <2>1, <2>2
<1> HIDE DEF n, b
<1>7. Framed(Peer(e))'
  <2>1. ~torn[Peer(e)] =>
          InSync(sent[Peer(e)], received[e], stream[Peer(e)],
                 call[Peer(e)], open[Peer(e)], b)
    BY <1>1, <1>2, <1>3, <1>4, SyncReceiverIdle
  <2> QED
    BY <1>1, <1>2, <1>3, <1>5, <2>1, FramedReader
<1> QED
  BY <1>1, <1>2, <1>3, <1>4, <1>5, <1>6, <1>7, CallSocketInv
     DEF SocketInv, SocketMaps

(* One ::recv.                                                             *)
LEMMA ReadSocketInv ==
    ASSUME SocketInv, NEW e \in Ends, Read(e), attempts' = attempts
    PROVE  SocketInv'
<1> DEFINE p == Peer(e)
           d == call[e]
           q == stream[p]
           n == Min({d.want, Len(q)})
           got == d.left \o SubSeq(q, 1, n)
           len == DecodeHeader(got)
<1>1. /\ d.op \in {"recv_header", "recv_body"}
      /\ stream' = [stream EXCEPT ![p] = SubSeq(@, n + 1, Len(@))]
      /\ open' = open /\ sent' = sent /\ torn' = torn
  BY DEF Read, Receiving
<1>2. /\ p \in Ends /\ p # e /\ Peer(p) = e
      /\ ~Idle(e) => open[e]
      /\ DOMAIN call = Ends /\ DOMAIN stream = Ends
      /\ DOMAIN sent = Ends /\ DOMAIN received = Ends
      /\ DOMAIN d = {"op", "left", "body", "want"}
      /\ Framed(e) /\ refused[e] \in BOOLEAN
      /\ ~torn[e] /\ open[p] => InStep(e)
      /\ ~torn[p] /\ open[e] =>
                 InSync(sent[p], received[e], q, call[p], open[p], d)
  BY SocketFacts
<1>3. open[e]
  BY <1>1, <1>2 DEF Idle
<1>4. \/ /\ n < d.want
         /\ call' = [call EXCEPT ![e].left = got, ![e].want = @ - n]
         /\ received' = received /\ refused' = refused
      \/ ~(n < d.want) /\ d.op = "recv_header" /\ AfterHeader(e, len)
      \/ ~(n < d.want) /\ d.op = "recv_body" /\ AfterBody(e, got)
  <2> HIDE DEF n, got, len
  <2>1. IF n < d.want
        THEN /\ call' = [call EXCEPT ![e].left = got, ![e].want = @ - n]
             /\ UNCHANGED <<received, refused>>
        ELSE IF d.op = "recv_header" THEN AfterHeader(e, len)
        ELSE AfterBody(e, got)
    BY DEF Read, n, got, len
  <2> QED
    BY <1>1, <2>1
<1> HIDE DEF n, got, len
<1>5. /\ DOMAIN stream' = Ends /\ stream'[p] = SubSeq(q, n + 1, Len(q))
      /\ \A f \in Ends : f # p => stream'[f] = stream[f]
  <2> HIDE DEF p
  <2> QED
    BY <1>1, <1>2
<1>6. ASSUME n < d.want, received' = received, refused' = refused,
             call' = [call EXCEPT ![e].left = got, ![e].want = @ - n]
      PROVE  /\ DOMAIN call'[e] = {"op", "left", "body", "want"}
             /\ call'[e].op = d.op /\ call'[e].left = got
             /\ call'[e].want = d.want - n /\ DOMAIN call' = Ends
             /\ \A f \in Ends : f # e => call'[f] = call[f]
  BY <1>2, <1>6
<1>7. ASSUME d.op = "recv_header", AfterHeader(e, len)
      PROVE  /\ DOMAIN call'[e] = {"op", "left", "body", "want"}
             /\ DOMAIN call' = Ends /\ DOMAIN received' = Ends
             /\ refused' \in [Ends -> BOOLEAN]
             /\ ~TooLarge(len) => refused'[e] = refused[e]
             /\ len = 0 => received'[e] = Append(received[e], <<>>)
             /\ len # 0 => received'[e] = received[e]
             /\ len = 0 => call'[e].op = "idle"
             /\ call'[e].op \in {"idle", "recv_body"}
             /\ len # 0 /\ ~TooLarge(len) =>
                   /\ call'[e].op = "recv_body" /\ call'[e].left = <<>>
                   /\ call'[e].want = len
             /\ \A f \in Ends : f # e => /\ call'[f] = call[f]
                                         /\ received'[f] = received[f]
                                         /\ refused'[f] = refused[f]
  <2>1. /\ call' = [call EXCEPT ![e] =
              IF TooLarge(len) \/ len = 0 THEN NoCall
              ELSE [NoCall EXCEPT !.op = "recv_body", !.want = len]]
        /\ refused' = [refused EXCEPT ![e] = @ \/ TooLarge(len)]
        /\ received' = [received EXCEPT ![e] =
              IF len = 0 THEN Append(@, <<>>) ELSE @]
    BY <1>7 DEF AfterHeader
  <2>2. TooLarge(len) \in BOOLEAN
    BY DEF TooLarge
  <2>3. refused \in [Ends -> BOOLEAN]
    BY DEF SocketInv, SocketMaps
  <2>4. /\ refused' \in [Ends -> BOOLEAN]
        /\ ~TooLarge(len) => refused'[e] = refused[e]
        /\ \A f \in Ends : f # e => refused'[f] = refused[f]
    BY <2>1, <2>2, <2>3
  <2>5. /\ DOMAIN received' = Ends
        /\ len = 0 => received'[e] = Append(received[e], <<>>)
        /\ len # 0 => received'[e] = received[e]
        /\ \A f \in Ends : f # e => received'[f] = received[f]
    BY <1>2, <2>1
  <2>6. /\ DOMAIN call' = Ends
        /\ \A f \in Ends : f # e => call'[f] = call[f]
        /\ call'[e] = IF TooLarge(len) \/ len = 0 THEN NoCall
                      ELSE [NoCall EXCEPT !.op = "recv_body", !.want = len]
    BY <1>2, <2>1
  <2>7. CASE TooLarge(len) \/ len = 0
    <3>1. call'[e] = NoCall
      BY <2>6, <2>7
    <3> QED
      BY <2>4, <2>5, <2>6, <2>7, <3>1 DEF NoCall
  <2>8. CASE ~TooLarge(len) /\ len # 0
    <3>1. call'[e] = [NoCall EXCEPT !.op = "recv_body", !.want = len]
      BY <2>6, <2>8
    <3>2. /\ DOMAIN call'[e] = {"op", "left", "body", "want"}
          /\ call'[e].op = "recv_body" /\ call'[e].left = <<>>
          /\ call'[e].want = len
      BY <3>1 DEF NoCall
    <3> QED
      BY <2>4, <2>5, <2>6, <2>8, <3>2
  <2> QED
    BY <2>7, <2>8
<1>8. ASSUME d.op = "recv_body", AfterBody(e, got)
      PROVE  /\ DOMAIN call'[e] = {"op", "left", "body", "want"}
             /\ DOMAIN call' = Ends /\ DOMAIN received' = Ends
             /\ refused' = refused /\ call'[e].op = "idle"
             /\ received'[e] = Append(received[e], got)
             /\ \A f \in Ends : f # e => /\ call'[f] = call[f]
                                         /\ received'[f] = received[f]
  BY <1>2, <1>8 DEF AfterBody, NoCall
<1>9. /\ DOMAIN call' = Ends /\ \A f \in Ends : f # e => call'[f] = call[f]
      /\ DOMAIN call'[e] = {"op", "left", "body", "want"}
      /\ refused' \in [Ends -> BOOLEAN] /\ DOMAIN received' = Ends
      /\ call'[e].op \notin {"send_header", "send_body"}
      /\ \A f \in Ends : f # e => /\ received'[f] = received[f]
                                  /\ refused'[f] = refused[f]
  <2>1. refused \in [Ends -> BOOLEAN]
    BY DEF SocketInv, SocketMaps
  <2>2. CASE /\ n < d.want /\ received' = received /\ refused' = refused
             /\ call' = [call EXCEPT ![e].left = got, ![e].want = @ - n]
    BY <1>1, <1>2, <1>6, <2>1, <2>2
  <2>3. CASE d.op = "recv_header" /\ AfterHeader(e, len)
    BY <1>7, <2>3
  <2>4. CASE d.op = "recv_body" /\ AfterBody(e, got)
    BY <1>8, <2>1, <2>4
  <2> QED
    BY <1>4, <2>2, <2>3, <2>4
<1>10. Framed(p)'
  <2>1. CASE torn[p]
    BY <1>1, <2>1 DEF Framed
  <2>2. CASE ~torn[p]
    <3>1. InSync(sent[p], received[e], q, call[p], open[p], d)
      BY <1>2, <1>3, <2>2
    <3>2. d.want \in Nat \ {0} /\ Len(q) \in Nat
      <4>1. PICK off, m, w, t : Synced(off, m, w, t, sent[p], received[e], q,
                                       call[p], open[p], d)
        BY <3>1, Zenon DEF InSync
      <4>2. q \in Payloads
        BY <3>1, Zenon DEF InSync
      <4>3. Receiver(d, Msg(sent[p], m, Len(received[e]) + 1), t)
        BY <4>1 DEF Synced
      <4> QED
        BY <1>1, <4>2, <4>3 DEF Receiver, Payloads
    <3>3. n \in Nat /\ n <= Len(q) /\ n <= d.want
      BY <3>2, Smaller DEF n
    <3>4. /\ InSync(sent[p], received'[e], SubSeq(q, n + 1, Len(q)),
                    call[p], open[p], call'[e])
          /\ refused'[e] = refused[e]
      <4>1. CASE /\ n < d.want /\ received' = received /\ refused' = refused
                 /\ call' = [call EXCEPT ![e].left = got, ![e].want = @ - n]
        <5>1. InSync(sent[p], received[e], SubSeq(q, n + 1, Len(q)),
                     call[p], open[p], call'[e])
          BY <1>1, <1>6, <3>1, <3>3, <4>1, SyncReadsPart DEF got
        <5> QED
          BY <4>1, <5>1
      <4>2. CASE ~(n < d.want) /\ d.op = "recv_header" /\ AfterHeader(e, len)
        <5>1. n = d.want /\ d.want <= Len(q)
          BY <3>2, <3>3, <4>2
        <5>2. got = d.left \o SubSeq(q, 1, d.want) /\ len = DecodeHeader(got)
          BY <5>1 DEF got, len
        <5>3. /\ len \in Nat /\ len <= kIpcMaxMessageSize
              /\ \A b : /\ len # 0 /\ b.op = "recv_body"
                        /\ b.left = <<>> /\ b.want = len
                        => InSync(sent[p], received[e],
                                  SubSeq(q, d.want + 1, Len(q)),
                                  call[p], open[p], b)
              /\ \A b : /\ len = 0 /\ b.op \notin {"recv_header", "recv_body"}
                        => InSync(sent[p], Append(received[e], <<>>),
                                  SubSeq(q, d.want + 1, Len(q)),
                                  call[p], open[p], b)
          BY <3>1, <4>2, <5>1, <5>2, SyncReadsHeader
        <5>4. ~TooLarge(len)
          BY <5>3, IpcSocketAssumption DEF TooLarge
        <5>5. CASE len = 0
          BY <1>7, <4>2, <5>1, <5>3, <5>4, <5>5
        <5>6. CASE len # 0
          BY <1>7, <4>2, <5>1, <5>3, <5>4, <5>6
        <5> QED
          BY <5>5, <5>6
      <4>3. CASE ~(n < d.want) /\ d.op = "recv_body" /\ AfterBody(e, got)
        <5>1. n = d.want /\ d.want <= Len(q)
          BY <3>2, <3>3, <4>3
        <5>2. got = d.left \o SubSeq(q, 1, d.want)
          BY <5>1 DEF got
        <5>3. InSync(sent[p], Append(received[e], got),
                     SubSeq(q, d.want + 1, Len(q)), call[p], open[p], call'[e])
          BY <1>8, <3>1, <4>3, <5>1, <5>2, SyncReadsBody
        <5> QED
          BY <1>8, <4>3, <5>1, <5>3
      <4> QED
        BY <1>4, <4>1, <4>2, <4>3
    <3>5. InStep(p)'
      BY <1>1, <1>2, <1>5, <1>9, <3>4 DEF InStep
    <3>6. ~refused'[Peer(p)]
      BY <1>2, <1>3, <2>2, <3>4 DEF SocketInv, Framed
    <3> QED
      BY <1>2, <3>5, <3>6, FramedInStep
  <2> QED
    BY <2>1, <2>2
<1>11. Framed(e)'
  <2>1. CASE ~open[p] \/ torn[e]
    BY <1>1, <1>2, <1>9, <2>1 DEF Framed
  <2>2. CASE open[p] /\ ~torn[e]
    <3>1. InSync(sent[e], received[p], stream[e], d, open[e], call[p])
      BY <1>2, <2>2 DEF InStep
    <3>2. InSync(sent[e], received[p], stream[e], call'[e], open[e], call[p])
      BY <1>1, <1>3, <1>9, <3>1, SyncSenderIdle
    <3>3. InStep(e)'
      BY <1>1, <1>2, <1>5, <1>9, <3>2 DEF InStep
    <3>4. ~refused'[p]
      BY <1>2, <1>9, <2>2 DEF Framed
    <3> QED
      BY <3>3, <3>4, FramedInStep
  <2> QED
    BY <2>1, <2>2
<1> QED
  BY <1>1, <1>2, <1>3, <1>5, <1>9, <1>10, <1>11, CallSocketInv
     DEF SocketInv, SocketMaps

(* A call stops: its stream is torn, unless nothing of a frame has moved.  *)
LEMMA GiveUpSocketInv ==
    ASSUME SocketInv, NEW e \in Ends, GiveUp(e), attempts' = attempts
    PROVE  SocketInv'
<1> DEFINE p == Peer(e)
<1>1. /\ call[e].op # "idle" /\ call' = [call EXCEPT ![e] = NoCall]
      /\ torn' = [torn EXCEPT ![StreamOf(e)] = @ \/ MidFrame(e)]
      /\ open' = open /\ stream' = stream /\ sent' = sent
      /\ received' = received /\ refused' = refused
  BY DEF GiveUp, Idle
<1>2. /\ p \in Ends /\ p # e /\ Peer(p) = e
      /\ ~Idle(e) => open[e]
      /\ DOMAIN call = Ends /\ DOMAIN stream = Ends
      /\ DOMAIN sent = Ends /\ DOMAIN received = Ends
      /\ Framed(e)
      /\ ~torn[e] /\ open[p] => InStep(e)
      /\ ~torn[p] /\ open[e] =>
                 InSync(sent[p], received[e], stream[p], call[p], open[p],
                        call[e])
  BY SocketFacts
<1>3. open[e]
  BY <1>1, <1>2 DEF Idle
<1>4. /\ DOMAIN call' = Ends /\ call'[e] = NoCall
      /\ \A f \in Ends : f # e => call'[f] = call[f]
      /\ NoCall.op = "idle" /\ DOMAIN NoCall = {"op", "left", "body", "want"}
  BY <1>1, <1>2 DEF NoCall
<1>5. /\ torn' \in [Ends -> BOOLEAN]
      /\ \A f \in Ends : ~torn'[f] => ~torn[f]
      /\ \A f \in Ends : f # e /\ f # p => torn'[f] = torn[f]
      /\ ~torn'[StreamOf(e)] => ~MidFrame(e)
      /\ StreamOf(e) = IF call[e].op \in {"recv_header", "recv_body"} THEN p ELSE e
  <2>1. /\ torn \in [Ends -> BOOLEAN] /\ StreamOf(e) \in Ends
        /\ StreamOf(e) = IF call[e].op \in {"recv_header", "recv_body"} THEN p ELSE e
    BY <1>2 DEF SocketInv, SocketMaps, StreamOf, Receiving
  <2>2. StreamOf(e) \in {e, p}
    BY <2>1
  <2>3. torn' = [torn EXCEPT ![StreamOf(e)] = TRUE] \/ (~MidFrame(e) /\ torn' = torn)
    <3>1. CASE MidFrame(e)
      BY <1>1, <3>1
    <3>2. CASE ~MidFrame(e)
      BY <1>1, <2>1, <3>2
    <3> QED
      BY <3>1, <3>2
  <2>4. CASE torn' = [torn EXCEPT ![StreamOf(e)] = TRUE]
    BY <2>1, <2>2, <2>4
  <2>5. CASE ~MidFrame(e) /\ torn' = torn
    BY <2>1, <2>5
  <2> QED
    BY <2>3, <2>4, <2>5
<1>6. /\ ~torn'[e] => \/ call[e].op \notin {"send_header", "send_body"}
                      \/ call[e].op = "send_header" /\ ~(Len(call[e].left) < 4)
      /\ ~torn'[p] => \/ call[e].op \notin {"recv_header", "recv_body"}
                      \/ call[e].op = "recv_header" /\ call[e].left = <<>>
  <2>1. ~MidFrame(e) =>
            \/ call[e].op = "send_header" /\ ~(Len(call[e].left) < 4)
            \/ call[e].op = "recv_header" /\ call[e].left = <<>>
    BY <1>1 DEF MidFrame, Idle, kIpcFrameHeaderSize
  <2> QED
    BY <1>5, <2>1
<1>7. Framed(e)'
  <2>1. CASE ~open[p]
    BY <1>1, <1>2, <1>5, <2>1, FramedUnread
  <2>2. CASE torn'[e]
    BY <2>2 DEF Framed
  <2>3. CASE open[p] /\ ~torn'[e]
    <3>1. ~torn[e] /\ InStep(e)
      BY <1>2, <1>5, <2>3
    <3>2. InSync(sent[e], received[p], stream[e], call[e], open[e], call[p])
      BY <3>1 DEF InStep
    <3>3. \/ call[e].op \notin {"send_header", "send_body"}
          \/ call[e].op = "send_header" /\ Len(call[e].left) = 4
      <4>1. SUFFICES ASSUME call[e].op = "send_header"
                     PROVE  Len(call[e].left) = 4
        BY <1>6, <2>3
      <4>2. ~(Len(call[e].left) < 4)
        BY <1>6, <2>3, <4>1
      <4>3. PICK off, m, w, t : Synced(off, m, w, t, sent[e], received[p],
                                       stream[e], call[e], open[e], call[p])
        BY <3>2, Zenon DEF InSync
      <4>4. w \in Nat /\ Part(call[e].left, m, w, 4)
        BY <4>1, <4>3 DEF Synced, Sender
      <4>5. Len(call[e].left) \in Nat /\ w + Len(call[e].left) = 4
        BY <4>4 DEF Part, Payloads
      <4>6. \A l \in Nat : w + l = 4 /\ ~(l < 4) => l = 4
        BY <4>4
      <4> QED
        BY <4>2, <4>5, <4>6
    <3>4. InSync(sent[e], received[p], stream[e], NoCall, open[e], call[p])
      BY <1>3, <1>4, <3>2, <3>3, SyncSenderIdle
    <3>5. InStep(e)'
      BY <1>1, <1>2, <1>4, <3>4 DEF InStep
    <3>6. ~refused'[p]
      BY <1>1, <1>2, <3>1 DEF Framed
    <3> QED
      BY <3>5, <3>6, FramedInStep
  <2> QED
    BY <2>1, <2>2, <2>3
<1>8. Framed(p)'
  <2>1. ~torn'[p] =>
          InSync(sent[p], received[e], stream[p], call[p], open[p], NoCall)
    <3>1. SUFFICES ASSUME ~torn'[p]
                   PROVE  InSync(sent[p], received[e], stream[p], call[p],
                                 open[p], NoCall)
      OBVIOUS
    <3>2. InSync(sent[p], received[e], stream[p], call[p], open[p], call[e])
      BY <1>2, <1>3, <1>5, <3>1
    <3> QED
      BY <1>4, <1>6, <3>1, <3>2, SyncReceiverIdle
  <2> QED
    BY <1>1, <1>2, <1>3, <1>4, <1>5, <2>1, FramedReader
<1> QED
  BY <1>1, <1>2, <1>3, <1>4, <1>5, <1>7, <1>8, CallSocketInv
     DEF SocketInv, SocketMaps

(* Ends are closed.                                                        *)
LEMMA CloseSocketInv ==
    ASSUME SocketInv, NEW S, Close(S), attempts' = attempts
    PROVE  SocketInv'
<1> DEFINE still == {e \in Ends : open[e]} \ S
           alive(e) == e \in still \/ Peer(e) \in still
<1>1. /\ open' = [e \in Ends |-> e \in still]
      /\ call' = [e \in Ends |-> IF e \in S THEN NoCall ELSE call[e]]
      /\ stream' = [e \in Ends |-> IF alive(e) THEN stream[e] ELSE <<>>]
      /\ sent' = [e \in Ends |-> IF alive(e) THEN sent[e] ELSE <<>>]
      /\ received' = [e \in Ends |-> IF alive(e) THEN received[e] ELSE <<>>]
      /\ torn' = [e \in Ends |-> IF alive(e) THEN torn[e] ELSE FALSE]
      /\ refused' = [e \in Ends |-> IF alive(e) THEN refused[e] ELSE FALSE]
  BY DEF Close
<1>2. ASSUME NEW e \in Ends
      PROVE  /\ e \in still <=> open[e] /\ e \notin S
             /\ open'[e] <=> e \in still
             /\ open'[e] \in BOOLEAN
             /\ e \in S => call'[e] = NoCall
             /\ e \notin S => call'[e] = call[e]
             /\ alive(e) => /\ stream'[e] = stream[e] /\ sent'[e] = sent[e]
                            /\ received'[e] = received[e]
                            /\ torn'[e] = torn[e] /\ refused'[e] = refused[e]
             /\ ~alive(e) => Emptied(e)'
  <2>1. e \in still <=> open[e] /\ e \notin S
    OBVIOUS
  <2> HIDE DEF still
  <2>2. (open'[e] <=> e \in still) /\ open'[e] \in BOOLEAN
    <3>1. open'[e] = (e \in still)
      BY <1>1, Zenon
    <3>2. CASE e \in still
      BY <3>1, <3>2
    <3>3. CASE e \notin still
      <4>1. (e \in still) = FALSE
        BY <3>3
      <4>2. open'[e] = FALSE
        BY <3>1, <4>1, Zenon
      <4> QED
        BY <3>3, <4>2
    <3> QED
      BY <3>2, <3>3
  <2>3. (e \in S => call'[e] = NoCall) /\ (e \notin S => call'[e] = call[e])
    BY <1>1
  <2>4. CASE alive(e)
    BY <1>1, <2>1, <2>2, <2>3, <2>4
  <2>5. CASE ~alive(e)
    <3>1. Emptied(e)'
      BY <1>1, <2>5 DEF Emptied
    <3> QED
      BY <2>1, <2>2, <2>3, <2>5, <3>1
  <2> QED
    BY <2>4, <2>5
<1>3. SocketMaps'
  <2>1. ASSUME NEW e \in Ends
        PROVE  DOMAIN call'[e] = {"op", "left", "body", "want"}
    <3>1. DOMAIN NoCall = {"op", "left", "body", "want"}
      BY DEF NoCall
    <3> QED
      BY <1>2, <3>1 DEF SocketInv, SocketMaps
  <2>2. torn' \in [Ends -> BOOLEAN] /\ refused' \in [Ends -> BOOLEAN]
    <3> HIDE DEF still
    <3> QED
      BY <1>1 DEF SocketInv, SocketMaps
  <2>3. open' \in [Ends -> BOOLEAN]
    BY <1>1
  <2>4. /\ DOMAIN stream' = Ends /\ DOMAIN call' = Ends
        /\ DOMAIN sent' = Ends /\ DOMAIN received' = Ends
    BY <1>1
  <2> QED
    BY <2>1, <2>2, <2>3, <2>4 DEF SocketMaps
<1> HIDE DEF still
<1>4. ClosedIsEmpty'
  <2>1. SUFFICES ASSUME NEW f \in Ends
                 PROVE  /\ ~open'[f] => call'[f].op = "idle"
                        /\ ~open'[f] /\ ~open'[Peer(f)] => Emptied(f)'
                        /\ attempts'[f[1]] < MaxAttempts => ~open'[f]
    BY DEF ClosedIsEmpty
  <2>2. ~open'[f] => call'[f].op = "idle"
    BY <1>2 DEF SocketInv, ClosedIsEmpty, NoCall
  <2>3. ~open'[f] /\ ~open'[Peer(f)] => Emptied(f)'
    BY <1>2, Peers
  <2>4. attempts'[f[1]] < MaxAttempts => ~open'[f]
    BY <1>2 DEF SocketInv, ClosedIsEmpty
  <2> QED
    BY <2>2, <2>3, <2>4
<1>5. ASSUME NEW f \in Ends PROVE Framed(f)'
  <2>1. Peer(f) \in Ends /\ Peer(Peer(f)) = f
    BY Peers
  <2>2. CASE ~alive(f)
    <3>1. Emptied(f)' /\ Emptied(Peer(f))' /\ ~open'[Peer(f)]
      BY <1>2, <2>1, <2>2
    <3>2. IsPrefix(<<>>, <<>>)
      BY DEF IsPrefix
    <3> QED
      BY <3>1, <3>2 DEF Framed, Emptied
  <2>3. CASE alive(f)
    <3>1. /\ stream'[f] = stream[f] /\ sent'[f] = sent[f] /\ torn'[f] = torn[f]
          /\ received'[Peer(f)] = received[Peer(f)]
          /\ refused'[Peer(f)] = refused[Peer(f)]
      BY <1>2, <2>1, <2>3
    <3>2. Framed(f)
      BY DEF SocketInv
    <3>3. CASE Peer(f) \notin still
      BY <1>2, <2>1, <3>1, <3>2, <3>3, FramedUnread
    <3>4. CASE Peer(f) \in still /\ torn[f]
      BY <3>1, <3>4 DEF Framed
    <3>5. CASE Peer(f) \in still /\ ~torn[f]
      <4>1. open[Peer(f)] /\ call'[Peer(f)] = call[Peer(f)]
        BY <1>2, <2>1, <3>5
      <4>2. InSync(sent[f], received[Peer(f)], stream[f], call[f], open[f],
                   call[Peer(f)])
        BY <3>2, <3>5, <4>1 DEF Framed, InStep
      <4>3. InSync(sent[f], received[Peer(f)], stream[f], call'[f], open'[f],
                   call[Peer(f)])
        <5>1. CASE f \in S
          <6>1. ~open'[f] /\ call'[f].op = "idle"
            BY <1>2, <5>1 DEF NoCall
          <6> QED
            BY <4>2, <6>1, SyncSenderIdle
        <5>2. CASE f \notin S
          <6>1. open[f] \in BOOLEAN
            BY DEF SocketInv, SocketMaps
          <6>2. open'[f] = open[f] /\ call'[f] = call[f]
            BY <1>2, <5>2, <6>1
          <6> QED
            BY <4>2, <6>2
        <5> QED
          BY <5>1, <5>2
      <4>4. InStep(f)'
        BY <3>1, <4>1, <4>3 DEF InStep
      <4>5. ~refused'[Peer(f)]
        BY <3>1, <3>2, <3>5 DEF Framed
      <4> QED
        BY <4>4, <4>5, FramedInStep
    <3> QED
      BY <3>3, <3>4, <3>5
  <2> QED
    BY <2>2, <2>3
<1> QED
  BY <1>3, <1>4, <1>5 DEF SocketInv

(* A connection is made, from nothing.                                     *)
LEMMA ConnectSocketInv ==
    ASSUME SocketInv, attempts \in [Conns -> Nat],
           NEW c \in Conns, Connect(c)
    PROVE  SocketInv'
<1>1. /\ attempts[c] < MaxAttempts
      /\ open' = [e \in Ends |-> open[e] \/ e[1] = c]
      /\ stream' = stream /\ call' = call /\ sent' = sent
      /\ received' = received /\ torn' = torn /\ refused' = refused
      /\ attempts' = [attempts EXCEPT ![c] = MaxAttempts]
  BY DEF Connect, Open
<1>2. ASSUME NEW f \in Ends
      PROVE  /\ Peer(f) \in Ends /\ Peer(f)[1] = f[1] /\ f[1] \in Conns
             /\ f[1] = c => ~open[f] /\ open'[f]
             /\ f[1] # c => open'[f] = open[f]
  <2>1. Peer(f) \in Ends /\ Peer(f)[1] = f[1] /\ f[1] \in Conns
    BY Peers
  <2>2. open[f] \in BOOLEAN /\ (f[1] = c => ~open[f])
    BY <1>1 DEF SocketInv, SocketMaps, ClosedIsEmpty
  <2>3. open'[f] = (open[f] \/ f[1] = c)
    BY <1>1
  <2> QED
    BY <2>1, <2>2, <2>3
<1>3. SocketMaps'
  <2>1. open' \in [Ends -> BOOLEAN]
    BY <1>1
  <2> QED
    BY <1>1, <2>1 DEF SocketInv, SocketMaps
<1>4. ClosedIsEmpty'
  <2>1. SUFFICES ASSUME NEW f \in Ends
                 PROVE  /\ ~open'[f] => call'[f].op = "idle"
                        /\ ~open'[f] /\ ~open'[Peer(f)] => Emptied(f)'
                        /\ attempts'[f[1]] < MaxAttempts => ~open'[f]
    BY DEF ClosedIsEmpty
  <2>2. /\ ~open[f] => call[f].op = "idle"
        /\ ~open[f] /\ ~open[Peer(f)] => Emptied(f)
        /\ attempts[f[1]] < MaxAttempts => ~open[f]
    BY DEF SocketInv, ClosedIsEmpty
  <2>3. Emptied(f) => Emptied(f)'
    BY <1>1 DEF Emptied
  <2>4. CASE f[1] = c
    <3>1. open'[f] /\ ~(attempts'[f[1]] < MaxAttempts)
      BY <1>1, <1>2, <2>4, IpcServerAssumption
    <3> QED
      BY <3>1
  <2>5. CASE f[1] # c
    <3>1. /\ open'[f] = open[f] /\ open'[Peer(f)] = open[Peer(f)]
          /\ attempts'[f[1]] = attempts[f[1]] /\ call'[f] = call[f]
      BY <1>1, <1>2, <2>5
    <3> QED
      BY <2>2, <2>3, <3>1
  <2> QED
    BY <2>4, <2>5
<1>5. ASSUME NEW f \in Ends PROVE Framed(f)'
  <2>1. CASE f[1] # c
    <3>1. open'[f] = open[f] /\ open'[Peer(f)] = open[Peer(f)]
      BY <1>2, <2>1
    <3> QED
      BY <1>1, <3>1, FramedKept DEF SocketInv
  <2>2. CASE f[1] = c
    <3>1. ~open[f] /\ ~open[Peer(f)] /\ Peer(Peer(f)) = f
      BY <1>2, <2>2, Peers
    <3>2. Emptied(f) /\ Emptied(Peer(f))
      BY <1>2, <3>1 DEF SocketInv, ClosedIsEmpty
    <3>3. call[f].op = "idle" /\ call[Peer(f)].op = "idle"
      BY <1>2, <3>1 DEF SocketInv, ClosedIsEmpty
    <3>4. InSync(<<>>, <<>>, <<>>, call[f], open'[f], call[Peer(f)])
      BY <3>3, SyncInit
    <3>5. InStep(f)'
      BY <1>1, <3>2, <3>4 DEF InStep, Emptied
    <3>6. ~refused'[Peer(f)]
      BY <1>1, <3>2 DEF Emptied
    <3> QED
      BY <3>5, <3>6, FramedInStep
  <2> QED
    BY <2>1, <2>2
<1> QED
  BY <1>3, <1>4, <1>5 DEF SocketInv

(* The whole of the next-state relation.                                   *)
LEMMA NextSocketInv ==
    ASSUME SocketInv, attempts \in [Conns -> Nat],
           [Next]_vars
    PROVE  SocketInv'
<1>1. CASE UNCHANGED vars
  BY <1>1, OtherSocketInv DEF vars
<1>2. ASSUME NEW s \in Servers,
             \/ StartLocks(s) \/ StartUnlinks(s) \/ StartBindFails(s)
             \/ StartBinds(s) \/ StartListens(s) \/ StartFailsLate(s)
             \/ StartCommits(s) \/ Unlinks(s) \/ Unlocks(s) \/ Crash(s)
             \/ Accept(s)
      PROVE  SocketInv'
  <2>1. UNCHANGED socketVars /\ attempts' = attempts
    BY <1>2 DEF StartLocks, StartUnlinks, StartBindFails, StartBinds,
                StartListens, StartFailsLate, StartCommits, Unlinks, Unlocks,
                Crash, Accept
  <2> QED
    BY <2>1, OtherSocketInv
<1>3. ASSUME NEW s \in Servers,
             \/ StopsClient(s) \/ ClosesListener(s) \/ CrashCloses(s)
             \/ AcceptFails(s) \/ Disconnect(s)
      PROVE  SocketInv'
  <2>1. attempts' = attempts /\ \E S : Close(S)
    BY <1>3 DEF StopsClient, ClosesListener, CrashCloses, AcceptFails,
                Disconnect
  <2> QED
    BY <2>1, CloseSocketInv
<1>4. ASSUME NEW c \in Conns, Connect(c) PROVE SocketInv'
  BY <1>4, ConnectSocketInv
<1>5. ASSUME NEW c \in Conns, ConnectFails(c) PROVE SocketInv'
  <2>1. /\ UNCHANGED socketVars
        /\ attempts' = [attempts EXCEPT ![c] = @ + 1]
    BY <1>5 DEF ConnectFails
  <2>2. \A d \in Conns : attempts'[d] < MaxAttempts => attempts[d] < MaxAttempts
    BY <2>1, IpcServerAssumption
  <2> QED
    BY <2>1, <2>2, OtherSocketInv
<1>6. ASSUME NEW c \in Conns, ClientEnds(c) PROVE SocketInv'
  BY <1>6, CloseSocketInv DEF ClientEnds
<1>7. ASSUME NEW e \in Ends, BeginCall(e) PROVE SocketInv'
  <2>1. attempts' = attempts /\ (Recv(e) \/ \E m \in Messages : Send(e, m))
    BY <1>7 DEF BeginCall, InSocket
  <2> QED
    BY <2>1, RecvSocketInv, SendSocketInv
<1>8. ASSUME NEW e \in Ends, ContinueCall(e) PROVE SocketInv'
  <2>1. attempts' = attempts /\ (Write(e) \/ Read(e) \/ GiveUp(e))
    BY <1>8 DEF ContinueCall, InSocket, CallStep
  <2> QED
    BY <2>1, WriteSocketInv, ReadSocketInv, GiveUpSocketInv
<1> QED
  BY <1>1, <1>2, <1>3, <1>4, <1>5, <1>6, <1>7, <1>8 DEF Next, ServerStep

(* The framing of every stream: see SocketInv.                             *)
THEOREM SocketInvariance == Spec => []SocketInv
<1>1. Inv => attempts \in [Conns -> Nat]
  BY DEF Inv, Types
<1>2. Inv /\ SocketInv /\ [Next]_vars => SocketInv'
  BY <1>1, NextSocketInv
<1> QED
  BY <1>2, InitSocketInv, Invariance, PTL DEF Spec

(* What Recv returns is what Send was given, for messages of any number    *)
(* and any length that the header can tell, cut anywhere by buffers of any *)
(* size, with both ends sending at once and either closing at any time:    *)
(* see WholeMessages.                                                      *)
THEOREM MessagesArriveWhole == Spec => []WholeMessages
<1>1. ASSUME SocketInv, NEW e \in Ends, ~torn[e]
      PROVE  /\ IsPrefix(received[Peer(e)], sent[e])
             /\ ~refused[Peer(e)]
             /\ (stream[e] = <<>> /\ Idle(e) /\ Idle(Peer(e))
                    /\ open[e] /\ open[Peer(e)])
                   => received[Peer(e)] = sent[e]
  <2>1. Framed(e)
    BY <1>1 DEF SocketInv
  <2>2. ASSUME stream[e] = <<>>, Idle(e), Idle(Peer(e)), open[e], open[Peer(e)]
        PROVE  received[Peer(e)] = sent[e]
    <3>1. InSync(sent[e], received[Peer(e)], stream[e], call[e], open[e],
                 call[Peer(e)])
      BY <1>1, <2>1, <2>2 DEF Framed, InStep
    <3>2. call[e].op = "idle" /\ call[Peer(e)].op = "idle"
      BY <2>2 DEF Idle
    <3> QED
      BY <2>2, <3>1, <3>2, SyncEmpty
  <2> QED
    BY <1>1, <2>1, <2>2 DEF Framed
<1>2. SocketInv => WholeMessages
  BY <1>1 DEF WholeMessages
<1> QED
  BY <1>2, SocketInvariance, PTL
=============================================================================
