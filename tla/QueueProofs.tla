----------------------------- MODULE QueueProofs -----------------------------
(***************************************************************************)
(* The safety of Queue for any number of threads, any payloads and any     *)
(* capacity: the type invariant, the four safety invariants that the runs  *)
(* check, and that Queue implements FifoLog.                               *)
(***************************************************************************)
EXTENDS Queue, SequenceTheorems, FiniteSetTheorems, TLAPS

-----------------------------------------------------------------------------
(* Sequences: what Push, Pop and an IMMEDIATE Shutdown do to the           *)
(* decomposition pushed = taken \o items.                                  *)

(* Appending to the second part appends to the whole.                      *)
LEMMA ConcatAppend ==
    ASSUME NEW S, NEW s \in Seq(S), NEW t \in Seq(S), NEW e \in S
    PROVE  s \o Append(t, e) = Append(s \o t, e)
<1>1. <<e>> \in Seq(S)
  OBVIOUS
<1>2. /\ Append(t, e) = t \o <<e>>
      /\ s \o t \in Seq(S)
  BY AppendIsConcat, ConcatProperties
<1>3. Append(s \o t, e) = (s \o t) \o <<e>>
  BY <1>2, AppendIsConcat
<1> QED
  BY <1>1, <1>2, <1>3, ConcatAssociative

(* Moving the head of the second part to the first keeps the whole.        *)
LEMMA ConcatShift ==
    ASSUME NEW S, NEW s \in Seq(S), NEW t \in Seq(S), t # <<>>
    PROVE  Append(s, Head(t)) \o Tail(t) = s \o t
<1>1. /\ Head(t) \in S
      /\ Tail(t) \in Seq(S)
      /\ <<Head(t)>> \in Seq(S)
  BY HeadTailProperties
<1>2. <<Head(t)>> \o Tail(t) = t
  BY <1>1, SMTT(30)
<1>3. Append(s, Head(t)) = s \o <<Head(t)>>
  BY <1>1, AppendIsConcat
<1> QED
  BY <1>1, <1>2, <1>3, ConcatAssociative

(* The first part is a prefix of the whole.                                *)
LEMMA ConcatPrefix ==
    ASSUME NEW S, NEW s \in Seq(S), NEW t \in Seq(S)
    PROVE  /\ Len(s) <= Len(s \o t)
           /\ s = SubSeq(s \o t, 1, Len(s))
<1>1. /\ s \o t \in Seq(S)
      /\ Len(s \o t) = Len(s) + Len(t)
      /\ Len(s) \in Nat
      /\ Len(t) \in Nat
      /\ \A i \in 1..Len(s) : (s \o t)[i] = s[i]
  BY ConcatProperties, LenProperties
<1>2. \A i \in 1..Len(s) : s[i] \in S
  BY ElementOfSeq
<1> DEFINE u == SubSeq(s \o t, 1, Len(s))
<1>3. /\ u \in Seq(S)
      /\ Len(u) = Len(s)
      /\ \A i \in 1..Len(s) : u[i] = s[i]
  BY <1>1, <1>2, SubSeqProperties
<1>4. s = u
  <2> HIDE DEF u
  <2> QED
    BY <1>3, SeqEqual
<1> QED
  BY <1>1, <1>4

-----------------------------------------------------------------------------
(* The inductive invariant.                                                *)

(* A producer inside a call that waits holds the item it offers, so that   *)
(* what it moves in when it wakes up is a payload.                         *)
OffersItem == \A p \in Producers : pc[p] # "idle" => arg[p] \in Items

Inv ==
    /\ TypeOK
    /\ OffersItem
    /\ NoLostWakeup
    /\ DrainHasWork
    /\ EndOfStreamIsFinal
    /\ FifoOrder

-----------------------------------------------------------------------------
(* Types.                                                                  *)

(* Init gives every variable its type.                                     *)
LEMMA InitTypeOK == Init => TypeOK
<1> SUFFICES ASSUME Init PROVE TypeOK
  OBVIOUS
<1>1. Len(<<>>) = 0 /\ <<>> \in Seq(Items)
  OBVIOUS
<1> QED
  BY <1>1, QueueAssumption DEF Init, TypeOK

(* Accepting an item under HasRoom keeps the queue within its capacity.    *)
LEMMA PushReturnType ==
    ASSUME TypeOK, NEW p \in Producers, NEW v \in Items, PushReady,
           PushReturn(p, v)
    PROVE  TypeOK'
<1>1. p \in Threads
  BY DEF Threads
<1>2. CASE ~Accepts
  BY <1>1, <1>2 DEF PushReturn, Return, TypeOK
<1>3. CASE Accepts
  <2>1. HasRoom
    BY <1>3 DEF Accepts, PushReady
  <2>2. PICK W : Return(p, "SUCCESS", W)
    BY <1>3 DEF PushReturn
  <2>3. /\ items' = Append(items, v)
        /\ pushed' = Append(pushed, v)
        /\ arg' = [arg EXCEPT ![p] = NoItem]
        /\ UNCHANGED <<state, timed, taken>>
    BY <1>3 DEF PushReturn, Enqueue
  <2>4. /\ items' \in Seq(Items)
        /\ Len(items') = Len(items) + 1
        /\ Len(items) \in Nat
        /\ pushed' \in Seq(Items)
    BY <2>3, AppendProperties, LenProperties DEF TypeOK
  <2>5. Len(items') <= capacity
    BY <2>1, <2>4, QueueAssumption DEF HasRoom
  <2> QED
    BY <1>1, <2>2, <2>3, <2>4, <2>5 DEF Return, TypeOK
<1> QED
  BY <1>2, <1>3

(* Handing out the head shrinks the queue.                                 *)
LEMMA PopReturnType ==
    ASSUME TypeOK, NEW c \in Consumers, PopReturn(c)
    PROVE  TypeOK'
<1>1. c \in Threads
  BY DEF Threads
<1>2. CASE items = <<>>
  BY <1>1, <1>2 DEF PopReturn, PopSeesItem, Return, TypeOK
<1>3. CASE items # <<>>
  <2>1. PICK W : Return(c, "SUCCESS", W)
    BY <1>3 DEF PopReturn, PopSeesItem
  <2>2. /\ taken' = Append(taken, Head(items))
        /\ items' = Tail(items)
        /\ state' \in {"SHUTDOWN", state}
        /\ timed' = [timed EXCEPT ![c] = FALSE]
        /\ UNCHANGED <<arg, pushed>>
    BY <1>3 DEF PopReturn, PopSeesItem
  <2>3. /\ Head(items) \in Items
        /\ items' \in Seq(Items)
        /\ Len(items') = Len(items) - 1
        /\ Len(items) \in Nat
    BY <1>3, <2>2, HeadTailProperties, LenProperties DEF TypeOK
  <2>4. taken' \in Seq(Items)
    BY <2>2, <2>3, AppendProperties DEF TypeOK
  <2>5. Len(items') <= capacity
    BY <2>3, QueueAssumption DEF TypeOK
  <2> QED
    BY <1>1, <2>1, <2>2, <2>3, <2>4, <2>5 DEF Return, TypeOK
<1> QED
  BY <1>2, <1>3

-----------------------------------------------------------------------------
(* No lost wakeups.                                                        *)

(* The released threads of a finite set can be counted.                    *)
LEMMA CountReleased ==
    ASSUME NEW f, NEW S, IsFiniteSet(S)
    PROVE  LET R == {t \in S : f[t] = "signalled"}
           IN  IsFiniteSet(R) /\ Cardinality(R) \in Nat
  BY FS_Subset, FS_CardinalityType

(* One thread joins the released ones: their number grows by one.          *)
LEMMA ReleaseOne ==
    ASSUME NEW f, NEW g, NEW S, IsFiniteSet(S), NEW w \in S,
           f[w] # "signalled", g[w] = "signalled",
           \A t \in S : t # w => g[t] = f[t]
    PROVE  Cardinality({t \in S : g[t] = "signalled"}) =
               Cardinality({t \in S : f[t] = "signalled"}) + 1
<1> DEFINE F == {t \in S : f[t] = "signalled"}
           G == {t \in S : g[t] = "signalled"}
<1>1. G = F \cup {w} /\ w \notin F
  OBVIOUS
<1>2. IsFiniteSet(F)
  BY CountReleased
<1> QED
  BY <1>1, <1>2, FS_AddElement

(* One thread leaves the released ones: their number drops by at most one. *)
LEMMA LeaveOne ==
    ASSUME NEW f, NEW g, NEW S, IsFiniteSet(S), NEW w,
           g[w] # "signalled",
           \A t \in S : t # w => g[t] = f[t]
    PROVE  Cardinality({t \in S : g[t] = "signalled"}) >=
               Cardinality({t \in S : f[t] = "signalled"}) - 1
<1> DEFINE F == {t \in S : f[t] = "signalled"}
           G == {t \in S : g[t] = "signalled"}
<1>1. G = F \ {w}
  OBVIOUS
<1>2. IsFiniteSet(F) /\ Cardinality(F) \in Nat
  BY CountReleased
<1>3. Cardinality(F \ {w}) = IF w \in F THEN Cardinality(F) - 1 ELSE Cardinality(F)
  BY <1>2, FS_RemoveElement
<1>4. Cardinality(G) >= Cardinality(F) - 1
  <2> HIDE DEF F, G
  <2> QED
    BY <1>1, <1>2, <1>3
<1> QED
  BY <1>4

(* More threads are released: their number does not drop.                  *)
LEMMA ReleaseMore ==
    ASSUME NEW f, NEW g, NEW S, IsFiniteSet(S),
           \A t \in S : f[t] = "signalled" => g[t] = "signalled"
    PROVE  Cardinality({t \in S : f[t] = "signalled"}) <=
               Cardinality({t \in S : g[t] = "signalled"})
<1> DEFINE F == {t \in S : f[t] = "signalled"}
           G == {t \in S : g[t] = "signalled"}
<1>1. IsFiniteSet(G) /\ F \in SUBSET G
  BY CountReleased
<1> QED
  BY <1>1, FS_Subset

(* An accepted item releases a consumer if one is parked, and the producer *)
(* that took the slot is not needed for it any more.                       *)
LEMMA PushReturnWakeup ==
    ASSUME TypeOK, NoLostWakeup, NEW p \in Producers, NEW v \in Items,
           PushReady, PushReturn(p, v)
    PROVE  NoLostWakeup'
<1>1. /\ p \in Threads
      /\ p \notin Consumers
      /\ Producers \subseteq Threads
      /\ Consumers \subseteq Threads
  BY QueueAssumption DEF Threads
<1>2. CASE ~Accepts
  <2>1. Blocked(Threads) = {} /\ state' = state
    BY <1>2 DEF NoLostWakeup, Accepts, PushReturn
  <2>2. \A t \in Threads : pc'[t] \in {pc[t], "idle"}
    BY <1>1, <1>2 DEF PushReturn, Return
  <2>3. /\ Blocked(Threads)' = {}
        /\ Blocked(Consumers)' = {}
        /\ Blocked(Producers)' = {}
    BY <1>1, <2>1, <2>2 DEF Blocked
  <2> QED
    BY <2>3 DEF NoLostWakeup
<1>3. CASE Accepts
  <2>1. PICK W \in NotifyOne(Consumers) : Return(p, "SUCCESS", W)
    BY <1>3 DEF PushReturn
  <2>2. /\ Len(items') = Len(items) + 1
        /\ Len(items) \in Nat
        /\ capacity \in Nat
    BY <1>3, AppendProperties, LenProperties, QueueAssumption
       DEF PushReturn, Enqueue, TypeOK
  <2>3. W \subseteq Consumers
    BY <2>1 DEF NotifyOne, Waiting
  <2>4. pc' = [q \in Threads |-> IF q = p THEN "idle"
                  ELSE IF q \in W THEN "signalled" ELSE pc[q]]
    BY <2>1 DEF Return
  <2>5. Blocked(Consumers)' # {} =>
            Len(items') <= Cardinality(Signalled(Consumers)')
    <3> SUFFICES ASSUME NEW b \in Consumers, pc'[b] = "blocked"
                 PROVE  Len(items') <= Cardinality(Signalled(Consumers)')
      BY DEF Blocked
    <3>1. pc[b] = "blocked" /\ b \in Waiting(Consumers)
      BY <1>1, <2>4 DEF Waiting
    <3>2. PICK w \in Waiting(Consumers) : W = {w}
      BY <2>1, <3>1 DEF NotifyOne
    <3>3. Cardinality(Signalled(Consumers)') = Cardinality(Signalled(Consumers)) + 1
      <4>1. /\ w \in Consumers
            /\ pc[w] # "signalled"
            /\ pc'[w] = "signalled"
            /\ \A t \in Consumers : t # w => pc'[t] = pc[t]
        BY <1>1, <2>4, <3>2 DEF Waiting
      <4> QED
        BY <4>1, ReleaseOne, QueueAssumption DEF Signalled
    <3>4. Len(items) <= Cardinality(Signalled(Consumers))
      BY <3>1 DEF NoLostWakeup, Blocked
    <3>5. Cardinality(Signalled(Consumers)) \in Nat
      BY CountReleased, QueueAssumption DEF Signalled
    <3> QED
      BY <2>2, <3>3, <3>4, <3>5
  <2>6. Blocked(Producers)' # {} =>
            capacity - Len(items') <= Cardinality(Signalled(Producers)')
    <3> SUFFICES ASSUME NEW b \in Producers, pc'[b] = "blocked"
                 PROVE  capacity - Len(items') <= Cardinality(Signalled(Producers)')
      BY DEF Blocked
    <3>1. \A t \in Producers : t # p => pc'[t] = pc[t]
      BY <1>1, <2>3, <2>4, QueueAssumption
    <3>2. pc'[p] = "idle" /\ pc[b] = "blocked"
      BY <1>1, <2>4, <3>1
    <3>3. Cardinality(Signalled(Producers)') >= Cardinality(Signalled(Producers)) - 1
      <4>1. IsFiniteSet(Producers) /\ pc'[p] # "signalled"
        BY <3>2, QueueAssumption
      <4> QED
        BY <3>1, <4>1, LeaveOne DEF Signalled
    <3>4. capacity - Len(items) <= Cardinality(Signalled(Producers))
      BY <3>2 DEF NoLostWakeup, Blocked
    <3>5. /\ Cardinality(Signalled(Producers)) \in Nat
          /\ Cardinality(Signalled(Producers)') \in Nat
      BY CountReleased, QueueAssumption DEF Signalled
    <3> QED
      BY <2>2, <3>3, <3>4, <3>5
  <2>7. state' = "RUNNING"
    BY <1>3 DEF PushReturn, Accepts
  <2> QED
    BY <2>5, <2>6, <2>7 DEF NoLostWakeup
<1> QED
  BY <1>2, <1>3

(* A taken item releases a producer if one is parked, and the consumer     *)
(* that took it is not needed for it any more; the last item of a drain    *)
(* releases everybody.                                                     *)
LEMMA PopReturnWakeup ==
    ASSUME TypeOK, NoLostWakeup, NEW c \in Consumers, PopReady, PopReturn(c)
    PROVE  NoLostWakeup'
<1>1. /\ c \in Threads
      /\ c \notin Producers
      /\ Producers \subseteq Threads
      /\ Consumers \subseteq Threads
  BY QueueAssumption DEF Threads
<1>2. CASE state # "RUNNING"
  <2>1. Blocked(Threads) = {}
    BY <1>2 DEF NoLostWakeup
  <2>2. PICK r, W : Return(c, r, W)
    BY DEF PopReturn
  <2>3. \A t \in Threads : pc'[t] \in {pc[t], "idle", "signalled"}
    BY <1>1, <2>2 DEF Return
  <2>4. /\ Blocked(Threads)' = {}
        /\ Blocked(Consumers)' = {}
        /\ Blocked(Producers)' = {}
    BY <1>1, <2>1, <2>3 DEF Blocked
  <2> QED
    BY <2>4 DEF NoLostWakeup
<1>3. CASE state = "RUNNING"
  <2>1. items # <<>> /\ ~LastOfDrain
    BY <1>3 DEF PopReady, LastOfDrain
  <2>2. PICK W \in NotifyOne(Producers) : Return(c, "SUCCESS", W)
    BY <2>1 DEF PopReturn, PopSeesItem
  <2>3. /\ Len(items') = Len(items) - 1
        /\ Len(items) \in Nat
        /\ capacity \in Nat
    BY <2>1, HeadTailProperties, LenProperties, QueueAssumption
       DEF PopReturn, PopSeesItem, TypeOK
  <2>4. W \subseteq Producers
    BY <2>2 DEF NotifyOne, Waiting
  <2>5. pc' = [q \in Threads |-> IF q = c THEN "idle"
                  ELSE IF q \in W THEN "signalled" ELSE pc[q]]
    BY <2>2 DEF Return
  <2>6. Blocked(Consumers)' # {} =>
            Len(items') <= Cardinality(Signalled(Consumers)')
    <3> SUFFICES ASSUME NEW b \in Consumers, pc'[b] = "blocked"
                 PROVE  Len(items') <= Cardinality(Signalled(Consumers)')
      BY DEF Blocked
    <3>1. \A t \in Consumers : t # c => pc'[t] = pc[t]
      BY <1>1, <2>4, <2>5, QueueAssumption
    <3>2. pc'[c] = "idle" /\ pc[b] = "blocked"
      BY <1>1, <2>5, <3>1
    <3>3. Cardinality(Signalled(Consumers)') >= Cardinality(Signalled(Consumers)) - 1
      <4>1. IsFiniteSet(Consumers) /\ pc'[c] # "signalled"
        BY <3>2, QueueAssumption
      <4> QED
        BY <3>1, <4>1, LeaveOne DEF Signalled
    <3>4. Len(items) <= Cardinality(Signalled(Consumers))
      BY <3>2 DEF NoLostWakeup, Blocked
    <3>5. /\ Cardinality(Signalled(Consumers)) \in Nat
          /\ Cardinality(Signalled(Consumers)') \in Nat
      BY CountReleased, QueueAssumption DEF Signalled
    <3> QED
      BY <2>3, <3>3, <3>4, <3>5
  <2>7. Blocked(Producers)' # {} =>
            capacity - Len(items') <= Cardinality(Signalled(Producers)')
    <3> SUFFICES ASSUME NEW b \in Producers, pc'[b] = "blocked"
                 PROVE  capacity - Len(items') <= Cardinality(Signalled(Producers)')
      BY DEF Blocked
    <3>1. pc[b] = "blocked" /\ b \in Waiting(Producers)
      BY <1>1, <2>5 DEF Waiting
    <3>2. PICK w \in Waiting(Producers) : W = {w}
      BY <2>2, <3>1 DEF NotifyOne
    <3>3. Cardinality(Signalled(Producers)') = Cardinality(Signalled(Producers)) + 1
      <4>1. /\ w \in Producers
            /\ pc[w] # "signalled"
            /\ pc'[w] = "signalled"
            /\ \A t \in Producers : t # w => pc'[t] = pc[t]
        BY <1>1, <2>5, <3>2 DEF Waiting
      <4> QED
        BY <4>1, ReleaseOne, QueueAssumption DEF Signalled
    <3>4. capacity - Len(items) <= Cardinality(Signalled(Producers))
      BY <3>1 DEF NoLostWakeup, Blocked
    <3>5. Cardinality(Signalled(Producers)) \in Nat
      BY CountReleased, QueueAssumption DEF Signalled
    <3> QED
      BY <2>3, <3>3, <3>4, <3>5
  <2>8. state' = "RUNNING"
    BY <1>3, <2>1 DEF PopReturn, PopSeesItem
  <2> QED
    BY <2>6, <2>7, <2>8 DEF NoLostWakeup
<1> QED
  BY <1>2, <1>3

(* A step that leaves the items and the state alone, parks at most a       *)
(* thread whose predicate is false and releases whom it likes, loses no    *)
(* wakeup: Block, Expire, SpuriousWakeup and a refused or timed-out call.  *)
LEMMA QuietWakeup ==
    ASSUME TypeOK, TypeOK', NoLostWakeup, UNCHANGED <<items, state>>,
           NEW t \in Threads,
           \A q \in Threads : q # t => pc'[q] = pc[q],
           pc'[t] = "blocked" =>
               IF t \in Producers THEN ~PushReady ELSE ~PopReady,
           pc[t] = "signalled" => pc'[t] = "blocked"
    PROVE  NoLostWakeup'
<1>1. /\ Producers \subseteq Threads
      /\ Consumers \subseteq Threads
      /\ t \in Consumers => t \notin Producers
      /\ capacity \in Nat
      /\ Len(items) \in Nat
      /\ items = <<>> => Len(items) = 0
  BY QueueAssumption, LenProperties DEF Threads, TypeOK
<1>2. ASSUME NEW S \in SUBSET Threads, IsFiniteSet(S),
             t \in S => pc'[t] # "blocked"
      PROVE  /\ Blocked(S)' # {} => Blocked(S) # {}
             /\ Cardinality(Signalled(S)) <= Cardinality(Signalled(S)')
  <2>1. Blocked(S)' # {} => Blocked(S) # {}
    BY <1>2 DEF Blocked
  <2>2. \A q \in S : pc[q] = "signalled" => pc'[q] = "signalled"
    BY <1>2
  <2> QED
    BY <1>2, <2>1, <2>2, ReleaseMore DEF Signalled
<1>3. /\ Cardinality(Signalled(Consumers)) \in Nat
      /\ Cardinality(Signalled(Producers)) \in Nat
      /\ Cardinality(Signalled(Consumers)') \in Nat
      /\ Cardinality(Signalled(Producers)') \in Nat
  BY CountReleased, QueueAssumption DEF Signalled
<1>4. Blocked(Consumers)' # {} =>
          Len(items') <= Cardinality(Signalled(Consumers)')
  <2>1. CASE t \in Consumers /\ pc'[t] = "blocked"
    BY <1>1, <1>3, <2>1 DEF PopReady
  <2>2. CASE ~(t \in Consumers /\ pc'[t] = "blocked")
    BY <1>1, <1>2, <1>3, <2>2, QueueAssumption DEF NoLostWakeup
  <2> QED
    BY <2>1, <2>2
<1>5. Blocked(Producers)' # {} =>
          capacity - Len(items') <= Cardinality(Signalled(Producers)')
  <2>1. CASE t \in Producers /\ pc'[t] = "blocked"
    BY <1>1, <1>3, <2>1 DEF PushReady, HasRoom
  <2>2. CASE ~(t \in Producers /\ pc'[t] = "blocked")
    BY <1>1, <1>2, <1>3, <2>2, QueueAssumption DEF NoLostWakeup
  <2> QED
    BY <2>1, <2>2
<1>6. state' # "RUNNING" => Blocked(Threads)' = {}
  BY <1>1 DEF NoLostWakeup, Blocked, PushReady, PopReady
<1> QED
  BY <1>4, <1>5, <1>6 DEF NoLostWakeup

-----------------------------------------------------------------------------
(* The invariant is inductive.                                             *)

(* Init establishes it.                                                    *)
LEMMA InitInv == Init => Inv
<1> SUFFICES ASSUME Init PROVE Inv
  OBVIOUS
<1>1. TypeOK
  BY InitTypeOK
<1>2. OffersItem /\ NoLostWakeup
  BY DEF Init, OffersItem, NoLostWakeup, Blocked, Threads
<1>3. DrainHasWork /\ EndOfStreamIsFinal
  BY DEF Init, DrainHasWork, EndOfStreamIsFinal, Threads
<1>4. FifoOrder
  <2>1. <<>> \in Seq(Items) /\ Len(<<>>) = 0
    OBVIOUS
  <2>2. <<>> \o <<>> = <<>> /\ SubSeq(<<>>, 1, 0) = <<>>
    BY <2>1, ConcatEmptySeq, SubSeqEmpty
  <2> QED
    BY <2>1, <2>2 DEF Init, FifoOrder
<1> QED
  BY <1>1, <1>2, <1>3, <1>4 DEF Inv

(* A Push or PushFor that need not wait preserves it.                      *)
LEMMA PushReturnInv ==
    ASSUME Inv, NEW p \in Producers, NEW v \in Items, PushReady,
           PushReturn(p, v)
    PROVE  Inv'
<1>1. TypeOK' /\ NoLostWakeup'
  BY PushReturnType, PushReturnWakeup DEF Inv
<1>2. /\ p \in Threads
      /\ p \notin Consumers
      /\ Producers \subseteq Threads
      /\ Consumers \subseteq Threads
  BY QueueAssumption DEF Threads
<1>3. PICK r, W : Return(p, r, W) /\ W \subseteq Consumers
  BY DEF PushReturn, NotifyOne, Waiting
<1>4. OffersItem'
  <2>1. \A q \in Producers : q # p => pc'[q] = pc[q] /\ arg'[q] = arg[q]
    BY <1>2, <1>3, QueueAssumption DEF PushReturn, Return, Inv, TypeOK
  <2>2. pc'[p] = "idle"
    BY <1>2, <1>3 DEF Return
  <2> QED
    BY <2>1, <2>2 DEF Inv, OffersItem
<1>5. \A c \in Consumers : ret'[c] = ret[c]
  BY <1>2, <1>3 DEF Return, Inv, TypeOK
<1>6. CASE ~Accepts
  <2>1. UNCHANGED <<items, state, pushed, taken>>
    BY <1>6 DEF PushReturn
  <2>2. FifoOrder' /\ DrainHasWork' /\ EndOfStreamIsFinal'
    BY <1>5, <2>1 DEF Inv, FifoOrder, DrainHasWork, EndOfStreamIsFinal
  <2> QED
    BY <1>1, <1>4, <2>2 DEF Inv
<1>7. CASE Accepts
  <2>1. /\ items' = Append(items, v)
        /\ pushed' = Append(pushed, v)
        /\ taken' = taken
        /\ state' = "RUNNING"
        /\ state = "RUNNING"
    BY <1>7 DEF PushReturn, Enqueue, Accepts
  <2>2. FifoOrder'
    <3>1. taken \in Seq(Items) /\ items \in Seq(Items) /\ pushed = taken \o items
      BY <2>1 DEF Inv, TypeOK, FifoOrder
    <3>2. taken \o Append(items, v) = Append(taken \o items, v)
      BY <3>1, ConcatAppend
    <3> QED
      BY <2>1, <3>1, <3>2 DEF FifoOrder
  <2>3. DrainHasWork' /\ EndOfStreamIsFinal'
    BY <1>5, <2>1 DEF Inv, DrainHasWork, EndOfStreamIsFinal
  <2> QED
    BY <1>1, <1>4, <2>2, <2>3 DEF Inv
<1> QED
  BY <1>6, <1>7

(* A Pop or PopFor that need not wait preserves it.                        *)
LEMMA PopReturnInv ==
    ASSUME Inv, NEW c \in Consumers, PopReady, PopReturn(c)
    PROVE  Inv'
<1>1. TypeOK' /\ NoLostWakeup'
  BY PopReturnType, PopReturnWakeup DEF Inv
<1>2. /\ c \in Threads
      /\ c \notin Producers
      /\ Producers \subseteq Threads
      /\ Consumers \subseteq Threads
  BY QueueAssumption DEF Threads
<1>3. OffersItem'
  <2>1. PICK r, W : Return(c, r, W) /\ W \subseteq Waiting(Threads)
    <3>1. \A W \in NotifyOne(Producers) : W \subseteq Waiting(Threads)
      BY <1>2 DEF NotifyOne, Waiting
    <3>2. CASE items = <<>>
      BY <3>2 DEF PopReturn, PopSeesItem
    <3>3. CASE items # <<>>
      <4>1. PICK W \in NotifyOne(Producers) :
                Return(c, "SUCCESS", IF LastOfDrain THEN NotifyAll ELSE W)
        BY <3>3 DEF PopReturn, PopSeesItem
      <4>2. (IF LastOfDrain THEN NotifyAll ELSE W) \subseteq Waiting(Threads)
        BY <3>1 DEF NotifyAll
      <4> QED
        BY <4>1, <4>2
    <3> QED
      BY <3>2, <3>3
  <2>2. \A q \in Producers : pc[q] = "idle" => pc'[q] = "idle"
    BY <1>2, <2>1 DEF Return, Waiting
  <2> QED
    BY <2>2 DEF PopReturn, Inv, OffersItem
<1>4. CASE items = <<>>
  <2>1. /\ UNCHANGED <<items, state, pushed, taken>>
        /\ state # "RUNNING"
        /\ Return(c, "QUEUE_SHUTDOWN", {})
    BY <1>4 DEF PopReturn, PopSeesItem, PopReady
  <2>2. state = "SHUTDOWN"
    BY <1>4, <2>1 DEF Inv, TypeOK, DrainHasWork
  <2>3. FifoOrder' /\ DrainHasWork' /\ EndOfStreamIsFinal'
    BY <1>4, <2>1, <2>2 DEF Inv, FifoOrder, DrainHasWork, EndOfStreamIsFinal
  <2> QED
    BY <1>1, <1>3, <2>3 DEF Inv
<1>5. CASE items # <<>>
  <2>1. /\ taken' = Append(taken, Head(items))
        /\ items' = Tail(items)
        /\ pushed' = pushed
        /\ state' = IF LastOfDrain THEN "SHUTDOWN" ELSE state
    BY <1>5 DEF PopReturn, PopSeesItem
  <2>2. state # "SHUTDOWN"
    BY <1>5 DEF Inv, DrainHasWork
  <2>3. \A d \in Consumers : ret'[d] # "QUEUE_SHUTDOWN"
    <3>1. \A d \in Consumers : ret[d] # "QUEUE_SHUTDOWN"
      BY <2>2 DEF Inv, EndOfStreamIsFinal
    <3>2. ret' = [ret EXCEPT ![c] = "SUCCESS"]
      BY <1>5 DEF PopReturn, PopSeesItem, Return
    <3> QED
      BY <1>2, <3>1, <3>2 DEF Inv, TypeOK
  <2>4. pushed' = taken' \o items'
    <3>1. taken \in Seq(Items) /\ items \in Seq(Items) /\ pushed = taken \o items
      BY <2>2 DEF Inv, TypeOK, FifoOrder
    <3> QED
      BY <1>5, <2>1, <3>1, ConcatShift
  <2>5. FifoOrder'
    <3>1. taken' \in Seq(Items) /\ items' \in Seq(Items)
      BY <1>1 DEF TypeOK
    <3>2. /\ Len(taken') <= Len(pushed')
          /\ taken' = SubSeq(pushed', 1, Len(taken'))
      BY <2>4, <3>1, ConcatPrefix
    <3> QED
      BY <2>4, <3>2 DEF FifoOrder
  <2>6. DrainHasWork'
    BY <2>1, <2>2 DEF DrainHasWork, LastOfDrain
  <2> QED
    BY <1>1, <1>3, <2>3, <2>5, <2>6 DEF Inv, EndOfStreamIsFinal
<1> QED
  BY <1>4, <1>5

(* A return that notifies nobody moves no other thread.                    *)
LEMMA ReturnAlone ==
    ASSUME TypeOK, NEW t \in Threads, NEW r, Return(t, r, {})
    PROVE  /\ pc' = [pc EXCEPT ![t] = "idle"]
           /\ ret' = [ret EXCEPT ![t] = r]
  BY DEF TypeOK, Return

(* Steps of one thread that touch neither the items, the state nor the     *)
(* history preserve it, unless they tell a consumer QUEUE_SHUTDOWN.        *)
LEMMA QuietInv ==
    ASSUME Inv, TypeOK', OffersItem', UNCHANGED <<items, state, pushed, taken>>,
           NEW t \in Threads,
           \A q \in Threads : q # t => pc'[q] = pc[q] /\ ret'[q] = ret[q],
           ret'[t] = ret[t] \/ ret'[t] # "QUEUE_SHUTDOWN",
           pc'[t] = "blocked" =>
               IF t \in Producers THEN ~PushReady ELSE ~PopReady,
           pc[t] = "signalled" => pc'[t] = "blocked"
    PROVE  Inv'
<1>1. NoLostWakeup'
  BY QuietWakeup DEF Inv
<1>2. DrainHasWork' /\ FifoOrder'
  BY DEF Inv, DrainHasWork, FifoOrder
<1>3. EndOfStreamIsFinal'
  BY DEF Inv, EndOfStreamIsFinal, Threads
<1> QED
  BY <1>1, <1>2, <1>3 DEF Inv

(* Shutdown, in both modes, preserves it: everybody who waits is released, *)
(* and what was taken remains a prefix of what was pushed.                 *)
LEMMA ShutdownInv ==
    ASSUME Inv, ShutdownImmediate \/ ShutdownDrain
    PROVE  Inv'
<1>1. /\ WakeAll
      /\ state # "SHUTDOWN"
      /\ items' \in {items, <<>>}
      /\ state' = IF items' = <<>> THEN "SHUTDOWN" ELSE "DRAINING"
      /\ UNCHANGED <<arg, timed, ret, pushed, taken>>
  BY DEF ShutdownImmediate, ShutdownDrain
<1>2. TypeOK'
  <2>1. <<>> \in Seq(Items) /\ Len(<<>>) = 0
    OBVIOUS
  <2>2. TypeOK'
    <3>1. pc' \in [Threads -> {"idle", "blocked", "expired", "signalled"}]
      BY <1>1 DEF WakeAll, Inv, TypeOK
    <3>2. items' \in Seq(Items) /\ Len(items') <= capacity
      <4>1. CASE items' = items
        BY <4>1 DEF Inv, TypeOK
      <4>2. CASE items' = <<>>
        BY <2>1, <4>2, QueueAssumption
      <4> QED
        BY <1>1, <4>1, <4>2
    <3> QED
      BY <1>1, <3>1, <3>2 DEF Inv, TypeOK
  <2> QED
    BY <2>2
<1>3. OffersItem'
  BY <1>1 DEF WakeAll, NotifyAll, Waiting, Threads, Inv, OffersItem
<1>4. NoLostWakeup'
  <2>1. \A t \in Threads : pc'[t] # "blocked"
    BY <1>1 DEF WakeAll, NotifyAll, Waiting
  <2> QED
    BY <2>1 DEF NoLostWakeup, Blocked, Threads
<1>5. DrainHasWork' /\ EndOfStreamIsFinal'
  BY <1>1 DEF Inv, DrainHasWork, EndOfStreamIsFinal
<1>6. FifoOrder'
  <2>1. taken \in Seq(Items) /\ items \in Seq(Items) /\ pushed = taken \o items
    BY <1>1 DEF Inv, TypeOK, FifoOrder
  <2>2. Len(taken) <= Len(pushed) /\ taken = SubSeq(pushed, 1, Len(taken))
    BY <2>1, ConcatPrefix
  <2> QED
    BY <1>1, <2>1, <2>2 DEF FifoOrder
<1> QED
  BY <1>2, <1>3, <1>4, <1>5, <1>6 DEF Inv

(* Every step preserves it.                                                *)
LEMMA NextInv == Inv /\ [Next]_vars => Inv'
<1> SUFFICES ASSUME Inv, [Next]_vars PROVE Inv'
  OBVIOUS
<1> USE DEF Threads
<1>1. ASSUME NEW p \in Producers, NEW v \in Items, Push(p, v)
      PROVE  Inv'
  <2>1. CASE PushReady
    BY <1>1, <2>1, PushReturnInv DEF Push
  <2>2. CASE ~PushReady
    <3>1. /\ pc' = [pc EXCEPT ![p] = "idle"]
          /\ ret' = [ret EXCEPT ![p] = "QUEUE_FULL"]
      BY <1>1, <2>2, ReturnAlone DEF Push, Inv
    <3>2. TypeOK'
      BY <1>1, <2>2, <3>1 DEF Push, Inv, TypeOK
    <3>3. OffersItem'
      BY <1>1, <2>2, <3>1 DEF Push, Inv, TypeOK, OffersItem
    <3> QED
      BY <1>1, <2>2, <3>1, <3>2, <3>3, QuietInv DEF Push, Inv, TypeOK
  <2> QED
    BY <2>1, <2>2
<1>2. ASSUME NEW p \in Producers, NEW v \in Items, PushFor(p, v)
      PROVE  Inv'
  <2>1. CASE PushReady
    BY <1>2, <2>1, PushReturnInv DEF PushFor
  <2>2. CASE ~PushReady
    <3>1. TypeOK' /\ OffersItem'
      BY <1>2, <2>2 DEF PushFor, Block, Inv, TypeOK, OffersItem
    <3> QED
      BY <1>2, <2>2, <3>1, QuietInv DEF PushFor, Block, Inv, TypeOK
  <2> QED
    BY <2>1, <2>2
<1>3. ASSUME NEW p \in Producers, PusherWakes(p)
      PROVE  Inv'
  <2>1. CASE PushReady
    BY <1>3, <2>1, PushReturnInv DEF PusherWakes, Inv, OffersItem
  <2>2. CASE ~PushReady
    <3>1. TypeOK' /\ OffersItem'
      BY <1>3, <2>2 DEF PusherWakes, Block, Inv, TypeOK, OffersItem
    <3> QED
      BY <1>3, <2>2, <3>1, QuietInv DEF PusherWakes, Block, Inv, TypeOK
  <2> QED
    BY <2>1, <2>2
<1>4. ASSUME NEW p \in Producers, PusherTimesOut(p)
      PROVE  Inv'
  <2>1. CASE PushReady
    BY <1>4, <2>1, PushReturnInv DEF PusherTimesOut, Inv, OffersItem
  <2>2. CASE ~PushReady
    <3>1. /\ pc' = [pc EXCEPT ![p] = "idle"]
          /\ ret' = [ret EXCEPT ![p] = "QUEUE_TIMEOUT"]
      BY <1>4, <2>2, ReturnAlone DEF PusherTimesOut, Inv
    <3>2. TypeOK'
      BY <1>4, <2>2, <3>1 DEF PusherTimesOut, Inv, TypeOK
    <3>3. OffersItem'
      BY <1>4, <2>2, <3>1 DEF PusherTimesOut, Inv, TypeOK, OffersItem
    <3> QED
      BY <1>4, <2>2, <3>1, <3>2, <3>3, QuietInv DEF PusherTimesOut, Inv, TypeOK
  <2> QED
    BY <2>1, <2>2
<1>5. ASSUME NEW c \in Consumers, NEW isTimed \in BOOLEAN, Pop(c, isTimed)
      PROVE  Inv'
  <2>1. CASE PopReady
    BY <1>5, <2>1, PopReturnInv DEF Pop
  <2>2. CASE ~PopReady
    <3>1. TypeOK' /\ OffersItem'
      BY <1>5, <2>2, QueueAssumption DEF Pop, Block, Inv, TypeOK, OffersItem
    <3> QED
      BY <1>5, <2>2, <3>1, QuietInv, QueueAssumption DEF Pop, Block, Inv, TypeOK
  <2> QED
    BY <2>1, <2>2
<1>6. ASSUME NEW c \in Consumers, PopperWakes(c)
      PROVE  Inv'
  <2>1. CASE PopReady
    BY <1>6, <2>1, PopReturnInv DEF PopperWakes
  <2>2. CASE ~PopReady
    <3>1. TypeOK' /\ OffersItem'
      BY <1>6, <2>2, QueueAssumption DEF PopperWakes, Block, Inv, TypeOK, OffersItem
    <3> QED
      BY <1>6, <2>2, <3>1, QuietInv, QueueAssumption
         DEF PopperWakes, Block, Inv, TypeOK
  <2> QED
    BY <2>1, <2>2
<1>7. ASSUME NEW c \in Consumers, PopperTimesOut(c)
      PROVE  Inv'
  <2>1. CASE PopReady
    BY <1>7, <2>1, PopReturnInv DEF PopperTimesOut
  <2>2. CASE ~PopReady
    <3>1. /\ pc' = [pc EXCEPT ![c] = "idle"]
          /\ ret' = [ret EXCEPT ![c] = "QUEUE_TIMEOUT"]
      BY <1>7, <2>2, ReturnAlone DEF PopperTimesOut, Inv
    <3>2. TypeOK'
      BY <1>7, <2>2, <3>1 DEF PopperTimesOut, Inv, TypeOK
    <3>3. OffersItem'
      BY <1>7, <2>2, <3>1, QueueAssumption DEF PopperTimesOut, Inv, TypeOK, OffersItem
    <3> QED
      BY <1>7, <2>2, <3>1, <3>2, <3>3, QuietInv DEF PopperTimesOut, Inv, TypeOK
  <2> QED
    BY <2>1, <2>2
<1>8. CASE ShutdownImmediate \/ ShutdownDrain
  BY <1>8, ShutdownInv
<1>9. ASSUME NEW t \in Threads, Expire(t) \/ SpuriousWakeup(t)
      PROVE  Inv'
  <2>1. TypeOK' /\ OffersItem'
    BY <1>9 DEF Expire, SpuriousWakeup, Inv, TypeOK, OffersItem
  <2> QED
    BY <1>9, <2>1, QuietInv DEF Expire, SpuriousWakeup, Inv, TypeOK
<1>10. CASE UNCHANGED vars
  BY <1>10 DEF vars, Inv, TypeOK, OffersItem, NoLostWakeup, Blocked, Signalled,
               DrainHasWork, EndOfStreamIsFinal, FifoOrder
<1> QED
  BY <1>1, <1>2, <1>3, <1>4, <1>5, <1>6, <1>7, <1>8, <1>9, <1>10 DEF Next

(* The invariant holds in every reachable state.                           *)
LEMMA SpecInv == Spec => []Inv
  BY InitInv, NextInv, PTL DEF Spec

-----------------------------------------------------------------------------
(* The theorems.                                                           *)

(* Every variable keeps its type, and the queue never holds more than      *)
(* capacity items, however Push and PushFor race for the last slot.        *)
THEOREM TypeCorrect == Spec => []TypeOK
  BY SpecInv, PTL DEF Inv

(* Notifying a single thread per item and per slot loses no wakeup, for    *)
(* any number of threads, with timeouts that absorb a notification,        *)
(* spurious wakeups and callers that overtake the released thread.         *)
THEOREM NoWakeupIsLost == Spec => []NoLostWakeup
  BY SpecInv, PTL DEF Inv

(* A drain in progress has work left; a shut down queue has none.          *)
THEOREM DrainIsLive == Spec => []DrainHasWork
  BY SpecInv, PTL DEF Inv

(* No consumer is told QUEUE_SHUTDOWN before the queue is shut down and    *)
(* empty for good.                                                         *)
THEOREM EndOfStream == Spec => []EndOfStreamIsFinal
  BY SpecInv, PTL DEF Inv

(* Nothing is lost, duplicated or reordered.                               *)
THEOREM FirstInFirstOut == Spec => []FifoOrder
  BY SpecInv, PTL DEF Inv

-----------------------------------------------------------------------------
(* Refinement.                                                             *)

(* The undelivered part of the log is what is in the queue.                *)
LEMMA BacklogIsItems ==
    ASSUME Inv, state # "SHUTDOWN"
    PROVE  /\ Fifo!Backlog = Len(items)
           /\ items # <<>> => pushed[Len(taken) + 1] = Head(items)
<1>1. taken \in Seq(Items) /\ items \in Seq(Items) /\ pushed = taken \o items
  BY DEF Inv, TypeOK, FifoOrder
<1>2. /\ Len(pushed) = Len(taken) + Len(items)
      /\ Len(taken) \in Nat
      /\ Len(items) \in Nat
      /\ \A i \in 1..(Len(taken) + Len(items)) :
            pushed[i] = IF i <= Len(taken) THEN taken[i] ELSE items[i - Len(taken)]
  BY <1>1, ConcatProperties, LenProperties
<1>3. Fifo!Backlog = Len(items)
  BY <1>2 DEF Fifo!Backlog
<1>4. ASSUME items # <<>> PROVE pushed[Len(taken) + 1] = Head(items)
  <2>1. Len(items) >= 1
    BY <1>1, <1>2, <1>4, EmptySeq
  <2>2. pushed[Len(taken) + 1] = items[1]
    BY <1>2, <2>1
  <2> QED
    BY <1>1, <2>1, <2>2
<1> QED
  BY <1>3, <1>4

(* A successful Push or PushFor is an Accept; a refused one is invisible.  *)
LEMMA PushReturnRefines ==
    ASSUME Inv, NEW p \in Producers, NEW v \in Items, PushReady,
           PushReturn(p, v)
    PROVE  [Fifo!Next]_(Fifo!logVars)
<1>1. CASE ~Accepts
  BY <1>1 DEF PushReturn, Fifo!logVars
<1>2. CASE Accepts
  <2>1. Fifo!Backlog < capacity
    BY <1>2, BacklogIsItems DEF Accepts, PushReady, HasRoom
  <2>2. Fifo!Accept(v)
    BY <1>2, <2>1 DEF PushReturn, Accepts, Fifo!Accept
  <2> QED
    BY <2>2 DEF Fifo!Next
<1> QED
  BY <1>1, <1>2

(* A successful Pop or PopFor is a Deliver; QUEUE_SHUTDOWN is invisible.   *)
LEMMA PopReturnRefines ==
    ASSUME Inv, NEW c \in Consumers, PopReturn(c)
    PROVE  [Fifo!Next]_(Fifo!logVars)
<1>1. CASE items = <<>>
  BY <1>1 DEF PopReturn, PopSeesItem, Fifo!logVars
<1>2. CASE items # <<>>
  <2>1. state # "SHUTDOWN" /\ items \in Seq(Items)
    BY <1>2 DEF Inv, TypeOK, DrainHasWork
  <2>2. Fifo!Backlog = Len(items) /\ pushed[Len(taken) + 1] = Head(items)
    BY <1>2, <2>1, BacklogIsItems
  <2>3. /\ Len(items) \in Nat \ {0}
        /\ Len(Tail(items)) = Len(items) - 1
        /\ Tail(items) \in Seq(Items)
    BY <1>2, <2>1, EmptySeq, HeadTailProperties
  <2>4. Tail(items) = <<>> <=> Len(items) = 1
    BY <2>3, EmptySeq
  <2>5. Fifo!Deliver
    BY <1>2, <2>1, <2>2, <2>3, <2>4
       DEF PopReturn, PopSeesItem, LastOfDrain, Fifo!Deliver
  <2> QED
    BY <2>5 DEF Fifo!Next
<1> QED
  BY <1>1, <1>2

(* Every step is a step of the log or invisible.                           *)
LEMMA NextRefines == Inv /\ [Next]_vars => [Fifo!Next]_(Fifo!logVars)
<1> SUFFICES ASSUME Inv, [Next]_vars PROVE [Fifo!Next]_(Fifo!logVars)
  OBVIOUS
<1>1. ASSUME NEW p \in Producers, NEW v \in Items, Push(p, v) \/ PushFor(p, v)
      PROVE  [Fifo!Next]_(Fifo!logVars)
  <2>1. CASE PushReady
    BY <1>1, <2>1, PushReturnRefines DEF Push, PushFor
  <2>2. CASE ~PushReady
    BY <1>1, <2>2 DEF Push, PushFor, Fifo!logVars
  <2> QED
    BY <2>1, <2>2
<1>2. ASSUME NEW p \in Producers, PusherWakes(p) \/ PusherTimesOut(p)
      PROVE  [Fifo!Next]_(Fifo!logVars)
  <2>1. CASE PushReady
    <3>1. arg[p] \in Items /\ PushReturn(p, arg[p])
      BY <1>2, <2>1 DEF PusherWakes, PusherTimesOut, Inv, OffersItem
    <3> QED
      BY <2>1, <3>1, PushReturnRefines
  <2>2. CASE ~PushReady
    BY <1>2, <2>2 DEF PusherWakes, PusherTimesOut, Fifo!logVars
  <2> QED
    BY <2>1, <2>2
<1>3. ASSUME NEW c \in Consumers,
             (\E isTimed \in BOOLEAN : Pop(c, isTimed))
                 \/ PopperWakes(c) \/ PopperTimesOut(c)
      PROVE  [Fifo!Next]_(Fifo!logVars)
  <2>1. CASE PopReady
    <3>1. PopReturn(c)
      BY <1>3, <2>1 DEF Pop, PopperWakes, PopperTimesOut
    <3> QED
      BY <3>1, PopReturnRefines
  <2>2. CASE ~PopReady
    BY <1>3, <2>2 DEF Pop, PopperWakes, PopperTimesOut, Fifo!logVars
  <2> QED
    BY <2>1, <2>2
<1>4. CASE ShutdownImmediate
  BY <1>4 DEF ShutdownImmediate, Fifo!Next, Fifo!Discard
<1>5. CASE ShutdownDrain
  <2>1. state # "SHUTDOWN" /\ items \in Seq(Items)
    BY <1>5 DEF ShutdownDrain, Inv, TypeOK
  <2>2. Fifo!Backlog = 0 <=> items = <<>>
    BY <2>1, BacklogIsItems, EmptySeq
  <2>3. CASE state = "RUNNING"
    BY <1>5, <2>2, <2>3 DEF ShutdownDrain, Fifo!Next, Fifo!Drain
  <2>4. CASE state = "DRAINING"
    BY <1>5, <2>4 DEF ShutdownDrain, Fifo!logVars, Inv, DrainHasWork
  <2> QED
    BY <2>1, <2>3, <2>4 DEF Inv, TypeOK
<1>6. ASSUME NEW t \in Threads, Expire(t) \/ SpuriousWakeup(t)
      PROVE  [Fifo!Next]_(Fifo!logVars)
  BY <1>6 DEF Expire, SpuriousWakeup, Fifo!logVars
<1>7. CASE UNCHANGED vars
  BY <1>7 DEF vars, Fifo!logVars
<1> QED
  BY <1>1, <1>2, <1>3, <1>4, <1>5, <1>6, <1>7 DEF Next

(* Queue<T> with its threads, mutex and condition variables implements the *)
(* sequential log: every call takes effect at one point, in order.         *)
THEOREM QueueImplementsFifo == Spec => ImplementsFifo
<1>1. Init => Fifo!Init
  BY DEF Init, Fifo!Init
<1> QED
  BY <1>1, SpecInv, NextRefines, PTL DEF Spec, ImplementsFifo, Fifo!Spec
=============================================================================
