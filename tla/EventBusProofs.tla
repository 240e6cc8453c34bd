--------------------------- MODULE EventBusProofs ---------------------------
(***************************************************************************)
(* The safety of EventBus for any threads, event types, handles and limit. *)
(***************************************************************************)
EXTENDS EventBus, FiniteSetTheorems, TLAPS

Increasing(s) == \A i, j \in DOMAIN s : i < j => s[i] < s[j]

(* What has an id was given it before now.                                 *)
Fresh ==
    /\ \A e \in Types : \A id \in Range(subscribers[e]) : id < next_id
    /\ \A s \in Slots : handle[s] < next_id
    /\ \A t \in Threads : temp[t] < next_id /\ began[t] <= next_id

(* The lists are in the order of subscription, and no id is in two.        *)
Lists ==
    /\ \A e \in Types : Increasing(subscribers[e])
    /\ \A e, f \in Types :
          e # f => Range(subscribers[e]) \cap Range(subscribers[f]) = {}

(* No two handles hold the same id.                                        *)
UniqueOwner ==
    /\ \A s, r \in Slots : s # r /\ handle[s] # 0 => handle[s] # handle[r]
    /\ \A t, u \in Threads : t # u /\ temp[t] # 0 => temp[t] # temp[u]
    /\ \A s \in Slots, t \in Threads : handle[s] # 0 => handle[s] # temp[t]

(* Nothing survives in a bus that was destroyed.                           *)
EmptyWhenGone == ~alive => subscribers = [e \in Types |-> <<>>]

Inv ==
    /\ TypeOK
    /\ Fresh
    /\ Lists
    /\ UniqueOwner
    /\ EmptyWhenGone
    /\ HandlesOwnEntries
    /\ NobodyIsSkipped
    /\ DeliveryInOrder
    /\ RejectsOnlyNested
-----------------------------------------------------------------------------
(* Erasing the entry with an id from an increasing list leaves an increasing *)
(* list of the others.                                                     *)
LEMMA RemoveIncreasing ==
    ASSUME NEW s \in Seq(Ids), NEW id, Increasing(s)
    PROVE  /\ RemoveFirst(s, id) \in Seq(Ids)
           /\ Increasing(RemoveFirst(s, id))
           /\ Range(RemoveFirst(s, id)) = Range(s) \ {id}
<1>1. CASE id \notin Range(s)
  <2>1. RemoveFirst(s, id) = s
    BY <1>1 DEF RemoveFirst, Range
  <2> QED
    BY <1>1, <2>1
<1>2. CASE id \in Range(s)
  <2>1. PICK k \in 1..Len(s) : s[k] = id
    BY <1>2 DEF Range
  <2>2. /\ DOMAIN s = 1..Len(s) /\ Len(s) \in Nat
        /\ \A i \in 1..Len(s) : s[i] \in Ids /\ s[i] \in Int
    BY EventBusAssumption DEF Ids
  <2>3. {i \in 1..Len(s) : s[i] = id} = {k}
    <3>1. ASSUME NEW i \in 1..Len(s), i # k PROVE s[i] # s[k]
      <4>1. i < k \/ k < i
        BY <3>1
      <4>2. s[i] < s[k] \/ s[k] < s[i]
        BY <2>2, <4>1 DEF Increasing
      <4> QED
        BY <2>2, <4>2
    <3> QED
      BY <2>1, <3>1
  <2>4. SelectInSeq(s, LAMBDA v : v = id) = k
    BY <2>3 DEF SelectInSeq, Min
  <2> DEFINE a == SubSeq(s, 1, k - 1)
             b == SubSeq(s, k + 1, Len(s))
             r == a \o b
  <2>5. RemoveFirst(s, id) = r
    BY <2>1, <2>4 DEF RemoveFirst, RemoveAt
  <2>6. /\ r \in Seq(Ids) /\ Len(r) = Len(s) - 1
        /\ \A i \in 1..Len(r) : r[i] = s[IF i < k THEN i ELSE i + 1]
    <3>1. /\ a \in Seq(Ids) /\ Len(a) = k - 1
          /\ \A i \in 1..(k - 1) : a[i] = s[i]
      BY <2>2, <2>1
    <3>2. /\ b \in Seq(Ids) /\ Len(b) = Len(s) - k
          /\ \A i \in 1..(Len(s) - k) : b[i] = s[k + i]
      <4>1. b \in Seq(Ids) /\ Len(b) = Len(s) - k
        BY <2>1
      <4>2. ASSUME NEW i \in 1..(Len(s) - k) PROVE b[i] = s[k + i]
        <5>1. b[i] = s[(k + 1) + i - 1]
          BY <2>2, <2>1
        <5>2. (k + 1) + i - 1 = k + i
          BY <2>2, <2>1
        <5> QED
          BY <5>1, <5>2
      <4> QED
        BY <4>1, <4>2
    <3> HIDE DEF a, b
    <3>3. r \in Seq(Ids) /\ Len(r) = Len(a) + Len(b)
      <4>1. a \in Seq(Ids) /\ b \in Seq(Ids)
        BY <3>1, <3>2
      <4> QED
        BY <4>1
    <3>4. Len(r) = Len(s) - 1
      BY <2>2, <2>1, <3>1, <3>2, <3>3
    <3>5. ASSUME NEW i \in 1..Len(r), i < k PROVE r[i] = s[i]
      <4>1. i \in 1..(k - 1)
        BY <3>4, <3>5, <2>2
      <4> QED
        BY <4>1, <3>1, <3>2
    <3>6. ASSUME NEW i \in 1..Len(r), ~(i < k) PROVE r[i] = s[i + 1]
      <4>1. i - (k - 1) \in 1..(Len(s) - k) /\ k + (i - (k - 1)) = i + 1
        BY <2>2, <2>1, <3>4, <3>6
      <4>2. r[i] = b[i - (k - 1)]
        BY <2>2, <2>1, <3>1, <3>2, <3>4, <3>6, <4>1
      <4> QED
        BY <3>2, <4>1, <4>2
    <3> QED
      BY <3>3, <3>4, <3>5, <3>6
  <2> HIDE DEF r
  <2>7. DOMAIN r = 1..(Len(s) - 1) /\ DOMAIN s = 1..Len(s) /\ Len(s) \in Nat
    BY <2>6
  <2>8. Increasing(r)
    <3> SUFFICES ASSUME NEW i \in 1..(Len(s) - 1), NEW j \in 1..(Len(s) - 1), i < j
                 PROVE  r[i] < r[j]
      BY <2>7 DEF Increasing
    <3> DEFINE p(m) == IF m < k THEN m ELSE m + 1
    <3>1. p(i) \in 1..Len(s) /\ p(j) \in 1..Len(s) /\ p(i) < p(j)
      BY <2>2
    <3>2. s[p(i)] < s[p(j)]
      BY <2>2, <3>1 DEF Increasing
    <3> QED
      BY <2>6, <3>2
  <2>9. Range(r) \subseteq Range(s) \ {id}
    BY <2>1, <2>3, <2>6, <2>7 DEF Range
  <2>10. ASSUME NEW i \in 1..Len(s), s[i] # id PROVE s[i] \in Range(r)
    <3>1. CASE i < k
      <4>1. i \in 1..Len(r) /\ r[i] = s[i]
        BY <2>1, <2>6, <3>1
      <4> QED
        BY <2>6, <2>7, <4>1 DEF Range
    <3>2. CASE i > k
      <4>1. i - 1 \in 1..Len(r) /\ r[i - 1] = s[i]
        BY <2>1, <2>6, <3>2
      <4> QED
        BY <2>6, <2>7, <4>1 DEF Range
    <3> QED
      BY <2>1, <2>10, <3>1, <3>2
  <2>11. Range(s) \ {id} \subseteq Range(r)
    BY <2>2, <2>10 DEF Range
  <2> QED
    BY <2>5, <2>6, <2>8, <2>9, <2>11
<1> QED
  BY <1>1, <1>2

(* An entry at the end of a list.                                          *)
LEMMA AppendRange ==
    ASSUME NEW s \in Seq(Ids), NEW id \in Ids
    PROVE  /\ Append(s, id) \in Seq(Ids)
           /\ Range(Append(s, id)) = Range(s) \cup {id}
           /\ Increasing(s) /\ (\A i \in Range(s) : i < id)
                 => Increasing(Append(s, id))
<1> DEFINE a == Append(s, id)
<1>1. /\ a \in Seq(Ids) /\ DOMAIN a = 1..(Len(s) + 1) /\ DOMAIN s = 1..Len(s)
      /\ Len(s) \in Nat
      /\ \A i \in 1..Len(s) : a[i] = s[i]
      /\ a[Len(s) + 1] = id
  OBVIOUS
<1> HIDE DEF a
<1>2. Range(a) = Range(s) \cup {id}
  <2>1. Range(a) \subseteq Range(s) \cup {id}
    BY <1>1 DEF Range
  <2>2. Range(s) \cup {id} \subseteq Range(a)
    BY <1>1 DEF Range
  <2> QED
    BY <2>1, <2>2
<1>3. Increasing(s) /\ (\A i \in Range(s) : i < id) => Increasing(a)
  BY <1>1 DEF Increasing, Range
<1> QED
  BY <1>1, <1>2, <1>3 DEF a

(* Taking the head of one list to the end of another leaves their          *)
(* concatenation, and what they hold together, as it was.                  *)
LEMMA MoveHead ==
    ASSUME NEW s \in Seq(Ids), NEW c \in Seq(Ids), s # <<>>
    PROVE  /\ Head(s) \in Ids /\ Tail(s) \in Seq(Ids)
           /\ Append(c, Head(s)) \in Seq(Ids)
           /\ Append(c, Head(s)) \o Tail(s) = c \o s
           /\ Range(Append(c, Head(s))) \cup Range(Tail(s))
                 = Range(c) \cup Range(s)
<1>1. Head(s) \in Ids /\ Tail(s) \in Seq(Ids) /\ Len(s) \in Nat /\ Len(s) > 0
  OBVIOUS
<1>2. Append(c, Head(s)) \o Tail(s) = c \o s
  OBVIOUS
<1>3. Range(s) = {Head(s)} \cup Range(Tail(s))
  <2>1. /\ DOMAIN s = 1..Len(s) /\ DOMAIN Tail(s) = 1..(Len(s) - 1)
        /\ Head(s) = s[1] /\ \A i \in 1..(Len(s) - 1) : Tail(s)[i] = s[i + 1]
    BY <1>1
  <2>2. Range(s) \subseteq {Head(s)} \cup Range(Tail(s))
    <3> SUFFICES ASSUME NEW i \in 1..Len(s), i # 1
                 PROVE  s[i] \in Range(Tail(s))
      BY <2>1 DEF Range
    <3>1. i - 1 \in 1..(Len(s) - 1) /\ Tail(s)[i - 1] = s[i]
      BY <1>1, <2>1
    <3> QED
      BY <2>1, <3>1 DEF Range
  <2>3. {Head(s)} \cup Range(Tail(s)) \subseteq Range(s)
    BY <1>1, <2>1 DEF Range
  <2> QED
    BY <2>2, <2>3
<1>4. /\ Append(c, Head(s)) \in Seq(Ids)
      /\ Range(Append(c, Head(s))) = Range(c) \cup {Head(s)}
  BY <1>1, AppendRange
<1> QED
  BY <1>1, <1>2, <1>3, <1>4
(* The empty list.                                                         *)
LEMMA EmptyRange == Range(<<>>) = {} /\ <<>> \in Seq(Ids) /\ Increasing(<<>>)
  BY DEF Range, Increasing

(* The registered ids are finitely many.                                   *)
LEMMA RegisteredFinite ==
    ASSUME TypeOK
    PROVE  /\ Registered \subseteq Ids
           /\ IsFiniteSet(Registered)
           /\ Cardinality(Registered) \in Nat
<1>1. Registered \subseteq Ids
  BY DEF TypeOK, Registered, Range
<1>2. IsFiniteSet(Ids)
  BY FS_Interval, EventBusAssumption DEF Ids
<1> QED
  BY <1>1, <1>2, FS_Subset, FS_CardinalityType

-----------------------------------------------------------------------------
(* Init establishes the invariant.                                         *)
LEMMA InitInv == BusInit => Inv
<1> SUFFICES ASSUME BusInit PROVE Inv
  OBVIOUS
<1> USE EventBusAssumption DEF BusInit
<1>1. TypeOK
  BY DEF TypeOK
<1>2. Fresh /\ Lists /\ UniqueOwner /\ EmptyWhenGone
  BY EmptyRange DEF Fresh, Lists, UniqueOwner, EmptyWhenGone
<1>3. HandlesOwnEntries
  <2>1. Registered = {} /\ Owned = {}
    BY EmptyRange DEF Registered, Owned
  <2> QED
    BY <2>1, FS_EmptySet DEF HandlesOwnEntries
<1>4. NobodyIsSkipped /\ RejectsOnlyNested
  BY DEF NobodyIsSkipped, RejectsOnlyNested
<1>5. DeliveryInOrder
  BY DEF DeliveryInOrder
<1> QED
  BY <1>1, <1>2, <1>3, <1>4, <1>5 DEF Inv

(* What RemoveSubscriberFromState does to the lists and their count.       *)
LEMMA Removal ==
    ASSUME Inv, NEW id \in {0} \cup Ids, RemoveSubscriberFromState(id),
           alive' = alive
    PROVE  /\ subscribers' \in [Types -> Seq(Ids)]
           /\ \A e \in Types :
                 /\ Increasing(subscribers'[e])
                 /\ Range(subscribers'[e]) \subseteq Range(subscribers[e])
           /\ total_subscribers' \in 0..kMaxSubscribers
           /\ EmptyWhenGone'
           /\ alive => /\ Registered' = Registered \ {id}
                       /\ total_subscribers' = Cardinality(Registered')
<1> USE EventBusAssumption
<1>1. CASE alive /\ id \in Registered
  <2>1. /\ subscribers' = [e \in Types |-> RemoveFirst(subscribers[e], id)]
        /\ total_subscribers' = total_subscribers - 1
    BY <1>1 DEF RemoveSubscriberFromState, FoundEntry
  <2>2. \A e \in Types :
           /\ RemoveFirst(subscribers[e], id) \in Seq(Ids)
           /\ Increasing(RemoveFirst(subscribers[e], id))
           /\ Range(RemoveFirst(subscribers[e], id))
                 = Range(subscribers[e]) \ {id}
    BY RemoveIncreasing DEF Inv, TypeOK, Lists
  <2>3. Registered' = Registered \ {id}
    <3>1. \A e \in Types : Range(subscribers'[e]) = Range(subscribers[e]) \ {id}
      BY <2>1, <2>2
    <3>2. \A i : i \in Registered <=> \E e \in Types : i \in Range(subscribers[e])
      BY DEF Registered
    <3>3. \A i : i \in Registered' <=> \E e \in Types : i \in Range(subscribers'[e])
      BY DEF Registered
    <3> QED
      BY <3>1, <3>2, <3>3
  <2>4. /\ Cardinality(Registered \ {id}) = Cardinality(Registered) - 1
        /\ Cardinality(Registered) \in Nat
        /\ Cardinality(Registered \ {id}) \in Nat
    <3>1. IsFiniteSet(Registered) /\ IsFiniteSet(Registered \ {id})
      BY RegisteredFinite, FS_Subset DEF Inv
    <3> QED
      BY <1>1, <3>1, FS_RemoveElement, FS_CardinalityType
  <2>5. total_subscribers = Cardinality(Registered)
    BY <1>1 DEF Inv, HandlesOwnEntries
  <2>6. total_subscribers' \in 0..kMaxSubscribers
    BY <2>1, <2>4, <2>5 DEF Inv, TypeOK
  <2> QED
    BY <1>1, <2>1, <2>2, <2>3, <2>4, <2>5, <2>6 DEF EmptyWhenGone
<1>2. CASE ~(alive /\ id \in Registered)
  <2>1. UNCHANGED <<subscribers, total_subscribers>>
    BY <1>2 DEF RemoveSubscriberFromState, FoundEntry
  <2>2. Registered' = Registered
    BY <2>1 DEF Registered
  <2> QED
    BY <1>2, <2>1, <2>2
       DEF Inv, TypeOK, Lists, EmptyWhenGone, HandlesOwnEntries
<1> QED
  BY <1>1, <1>2

(* A step of the handles that removes exactly what it gives up.            *)
LEMMA HandleStep ==
    ASSUME Inv, NEW s \in Slots,
           RemoveSubscriberFromState(handle[s]),
           UNCHANGED <<alive, next_id, dispatching, snapshot, current, event,
                       began, called>>,
           handle' \in [Slots -> {0} \cup Ids],
           temp' \in [Threads -> {0} \cup Ids],
           \A r \in Slots : handle'[r] < next_id,
           \A t \in Threads : temp'[t] < next_id,
           UniqueOwner',
           Owned' = Owned \ {handle[s]}
    PROVE  Inv'
<1>1. /\ subscribers' \in [Types -> Seq(Ids)]
      /\ \A e \in Types :
            /\ Increasing(subscribers'[e])
            /\ Range(subscribers'[e]) \subseteq Range(subscribers[e])
      /\ total_subscribers' \in 0..kMaxSubscribers
      /\ EmptyWhenGone'
      /\ alive => /\ Registered' = Registered \ {handle[s]}
                  /\ total_subscribers' = Cardinality(Registered')
  <2>1. handle[s] \in {0} \cup Ids
    BY DEF Inv, TypeOK
  <2> HIDE DEF Inv
  <2> QED
    BY <2>1, Removal
<1>2. TypeOK'
  BY <1>1 DEF Inv, TypeOK
<1>3. Fresh' /\ Lists'
  BY <1>1 DEF Inv, Fresh, Lists
<1>4. HandlesOwnEntries'
  BY <1>1 DEF Inv, HandlesOwnEntries
<1>5. NobodyIsSkipped'
  BY <1>1 DEF Inv, TypeOK, NobodyIsSkipped
<1>6. DeliveryInOrder' /\ RejectsOnlyNested'
  BY DEF Inv, DeliveryInOrder, RejectsOnlyNested
<1> QED
  BY <1>1, <1>2, <1>3, <1>4, <1>5, <1>6 DEF Inv

(* Cancel.                                                                 *)
LEMMA CancelInv ==
    ASSUME Inv, NEW t \in Threads, NEW s \in Slots, Cancel(t, s)
    PROVE  Inv'
<1> USE EventBusAssumption DEF Cancel
<1>1. /\ handle' \in [Slots -> {0} \cup Ids]
      /\ temp' \in [Threads -> {0} \cup Ids]
      /\ \A r \in Slots : handle'[r] < next_id
      /\ \A u \in Threads : temp'[u] < next_id
  BY DEF Inv, TypeOK, Fresh
<1>2. UniqueOwner'
  BY DEF Inv, TypeOK, UniqueOwner
<1>3. Owned' = Owned \ {handle[s]}
  BY DEF Inv, TypeOK, UniqueOwner, Owned
<1> QED
  BY <1>1, <1>2, <1>3, HandleStep

(* The result of Subscribe finds its object.                               *)
LEMMA AssignResultInv ==
    ASSUME Inv, NEW t \in Threads, NEW s \in Slots, AssignResult(t, s)
    PROVE  Inv'
<1> USE EventBusAssumption DEF AssignResult, OverwrittenCancelled
<1>1. /\ handle' \in [Slots -> {0} \cup Ids]
      /\ temp' \in [Threads -> {0} \cup Ids]
      /\ \A r \in Slots : handle'[r] < next_id
      /\ \A u \in Threads : temp'[u] < next_id
  BY DEF Inv, TypeOK, Fresh
<1>2. UniqueOwner'
  BY DEF Inv, TypeOK, UniqueOwner
<1>3. Owned' = Owned \ {handle[s]}
  BY DEF Inv, TypeOK, UniqueOwner, Owned
<1> QED
  BY <1>1, <1>2, <1>3, HandleStep

(* A handle moves from one object to another.                              *)
LEMMA MoveAssignInv ==
    ASSUME Inv, NEW t \in Threads, NEW s \in Slots, NEW other \in Slots,
           MoveAssign(t, s, other)
    PROVE  Inv'
<1> USE EventBusAssumption DEF MoveAssign, OverwrittenCancelled
<1>1. /\ handle' \in [Slots -> {0} \cup Ids] /\ temp' = temp
      /\ \A r \in Slots : handle'[r] = IF r = s THEN handle[other]
                                       ELSE IF r = other THEN 0 ELSE handle[r]
  BY DEF Inv, TypeOK
<1>2. /\ \A r \in Slots : handle'[r] < next_id
      /\ temp' \in [Threads -> {0} \cup Ids]
      /\ \A u \in Threads : temp'[u] < next_id
  <2>1. 0 < next_id
    BY DEF Inv, TypeOK
  <2>2. \A r \in Slots : handle'[r] < next_id
    BY <1>1, <2>1 DEF Inv, Fresh
  <2> QED
    BY <1>1, <2>2 DEF Inv, TypeOK, Fresh
<1>3. UniqueOwner'
  BY DEF Inv, TypeOK, UniqueOwner
<1>4. Owned' = Owned \ {handle[s]}
  <2>1. Owned' \subseteq Owned \ {handle[s]}
    BY <1>1 DEF Inv, UniqueOwner, Owned
  <2>2. ASSUME NEW id \in Owned, id # handle[s] PROVE id \in Owned'
    <3>1. CASE \E r \in Slots : id = handle[r]
      BY <1>1, <2>2, <3>1 DEF Owned
    <3>2. CASE \E u \in Threads : id = temp[u]
      BY <1>1, <3>2 DEF Owned
    <3> QED
      BY <3>1, <3>2 DEF Owned
  <2> QED
    BY <2>1, <2>2
<1> QED
  BY <1>1, <1>2, <1>3, <1>4, HandleStep

(* The invalid handle of a refusal.                                        *)
LEMMA SubscribeRefusedInv ==
    ASSUME Inv, NEW t \in Threads, NEW s \in Slots, SubscribeRefused(t, s)
    PROVE  Inv'
<1> USE EventBusAssumption DEF SubscribeRefused, OverwrittenCancelled
<1>1. /\ handle' \in [Slots -> {0} \cup Ids]
      /\ temp' \in [Threads -> {0} \cup Ids]
      /\ \A r \in Slots : handle'[r] < next_id
      /\ \A u \in Threads : temp'[u] < next_id
  BY DEF Inv, TypeOK, Fresh
<1>2. UniqueOwner'
  BY DEF Inv, TypeOK, UniqueOwner
<1>3. Owned' = Owned \ {handle[s]}
  BY DEF Inv, TypeOK, UniqueOwner, Owned
<1> QED
  BY <1>1, <1>2, <1>3, HandleStep
(* A new entry, with an id nothing has yet.                                *)
LEMMA SubscribeInv ==
    ASSUME Inv, NEW t \in Threads, NEW e \in Types, Subscribe(t, e)
    PROVE  Inv'
<1> USE EventBusAssumption DEF Subscribe, RunsCaller, SubscriberLimitReached
<1>1. /\ next_id \in Ids /\ next_id' = next_id + 1 /\ next_id \in Nat
      /\ ~(next_id < next_id)
  BY DEF Inv, TypeOK, Ids
<1>2. /\ subscribers' \in [Types -> Seq(Ids)]
      /\ Range(subscribers'[e]) = Range(subscribers[e]) \cup {next_id}
      /\ Increasing(subscribers'[e])
      /\ \A f \in Types : f # e => subscribers'[f] = subscribers[f]
  <2>1. /\ subscribers[e] \in Seq(Ids) /\ Increasing(subscribers[e])
        /\ \A i \in Range(subscribers[e]) : i < next_id
    BY DEF Inv, TypeOK, Lists, Fresh
  <2>2. /\ Append(subscribers[e], next_id) \in Seq(Ids)
        /\ Range(Append(subscribers[e], next_id))
              = Range(subscribers[e]) \cup {next_id}
        /\ Increasing(Append(subscribers[e], next_id))
    BY <1>1, <2>1, AppendRange
  <2> QED
    BY <2>2 DEF Inv, TypeOK
<1>3. TypeOK'
  BY <1>1, <1>2 DEF Inv, TypeOK
<1>4. Fresh'
  <2>1. \A f \in Types : \A i \in Range(subscribers'[f]) : i < next_id'
    <3> SUFFICES ASSUME NEW f \in Types, NEW i \in Range(subscribers'[f])
                 PROVE  i < next_id'
      OBVIOUS
    <3>1. i \in Range(subscribers[f]) \/ i = next_id
      BY <1>2
    <3>2. i \in Range(subscribers[f]) => i < next_id /\ i \in Int
      BY DEF Inv, Fresh, TypeOK, Range, Ids
    <3> QED
      BY <1>1, <3>1, <3>2
  <2>2. \A s \in Slots : handle'[s] < next_id'
    <3>1. \A s \in Slots : handle[s] \in Int /\ handle[s] < next_id
      BY DEF Inv, Fresh, TypeOK, Ids
    <3> QED
      BY <1>1, <3>1
  <2>3. \A u \in Threads : temp'[u] < next_id' /\ began'[u] <= next_id'
    <3>1. \A u \in Threads : /\ temp[u] \in Int /\ temp[u] < next_id
                             /\ began[u] \in Int /\ began[u] <= next_id
      BY DEF Inv, Fresh, TypeOK, Ids
    <3>2. \A u \in Threads : temp'[u] \in {next_id, temp[u]} /\ began' = began
      BY DEF Inv, TypeOK
    <3> QED
      BY <1>1, <3>1, <3>2
  <2> QED
    BY <2>1, <2>2, <2>3 DEF Fresh
<1>5. Lists'
  <2>1. \A f \in Types : next_id \notin Range(subscribers[f])
    <3>1. \A f \in Types : \A i \in Range(subscribers[f]) : i < next_id
      BY DEF Inv, Fresh
    <3> QED
      BY <1>1, <3>1
  <2> QED
    BY <1>2, <2>1 DEF Inv, Lists
<1>6. UniqueOwner'
  BY <1>1 DEF Inv, TypeOK, Fresh, UniqueOwner
<1>7. EmptyWhenGone'
  BY DEF EmptyWhenGone
<1>8. HandlesOwnEntries'
  <2>1. Registered' = Registered \cup {next_id}
    BY <1>2 DEF Registered
  <2>2. Owned' = Owned \cup {next_id}
    BY <1>1 DEF Inv, TypeOK, Owned
  <2>3. next_id \notin Registered
    <3>1. \A f \in Types : \A i \in Range(subscribers[f]) : i < next_id
      BY DEF Inv, Fresh
    <3> QED
      BY <1>1, <3>1 DEF Registered
  <2>4. Cardinality(Registered') = Cardinality(Registered) + 1
    BY <2>1, <2>3, RegisteredFinite, FS_AddElement DEF Inv
  <2> QED
    BY <2>1, <2>2, <2>4 DEF Inv, HandlesOwnEntries
<1>9. NobodyIsSkipped'
  <2>1. \A f \in Types : \A i \in Range(subscribers'[f]) :
           i \in Range(subscribers[f]) \/ i = next_id
    BY <1>2
  <2>2. \A u \in Threads : ~(next_id < began[u])
    BY <1>1 DEF Inv, Fresh, TypeOK
  <2> QED
    BY <2>1, <2>2 DEF Inv, TypeOK, NobodyIsSkipped
<1>10. DeliveryInOrder' /\ RejectsOnlyNested'
  BY DEF Inv, DeliveryInOrder, RejectsOnlyNested
<1> QED
  BY <1>3, <1>4, <1>5, <1>6, <1>7, <1>8, <1>9, <1>10 DEF Inv

(* A step that leaves the lists and the handles alone.                     *)
LEMMA DispatchStep ==
    ASSUME Inv,
           UNCHANGED <<alive, subscribers, next_id, total_subscribers, handle,
                       temp>>
    PROVE  Lists' /\ UniqueOwner' /\ EmptyWhenGone' /\ HandlesOwnEntries'
<1>1. Lists' /\ UniqueOwner' /\ EmptyWhenGone'
  BY DEF Inv, Lists, UniqueOwner, EmptyWhenGone
<1>2. Registered' = Registered /\ Owned' = Owned
  BY DEF Registered, Owned
<1> QED
  BY <1>1, <1>2 DEF Inv, HandlesOwnEntries

(* A step that changes nothing.                                            *)
LEMMA StutterInv ==
    ASSUME Inv, UNCHANGED busVars
    PROVE  Inv'
<1> USE DEF busVars
<1>1. Lists' /\ UniqueOwner' /\ EmptyWhenGone' /\ HandlesOwnEntries'
  BY DispatchStep
<1>2. TypeOK' /\ Fresh'
  BY DEF Inv, TypeOK, Fresh
<1>3. NobodyIsSkipped' /\ DeliveryInOrder' /\ RejectsOnlyNested'
  BY DEF Inv, NobodyIsSkipped, DeliveryInOrder, RejectsOnlyNested
<1> QED
  BY <1>1, <1>2, <1>3 DEF Inv

(* Publish takes its snapshot, or changes nothing.                         *)
LEMMA PublishInv ==
    ASSUME Inv, NEW t \in Threads, NEW e \in Types, Publish(t, e)
    PROVE  Inv'
<1> USE EventBusAssumption
<1>1. CASE UNCHANGED busVars
  BY <1>1, StutterInv
<1>2. CASE ~UNCHANGED busVars
  <2>1. /\ snapshot' = [snapshot EXCEPT ![t] = subscribers[e]]
        /\ dispatching' = [dispatching EXCEPT ![t] = TRUE]
        /\ event' = [event EXCEPT ![t] = e]
        /\ current' = [current EXCEPT ![t] = 0]
        /\ began' = [began EXCEPT ![t] = next_id]
        /\ called' = [called EXCEPT ![t] = <<>>]
        /\ UNCHANGED <<alive, subscribers, next_id, total_subscribers, handle,
                       temp>>
    BY <1>2, Zenon DEF Publish, Snapshot
  <2>2. TypeOK' /\ Fresh'
    BY <2>1 DEF Inv, TypeOK, Fresh
  <2>3. Lists' /\ UniqueOwner' /\ EmptyWhenGone' /\ HandlesOwnEntries'
    BY <2>1, DispatchStep
  <2>4. NobodyIsSkipped'
    BY <2>1 DEF Inv, TypeOK, NobodyIsSkipped
  <2>5. DeliveryInOrder'
    <3>1. /\ called'[t] \o snapshot'[t] = subscribers[e]
          /\ began'[t] = next_id
          /\ \A u \in Threads : u # t => /\ called'[u] = called[u]
                                         /\ snapshot'[u] = snapshot[u]
                                         /\ began'[u] = began[u]
      BY <2>1 DEF Inv, TypeOK
    <3>2. Increasing(subscribers[e])
      BY DEF Inv, Lists
    <3>3. \A i \in DOMAIN subscribers[e] : subscribers[e][i] < next_id
      BY DEF Inv, Fresh, Range
    <3> QED
      BY <3>1, <3>2, <3>3 DEF Inv, DeliveryInOrder, Increasing
  <2>6. RejectsOnlyNested'
    BY <2>1 DEF Inv, TypeOK, RejectsOnlyNested
  <2> QED
    BY <2>2, <2>3, <2>4, <2>5, <2>6 DEF Inv
<1> QED
  BY <1>1, <1>2

(* The next callback begins: the order stays what it was.                  *)
LEMMA CallInv ==
    ASSUME Inv, NEW t \in Threads, Call(t)
    PROVE  Inv'
<1> USE EventBusAssumption DEF Call
<1> DEFINE c == called[t]
           s == snapshot[t]
<1>1. /\ Head(s) \in Ids /\ Tail(s) \in Seq(Ids)
      /\ Append(c, Head(s)) \in Seq(Ids)
      /\ Append(c, Head(s)) \o Tail(s) = c \o s
      /\ Range(Append(c, Head(s))) \cup Range(Tail(s)) = Range(c) \cup Range(s)
  BY MoveHead DEF Inv, TypeOK
<1>2. /\ called'[t] = Append(c, Head(s)) /\ snapshot'[t] = Tail(s)
      /\ \A u \in Threads : u # t => /\ called'[u] = called[u]
                                     /\ snapshot'[u] = snapshot[u]
  BY DEF Inv, TypeOK
<1>3. TypeOK'
  BY <1>1 DEF Inv, TypeOK
<1>4. Fresh'
  BY DEF Inv, Fresh
<1>5. Lists' /\ UniqueOwner' /\ EmptyWhenGone' /\ HandlesOwnEntries'
  BY DispatchStep
<1> HIDE DEF c, s
<1>6. NobodyIsSkipped'
  <2>1. \A u \in Threads : Range(called'[u]) \cup Range(snapshot'[u])
                              = Range(called[u]) \cup Range(snapshot[u])
    BY <1>1, <1>2 DEF c, s
  <2> QED
    BY <2>1 DEF Inv, NobodyIsSkipped
<1>7. DeliveryInOrder'
  <2>1. \A u \in Threads : called'[u] \o snapshot'[u] = called[u] \o snapshot[u]
    BY <1>1, <1>2 DEF c, s
  <2> QED
    BY <2>1 DEF Inv, DeliveryInOrder
<1>8. RejectsOnlyNested'
  BY DEF Inv, RejectsOnlyNested
<1> QED
  BY <1>3, <1>4, <1>5, <1>6, <1>7, <1>8 DEF Inv

(* A callback ends, by returning or by an exception that is caught.        *)
LEMMA CallEndsInv ==
    ASSUME Inv, NEW t \in Threads, CallReturns(t) \/ CallThrows(t)
    PROVE  Inv'
<1> USE EventBusAssumption DEF CallReturns, CallThrows, ThrowIsCaught
<1>1. TypeOK' /\ Fresh'
  BY DEF Inv, TypeOK, Fresh
<1>2. Lists' /\ UniqueOwner' /\ EmptyWhenGone' /\ HandlesOwnEntries'
  BY DispatchStep
<1>3. NobodyIsSkipped' /\ DeliveryInOrder' /\ RejectsOnlyNested'
  BY DEF Inv, NobodyIsSkipped, DeliveryInOrder, RejectsOnlyNested
<1> QED
  BY <1>1, <1>2, <1>3 DEF Inv

(* Publish returns.                                                        *)
LEMMA PublishReturnsInv ==
    ASSUME Inv, NEW t \in Threads, PublishReturns(t)
    PROVE  Inv'
<1> USE EventBusAssumption DEF PublishReturns
<1>1. TypeOK'
  BY DEF Inv, TypeOK
<1>2. Fresh'
  BY DEF Inv, TypeOK, Fresh
<1>3. Lists' /\ UniqueOwner' /\ EmptyWhenGone' /\ HandlesOwnEntries'
  BY DispatchStep
<1>4. NobodyIsSkipped'
  BY DEF Inv, TypeOK, NobodyIsSkipped
<1>5. DeliveryInOrder'
  <2>1. called'[t] \o snapshot'[t] = <<>>
    BY DEF Inv, TypeOK
  <2>2. \A u \in Threads : u # t => /\ called'[u] = called[u]
                                   /\ snapshot'[u] = snapshot[u]
                                   /\ began'[u] = began[u]
    BY DEF Inv, TypeOK
  <2> HIDE DEF PublishReturns
  <2>3. DOMAIN (called'[t] \o snapshot'[t]) = {}
    BY <2>1
  <2> QED
    BY <2>2, <2>3 DEF Inv, DeliveryInOrder
<1>6. RejectsOnlyNested'
  BY DEF Inv, TypeOK, RejectsOnlyNested
<1> QED
  BY <1>1, <1>2, <1>3, <1>4, <1>5, <1>6 DEF Inv

(* The bus goes, and its lists with it.                                    *)
LEMMA DestroyBusInv ==
    ASSUME Inv, DestroyBus
    PROVE  Inv'
<1> USE EventBusAssumption DEF DestroyBus
<1>1. TypeOK'
  <2>1. /\ subscribers' \in [Types -> Seq(Ids)]
        /\ total_subscribers' \in 0..kMaxSubscribers
    BY EmptyRange
  <2> QED
    BY <2>1 DEF Inv, TypeOK
<1>2. Fresh' /\ Lists' /\ UniqueOwner' /\ EmptyWhenGone'
  BY EmptyRange DEF Inv, Fresh, Lists, UniqueOwner, EmptyWhenGone
<1>3. HandlesOwnEntries'
  BY DEF HandlesOwnEntries
<1>4. NobodyIsSkipped' /\ DeliveryInOrder' /\ RejectsOnlyNested'
  BY DEF Inv, NobodyIsSkipped, DeliveryInOrder, RejectsOnlyNested
<1> QED
  BY <1>1, <1>2, <1>3, <1>4 DEF Inv

(* Every step keeps the invariant.                                         *)
LEMMA NextInv == Inv /\ [Next]_busVars => Inv'
<1> SUFFICES ASSUME Inv, [Next]_busVars
             PROVE  Inv'
  OBVIOUS
<1>1. ASSUME NEW t \in Threads, NEW e \in Types,
             Subscribe(t, e) \/ Publish(t, e)
      PROVE  Inv'
  BY <1>1, SubscribeInv, PublishInv
<1>2. ASSUME NEW t \in Threads, NEW s \in Slots,
             Cancel(t, s) \/ AssignResult(t, s) \/ SubscribeRefused(t, s)
      PROVE  Inv'
  BY <1>2, CancelInv, AssignResultInv, SubscribeRefusedInv
<1>3. ASSUME NEW t \in Threads, NEW s \in Slots, NEW other \in Slots,
             MoveAssign(t, s, other)
      PROVE  Inv'
  BY <1>3, MoveAssignInv
<1>4. ASSUME NEW t \in Threads,
             Call(t) \/ CallReturns(t) \/ CallThrows(t) \/ PublishReturns(t)
      PROVE  Inv'
  BY <1>4, CallInv, CallEndsInv, PublishReturnsInv
<1>5. CASE DestroyBus
  BY <1>5, DestroyBusInv
<1>6. CASE UNCHANGED busVars
  BY <1>6, StutterInv
<1> QED
  BY <1>1, <1>2, <1>3, <1>4, <1>5, <1>6 DEF Next

THEOREM Invariance == Spec => []Inv
<1>1. BusInit => Inv
  BY InitInv
<1>2. Inv /\ [Next]_busVars => Inv'
  BY NextInv
<1> QED
  BY <1>1, <1>2, PTL DEF Spec

-----------------------------------------------------------------------------
(* The variables keep their types, and the limit on subscribers holds.     *)
THEOREM TypeCorrect == Spec => []TypeOK
  BY Invariance, PTL DEF Inv

(* While the bus lives the entries in its lists are exactly those some     *)
(* Subscription owns, and total_subscribers is their number.               *)
THEOREM NoEntryLeaks == Spec => []HandlesOwnEntries
  BY Invariance, PTL DEF Inv

(* A publish reaches everybody who was there when it began and still is,   *)
(* whatever other threads and the callbacks do meanwhile.                  *)
THEOREM EverybodyHears == Spec => []NobodyIsSkipped
  BY Invariance, PTL DEF Inv

(* A publish calls in the order of subscription, nobody twice, and nobody  *)
(* who came later.                                                         *)
THEOREM InSubscriptionOrder == Spec => []DeliveryInOrder
  BY Invariance, PTL DEF Inv

(* The thread-local flag never outlives the dispatch it belongs to.        *)
THEOREM OnlyNestedRejected == Spec => []RejectsOnlyNested
  BY Invariance, PTL DEF Inv
=============================================================================
