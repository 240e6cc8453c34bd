---------------------------- MODULE ServicesProofs ---------------------------
(***************************************************************************)
(* The safety of the services: Config for any lines and files, and Network *)
(* for any connections, restarts and queue capacity.                       *)
(***************************************************************************)
EXTENDS Network, Config, FiniteSetTheorems, WellFoundedInduction, TLAPS

-----------------------------------------------------------------------------
(* Config.                                                                 *)

(* Line i is the last that assigns to k; line j is the next after i.       *)
Last(k, i) == i \in Assigning(k) /\ \A j \in Assigning(k) : j <= i

Overrides(k, i, j) ==
    /\ j \in Assigning(k) /\ i < j
    /\ \A m \in Assigning(k) : m > i => j <= m

(* What Load has of the lines read so far.                                 *)
LoadInStep ==
    /\ loading \in BOOLEAN /\ file \in Seq(Lines)
    /\ loading => current_section = SectionAt(Len(file))
    /\ DOMAIN entries_ = FullKeys
    /\ \A k \in FullKeys :
          /\ Last(k, entries_[k].line)
          /\ entries_[k].value = file[entries_[k].line].value

(* What it has logged of them.                                             *)
LogInStep ==
    /\ warned = {i \in DOMAIN file : file[i].kind = "malformed"}
    /\ \A k \in FullKeys : \A i \in Assigning(k) : i # entries_[k].line =>
          \E j \in Assigning(k) : Overrides(k, i, j) /\ <<i, j>> \in overridden
    /\ \A p \in overridden :
          \E k \in FullKeys : {p[1], p[2]} \subseteq Assigning(k)

ConfigInv == LoadInStep /\ LogInStep

(* Every nonempty set of naturals has a least element.                     *)
LEMMA LeastElement ==
    ASSUME NEW S \in SUBSET Nat, S # {}
    PROVE  \E z \in S : \A y \in S : z <= y
<1> DEFINE Below(x) == {y \in S : y <= x}
           T == {Below(x) : x \in S}
           R == StrictSubsetOrdering(Nat)
<1>1. T \subseteq FiniteSubsetsOf(Nat) /\ T # {}
  <2>1. ASSUME NEW x \in S PROVE Below(x) \in SUBSET Nat /\ IsFiniteSet(Below(x))
    BY FS_BoundedSetOfNaturals
  <2> QED
    BY <2>1 DEF FiniteSubsetsOf
<1>2. PICK B \in T : \A C \in T : ~(<<C, B>> \in R)
  BY <1>1, FS_StrictSubsetOrderingWellFounded, WFMin
<1>3. PICK x \in S : B = Below(x)
  OBVIOUS
<1>4. ASSUME NEW y \in S, ~(x <= y) PROVE FALSE
  <2>1. x \in Nat /\ y \in Nat /\ x <= x /\ \A z \in Nat : z <= y => z <= x
    BY <1>4
  <2>2. Below(y) \subseteq Below(x) /\ x \notin Below(y) /\ x \in Below(x)
    BY <1>4, <2>1, Zenon
  <2>3. <<Below(y), Below(x)>> \in R
    BY <2>2 DEF StrictSubsetOrdering
  <2> QED
    BY <1>2, <1>3, <2>3
<1> QED
  BY <1>4

(* The greatest element, where there is one.                               *)
LEMMA MaxIs ==
    ASSUME NEW S \in SUBSET Int, NEW m \in S, \A i \in S : i <= m
    PROVE  Max(S) = m
<1>1. m \in S /\ \A i \in S : m >= i
  OBVIOUS
<1>2. Max(S) \in S /\ \A i \in S : Max(S) >= i
  BY <1>1, Zenon DEF Max
<1>3. Max(S) \in Int /\ m \in Int /\ Max(S) >= m /\ Max(S) <= m
  BY <1>2
<1> QED
  BY <1>3

(* The least element, where there is one.                                  *)
LEMMA MinIs ==
    ASSUME NEW S \in SUBSET Int, NEW m \in S, \A i \in S : m <= i
    PROVE  Min(S) = m
<1>1. Min(S) \in S /\ \A i \in S : Min(S) <= i
  BY Zenon DEF Min
<1>2. Min(S) \in Int /\ m \in Int /\ Min(S) >= m /\ Min(S) <= m
  BY <1>1
<1> QED
  BY <1>2

(* There is a greatest in every nonempty part of an interval.              *)
LEMMA MaxOf ==
    ASSUME NEW n \in Nat, NEW S \in SUBSET 1..n, S # {}
    PROVE  Max(S) \in S
<1> DEFINE T == {n - x : x \in S}
<1>1. T \in SUBSET Nat /\ T # {}
  <2>1. \A x \in S : x \in 1..n
    OBVIOUS
  <2>2. \A x \in S : n - x \in Nat
    BY <2>1
  <2> QED
    BY <2>2, Zenon
<1>2. PICK z \in T : \A y \in T : z <= y
  BY <1>1, LeastElement
<1>3. PICK m \in S : z = n - m
  OBVIOUS
<1>4. ASSUME NEW i \in S PROVE i <= m
  <2>1. n - m <= n - i
    BY <1>2, <1>3
  <2> QED
    BY <2>1
<1> QED
  BY <1>4, MaxIs

(* A pair belongs to the full key it makes.                                *)
LEMMA Pairs ==
    ASSUME file \in Seq(Lines)
    PROVE  /\ \A k : Assigning(k) \subseteq 1..Len(file)
           /\ \A k : k \in FullKeys <=> Assigning(k) # {}
           /\ \A k, i : i \in Assigning(k) => k \in FullKeys
<1>1. \A k : k \in FullKeys <=> Assigning(k) # {}
  BY DEF Assigning, FullKeys
<1>2. \A k : Assigning(k) \subseteq 1..Len(file)
  BY DEF Assigning
<1> QED
  BY <1>1, <1>2

(* What one more line changes.                                             *)
LEMMA Grown ==
    ASSUME NEW l \in Lines, file \in Seq(Lines), file' = Append(file, l)
    PROVE  /\ file' \in Seq(Lines) /\ Len(file') = line_number
           /\ line_number \in Nat /\ line_number \notin DOMAIN file
           /\ DOMAIN file' = DOMAIN file \cup {line_number}
           /\ DOMAIN file = 1..Len(file)
           /\ file'[line_number] = l
           /\ \A i \in DOMAIN file : file'[i] = file[i]
           /\ \A i \in 0..Len(file) : SectionAt(i)' = SectionAt(i)
<1>1. /\ file' \in Seq(Lines) /\ Len(file') = Len(file) + 1
      /\ Len(file) \in Nat /\ DOMAIN file = 1..Len(file)
      /\ DOMAIN file' = 1..(Len(file) + 1)
      /\ file'[Len(file) + 1] = l
      /\ \A i \in 1..Len(file) : file'[i] = file[i]
  OBVIOUS
<1>2. 1..(Len(file) + 1) = 1..Len(file) \cup {Len(file) + 1}
  BY <1>1
<1>3. ASSUME NEW i \in 0..Len(file) PROVE SectionAt(i)' = SectionAt(i)
  <2>1. \A j \in 1..i : file'[j] = file[j]
    BY <1>1
  <2>2. {j \in 1..i : file'[j].kind = "section"} = {j \in 1..i : file[j].kind = "section"}
    BY <2>1
  <2> DEFINE H == {j \in 1..i : file[j].kind = "section"}
  <2>3. SectionAt(i)' = IF H = {} THEN <<>> ELSE file'[Max(H)].name
    BY <2>2 DEF SectionAt
  <2>4. H # {} => Max(H) \in 1..i
    <3>1. i \in Nat /\ H \in SUBSET 1..i
      BY <1>1
    <3> HIDE DEF H
    <3> QED
      BY <3>1, MaxOf
  <2> QED
    BY <2>1, <2>3, <2>4 DEF SectionAt
<1> QED
  BY <1>1, <1>2, <1>3 DEF line_number

(* The section that is in force at the new line.                           *)
LEMMA NewSection ==
    ASSUME NEW l \in Lines, file \in Seq(Lines), file' = Append(file, l),
           NEW n, n = line_number
    PROVE  SectionAt(n)' = IF l.kind = "section" THEN l.name
                                                 ELSE SectionAt(n - 1)
<1>1. /\ n \in Nat /\ n - 1 = Len(file) /\ Len(file) \in Nat /\ file'[n] = l
      /\ \A j \in 1..(n - 1) : file'[j] = file[j]
  BY Grown DEF line_number
<1> DEFINE H == {j \in 1..n : file'[j].kind = "section"}
           G == {j \in 1..(n - 1) : file[j].kind = "section"}
<1>2. CASE l.kind = "section"
  <2>1. H \in SUBSET Int /\ n \in H /\ \A j \in H : j <= n
    BY <1>1, <1>2
  <2>2. Max(H) = n
    <3> HIDE DEF H
    <3> QED
      BY <2>1, MaxIs
  <2> QED
    BY <1>1, <1>2, <2>1, <2>2 DEF SectionAt
<1>3. CASE l.kind # "section"
  <2>1. H = G
    BY <1>1, <1>3
  <2>2. SectionAt(n)' = IF H = {} THEN <<>> ELSE file'[Max(H)].name
    BY DEF SectionAt
  <2>3. SectionAt(n - 1) = IF G = {} THEN <<>> ELSE file[Max(G)].name
    BY DEF SectionAt
  <2>4. G # {} => Max(G) \in 1..(n - 1)
    <3>1. n - 1 \in Nat /\ G \in SUBSET 1..(n - 1)
      BY <1>1
    <3> HIDE DEF G
    <3> QED
      BY <3>1, MaxOf
  <2> QED
    BY <1>1, <1>3, <2>1, <2>2, <2>3, <2>4
<1> QED
  BY <1>2, <1>3

(* The key that the new line assigns to, if it is a pair.                  *)
LEMMA NewKey ==
    ASSUME NEW l \in Lines, file \in Seq(Lines), file' = Append(file, l),
           NEW s, s = SectionAt(Len(file)), NEW n, n = line_number
    PROVE  /\ l.kind # "pair" => /\ FullKeys' = FullKeys
                                 /\ \A k : Assigning(k)' = Assigning(k)
           /\ l.kind = "pair" =>
                 /\ FullKeys' = FullKeys \cup {s \o l.key}
                 /\ Assigning(s \o l.key)' = Assigning(s \o l.key) \cup {n}
                 /\ \A k : k # s \o l.key => Assigning(k)' = Assigning(k)
<1>1. /\ n \in Nat /\ n \notin DOMAIN file /\ file' \in Seq(Lines)
      /\ DOMAIN file' = DOMAIN file \cup {n}
      /\ file'[n] = l /\ n - 1 = Len(file)
      /\ \A i \in DOMAIN file : file'[i] = file[i] /\ SectionAt(i)' = SectionAt(i)
  BY Grown DEF line_number
<1>2. l.kind = "pair" => SectionAt(n)' = s
  BY <1>1, NewSection
<1>3. ASSUME NEW k, NEW i
      PROVE  i \in Assigning(k)' <=> \/ i \in Assigning(k)
                                     \/ i = n /\ l.kind = "pair" /\ s \o l.key = k
  <2>1. i \in Assigning(k)' <=> /\ i \in DOMAIN file' /\ file'[i].kind = "pair"
                                /\ SectionAt(i)' \o file'[i].key = k
    BY DEF Assigning
  <2>2. i \in Assigning(k) <=> /\ i \in DOMAIN file /\ file[i].kind = "pair"
                               /\ SectionAt(i) \o file[i].key = k
    BY DEF Assigning
  <2>3. CASE i \in DOMAIN file
    BY <1>1, <2>1, <2>2, <2>3
  <2>4. CASE i = n
    BY <1>1, <1>2, <2>1, <2>2, <2>4
  <2> QED
    BY <1>1, <2>1, <2>2, <2>3, <2>4
<1>4. /\ \A k : k \in FullKeys <=> Assigning(k) # {}
      /\ \A k : k \in FullKeys' <=> Assigning(k)' # {}
  <2>1. \A k : k \in FullKeys <=> Assigning(k) # {}
    BY Pairs
  <2>2. \A k : k \in FullKeys' <=> Assigning(k)' # {}
    BY <1>1 DEF Assigning, FullKeys
  <2> QED
    BY <2>1, <2>2
<1>5. CASE l.kind # "pair"
  <2>1. ASSUME NEW k PROVE Assigning(k)' = Assigning(k)
    <3>1. \A i : i \in Assigning(k)' <=> i \in Assigning(k)
      BY <1>3, <1>5
    <3> QED
      BY <3>1, Zenon
  <2> QED
    BY <1>4, <1>5, <2>1
<1>6. CASE l.kind = "pair"
  <2>1. /\ Assigning(s \o l.key)' = Assigning(s \o l.key) \cup {n}
        /\ \A k : k # s \o l.key => Assigning(k)' = Assigning(k)
    BY <1>3, <1>6
  <2>2. \A k : k \in FullKeys' <=> k \in FullKeys \cup {s \o l.key}
    BY <1>4, <2>1
  <2> QED
    BY <1>6, <2>1, <2>2
<1> QED
  BY <1>5, <1>6

-----------------------------------------------------------------------------
(* Nothing is loaded to begin with, after Clear, and when Load begins.     *)
LEMMA NothingRead ==
    ASSUME entries_ = Empty, file = <<>>, warned = {}, overridden = {},
           loading \in BOOLEAN, loading => current_section = <<>>
    PROVE  ConfigInv
<1>1. /\ file \in Seq(Lines) /\ DOMAIN file = {} /\ Len(file) = 0
      /\ DOMAIN entries_ = {}
  BY DEF Empty
<1>2. FullKeys = {}
  BY <1>1 DEF FullKeys
<1>3. SectionAt(0) = <<>>
  BY <1>1 DEF SectionAt
<1> QED
  BY <1>1, <1>2, <1>3 DEF ConfigInv, LoadInStep, LogInStep

(* A line that is no pair changes no entry.                                *)
LEMMA OtherLineInv ==
    ASSUME ConfigInv, NEW l \in Lines,
           SkipLine(l) \/ MalformedLine(l) \/ SectionLine(l)
    PROVE  ConfigInv'
<1> USE DEF ConfigInv
<1>1. /\ loading /\ loading' /\ file' = Append(file, l) /\ l.kind # "pair"
      /\ UNCHANGED <<entries_, overridden>>
      /\ current_section' = IF l.kind = "section" THEN l.name
                                                  ELSE current_section
      /\ warned' = IF l.kind = "malformed" THEN warned \cup {line_number}
                                           ELSE warned
  BY DEF SkipLine, MalformedLine, SectionLine, Got, LoadInStep
<1>2. PICK n : n = line_number /\ n - 1 = Len(file) /\ n \in Nat
  BY DEF line_number, LoadInStep
<1>3. /\ file' \in Seq(Lines) /\ Len(file') = n /\ DOMAIN file' = DOMAIN file \cup {n}
      /\ n \notin DOMAIN file /\ file'[n] = l
      /\ \A i \in DOMAIN file : file'[i] = file[i]
  BY <1>1, <1>2, Grown DEF LoadInStep
<1>4. FullKeys' = FullKeys /\ \A k : Assigning(k)' = Assigning(k)
  BY <1>1, <1>2, NewKey DEF LoadInStep
<1>5. SectionAt(n)' = current_section'
  <2>1. SectionAt(n - 1) = current_section
    BY <1>1, <1>2 DEF LoadInStep
  <2> QED
    BY <1>1, <1>2, <2>1, NewSection DEF LoadInStep
<1>6. LoadInStep'
  <2>1. SectionAt(Len(file))' = SectionAt(n)'
    BY <1>3 DEF SectionAt
  <2>2. ASSUME NEW k \in FullKeys
        PROVE  /\ Last(k, entries_[k].line)
               /\ entries_[k].line \in DOMAIN file
               /\ entries_[k].value = file[entries_[k].line].value
    BY DEF LoadInStep, Last, Assigning
  <2>3. ASSUME NEW k \in FullKeys
        PROVE  /\ Last(k, entries_[k].line)'
               /\ entries_[k].value = file'[entries_[k].line].value
    <3>1. Last(k, entries_[k].line)'
      BY <1>1, <1>4, <2>2 DEF Last
    <3> QED
      BY <1>3, <2>2, <3>1
  <2> QED
    BY <1>1, <1>3, <1>4, <1>5, <2>1, <2>3 DEF LoadInStep
<1>7. LogInStep'
  <2>1. warned' = {i \in DOMAIN file' : file'[i].kind = "malformed"}
    BY <1>1, <1>2, <1>3 DEF LogInStep
  <2>2. ASSUME NEW k \in FullKeys', NEW i \in Assigning(k)', i # entries_'[k].line
        PROVE  \E j \in Assigning(k)' : Overrides(k, i, j)' /\ <<i, j>> \in overridden'
    <3>1. PICK j \in Assigning(k) : Overrides(k, i, j) /\ <<i, j>> \in overridden
      BY <1>1, <1>4, <2>2 DEF LogInStep
    <3> QED
      BY <1>1, <1>4, <3>1 DEF Overrides
  <2>3. ASSUME NEW p \in overridden'
        PROVE  \E k \in FullKeys' : {p[1], p[2]} \subseteq Assigning(k)'
    BY <1>1, <1>4 DEF LogInStep
  <2> QED
    BY <2>1, <2>2, <2>3 DEF LogInStep
<1> QED
  BY <1>6, <1>7

(* A pair is entered under its full key, and logged if it overrides.       *)
LEMMA PairLineInv ==
    ASSUME ConfigInv, NEW l \in Lines, PairLine(l) PROVE ConfigInv'
<1> USE DEF ConfigInv
<1>0. /\ line_number - 1 = Len(file) /\ line_number \in Nat
      /\ SectionAt(Len(file)) = current_section /\ file \in Seq(Lines)
  BY DEF line_number, LoadInStep, PairLine, Got
<1>1. PICK n, s, K :
         /\ n = line_number /\ n - 1 = Len(file) /\ n \in Nat
         /\ s = SectionAt(Len(file)) /\ K = s \o l.key
         /\ K = FullKey(current_section, l.key)
  BY <1>0, Zenon DEF FullKey
<1>2. /\ loading /\ loading' /\ file' = Append(file, l) /\ l.kind = "pair"
      /\ UNCHANGED <<current_section, warned>>
      /\ overridden' = IF K \in DOMAIN entries_
                       THEN overridden \cup {<<entries_[K].line, n>>}
                       ELSE overridden
      /\ entries_' = [x \in DOMAIN entries_ \cup {K} |->
                        IF x = K THEN [value |-> l.value, line |-> n]
                        ELSE entries_[x]]
  BY <1>1 DEF PairLine, Got, Duplicate, LoadInStep
<1>3. /\ file' \in Seq(Lines) /\ Len(file') = n /\ DOMAIN file' = DOMAIN file \cup {n}
      /\ n \notin DOMAIN file /\ file'[n] = l /\ DOMAIN file = 1..(n - 1)
      /\ \A i \in DOMAIN file : file'[i] = file[i] /\ i < n
  BY <1>1, <1>2, Grown DEF LoadInStep
<1>4. /\ FullKeys' = FullKeys \cup {K}
      /\ Assigning(K)' = Assigning(K) \cup {n}
      /\ \A k : k # K => Assigning(k)' = Assigning(k)
  <2>1. /\ FullKeys' = FullKeys \cup {s \o l.key}
        /\ Assigning(s \o l.key)' = Assigning(s \o l.key) \cup {n}
        /\ \A k : k # s \o l.key => Assigning(k)' = Assigning(k)
    <3>1. /\ file \in Seq(Lines) /\ file' = Append(file, l) /\ l.kind = "pair"
          /\ s = SectionAt(Len(file)) /\ n = line_number
      BY <1>0, <1>1, <1>2
    <3> QED
      BY <3>1, NewKey
  <2>2. K = s \o l.key
    BY <1>1
  <2>3. /\ Assigning(K)' = Assigning(s \o l.key)'
        /\ Assigning(K) = Assigning(s \o l.key)
    BY <2>2 DEF Assigning
  <2> QED
    BY <2>1, <2>2, <2>3
<1>5. \A k : Assigning(k) \subseteq 1..(n - 1) /\ (k \in FullKeys <=> Assigning(k) # {})
  BY <1>1, Pairs DEF LoadInStep
<1>6. /\ DOMAIN entries_' = FullKeys'
      /\ entries_'[K] = [value |-> l.value, line |-> n]
      /\ \A k \in FullKeys : k # K => entries_'[k] = entries_[k]
  BY <1>2, <1>4 DEF LoadInStep
<1>7. LoadInStep'
  <2>1. SectionAt(Len(file))' = current_section'
    <3>1. SectionAt(Len(file))' = SectionAt(n)'
      BY <1>3 DEF SectionAt
    <3>2. SectionAt(n - 1) = current_section
      BY <1>1, <1>2 DEF LoadInStep
    <3>3. SectionAt(n)' = SectionAt(n - 1)
      BY <1>1, <1>2, NewSection DEF LoadInStep
    <3> QED
      BY <1>2, <3>1, <3>2, <3>3
  <2>2. ASSUME NEW k \in FullKeys'
        PROVE  /\ Last(k, entries_[k].line)'
               /\ entries_'[k].value = file'[entries_'[k].line].value
    <3>1. CASE k = K
      <4>1. n \in Assigning(K)' /\ \A j \in Assigning(K)' : j <= n
        BY <1>1, <1>4, <1>5
      <4>2. entries_'[k].line = n /\ entries_'[k].value = l.value
        BY <1>6, <3>1
      <4> QED
        BY <1>3, <3>1, <4>1, <4>2 DEF Last
    <3>2. CASE k # K
      <4>1. k \in FullKeys /\ entries_'[k] = entries_[k] /\ Assigning(k)' = Assigning(k)
        BY <1>4, <1>6, <3>2
      <4>2. /\ Last(k, entries_[k].line)
            /\ entries_[k].value = file[entries_[k].line].value
        BY <4>1 DEF LoadInStep
      <4>3. entries_[k].line \in DOMAIN file
        BY <4>2 DEF Last, Assigning
      <4> QED
        BY <1>3, <4>1, <4>2, <4>3 DEF Last
    <3> QED
      BY <3>1, <3>2
  <2> QED
    BY <1>2, <1>3, <1>6, <2>1, <2>2 DEF LoadInStep
<1>8. LogInStep'
  <2>1. warned' = {i \in DOMAIN file' : file'[i].kind = "malformed"}
    BY <1>2, <1>3 DEF LogInStep
  <2>2. ASSUME NEW k \in FullKeys', NEW i \in Assigning(k)', i # entries_'[k].line
        PROVE  \E j \in Assigning(k)' : Overrides(k, i, j)' /\ <<i, j>> \in overridden'
    <3>1. CASE k # K
      <4>1. k \in FullKeys /\ entries_'[k] = entries_[k] /\ Assigning(k)' = Assigning(k)
        BY <1>4, <1>6, <3>1
      <4>2. PICK j \in Assigning(k) : Overrides(k, i, j) /\ <<i, j>> \in overridden
        BY <2>2, <4>1 DEF LogInStep
      <4> QED
        BY <1>2, <4>1, <4>2 DEF Overrides
    <3>2. CASE k = K /\ i # entries_[K].line
      <4>1. i \in Assigning(K) /\ K \in FullKeys
        BY <1>4, <1>5, <1>6, <2>2, <3>2
      <4>2. PICK j \in Assigning(K) : Overrides(K, i, j) /\ <<i, j>> \in overridden
        BY <3>2, <4>1 DEF LogInStep
      <4>3. j <= n /\ j \in Assigning(K)'
        BY <1>1, <1>4, <1>5
      <4> QED
        BY <1>2, <1>4, <3>2, <4>2, <4>3 DEF Overrides
    <3>3. CASE k = K /\ i = entries_[K].line
      <4>1. i \in Assigning(K) /\ K \in FullKeys
        BY <1>4, <1>5, <1>6, <2>2, <3>3
      <4>2. \A m \in Assigning(K) : m <= i
        BY <3>3, <4>1 DEF LoadInStep, Last
      <4>3. i \in Int /\ i < n /\ n \in Assigning(K)' /\ \A m \in Assigning(K) : m \in Int
        BY <1>1, <1>4, <1>5, <4>1
      <4>4. Overrides(K, i, n)'
        BY <1>4, <4>2, <4>3 DEF Overrides
      <4>5. <<i, n>> \in overridden'
        BY <1>2, <3>3, <4>1 DEF LoadInStep
      <4> QED
        BY <3>3, <4>3, <4>4, <4>5
    <3> QED
      BY <3>1, <3>2, <3>3
  <2>3. ASSUME NEW p \in overridden'
        PROVE  \E k \in FullKeys' : {p[1], p[2]} \subseteq Assigning(k)'
    <3>1. CASE p \in overridden
      <4>1. PICK k \in FullKeys : {p[1], p[2]} \subseteq Assigning(k)
        BY <3>1 DEF LogInStep
      <4> QED
        BY <1>4, <4>1
    <3>2. CASE p = <<entries_[K].line, n>> /\ K \in DOMAIN entries_
      <4>1. entries_[K].line \in Assigning(K)
        BY <3>2 DEF LoadInStep, Last
      <4> QED
        BY <1>4, <3>2, <4>1
    <3> QED
      BY <1>2, <3>1, <3>2
  <2> QED
    BY <2>1, <2>2, <2>3 DEF LogInStep
<1> QED
  BY <1>7, <1>8

-----------------------------------------------------------------------------
(* Every step of Config preserves the invariant.                           *)
LEMMA ConfigInvariance ==
    ASSUME ConfigInv, [ConfigNext]_configVars PROVE ConfigInv'
<1>1. CASE Load \/ Clear
  <2>1. /\ entries_' = Empty /\ file' = <<>> /\ warned' = {} /\ overridden' = {}
        /\ loading' \in BOOLEAN /\ (loading' => current_section' = <<>>)
    <3>1. CASE Load
      BY <3>1 DEF Load
    <3>2. CASE Clear
      <4>1. ~loading' /\ loading' \in BOOLEAN
        BY <3>2 DEF Clear, ConfigInv, LoadInStep
      <4> QED
        BY <3>2, <4>1 DEF Clear
    <3> QED
      BY <1>1, <3>1, <3>2
  <2>2. /\ DOMAIN entries_' = {} /\ file' \in Seq(Lines) /\ DOMAIN file' = {}
        /\ Len(file') = 0
    BY <2>1 DEF Empty
  <2>3. FullKeys' = {}
    BY <2>2 DEF FullKeys
  <2>4. SectionAt(Len(file))' = <<>>
    BY <2>2 DEF SectionAt
  <2> QED
    BY <2>1, <2>2, <2>3, <2>4 DEF ConfigInv, LoadInStep, LogInStep
<1>2. CASE EndOfFile \/ UNCHANGED configVars
  <2>1. /\ UNCHANGED <<entries_, file, warned, overridden>>
        /\ loading' \in BOOLEAN
        /\ loading' => loading /\ current_section' = current_section
    <3>1. CASE EndOfFile
      BY <3>1 DEF EndOfFile
    <3>2. CASE UNCHANGED configVars
      <4>1. loading' = loading /\ loading \in BOOLEAN
        BY <3>2 DEF configVars, ConfigInv, LoadInStep
      <4>2. UNCHANGED <<entries_, current_section, file, warned, overridden>>
        BY <3>2 DEF configVars
      <4> QED
        BY <4>1, <4>2, Zenon
    <3> QED
      BY <1>2, <3>1, <3>2
  <2>2. SectionAt(Len(file))' = SectionAt(Len(file))
    BY <2>1 DEF SectionAt
  <2>3. \A i : SectionAt(i)' = SectionAt(i)
    BY <2>1 DEF SectionAt
  <2>4. FullKeys' = FullKeys /\ \A k : Assigning(k)' = Assigning(k)
    BY <2>1, <2>3 DEF FullKeys, Assigning
  <2>5. /\ \A k, i : Last(k, i)' <=> Last(k, i)
        /\ \A k, i, j : Overrides(k, i, j)' <=> Overrides(k, i, j)
    BY <2>4 DEF Last, Overrides
  <2>6. LoadInStep'
    <3>1. \A k \in FullKeys :
             /\ Last(k, entries_[k].line)'
             /\ entries_[k].value = file[entries_[k].line].value
      <4>1. ASSUME NEW k \in FullKeys
            PROVE  Last(k, entries_[k].line)' <=> Last(k, entries_[k].line)
        BY <2>1, <2>4 DEF Last
      <4> QED
        BY <4>1 DEF ConfigInv, LoadInStep
    <3> QED
      BY <2>1, <2>2, <2>4, <3>1 DEF ConfigInv, LoadInStep
  <2>7. LogInStep'
    BY <2>1, <2>4, <2>5 DEF ConfigInv, LogInStep
  <2> QED
    BY <2>6, <2>7 DEF ConfigInv
<1>3. ASSUME NEW l \in Lines,
             SkipLine(l) \/ MalformedLine(l) \/ SectionLine(l) \/ PairLine(l)
      PROVE  ConfigInv'
  BY <1>3, OtherLineInv, PairLineInv
<1> QED
  BY <1>1, <1>2, <1>3 DEF ConfigNext

(* What is loaded and logged is in step with the lines read, at all times. *)
LEMMA ConfigInvariant == ConfigSpec => []ConfigInv
<1>1. ConfigInit => ConfigInv
  BY NothingRead DEF ConfigInit
<1>2. ConfigInv /\ [ConfigNext]_configVars => ConfigInv'
  BY ConfigInvariance
<1> QED
  BY <1>1, <1>2, PTL DEF ConfigSpec

-----------------------------------------------------------------------------
(* The typed reads of one raw value.                                       *)
LEMMA Parsers ==
    ASSUME NEW raw \in [word : STRING, n : Int]
    PROVE  /\ Parse("string", raw) = Parsed(raw)
           /\ Parse("int", raw).ok <=> /\ raw.word = "number"
                                       /\ IntMin <= raw.n /\ raw.n <= IntMax
           /\ Parse("int", raw).ok => Parse("int", raw).out = raw.n
           /\ Parse("duration", raw).ok <=> Parse("int", raw).ok /\ raw.n >= 0
           /\ Parse("duration", raw).ok =>
                 Parse("duration", raw) = Parse("int", raw)
           /\ Parse("bool", raw).ok <=> \E b \in BOOLEAN : MeansBool(raw, b)
           /\ Parse("bool", raw).ok => MeansBool(raw, Parse("bool", raw).out)
<1>1. /\ Parse("string", raw) = Parsed(raw) /\ Parse("int", raw) = ParseInt(raw)
      /\ Parse("bool", raw) = ParseBool(raw)
      /\ Parse("duration", raw) = ParseDurationMs(raw)
  BY DEF Parse
<1>2. /\ ParseInt(raw).ok <=> /\ raw.word = "number"
                              /\ IntMin <= raw.n /\ raw.n <= IntMax
      /\ ParseInt(raw).ok => ParseInt(raw).out = raw.n
  BY ConfigAssumption DEF ParseInt, Parsed, Failed
<1>3. /\ ParseDurationMs(raw).ok <=> ParseInt(raw).ok /\ raw.n >= 0
      /\ ParseDurationMs(raw).ok => ParseDurationMs(raw) = ParseInt(raw)
  BY <1>2 DEF ParseDurationMs, Failed
<1>4. raw = [word |-> raw.word, n |-> raw.n]
  OBVIOUS
<1>5. /\ MeansBool(raw, TRUE) <=> Is(raw, {"true", "yes", "on"}, 1)
      /\ MeansBool(raw, FALSE) <=> Is(raw, {"false", "no", "off"}, 0)
  BY <1>4 DEF MeansBool, Is
<1>6. /\ ParseBool(raw).ok <=> \/ Is(raw, {"true", "yes", "on"}, 1)
                               \/ Is(raw, {"false", "no", "off"}, 0)
      /\ ParseBool(raw).ok => \/ ParseBool(raw).out = TRUE
                                   /\ Is(raw, {"true", "yes", "on"}, 1)
                              \/ ParseBool(raw).out = FALSE
                                   /\ Is(raw, {"false", "no", "off"}, 0)
  BY DEF ParseBool, Parsed, Failed
<1>7. ParseBool(raw).ok <=> \E b \in BOOLEAN : MeansBool(raw, b)
  BY <1>5, <1>6
<1>8. ParseBool(raw).ok => MeansBool(raw, ParseBool(raw).out)
  BY <1>5, <1>6
<1> QED
  BY <1>1, <1>2, <1>3, <1>7, <1>8

(* Once Load has returned, every typed read of a key gives what the last   *)
(* line that assigns to it says, for any file: the map of Load holds just  *)
(* that line, with the section that was in force there.                    *)
THEOREM ReadsSeeTheFileHolds == ConfigSpec => []ReadsSeeTheFile
<1>1. ASSUME ConfigInv PROVE ReadsSeeTheFile
  <2> SUFFICES ASSUME ~loading PROVE
         /\ DOMAIN entries_ = FullKeys
         /\ \A k \in FullKeys :
              LET raw == file[Max(Assigning(k))].value
                  int == Require("int", k)
                  dur == Require("duration", k)
                  bool == Require("bool", k)
              IN  /\ Require("string", k) = Parsed(raw)
                  /\ int.ok <=> /\ raw.word = "number"
                                /\ IntMin <= raw.n /\ raw.n <= IntMax
                  /\ int.ok => int.out = raw.n
                  /\ dur.ok <=> int.ok /\ raw.n >= 0
                  /\ dur.ok => dur = int
                  /\ bool.ok <=> \E b \in BOOLEAN : MeansBool(raw, b)
                  /\ bool.ok => MeansBool(raw, bool.out)
                  /\ \A d \in {IntMin, IntMax} :
                        Get("int", k, d) = IF int.ok THEN raw.n ELSE d
    BY DEF ReadsSeeTheFile
  <2>1. DOMAIN entries_ = FullKeys /\ file \in Seq(Lines)
    BY <1>1 DEF ConfigInv, LoadInStep
  <2>2. ASSUME NEW k \in FullKeys, NEW raw, raw = file[Max(Assigning(k))].value
        PROVE  /\ raw \in [word : STRING, n : Int]
               /\ \A type : Require(type, k) = Parse(type, raw)
    <3>1. Last(k, entries_[k].line) /\ entries_[k].value = file[entries_[k].line].value
      BY <1>1 DEF ConfigInv, LoadInStep
    <3>2. Assigning(k) \subseteq 1..Len(file) /\ Len(file) \in Nat
      BY <2>1, Pairs
    <3>3. Max(Assigning(k)) = entries_[k].line
      BY <3>1, <3>2, MaxIs DEF Last
    <3>4. entries_[k].value = raw
      BY <2>2, <3>1, <3>3
    <3>5. /\ entries_[k].line \in 1..Len(file)
          /\ file[entries_[k].line].kind = "pair"
      BY <3>1, <3>2 DEF Last, Assigning
    <3>6. file[entries_[k].line] \in Lines
      BY <2>1, <3>5
    <3>7. raw \in [word : STRING, n : Int]
      BY <3>1, <3>4, <3>5, <3>6, ConfigAssumption, Zenon
    <3> QED
      BY <2>1, <3>4, <3>7 DEF Require, Find
  <2>3. ASSUME NEW k \in FullKeys
        PROVE  LET raw == file[Max(Assigning(k))].value
                   int == Require("int", k)
                   dur == Require("duration", k)
                   bool == Require("bool", k)
               IN  /\ Require("string", k) = Parsed(raw)
                   /\ int.ok <=> /\ raw.word = "number"
                                 /\ IntMin <= raw.n /\ raw.n <= IntMax
                   /\ int.ok => int.out = raw.n
                   /\ dur.ok <=> int.ok /\ raw.n >= 0
                   /\ dur.ok => dur = int
                   /\ bool.ok <=> \E b \in BOOLEAN : MeansBool(raw, b)
                   /\ bool.ok => MeansBool(raw, bool.out)
                   /\ \A d \in {IntMin, IntMax} :
                         Get("int", k, d) = IF int.ok THEN raw.n ELSE d
    <3>1. PICK raw : raw = file[Max(Assigning(k))].value
      OBVIOUS
    <3>2. /\ raw \in [word : STRING, n : Int]
          /\ Require("int", k) = Parse("int", raw)
          /\ Require("duration", k) = Parse("duration", raw)
          /\ Require("bool", k) = Parse("bool", raw)
          /\ Require("string", k) = Parse("string", raw)
      BY <2>2, <3>1
    <3>3. \A d \in {IntMin, IntMax} :
             Get("int", k, d) = IF Parse("int", raw).ok THEN raw.n ELSE d
      BY <3>2, Parsers DEF Get
    <3> QED
      BY <3>1, <3>2, <3>3, Parsers, Zenon
  <2> QED
    BY <2>1, <2>3
<1> QED
  BY <1>1, ConfigInvariant, PTL

(* Of any file, a malformed line is logged, and a pair is either in force  *)
(* or logged with the next line that assigns to its full key.              *)
THEOREM NothingDroppedSilentlyHolds == ConfigSpec => []NothingDroppedSilently
<1>1. ASSUME ConfigInv PROVE NothingDroppedSilently
  <2>1. ASSUME NEW k \in FullKeys, NEW i \in Assigning(k)
        PROVE  LET later == {j \in Assigning(k) : j > i}
               IN  IF later = {} THEN Find(k) /\ entries_[k].line = i
                   ELSE <<i, Min(later)>> \in overridden
    <3> DEFINE later == {j \in Assigning(k) : j > i}
    <3>1. Last(k, entries_[k].line) /\ DOMAIN entries_ = FullKeys /\ file \in Seq(Lines)
      BY <1>1 DEF ConfigInv, LoadInStep
    <3>2. Assigning(k) \subseteq 1..Len(file) /\ Len(file) \in Nat
      BY <3>1, Pairs
    <3>3. entries_[k].line \in Assigning(k) /\ \A j \in Assigning(k) : j <= entries_[k].line
      BY <3>1 DEF Last
    <3>4. CASE i = entries_[k].line
      <4>1. later = {}
        BY <3>2, <3>3, <3>4
      <4> QED
        BY <3>1, <3>4, <4>1 DEF Find
    <3>5. CASE i # entries_[k].line
      <4>1. PICK j \in Assigning(k) : Overrides(k, i, j) /\ <<i, j>> \in overridden
        BY <1>1, <3>5 DEF ConfigInv, LogInStep
      <4>2. /\ later \in SUBSET Int /\ j \in later /\ \A m \in later : j <= m
        BY <3>2, <4>1 DEF Overrides
      <4>3. Min(later) = j
        <5> HIDE DEF later
        <5> QED
          BY <4>2, MinIs
      <4> QED
        BY <4>1, <4>2, <4>3
    <3> QED
      BY <3>4, <3>5
  <2> QED
    BY <1>1, <2>1 DEF NothingDroppedSilently, ConfigInv, LogInStep
<1> QED
  BY <1>1, ConfigInvariant, PTL

-----------------------------------------------------------------------------
(* Network.                                                                *)

ND == "NetworkDisconnected"
NC == "NetworkConnected"

Places == {"exchange", "mark", "close", "clear", "publish", "dispatch"}

(* A Teardown that has won the exchange and not yet published.             *)
Winning == {"mark", "close", "clear", "publish"}

Frames == [c : Conns, at : Places] \cup {NoFrame}

(* The types of the variables that the properties speak of.                *)
BusTypes ==
    /\ subscribers \in [{NC, ND} -> Seq(Nat \ {0})]
    /\ handle \in [{"connect_sub", "app_sub", "disconnect_sub"} -> Nat]
    /\ temp \in [Threads -> Nat]
    /\ next_id \in Nat /\ next_id >= 3
    /\ dispatching \in [Threads -> BOOLEAN]
    /\ snapshot \in [Threads -> Seq(Nat \ {0})]
    /\ current \in [Threads -> Nat]
    /\ event \in [Threads -> {NC, ND, Bus!NoEvent}]

ServerTypes ==
    /\ running \in BOOLEAN
    /\ connections \subseteq Conns /\ to_close \subseteq Conns
    /\ closing \subseteq to_close
    /\ owner \in {"idle", "assign", "spawn", "join", "close", "drop",
                  "destroyed"}
    /\ accept \in {"none", "loop", "poll", "register", "announce",
                   "dispatch", "exited"}
    /\ accepted \in Conns \cup {None}
    /\ service \in {"idle", "closing", "recv"}
    /\ using \in Conns \cup {None}
    /\ held \subseteq Conns /\ announced \subseteq Conns

ConnTypes ==
    /\ life \in [Conns -> {"none", "live", "dead"}]
    /\ server_side \in [Conns -> BOOLEAN]
    /\ connected \in [Conns -> BOOLEAN]
    /\ queue \in [Conns -> Int]
    /\ fd \in [Conns -> Fds \cup {0}]
    /\ sender \in [Conns -> {"none", "pop", "check", "write", "ending",
                             "done"}]
    /\ table \in [Fds -> Conns \cup {None}]
    /\ peer \in [Conns -> {"none", "waiting", "open"}]
    /\ gone \in [Conns -> {Rejected, 0, 1}]
    /\ td \in [Threads -> Frames]
    /\ evref \in [Threads -> Conns \cup {None}]
    /\ dtor \in [Threads -> Conns \cup {None}]

-----------------------------------------------------------------------------
(* The threads of the server and what each may be doing.                   *)
ServerInStep ==
    /\ accept \notin {"none", "exited"} =>
          (owner = "idle" /\ running) \/ owner = "join"
    /\ owner # "idle" => ~running
    /\ owner \notin {"close", "drop"} => to_close = {}
    /\ owner # "close" => closing = {}
    /\ accepted # None <=> accept \in {"register", "announce", "dispatch"}
    /\ using # None <=> service # "idle"

(* A thread is dispatching while it has an event that it publishes.        *)
Dispatching ==
    \A t \in Threads :
        /\ dispatching[t] <=> event[t] # Bus!NoEvent
        /\ event[t] = Bus!NoEvent => current[t] = 0 /\ snapshot[t] = <<>>
        /\ event[t] # Bus!NoEvent => evref[t] # None

(* The event a thread publishes is about the connection it tears down, or  *)
(* about the one it has accepted.                                          *)
EventIsHeld ==
    \A t \in Threads :
        /\ td[t].at = "dispatch" => evref[t] = td[t].c
        /\ t # "accept" => (evref[t] # None <=> td[t].at = "dispatch")
        /\ t = "accept" =>
              /\ td[t].at # "dispatch"
              /\ accept = "dispatch" => evref[t] = accepted
              /\ accept # "dispatch" => evref[t] = None

(* Why a thread is in a Teardown: it is the sender, it runs the            *)
(* destructor, or it holds a reference for as long as it is there.         *)
SenderFrames ==
    \A c \in Conns :
        /\ td[c].c \in {None, c} /\ dtor[c] \in {None, c}
        /\ sender[c] # "ending" => td[c].at = "none" /\ dtor[c] = None

ServiceFrames ==
    /\ td["service"].at # "none" =>
          \/ dtor["service"] = td["service"].c
          \/ service = "closing" /\ using = td["service"].c
    /\ service # "idle" => dtor["service"] = None

OwnerFrames ==
    /\ td["owner"].at # "none" =>
          \/ dtor["owner"] = td["owner"].c
          \/ owner = "close" /\ td["owner"].c \in to_close
    /\ dtor["owner"] # None => owner \in {"drop", "destroyed"}

AcceptFrames ==
    /\ td["accept"].at # "none" =>
          \/ dtor["accept"] = td["accept"].c
          \/ /\ accept = "dispatch" /\ td["accept"].c = accepted
             /\ current["accept"] = AppConnected
    /\ dtor["accept"] # None => accept = "loop"

(* A destructor runs once, on an object nobody refers to.                  *)
DestructorAlone ==
    \A t \in Threads : dtor[t] # None =>
        /\ td[t].c \in {None, dtor[t]}
        /\ ~Referenced(dtor[t])
        /\ life[dtor[t]] = "live"
        /\ td[t].at # "exchange" => ~connected[dtor[t]]
        /\ \A u \in Threads : dtor[u] = dtor[t] => u = t

(* The life of a connection object.                                        *)
Lives ==
    \A c \in Conns :
        /\ life[c] = "none" <=> peer[c] \in {"none", "waiting"}
        /\ life[c] = "none" =>
              /\ ~connected[c] /\ fd[c] = 0 /\ queue[c] = 0 /\ gone[c] = 0
              /\ sender[c] = "none" /\ c \notin announced /\ ~server_side[c]
        /\ life[c] = "dead" => sender[c] \in {"none", "ending", "done"}
        /\ Referenced(c) => life[c] = "live"
        /\ \A t \in Threads : td[t].c = c => life[c] = "live"

(* Descriptors and connections name each other, until closed.              *)
Descriptors ==
    /\ \A c \in Conns : connected[c] => fd[c] # 0 /\ table[fd[c]] = c
    /\ \A n \in Fds : table[n] # None => fd[table[n]] = n

SocketIsOwn ==
    \A t \in Threads :
        /\ td[t].at \in {"mark", "close"} =>
              fd[td[t].c] # 0 /\ table[fd[td[t].c]] = td[t].c
        /\ td[t].at = "clear" => \A n \in Fds : table[n] # td[t].c

(* One Teardown wins the exchange.                                         *)
OneWinner ==
    \A t, u \in Threads :
        /\ td[t].at \in Winning /\ td[u].at \in Winning
        /\ td[t].c = td[u].c
        => t = u

(* The count of disconnects follows it.                                    *)
Counted ==
    /\ \A t \in Threads :
          /\ td[t].at \in Winning => ~connected[td[t].c] /\ gone[td[t].c] = 0
          /\ td[t].at = "publish" => server_side[td[t].c]
          /\ td[t].at = "dispatch" => ~connected[td[t].c] /\ gone[td[t].c] = 1
    /\ \A c \in Conns : connected[c] => gone[c] = 0

(* Until a connection is announced only the accept thread knows it.        *)
Unannounced ==
    \A c \in Conns : server_side[c] /\ life[c] = "live" /\ c \notin announced =>
        dtor["accept"] = c
        \/ (accepted = c /\ accept \in {"register", "announce"})

AcceptedIsNew ==
    accept \in {"register", "announce"} =>
        /\ connected[accepted] /\ server_side[accepted]
        /\ queue[accepted] = 0 /\ sender[accepted] \in {"pop", "done"}
        /\ accepted \notin announced \cup held \cup to_close
        /\ using # accepted
        /\ \A t \in Threads : td[t].c # accepted

(* What the server lists and announces is its own, and announced first.    *)
AnnouncedFirst ==
    /\ accept = "announce" => accepted \in connections
    /\ accept = "dispatch" => accepted \in announced
    /\ \A c \in announced \cup connections : server_side[c]
    /\ accepted # None => server_side[accepted]
    /\ \A c \in Conns : gone[c] # 0 => c \in announced

(* Stop leaves nothing of the server's open.                               *)
OpenIsKnown ==
    /\ \A c \in Conns : server_side[c] /\ connected[c] =>
          \/ c \in connections \/ dtor["accept"] = c
          \/ accept = "register" /\ accepted = c
    /\ owner = "close" => \A c \in Conns : server_side[c] /\ connected[c] =>
          \/ c \in closing
          \/ td["owner"].c = c /\ td["owner"].at = "exchange"
    /\ ~running /\ owner \notin {"join", "close"} =>
          \A c \in Conns : server_side[c] => ~connected[c]

(* The end of an announced connection is being published.                  *)
Pursued ==
    owner # "destroyed" => \A c \in announced : gone[c] = 0 =>
        /\ c \in connections
        /\ connected[c] \/ \E t \in Threads :
                              td[t].c = c /\ td[t].at \in Winning

(* The lists of the bus, as far as the server's handler goes.              *)
Handler == handle["disconnect_sub"]

HandlerIsListed ==
    /\ subscribers[NC] = <<AppConnected>>
    /\ snapshot["accept"] \in {<<>>, <<AppConnected>>}
    /\ current["accept"] \in {0, AppConnected}
    /\ Handler = 0 \/ Handler >= 3
    /\ temp["owner"] = 0 \/ temp["owner"] >= 3
    /\ owner = "assign" =>
          temp["owner"] \in Bus!Range(subscribers[ND]) /\ Handler = 0
    /\ (owner = "idle" /\ ~running) \/ owner = "drop" => Handler = 0
    /\ running \/ owner \in {"spawn", "join", "close"} =>
          Handler # 0 /\ Handler \in Bus!Range(subscribers[ND])

(* A connection stays listed only until the server's handler has run.      *)
HandlerWillRun ==
    /\ running \/ owner \in {"join", "close"} =>
          \A c \in connections \ left : gone[c] = 1 =>
              \E t \in Threads :
                  /\ td[t].c = c /\ td[t].at = "dispatch"
                  /\ \/ current[t] = Handler
                     \/ Handler \in Bus!Range(snapshot[t])
    /\ ~running /\ owner \in {"idle", "assign", "spawn"} =>
          connections \subseteq left

Inv ==
    /\ BusTypes /\ ServerTypes /\ ConnTypes
    /\ ServerInStep
    /\ Dispatching /\ EventIsHeld
    /\ SenderFrames /\ ServiceFrames /\ OwnerFrames /\ AcceptFrames
    /\ DestructorAlone
    /\ Lives
    /\ Descriptors /\ SocketIsOwn
    /\ OneWinner /\ Counted
    /\ Unannounced /\ AcceptedIsNew /\ AnnouncedFirst
    /\ OpenIsKnown
    /\ Pursued
    /\ HandlerIsListed
    /\ HandlerWillRun

-----------------------------------------------------------------------------
(* Whom the threads are named after.                                       *)
LEMMA Names ==
    /\ None \notin Conns
    /\ {"accept", "owner", "service"} \subseteq Threads /\ Conns \subseteq Threads
    /\ \A c \in Conns : c # "accept" /\ c # "owner" /\ c # "service"
  BY NetworkAssumption DEF Threads

USE Names DEF AppConnected, AppDisconnected, ND, NC, Bus!NoEvent, Handler,
    Winning

(* A frame is the empty one or has a connection and a place.               *)
LEMMA FrameKinds ==
    ASSUME NEW f \in Frames
    PROVE  /\ f = NoFrame <=> f.at = "none"
           /\ f = NoFrame <=> f.c = None
           /\ f.at # "none" => f.c \in Conns /\ f.at \in Places
  BY DEF Frames, Places, NoFrame

(* A thread in a Teardown is in that of some connection.                   *)
LEMMA FrameTypes ==
    ASSUME ConnTypes
    PROVE  \A u \in Threads : td[u].at # "none" => td[u].c \in Conns
  BY FrameKinds DEF ConnTypes

(* The step takes t to a place in the Teardown of c.                       *)
Sets(t, c, at) ==
    /\ td' \in [Threads -> Frames]
    /\ td'[t].c = c /\ td'[t].at = at
    /\ \A u \in Threads : u # t => td'[u] = td[u]

(* Assigning a frame moves its thread alone.                               *)
LEMMA FrameSet ==
    ASSUME ConnTypes, NEW t \in Threads, NEW f \in Frames,
           td' = [td EXCEPT ![t] = f]
    PROVE  Sets(t, f.c, f.at)
  BY DEF ConnTypes, Sets

(* Goto keeps to the same connection.                                      *)
LEMMA FrameGoto ==
    ASSUME ConnTypes, NEW t \in Threads, td[t].at # "none",
           NEW l \in Places, Goto(t, l)
    PROVE  td[t].c \in Conns /\ Sets(t, td[t].c, l)
<1>1. td[t] \in [c : Conns, at : Places] /\ td[t].c \in Conns
  BY DEF ConnTypes, Frames, NoFrame
<1>2. td'[t] = [td[t] EXCEPT !.at = l]
  BY DEF Goto, ConnTypes
<1>3. td'[t].c = td[t].c /\ td'[t].at = l /\ td'[t] \in Frames
  BY <1>1, <1>2 DEF Frames
<1> QED
  BY <1>1, <1>3 DEF Goto, ConnTypes, Sets

(* Enter begins at the exchange.                                           *)
LEMMA FrameEnter ==
    ASSUME ConnTypes, NEW t \in Threads, NEW c \in Conns, Enter(t, c)
    PROVE  Sets(t, c, "exchange")
<1>1. [c |-> c, at |-> "exchange"] \in Frames
  BY DEF Frames, Places
<1> QED
  BY <1>1, FrameSet DEF Enter

(* Leave ends the Teardown.                                                *)
LEMMA FrameLeave ==
    ASSUME ConnTypes, NEW t \in Threads, Leave(t) PROVE Sets(t, None, "none")
<1>1. NoFrame \in Frames
  BY DEF Frames
<1> QED
  BY <1>1, FrameSet DEF Leave, NoFrame

(* A thread that drops a reference leaves, or destroys the connection.     *)
Drops(t, c) ==
    /\ td' \in [Threads -> Frames] /\ dtor' \in [Threads -> Conns \cup {None}]
    /\ \A u \in Threads : u # t => td'[u] = td[u] /\ dtor'[u] = dtor[u]
    /\ td'[t].c = dtor'[t]
    /\ \/ Referenced(c)' /\ dtor'[t] = None /\ td'[t].at = "none"
       \/ ~Referenced(c)' /\ dtor'[t] = c /\ td'[t].at = "exchange"

(* What Dropped does, thread by thread.                                    *)
LEMMA FrameDropped ==
    ASSUME ConnTypes, NEW t \in Threads, NEW c \in Conns, Dropped(t, c),
           dtor[t] = None
    PROVE  Drops(t, c)
<1>1. NoFrame \in Frames /\ [c |-> c, at |-> "exchange"] \in Frames
  BY DEF Frames, Places
<1>2. CASE /\ Referenced(c)' /\ dtor' = dtor
           /\ td' = [td EXCEPT ![t] = NoFrame]
  BY <1>1, <1>2, FrameSet DEF Drops, Sets, NoFrame, ConnTypes
<1>3. CASE /\ ~Referenced(c)' /\ dtor' = [dtor EXCEPT ![t] = c]
           /\ td' = [td EXCEPT ![t] = [c |-> c, at |-> "exchange"]]
  BY <1>1, <1>3, FrameSet DEF Drops, Sets, ConnTypes
<1> QED
  BY <1>2, <1>3 DEF Dropped

(* The ids in a list, in its tail and in a longer one.                     *)
LEMMA EmptyRange == Bus!Range(<<>>) = {}
  BY DEF Bus!Range

(* The head of a list and its tail hold what the list holds.               *)
LEMMA MoveHead ==
    ASSUME NEW s \in Seq(Nat \ {0}), s # <<>>
    PROVE  /\ Head(s) \in Nat \ {0} /\ Tail(s) \in Seq(Nat \ {0})
           /\ Bus!Range(s) = {Head(s)} \cup Bus!Range(Tail(s))
<1>1. /\ DOMAIN s = 1..Len(s) /\ Len(s) \in Nat /\ Len(s) > 0
      /\ DOMAIN Tail(s) = 1..(Len(s) - 1) /\ Head(s) = s[1]
      /\ \A i \in 1..(Len(s) - 1) : Tail(s)[i] = s[i + 1]
  OBVIOUS
<1>2. ASSUME NEW i \in 1..Len(s), i # 1
      PROVE  i - 1 \in 1..(Len(s) - 1) /\ Tail(s)[i - 1] = s[i]
  BY <1>1, <1>2
<1>3. Bus!Range(s) \subseteq {Head(s)} \cup Bus!Range(Tail(s))
  <2>1. ASSUME NEW i \in 1..Len(s) PROVE s[i] \in {s[1]} \cup Bus!Range(Tail(s))
    BY <1>1, <1>2 DEF Bus!Range
  <2> QED
    BY <1>1, <2>1 DEF Bus!Range
<1>4. {Head(s)} \cup Bus!Range(Tail(s)) \subseteq Bus!Range(s)
  BY <1>1 DEF Bus!Range
<1> QED
  BY <1>3, <1>4

(* An appended id is on the list.                                          *)
LEMMA AppendRange ==
    ASSUME NEW s \in Seq(Nat \ {0}), NEW id \in Nat \ {0}
    PROVE  /\ Append(s, id) \in Seq(Nat \ {0})
           /\ id \in Bus!Range(Append(s, id))
<1>1. /\ Len(s) + 1 \in DOMAIN Append(s, id) /\ Append(s, id)[Len(s) + 1] = id
  OBVIOUS
<1> QED
  BY <1>1 DEF Bus!Range

(* No list holds the id 0.                                                 *)
LEMMA NoZero == ASSUME NEW s \in Seq(Nat \ {0}) PROVE 0 \notin Bus!Range(s)
<1>1. DOMAIN s = 1..Len(s) /\ \A i \in 1..Len(s) : s[i] \in Nat \ {0}
  OBVIOUS
<1> QED
  BY <1>1 DEF Bus!Range

(* The list of the one id 1.                                               *)
LEMMA OneElement == Head(<<1>>) = 1 /\ Tail(<<1>>) = <<>>
  OBVIOUS

(* Every nonempty set of naturals has a least element.                     *)
LEMMA LeastOf ==
    ASSUME NEW S \in SUBSET Nat, S # {}
    PROVE  Bus!Min(S) \in S
<1>1. \E z \in S : \A y \in S : z <= y
  BY LeastElement
<1> QED
  BY <1>1 DEF Bus!Min

(* Erasing an entry leaves a list.                                         *)
LEMMA RemoveTyped ==
    ASSUME NEW s \in Seq(Nat \ {0}), NEW id
    PROVE  Bus!RemoveFirst(s, id) \in Seq(Nat \ {0})
<1>1. CASE \A i \in 1..Len(s) : s[i] # id
  BY <1>1 DEF Bus!RemoveFirst
<1>2. CASE \E i \in 1..Len(s) : s[i] = id
  <2> DEFINE I == {i \in 1..Len(s) : s[i] = id}
             k == Bus!Min(I)
  <2>1. I \in SUBSET Nat /\ I # {}
    BY <1>2
  <2>2. k \in 1..Len(s)
    <3>1. k \in I
      BY <2>1, LeastOf
    <3> QED
      BY <3>1
  <2>3. Bus!SelectInSeq(s, LAMBDA v : v = id) = k
    BY <2>1 DEF Bus!SelectInSeq
  <2>4. Bus!RemoveFirst(s, id) = SubSeq(s, 1, k - 1) \o SubSeq(s, k + 1, Len(s))
    BY <1>2, <2>3 DEF Bus!RemoveFirst, Bus!RemoveAt
  <2> HIDE DEF k
  <2>5. /\ SubSeq(s, 1, k - 1) \in Seq(Nat \ {0})
        /\ SubSeq(s, k + 1, Len(s)) \in Seq(Nat \ {0})
    BY <2>2
  <2> QED
    BY <2>4, <2>5
<1> QED
  BY <1>1, <1>2

(* An id that is not on the list is not erased.                            *)
LEMMA RemoveAbsent ==
    ASSUME NEW s, NEW id, \A i \in 1..Len(s) : s[i] # id
    PROVE  Bus!RemoveFirst(s, id) = s
  BY DEF Bus!RemoveFirst

(* The application's entry is not erased for another.                      *)
LEMMA RemoveOther ==
    ASSUME NEW id, id # 1 PROVE Bus!RemoveFirst(<<1>>, id) = <<1>>
<1>1. \A i \in 1..Len(<<1>>) : <<1>>[i] # id
  OBVIOUS
<1> QED
  BY <1>1, RemoveAbsent

(* The server's handle is cancelled.                                       *)
LEMMA CancelStep ==
    ASSUME Inv, Bus!Cancel("owner", "disconnect_sub")
    PROVE  /\ subscribers' \in [{NC, ND} -> Seq(Nat \ {0})]
           /\ subscribers'[NC] = <<1>>
           /\ handle' = [handle EXCEPT !["disconnect_sub"] = 0]
           /\ UNCHANGED <<next_id, temp, dispatching, snapshot, current, event>>
<1>1. /\ Handler # 0 /\ Bus!RemoveSubscriberFromState(Handler)
      /\ handle' = [handle EXCEPT !["disconnect_sub"] = 0]
      /\ UNCHANGED <<next_id, temp, dispatching, snapshot, current, event>>
  BY DEF Bus!Cancel
<1>2. CASE UNCHANGED subscribers
  BY <1>1, <1>2 DEF Inv, BusTypes, HandlerIsListed
<1>3. CASE subscribers' = [e \in {NC, ND} |-> Bus!RemoveFirst(subscribers[e], Handler)]
  <2>1. \A e \in {NC, ND} : Bus!RemoveFirst(subscribers[e], Handler) \in Seq(Nat \ {0})
    BY RemoveTyped DEF Inv, BusTypes
  <2>2. Handler # 1 /\ subscribers[NC] = <<1>>
    BY <1>1 DEF Inv, HandlerIsListed
  <2>3. Bus!RemoveFirst(subscribers[NC], Handler) = <<1>>
    BY <2>2, RemoveOther
  <2> QED
    BY <1>1, <1>3, <2>1, <2>3
<1> QED
  BY <1>1, <1>2, <1>3 DEF Bus!RemoveSubscriberFromState

(* A dispatch that goes on will get to the server's handler as before.     *)
LEMMA DispatchesGoOn ==
    ASSUME Inv, running' = running, owner' = owner, left' = left,
           \A c \in Conns : gone'[c] = 1 => gone[c] = 1,
           handle' = handle, connections' = connections,
           \A u \in Threads : current'[u] = current[u] \/ current[u] \in {1, 2},
           snapshot' = snapshot,
           \A u \in Threads : td[u].at = "dispatch" =>
               td'[u] = td[u] \/ (current[u] = 0 /\ snapshot[u] = <<>>)
    PROVE  HandlerWillRun'
<1>1. ASSUME running' \/ owner' \in {"join", "close"},
             NEW c \in connections' \ left', gone'[c] = 1
      PROVE  \E t \in Threads :
                 /\ td'[t].c = c /\ td'[t].at = "dispatch"
                 /\ \/ current'[t] = Handler'
                    \/ Handler' \in Bus!Range(snapshot'[t])
  <2>1. PICK t \in Threads :
            /\ td[t].c = c /\ td[t].at = "dispatch"
            /\ current[t] = Handler \/ Handler \in Bus!Range(snapshot[t])
    BY <1>1 DEF Inv, HandlerWillRun, ServerTypes
  <2>2. Handler # 0 /\ Handler \notin {1, 2}
    BY <1>1 DEF Inv, HandlerIsListed
  <2>3. ~(current[t] = 0 /\ snapshot[t] = <<>>)
    BY <2>1, <2>2, EmptyRange
  <2> QED
    BY <2>1, <2>2, <2>3
<1> QED
  BY <1>1 DEF Inv, HandlerWillRun

(* Dropping a reference to c on t disturbs no other thread and no other    *)
(* connection.                                                             *)
Loses(c) ==
    /\ connections' \subseteq connections /\ held' \subseteq held
    /\ to_close' \subseteq to_close
    /\ accepted' \in {accepted, None} /\ using' \in {using, None}
    /\ \A u \in Threads : evref'[u] \in {evref[u], None}
    /\ UNCHANGED <<connVars, life, announced, gone, owner>>
    /\ connections' = connections \/ owner = "destroyed"

(* What a drop keeps of the invariant, whatever held the reference.        *)
LEMMA DropInv ==
    ASSUME Inv, NEW t \in Threads, NEW c \in Conns, Drops(t, c), Loses(c),
           evref' \in [Threads -> Conns \cup {None}],
           Referenced(c), dtor[t] = None,
           \/ td[t].at = "none" /\ t \notin Conns
           \/ td[t].at = "dispatch" /\ td[t].c = c
    PROVE  /\ ConnTypes' /\ SenderFrames' /\ DestructorAlone' /\ Lives'
           /\ SocketIsOwn' /\ OneWinner' /\ Counted' /\ Pursued'
<1> USE DEF Inv, Loses, connVars
<1>0. life[c] = "live" /\ \A d \in Conns : Referenced(d)' => Referenced(d)
  BY DEF Referenced, Lives
<1>1. ConnTypes'
  BY DEF ConnTypes, Drops
<1>2. SenderFrames'
  BY DEF SenderFrames, Drops
<1>3. DestructorAlone'
  <2> SUFFICES ASSUME NEW u \in Threads, dtor'[u] # None
               PROVE  /\ td'[u].c \in {None, dtor'[u]}
                      /\ ~Referenced(dtor[u])'
                      /\ life'[dtor'[u]] = "live"
                      /\ td'[u].at # "exchange" => ~connected'[dtor'[u]]
                      /\ \A v \in Threads : dtor'[v] = dtor'[u] => v = u
    BY DEF DestructorAlone
  <2>1. CASE u = t
    <3>1. dtor'[u] = c /\ td'[u].at = "exchange" /\ td'[u].c = c /\ ~Referenced(c)'
      BY <2>1 DEF Drops
    <3>2. \A v \in Threads : dtor[v] # c
      BY DEF DestructorAlone
    <3>3. ~Referenced(dtor[u])'
      BY <3>1 DEF Referenced
    <3> QED
      BY <1>0, <2>1, <3>1, <3>2, <3>3 DEF Drops
  <2>2. CASE u # t
    <3>1. dtor'[u] = dtor[u] /\ td'[u] = td[u] /\ dtor[u] # c /\ dtor[u] \in Conns
      BY <2>2 DEF Drops, DestructorAlone, ConnTypes
    <3>2. ~Referenced(dtor[u])
      BY <3>1 DEF DestructorAlone
    <3>3. ~Referenced(dtor[u])'
      BY <3>1, <3>2 DEF Referenced
    <3> QED
      BY <2>2, <3>1, <3>3 DEF Drops, DestructorAlone
  <2> QED
    BY <2>1, <2>2
<1>4. Lives'
  <2>1. \A d \in Conns : \A u \in Threads : td'[u].c = d => life[d] = "live"
    BY <1>0 DEF Drops, Lives
  <2> QED
    BY <1>0, <2>1 DEF Lives
<1>5. SocketIsOwn'
  BY DEF SocketIsOwn, Drops
<1>6. OneWinner' /\ Counted'
  BY DEF OneWinner, Counted, Drops
<1>7. Pursued'
  BY DEF Pursued, Drops
<1> QED
  BY <1>1, <1>2, <1>3, <1>4, <1>5, <1>6, <1>7

(* A step of t within its Teardown of c disturbs no other thread and no    *)
(* other connection.                                                       *)
Moves(t, c) ==
    /\ td[t].c = c /\ td[t].at \notin {"none", "dispatch"}
    /\ td' \in [Threads -> Frames]
    /\ \A u \in Threads : u # t => td'[u] = td[u] /\ evref'[u] = evref[u]
    /\ td'[t].at # "exchange"
    /\ \/ td'[t].at # "dispatch" /\ evref'[t] = evref[t]
       \/ /\ td'[t].at = "dispatch" /\ evref'[t] = c
          /\ t # "accept" /\ Referenced(c)
    /\ \/ td'[t].c = c /\ td'[t].at # "none"
       \/ td'[t].c = None /\ td'[t].at = "none"
    /\ ~connected'[c]
    /\ \A d \in Conns : d # c => /\ connected'[d] = connected[d]
                                 /\ fd'[d] = fd[d]
                                 /\ queue'[d] = queue[d]
                                 /\ gone'[d] = gone[d]
    /\ gone'[c] # 0 => c \in announced
    /\ UNCHANGED <<serverVars, serviceVars, server_side, sender, peer, life,
                   dtor, announced, current>>

(* What such a step keeps of the invariant.                                *)
LEMMA MoveInv ==
    ASSUME Inv, NEW t \in Threads, NEW c \in Conns, Moves(t, c)
    PROVE  /\ EventIsHeld' /\ SenderFrames' /\ ServiceFrames' /\ OwnerFrames'
           /\ AcceptFrames' /\ DestructorAlone' /\ Lives' /\ AcceptedIsNew'
           /\ AnnouncedFirst' /\ OpenIsKnown'
<1> USE DEF Inv, serverVars, serviceVars
<1>0. \A d \in Conns : Referenced(d)' <=> Referenced(d)
  BY DEF Referenced, Moves, EventIsHeld
<1>1. EventIsHeld'
  BY DEF EventIsHeld, Moves
<1>2. SenderFrames'
  BY DEF SenderFrames, Moves
<1>3. ServiceFrames'
  BY DEF ServiceFrames, Moves
<1>4. OwnerFrames'
  BY DEF OwnerFrames, Moves
<1>5. AcceptFrames'
  BY DEF AcceptFrames, Moves
<1>6. DestructorAlone'
  <2> SUFFICES ASSUME NEW u \in Threads, dtor[u] # None
               PROVE  /\ td'[u].c \in {None, dtor[u]}
                      /\ td'[u].at # "exchange" => ~connected'[dtor[u]]
    BY <1>0 DEF DestructorAlone, Moves, ConnTypes
  <2>1. dtor[u] \in Conns
    BY DEF ConnTypes
  <2>2. CASE dtor[u] = c
    BY <2>2 DEF DestructorAlone, Moves
  <2>3. CASE dtor[u] # c
    <3>1. u # t
      BY <2>3 DEF DestructorAlone, Moves
    <3> QED
      BY <2>1, <2>3, <3>1 DEF DestructorAlone, Moves
  <2> QED
    BY <2>2, <2>3
<1>7. Lives'
  <2>1. /\ life[c] = "live"
        /\ \A d \in Conns, u \in Threads : td'[u].c = d => td[u].c = d
    BY DEF Lives, Moves
  <2> QED
    BY <1>0, <2>1 DEF Lives, Moves
<1>8. AcceptedIsNew'
  <2>1. accept \in {"register", "announce"} => accepted # c /\ accepted \in Conns
    BY DEF AcceptedIsNew, Moves, ServerInStep, ServerTypes
  <2>2. \A u \in Threads : td'[u].c \in {td[u].c, None}
    BY DEF Moves
  <2> QED
    BY <2>1, <2>2 DEF AcceptedIsNew, Moves
<1>10. AnnouncedFirst'
  BY DEF AnnouncedFirst, Moves
<1>9. OpenIsKnown'
  BY DEF OpenIsKnown, Moves
<1> QED
  BY <1>1, <1>2, <1>3, <1>4, <1>5, <1>6, <1>7, <1>8, <1>9, <1>10

(* The connection of the event whose callback t is running.                *)
LEMMA InCallback ==
    ASSUME Inv, NEW t \in Threads, current[t] # 0
    PROVE  /\ event[t] # Bus!NoEvent
           /\ evref[t] \in Conns /\ evref[t] \in announced
           /\ t = "accept" => accept = "dispatch" /\ evref[t] = accepted
           /\ t # "accept" => /\ td[t].at = "dispatch" /\ td[t].c = evref[t]
                              /\ gone[evref[t]] = 1 /\ ~connected[evref[t]]
<1> USE DEF Inv
<1>1. event[t] # Bus!NoEvent /\ evref[t] \in Conns
  BY DEF Dispatching, ConnTypes
<1>2. t = "accept" => accept = "dispatch" /\ evref[t] = accepted
  BY <1>1 DEF EventIsHeld
<1>3. t # "accept" => td[t].at = "dispatch" /\ td[t].c = evref[t]
  BY <1>1 DEF EventIsHeld
<1>4. t # "accept" => gone[evref[t]] = 1 /\ ~connected[evref[t]]
  BY <1>3 DEF Counted
<1> QED
  BY <1>1, <1>2, <1>3, <1>4 DEF AnnouncedFirst

(* A thread that enters a Teardown of a connection it may refer to.        *)
Enters(t, c) ==
    /\ td[t].at = "none" /\ dtor[t] = None
    /\ Sets(t, c, "exchange")
    /\ life[c] = "live"
    /\ accept \in {"register", "announce"} => c # accepted
    /\ t \in Conns => t = c /\ sender'[c] = "ending"
    /\ \A d \in Conns : d # t => sender'[d] = sender[d]
    /\ sender' \in [Conns -> {"none", "pop", "check", "write", "ending", "done"}]
    /\ UNCHANGED <<busVars, running, token, connections, owner, to_close,
                   accept, accepted, left, held, server_side, connected,
                   queue, fd, table, peer, life, evref, dtor, announced, gone>>

(* What entering keeps of the invariant.                                   *)
LEMMA EnterInv ==
    ASSUME Inv, NEW t \in Threads, NEW c \in Conns, Enters(t, c),
           using' = using \/ (using' = c /\ c \in held)
    PROVE  /\ SenderFrames' /\ DestructorAlone' /\ Lives' /\ SocketIsOwn'
           /\ OneWinner' /\ Counted' /\ Pursued' /\ HandlerWillRun'
           /\ EventIsHeld' /\ AcceptedIsNew'
<1> USE DEF Inv
<1>0. \A d \in Conns : Referenced(d)' => Referenced(d)
  BY DEF Referenced, Enters
<1>1. SenderFrames'
  BY DEF SenderFrames, Enters, Sets
<1>2. DestructorAlone'
  BY <1>0 DEF DestructorAlone, Enters, Sets, ConnTypes
<1>3. Lives'
  BY <1>0 DEF Lives, Enters, Sets
<1>4. SocketIsOwn'
  BY DEF SocketIsOwn, Enters, Sets
<1>5. OneWinner'
  BY DEF OneWinner, Enters, Sets
<1>6. Counted'
  BY DEF Counted, Enters, Sets
<1>7. Pursued'
  BY DEF Pursued, Enters, Sets
<1>8. HandlerWillRun'
  BY DispatchesGoOn DEF Enters, Sets, busVars
<1>9. EventIsHeld'
  BY DEF EventIsHeld, Enters, Sets
<1>10. AcceptedIsNew'
  BY DEF AcceptedIsNew, Enters, Sets, ServerInStep, ServerTypes
<1> QED
  BY <1>1, <1>2, <1>3, <1>4, <1>5, <1>6, <1>7, <1>8, <1>9, <1>10


(* A new connection c on the free descriptor n.                            *)
Makes(c, n, side) ==
    /\ life[c] = "none" /\ table[n] = None
    /\ life'[c] = "live" /\ server_side'[c] = side /\ connected'[c]
    /\ fd'[c] = n /\ table'[n] = c /\ peer'[c] = "open"
    /\ \A d \in Conns : d # c =>
          /\ life'[d] = life[d] /\ server_side'[d] = server_side[d]
          /\ connected'[d] = connected[d] /\ fd'[d] = fd[d]
          /\ peer'[d] = peer[d]
    /\ \A m \in Fds : m # n => table'[m] = table[m]
    /\ life' \in [Conns -> {"none", "live", "dead"}]
    /\ server_side' \in [Conns -> BOOLEAN]
    /\ connected' \in [Conns -> BOOLEAN]
    /\ fd' \in [Conns -> Fds \cup {0}]
    /\ table' \in [Fds -> Conns \cup {None}]
    /\ peer' \in [Conns -> {"none", "waiting", "open"}]

(* Construct makes a connection.                                           *)
LEMMA Made ==
    ASSUME Inv, NEW c \in Conns, NEW n \in Fds, NEW side \in BOOLEAN,
           Lowest(n), Construct(c, n, side), peer[c] \in {"none", "waiting"}
    PROVE  Makes(c, n, side)
  BY DEF Inv, ConnTypes, Lives, Makes, Lowest, Construct

(* Before it is made, a connection is nowhere.                             *)
LEMMA Fresh ==
    ASSUME Inv, NEW c \in Conns, life[c] = "none"
    PROVE  /\ ~Referenced(c)
           /\ \A t \in Threads : td[t].c # c /\ dtor[t] # c /\ evref[t] # c
           /\ \A m \in Fds : table[m] # c
           /\ c \notin announced \cup connections \cup held \cup to_close \cup closing
           /\ ~connected[c] /\ ~server_side[c] /\ queue[c] = 0 /\ gone[c] = 0
           /\ sender[c] = "none" /\ accepted # c /\ using # c
<1> USE DEF Inv
<1>1. /\ ~Referenced(c) /\ ~connected[c] /\ ~server_side[c] /\ queue[c] = 0
      /\ gone[c] = 0 /\ sender[c] = "none" /\ c \notin announced /\ fd[c] = 0
      /\ \A t \in Threads : td[t].c # c
  BY DEF Lives
<1>2. \A t \in Threads : dtor[t] # c
  BY DEF DestructorAlone
<1>3. \A m \in Fds : table[m] # c
  BY <1>1 DEF Descriptors, Fds
<1> QED
  BY <1>1, <1>2, <1>3 DEF Referenced, ServerTypes

(* Making a connection disturbs no other.  The maker keeps a reference, or *)
(* destroys it again.                                                      *)
MakeRefs(t, c) ==
    /\ \A d \in Conns : d # c => (Referenced(d)' <=> Referenced(d))
    /\ UNCHANGED <<queue, evref, announced, gone, owner>>
    /\ \/ /\ UNCHANGED <<td, dtor>> /\ sender' = [sender EXCEPT ![c] = "pop"]
       \/ /\ UNCHANGED sender
          /\ td[t].at = "none" /\ dtor[t] = None /\ ~Referenced(c)' /\ t \notin Conns
          /\ Sets(t, c, "exchange")
          /\ dtor' = [dtor EXCEPT ![t] = c]

(* What making a connection keeps of the invariant.                        *)
LEMMA MakeInv ==
    ASSUME Inv, NEW t \in Threads, NEW c \in Conns, NEW n \in Fds,
           NEW side \in BOOLEAN, Makes(c, n, side), MakeRefs(t, c),
           connections' = connections
    PROVE  /\ ConnTypes' /\ SenderFrames' /\ DestructorAlone' /\ Lives'
           /\ Descriptors' /\ SocketIsOwn' /\ OneWinner' /\ Counted' /\ Pursued'
<1> USE DEF Inv
<1>a. /\ \A u \in Threads : td[u].c # c /\ dtor[u] # c
      /\ \A m \in Fds : table[m] # c
      /\ c \notin announced /\ ~connected[c] /\ queue[c] = 0 /\ gone[c] = 0
      /\ sender[c] = "none" /\ life[c] = "none"
  BY Fresh DEF Makes
<1>b. /\ \A u \in Threads :
            /\ td'[u] = td[u] \/ (td'[u].c = c /\ td'[u].at = "exchange")
            /\ dtor'[u] # c => td'[u] = td[u] /\ dtor'[u] = dtor[u]
            /\ dtor'[u] = c => /\ u = t /\ ~Referenced(c)'
                               /\ td'[u].c = c /\ td'[u].at = "exchange"
      /\ \A d \in Conns : d # c => sender'[d] = sender[d]
      /\ sender'[c] \in {"none", "pop"}
      /\ UNCHANGED <<queue, evref, announced, gone, owner>>
  <2>1. CASE UNCHANGED <<td, dtor>> /\ sender' = [sender EXCEPT ![c] = "pop"]
    BY <1>a, <2>1 DEF MakeRefs, ConnTypes
  <2>2. CASE /\ UNCHANGED sender /\ ~Referenced(c)' /\ Sets(t, c, "exchange")
             /\ dtor' = [dtor EXCEPT ![t] = c]
    <3>1. dtor'[t] = c /\ \A u \in Threads : u # t => dtor'[u] = dtor[u]
      BY <2>2 DEF ConnTypes
    <3>2. \A u \in Threads : u # t => td'[u] = td[u]
      BY <2>2 DEF Sets
    <3> QED
      BY <1>a, <2>2, <3>1, <3>2 DEF MakeRefs, Sets
  <2> QED
    BY <2>1, <2>2 DEF MakeRefs
<1>c. \A u \in Threads : td[u].at # "none" => td[u].c \in Conns
  BY FrameTypes
<1>1. ConnTypes'
  BY DEF ConnTypes, Makes, MakeRefs, Sets
<1>2. SenderFrames'
  BY <1>a, <1>b DEF SenderFrames, MakeRefs, Sets
<1>3. DestructorAlone'
  <2> SUFFICES ASSUME NEW u \in Threads, dtor'[u] # None
               PROVE  /\ td'[u].c \in {None, dtor'[u]}
                      /\ ~Referenced(dtor[u])'
                      /\ life'[dtor'[u]] = "live"
                      /\ td'[u].at # "exchange" => ~connected'[dtor'[u]]
                      /\ \A v \in Threads : dtor'[v] = dtor'[u] => v = u
    BY DEF DestructorAlone
  <2>1. CASE dtor'[u] = c
    <3>1. ~Referenced(dtor[u])'
      BY <1>b, <2>1 DEF Referenced
    <3> QED
      BY <1>b, <2>1, <3>1 DEF Makes
  <2>2. CASE dtor'[u] # c
    <3>1. dtor'[u] = dtor[u] /\ td'[u] = td[u] /\ dtor[u] \in Conns
      BY <1>b, <2>2 DEF ConnTypes
    <3>2. ~Referenced(dtor[u])
      BY <3>1 DEF DestructorAlone
    <3>3. ~Referenced(dtor[u])'
      <4>1. PICK d \in Conns : d = dtor[u] /\ d # c /\ d = dtor'[u]
        BY <2>2, <3>1
      <4>2. ~Referenced(d)'
        BY <3>2, <4>1 DEF MakeRefs
      <4> QED
        BY <4>1, <4>2 DEF Referenced
    <3>4. \A v \in Threads : dtor'[v] = dtor'[u] => dtor[v] = dtor[u]
      BY <1>b, <2>2, <3>1
    <3> QED
      BY <2>2, <3>1, <3>3, <3>4 DEF Makes, DestructorAlone
  <2> QED
    BY <2>1, <2>2
<1>4. Lives'
  <2>1. ASSUME NEW d \in Conns, d # c
        PROVE  /\ Referenced(d)' <=> Referenced(d)
               /\ \A u \in Threads : td'[u].c = d => td[u].c = d
    BY <1>b, <2>1 DEF MakeRefs
  <2> QED
    BY <1>a, <1>b, <2>1 DEF Lives, Makes
<1>5. Descriptors'
  <2>1. n # 0 /\ table[n] = None
    BY DEF Fds, Makes
  <2>2. ASSUME NEW d \in Conns, connected'[d]
        PROVE  fd'[d] # 0 /\ table'[fd'[d]] = d
    <3>1. CASE d = c
      BY <2>1, <3>1 DEF Makes
    <3>2. CASE d # c
      <4>1. /\ fd'[d] = fd[d] /\ fd[d] # 0 /\ table[fd[d]] = d
            /\ fd[d] \in Fds /\ fd[d] # n
        BY <2>1, <2>2, <3>2 DEF Makes, Descriptors, ConnTypes
      <4> QED
        BY <4>1 DEF Makes
    <3> QED
      BY <3>1, <3>2
  <2>3. ASSUME NEW m \in Fds, table'[m] # None PROVE fd'[table'[m]] = m
    <3>1. CASE m = n
      BY <3>1 DEF Makes
    <3>2. CASE m # n
      <4>1. table'[m] = table[m] /\ table[m] \in Conns /\ table[m] # c
        BY <1>a, <2>3, <3>2 DEF Makes, ConnTypes
      <4> QED
        BY <2>3, <4>1 DEF Makes, Descriptors
    <3> QED
      BY <3>1, <3>2
  <2> QED
    BY <2>2, <2>3 DEF Descriptors
<1>6. SocketIsOwn'
  <2>1. ASSUME NEW u \in Threads, td'[u].at \in {"mark", "close", "clear"}
        PROVE  td'[u] = td[u] /\ td[u].c \in Conns /\ td[u].c # c
    BY <1>a, <1>b, <1>c, <2>1
  <2> QED
    BY <2>1 DEF SocketIsOwn, Makes, ConnTypes
<1>7. OneWinner'
  BY <1>b DEF OneWinner
<1>8. Counted'
  BY <1>a, <1>b, <1>c DEF Counted, Makes
<1>9. Pursued'
  <2>1. \A u \in Threads : td[u].at \in Winning => td'[u] = td[u]
    BY <1>b DEF MakeRefs, Sets
  <2> QED
    BY <1>a, <1>b, <2>1 DEF Pursued, Makes, ServerTypes
<1> QED
  BY <1>1, <1>2, <1>3, <1>4, <1>5, <1>6, <1>7, <1>8, <1>9
(* A part of the invariant stands while its variables do.                  *)
LEMMA Kept ==
    /\ UNCHANGED <<subscribers, handle, temp, next_id, dispatching, snapshot,
          current, event>> /\ BusTypes => BusTypes'
    /\ UNCHANGED <<running, connections, to_close, closing, owner, accept,
          accepted, service, using, held, announced>> /\ ServerTypes =>
          ServerTypes'
    /\ UNCHANGED <<life, server_side, connected, queue, fd, sender, table,
          peer, gone, td, evref, dtor>> /\ ConnTypes => ConnTypes'
    /\ UNCHANGED <<accept, owner, running, to_close, closing, accepted, using,
          service>> /\ ServerInStep => ServerInStep'
    /\ UNCHANGED <<dispatching, event, current, snapshot, evref>> /\
          Dispatching => Dispatching'
    /\ UNCHANGED <<evref, td, accept, accepted>> /\ EventIsHeld =>
          EventIsHeld'
    /\ UNCHANGED <<td, dtor, sender>> /\ SenderFrames => SenderFrames'
    /\ UNCHANGED <<td, dtor, service, using>> /\ ServiceFrames =>
          ServiceFrames'
    /\ UNCHANGED <<td, dtor, owner, to_close>> /\ OwnerFrames => OwnerFrames'
    /\ UNCHANGED <<td, dtor, accept, accepted, current>> /\ AcceptFrames =>
          AcceptFrames'
    /\ UNCHANGED <<dtor, td, life, connected, connections, held, to_close,
          accepted, using, evref>> /\ DestructorAlone => DestructorAlone'
    /\ UNCHANGED <<life, peer, connected, fd, queue, gone, sender, announced,
          server_side, td, connections, held, to_close, accepted, using,
          evref>> /\ Lives => Lives'
    /\ UNCHANGED <<connected, fd, table>> /\ Descriptors => Descriptors'
    /\ UNCHANGED <<fd, table, td>> /\ SocketIsOwn => SocketIsOwn'
    /\ UNCHANGED <<td>> /\ OneWinner => OneWinner'
    /\ UNCHANGED <<td, connected, gone, server_side>> /\ Counted => Counted'
    /\ UNCHANGED <<server_side, life, announced, dtor, accepted, accept>> /\
          Unannounced => Unannounced'
    /\ UNCHANGED <<accept, accepted, connected, server_side, queue, sender,
          announced, held, to_close, using, td>> /\ AcceptedIsNew =>
          AcceptedIsNew'
    /\ UNCHANGED <<accept, accepted, connections, announced, server_side,
          gone>> /\ AnnouncedFirst => AnnouncedFirst'
    /\ UNCHANGED <<server_side, connected, connections, dtor, accept,
          accepted, owner, closing, td, running>> /\ OpenIsKnown =>
          OpenIsKnown'
    /\ UNCHANGED <<owner, announced, gone, connections, connected, td>> /\
          Pursued => Pursued'
    /\ UNCHANGED <<subscribers, snapshot, current, handle, temp, owner,
          running>> /\ HandlerIsListed => HandlerIsListed'
    /\ UNCHANGED <<running, owner, connections, left, gone, td, current,
          handle, snapshot>> /\ HandlerWillRun => HandlerWillRun'
<1>1. UNCHANGED <<subscribers, handle, temp, next_id, dispatching, snapshot,
      current, event>> /\ BusTypes => BusTypes'
  BY DEF BusTypes
<1>2. UNCHANGED <<running, connections, to_close, closing, owner, accept,
      accepted, service, using, held, announced>> /\ ServerTypes =>
      ServerTypes'
  BY DEF ServerTypes
<1>3. UNCHANGED <<life, server_side, connected, queue, fd, sender, table,
      peer, gone, td, evref, dtor>> /\ ConnTypes => ConnTypes'
  BY DEF ConnTypes
<1>4. UNCHANGED <<accept, owner, running, to_close, closing, accepted, using,
      service>> /\ ServerInStep => ServerInStep'
  BY DEF ServerInStep
<1>5. UNCHANGED <<dispatching, event, current, snapshot, evref>> /\
      Dispatching => Dispatching'
  BY DEF Dispatching
<1>6. UNCHANGED <<evref, td, accept, accepted>> /\ EventIsHeld => EventIsHeld'
  BY DEF EventIsHeld
<1>7. UNCHANGED <<td, dtor, sender>> /\ SenderFrames => SenderFrames'
  BY DEF SenderFrames
<1>8. UNCHANGED <<td, dtor, service, using>> /\ ServiceFrames =>
      ServiceFrames'
  BY DEF ServiceFrames
<1>9. UNCHANGED <<td, dtor, owner, to_close>> /\ OwnerFrames => OwnerFrames'
  BY DEF OwnerFrames
<1>10. UNCHANGED <<td, dtor, accept, accepted, current>> /\ AcceptFrames =>
      AcceptFrames'
  BY DEF AcceptFrames
<1>11. UNCHANGED <<dtor, td, life, connected, connections, held, to_close,
      accepted, using, evref>> /\ DestructorAlone => DestructorAlone'
  BY DEF DestructorAlone, Referenced
<1>12. UNCHANGED <<life, peer, connected, fd, queue, gone, sender, announced,
      server_side, td, connections, held, to_close, accepted, using, evref>>
      /\ Lives => Lives'
  BY DEF Lives, Referenced
<1>13. UNCHANGED <<connected, fd, table>> /\ Descriptors => Descriptors'
  BY DEF Descriptors
<1>14. UNCHANGED <<fd, table, td>> /\ SocketIsOwn => SocketIsOwn'
  BY DEF SocketIsOwn
<1>15. UNCHANGED <<td>> /\ OneWinner => OneWinner'
  BY DEF OneWinner
<1>16. UNCHANGED <<td, connected, gone, server_side>> /\ Counted => Counted'
  BY DEF Counted
<1>17. UNCHANGED <<server_side, life, announced, dtor, accepted, accept>> /\
      Unannounced => Unannounced'
  BY DEF Unannounced
<1>18. UNCHANGED <<accept, accepted, connected, server_side, queue, sender,
      announced, held, to_close, using, td>> /\ AcceptedIsNew =>
      AcceptedIsNew'
  BY DEF AcceptedIsNew
<1>19. UNCHANGED <<accept, accepted, connections, announced, server_side,
      gone>> /\ AnnouncedFirst => AnnouncedFirst'
  BY DEF AnnouncedFirst
<1>20. UNCHANGED <<server_side, connected, connections, dtor, accept,
      accepted, owner, closing, td, running>> /\ OpenIsKnown => OpenIsKnown'
  BY DEF OpenIsKnown
<1>21. UNCHANGED <<owner, announced, gone, connections, connected, td>> /\
      Pursued => Pursued'
  BY DEF Pursued
<1>22. UNCHANGED <<subscribers, snapshot, current, handle, temp, owner,
      running>> /\ HandlerIsListed => HandlerIsListed'
  BY DEF HandlerIsListed, Handler
<1>23. UNCHANGED <<running, owner, connections, left, gone, td, current,
      handle, snapshot>> /\ HandlerWillRun => HandlerWillRun'
  BY DEF HandlerWillRun, Handler
<1> QED
  BY <1>1, <1>2, <1>3, <1>4, <1>5, <1>6, <1>7, <1>8, <1>9, <1>10, <1>11,
      <1>12, <1>13, <1>14, <1>15, <1>16, <1>17, <1>18, <1>19, <1>20, <1>21,
      <1>22, <1>23

(* The exchange picks one winner.                                          *)
LEMMA TeardownExchangeInv ==
    ASSUME Inv, NEW t \in Threads, TeardownExchange(t)
    PROVE  Inv'
<1> USE DEF Inv, TeardownExchange, busVars, serverVars, serviceVars, connVars,
      objVars
<1>a. /\ td[t].at = "exchange" /\ connected' = Exchanged(td[t].c)
      /\ \/ connected[td[t].c] /\ Goto(t, "mark")
         \/ ~connected[td[t].c] /\ Leave(t)
  BY Zenon
<1>b. /\ td[t].c \in Conns
      /\ \/ connected[td[t].c] /\ Sets(t, td[t].c, "mark")
         \/ ~connected[td[t].c] /\ Sets(t, None, "none")
  BY <1>a, FrameGoto, FrameLeave, FrameKinds DEF Places, ConnTypes
<1>c. \A d \in Conns : connected'[d] <=> connected[d] /\ d # td[t].c
  BY <1>a, <1>b DEF Exchanged, ConnTypes
<1>d. ConnTypes'
  BY <1>a, <1>b DEF Exchanged, ConnTypes, Sets
<1>e. PICK c \in Conns : td[t].c = c
  BY <1>b
<1>f. Moves(t, c)
  BY <1>a, <1>b, <1>c, <1>d, <1>e DEF Moves, Sets, ConnTypes, AnnouncedFirst
<1>1. BusTypes' /\ ServerTypes' /\ ServerInStep' /\ Dispatching' /\
      Unannounced' /\ AnnouncedFirst' /\ HandlerIsListed'
  BY Kept
<1>2. EventIsHeld' /\ SenderFrames' /\ ServiceFrames' /\ OwnerFrames' /\
      AcceptFrames' /\ DestructorAlone' /\ Lives' /\ AcceptedIsNew' /\
      OpenIsKnown'
  BY <1>f, MoveInv
<1>3. Descriptors'
  BY <1>a, <1>b, <1>c, <1>d DEF Descriptors, ConnTypes
<1>4. SocketIsOwn'
  BY <1>a, <1>b, <1>c, <1>d DEF SocketIsOwn, ConnTypes, Descriptors, Sets
<1>5. OneWinner'
  BY <1>a, <1>b, <1>c, <1>d DEF OneWinner, Counted, Sets
<1>6. Counted'
  BY <1>a, <1>b, <1>c, FrameTypes DEF Counted, ConnTypes, Sets
<1>7. Pursued'
  BY <1>a, <1>b, <1>c, <1>d DEF Pursued, ConnTypes, ServerTypes, Sets
<1>8. HandlerWillRun'
  BY <1>a, <1>b, DispatchesGoOn DEF Sets
<1> QED
  BY <1>1, <1>2, <1>d, <1>3, <1>4, <1>5, <1>6, <1>7, <1>8 DEF Inv

(* The winner marks the connection.                                        *)
LEMMA TeardownMarkInv ==
    ASSUME Inv, NEW t \in Threads, TeardownMark(t)
    PROVE  Inv'
<1> USE DEF Inv, TeardownMark, busVars, serverVars, serviceVars, connVars,
      objVars
<1>a. PICK c \in Conns : td[t].c = c /\ Sets(t, c, "close")
  BY FrameGoto DEF Places
<1>d. ConnTypes'
  BY <1>a DEF ConnTypes, Sets
<1>f. Moves(t, c)
  BY <1>a, <1>d DEF Moves, Sets, ConnTypes, Counted
<1>1. BusTypes' /\ ServerTypes' /\ ServerInStep' /\ Dispatching' /\
      Descriptors' /\ Unannounced' /\ AnnouncedFirst' /\ HandlerIsListed'
  BY Kept
<1>2. EventIsHeld' /\ SenderFrames' /\ ServiceFrames' /\ OwnerFrames' /\
      AcceptFrames' /\ DestructorAlone' /\ Lives' /\ AcceptedIsNew' /\
      OpenIsKnown'
  BY <1>f, MoveInv
<1>3. SocketIsOwn'
  BY <1>a, <1>d DEF SocketIsOwn, ConnTypes, Sets
<1>4. OneWinner'
  BY <1>a, <1>d DEF OneWinner, Sets
<1>5. Counted'
  BY <1>a, <1>d DEF Counted, ConnTypes, Sets
<1>6. Pursued'
  BY <1>a, <1>d DEF Pursued, ConnTypes, ServerTypes, Sets
<1>7. HandlerWillRun'
  BY <1>a, DispatchesGoOn DEF Sets
<1> QED
  BY <1>1, <1>2, <1>d, <1>3, <1>4, <1>5, <1>6, <1>7 DEF Inv

(* The winner closes the descriptor, which is its own.                     *)
LEMMA TeardownCloseInv ==
    ASSUME Inv, NEW t \in Threads, TeardownClose(t)
    PROVE  Inv'
<1> USE DEF Inv, TeardownClose, busVars, serverVars, serviceVars, connVars,
      objVars
<1>a. PICK c \in Conns : td[t].c = c /\ Sets(t, c, "clear")
  BY FrameGoto DEF Places
<1>b. /\ fd[c] \in Fds /\ table[fd[c]] = c
      /\ table' = [table EXCEPT ![fd[c]] = None]
  BY <1>a DEF ConnTypes, SocketIsOwn
<1>d. ConnTypes'
  BY <1>a, <1>b DEF ConnTypes, Sets
<1>f. Moves(t, c)
  BY <1>a, <1>d DEF Moves, Sets, ConnTypes, Counted
<1>1. BusTypes' /\ ServerTypes' /\ ServerInStep' /\ Dispatching' /\
      Unannounced' /\ AnnouncedFirst' /\ HandlerIsListed'
  BY Kept
<1>2. EventIsHeld' /\ SenderFrames' /\ ServiceFrames' /\ OwnerFrames' /\
      AcceptFrames' /\ DestructorAlone' /\ Lives' /\ AcceptedIsNew' /\
      OpenIsKnown'
  BY <1>f, MoveInv
<1>3. Descriptors'
  BY <1>a, <1>b, <1>d DEF Descriptors, ConnTypes, Counted
<1>4. SocketIsOwn'
  BY <1>a, <1>b, FrameTypes DEF SocketIsOwn, ConnTypes, OneWinner,
      Descriptors, Sets
<1>5. OneWinner'
  BY <1>a, <1>b, <1>d DEF OneWinner, Sets
<1>6. Counted'
  BY <1>a, <1>b, <1>d DEF Counted, ConnTypes, Sets
<1>7. Pursued'
  BY <1>a, <1>b, <1>d DEF Pursued, ConnTypes, ServerTypes, Sets
<1>8. HandlerWillRun'
  BY <1>a, DispatchesGoOn DEF Sets
<1> QED
  BY <1>1, <1>2, <1>d, <1>3, <1>4, <1>5, <1>6, <1>7, <1>8 DEF Inv

(* The descriptor is forgotten.                                            *)
LEMMA TeardownClearInv ==
    ASSUME Inv, NEW t \in Threads, TeardownClear(t)
    PROVE  Inv'
<1> USE DEF Inv, TeardownClear, ServerPublishes, busVars, serverVars,
      serviceVars, connVars, objVars
<1>a. /\ td[t].at = "clear"
      /\ \/ server_side[td[t].c] /\ Goto(t, "publish")
         \/ ~server_side[td[t].c] /\ Leave(t)
  BY Zenon
<1>b. PICK c \in Conns :
         /\ td[t].c = c
         /\ \/ server_side[c] /\ Sets(t, c, "publish")
            \/ ~server_side[c] /\ Sets(t, None, "none")
  BY <1>a, FrameGoto, FrameLeave, FrameKinds DEF Places, ConnTypes
<1>c. /\ \A d \in Conns : connected'[d] <=> connected[d] /\ d # c
      /\ \A d \in Conns : fd'[d] = IF d = c THEN 0 ELSE fd[d]
  BY <1>a, <1>b DEF ConnTypes
<1>d. ConnTypes'
  BY <1>a, <1>b DEF ConnTypes, Sets
<1>f. Moves(t, c)
  BY <1>a, <1>b, <1>c, <1>d DEF Moves, Sets, ConnTypes, Counted
<1>1. BusTypes' /\ ServerTypes' /\ ServerInStep' /\ Dispatching' /\
      Unannounced' /\ AnnouncedFirst' /\ HandlerIsListed'
  BY Kept
<1>2. EventIsHeld' /\ SenderFrames' /\ ServiceFrames' /\ OwnerFrames' /\
      AcceptFrames' /\ DestructorAlone' /\ Lives' /\ AcceptedIsNew' /\
      OpenIsKnown'
  BY <1>f, MoveInv
<1>3. Descriptors'
  BY <1>a, <1>b, <1>c, <1>d DEF Descriptors, ConnTypes, SocketIsOwn
<1>4. SocketIsOwn'
  BY <1>a, <1>b, <1>c, FrameTypes DEF SocketIsOwn, ConnTypes, Sets
<1>5. OneWinner'
  BY <1>a, <1>b, <1>c, <1>d DEF OneWinner, Sets
<1>6. Counted'
  BY <1>a, <1>b, <1>c, <1>d DEF Counted, ConnTypes, Sets
<1>7. Pursued'
  BY <1>a, <1>b, <1>c, <1>d DEF Pursued, ConnTypes, ServerTypes,
      AnnouncedFirst, Sets
<1>8. HandlerWillRun'
  BY <1>a, <1>b, DispatchesGoOn DEF Sets
<1> QED
  BY <1>1, <1>2, <1>d, <1>3, <1>4, <1>5, <1>6, <1>7, <1>8 DEF Inv

(* A connection that its handler closes: the bus rejects the publish, on   *)
(* the accept thread.                                                      *)
LEMMA PublishRejectedInv ==
    ASSUME Inv, NEW t \in Threads, TeardownPublish(t), Referenced(td[t].c), dispatching[t]
    PROVE  Inv'
<1> USE DEF Inv, busVars, serverVars, serviceVars, connVars, objVars
<1>a. PICK c \in Conns :
         /\ td[t].at = "publish" /\ td[t].c = c /\ Sets(t, None, "none")
         /\ UNCHANGED busVars
         /\ evref' = [evref EXCEPT ![t] = @]
         /\ gone' = [gone EXCEPT ![c] = Rejected]
         /\ UNCHANGED <<serverVars, serviceVars, connVars, life, dtor, announced>>
  BY FrameLeave, FrameKinds DEF TeardownPublish, Bus!Publish, Bus!Reentrant,
      Bus!busVars, ConnTypes
<1>b. /\ evref' = evref /\ gone'[c] = Rejected
      /\ \A d \in Conns : d # c => gone'[d] = gone[d]
  BY <1>a DEF ConnTypes
<1>c. gone[c] = 0 /\ ~connected[c] /\ c \in announced
  <2>1. t = "accept" /\ accept = "dispatch"
    BY <1>a DEF Dispatching, EventIsHeld
  <2>2. c = accepted
    BY <1>a, <2>1 DEF AcceptFrames
  <2> QED
    BY <1>a, <2>1, <2>2 DEF Counted, AnnouncedFirst
<1>d. ConnTypes'
  BY <1>a, <1>b DEF ConnTypes, Sets
<1>f. Moves(t, c)
  BY <1>a, <1>b, <1>c DEF Moves, Sets, ConnTypes
<1>1. BusTypes' /\ ServerTypes' /\ ServerInStep' /\ Dispatching' /\
      Descriptors' /\ Unannounced' /\ HandlerIsListed'
  BY <1>a, <1>b, Kept
<1>2. EventIsHeld' /\ SenderFrames' /\ ServiceFrames' /\ OwnerFrames' /\
      AcceptFrames' /\ DestructorAlone' /\ Lives' /\ AcceptedIsNew' /\
      AnnouncedFirst' /\ OpenIsKnown'
  BY <1>f, MoveInv
<1>3. SocketIsOwn'
  BY <1>a, <1>b, <1>c, <1>d DEF SocketIsOwn, ConnTypes, Sets
<1>4. OneWinner'
  BY <1>a, <1>b, <1>c, <1>d DEF OneWinner, Sets
<1>5. Counted'
  BY <1>a, <1>b, <1>c, FrameTypes DEF Counted, ConnTypes, OneWinner, Sets
<1>6. Pursued'
  BY <1>a, <1>b, <1>c, <1>d DEF Pursued, ConnTypes, ServerTypes, Rejected,
      Sets
<1>7. HandlerWillRun'
  BY <1>a, <1>b, DispatchesGoOn DEF Sets, Rejected
<1> QED
  BY <1>1, <1>2, <1>d, <1>3, <1>4, <1>5, <1>6, <1>7 DEF Inv

(* In the destructor there is nothing left to publish with.                *)
LEMMA PublishTooLateInv ==
    ASSUME Inv, NEW t \in Threads, TeardownPublish(t), ~Referenced(td[t].c)
    PROVE  Inv'
<1> USE DEF Inv, busVars, serverVars, serviceVars, connVars, objVars
<1>a. PICK c \in Conns :
         /\ td[t].at = "publish" /\ td[t].c = c /\ Sets(t, None, "none")
         /\ ~Referenced(c) /\ UNCHANGED busVars
         /\ UNCHANGED <<serverVars, serviceVars, connVars, life, dtor, announced,
                        evref, gone>>
  BY FrameLeave, FrameKinds DEF TeardownPublish, ConnTypes
<1>d. ConnTypes'
  BY <1>a DEF ConnTypes, Sets
<1>f. Moves(t, c)
  BY <1>a DEF Moves, Sets, Counted
<1>1. BusTypes' /\ ServerTypes' /\ ServerInStep' /\ Dispatching' /\
      Descriptors' /\ Unannounced' /\ AnnouncedFirst' /\ HandlerIsListed'
  BY <1>a, Kept
<1>2. EventIsHeld' /\ SenderFrames' /\ ServiceFrames' /\ OwnerFrames' /\
      AcceptFrames' /\ DestructorAlone' /\ Lives' /\ AcceptedIsNew' /\
      OpenIsKnown'
  BY <1>f, MoveInv
<1>3. SocketIsOwn'
  BY <1>a, <1>d DEF SocketIsOwn, ConnTypes, Sets
<1>4. OneWinner'
  BY <1>a, <1>d DEF OneWinner, Sets
<1>5. Counted'
  BY <1>a, <1>d DEF Counted, ConnTypes, Sets
<1>6. Pursued'
  BY <1>a, <1>d DEF Pursued, ConnTypes, ServerTypes, Referenced, Sets
<1>7. HandlerWillRun'
  BY <1>a, DispatchesGoOn DEF Sets
<1> QED
  BY <1>1, <1>2, <1>d, <1>3, <1>4, <1>5, <1>6, <1>7 DEF Inv

(* The end is published, to a list the server is on.                       *)
LEMMA PublishAcceptedInv ==
    ASSUME Inv, NEW t \in Threads, TeardownPublish(t), Referenced(td[t].c), ~dispatching[t]
    PROVE  Inv'
<1> USE DEF Inv, busVars, serverVars, serviceVars, connVars, objVars
<1>a. PICK c \in Conns :
         /\ td[t].at = "publish" /\ td[t].c = c /\ Sets(t, c, "dispatch")
         /\ Referenced(c) /\ Bus!Publish(t, ND)
         /\ evref' = [evref EXCEPT ![t] = c]
         /\ gone' = [gone EXCEPT ![c] = @ + 1]
         /\ UNCHANGED <<serverVars, serviceVars, connVars, life, dtor, announced>>
  BY FrameGoto DEF TeardownPublish, Places
<1>b. /\ gone[c] = 0 /\ ~connected[c] /\ server_side[c]
      /\ event[t] = Bus!NoEvent /\ current[t] = 0 /\ snapshot[t] = <<>>
  <2>1. gone[c] = 0 /\ ~connected[c] /\ server_side[c]
    BY <1>a DEF Counted
  <2>2. event[t] = Bus!NoEvent
    BY DEF Dispatching
  <2> QED
    BY <2>1, <2>2 DEF Dispatching
<1>c. t # "accept" /\ c \in announced
  <2>1. \A u \in Threads : dtor[u] # c
    BY <1>a DEF DestructorAlone
  <2>2. t # "accept"
    BY <1>a, <1>b, <2>1 DEF AcceptFrames
  <2>3. life[c] = "live" /\ ~(accept \in {"register", "announce"} /\ accepted = c)
    BY <1>a DEF Lives, AcceptedIsNew
  <2> QED
    BY <1>b, <2>1, <2>2, <2>3 DEF Unannounced
<1>e. /\ UNCHANGED <<subscribers, next_id, handle, temp, current>>
      /\ snapshot' = [snapshot EXCEPT ![t] = subscribers[ND]]
      /\ event' = IF subscribers[ND] = <<>> THEN event
                                            ELSE [event EXCEPT ![t] = ND]
      /\ dispatching' = IF subscribers[ND] = <<>>
                        THEN dispatching ELSE [dispatching EXCEPT ![t] = TRUE]
  <2>1. CASE subscribers[ND] = <<>>
    <3>1. UNCHANGED Bus!busVars
      BY <1>a, <2>1 DEF Bus!Publish
    <3> QED
      BY <1>b, <2>1, <3>1 DEF Bus!busVars, BusTypes
  <2>2. CASE subscribers[ND] # <<>>
    <3>1. /\ snapshot' = [snapshot EXCEPT ![t] = subscribers[ND]]
          /\ dispatching' = [dispatching EXCEPT ![t] = TRUE]
          /\ event' = [event EXCEPT ![t] = ND]
          /\ current' = [current EXCEPT ![t] = 0]
          /\ UNCHANGED <<subscribers, next_id, handle, temp>>
      BY <1>a, <2>2 DEF Bus!Publish, Bus!Reentrant, Bus!Snapshot
    <3> QED
      BY <1>b, <2>2, <3>1 DEF BusTypes
  <2> QED
    BY <2>1, <2>2
<1>f. /\ gone'[c] = 1 /\ \A d \in Conns : d # c => gone'[d] = gone[d]
      /\ evref'[t] = c /\ \A u \in Threads : u # t => evref'[u] = evref[u]
  BY <1>a, <1>b DEF ConnTypes
<1>d. ConnTypes'
  BY <1>a, <1>b DEF ConnTypes, Sets
<1>g. Moves(t, c)
  BY <1>a, <1>b, <1>c, <1>e, <1>f DEF Moves, Sets
<1>h. UNCHANGED <<running, owner, left, connections, announced, connected, server_side, fd, table>>
  BY <1>a
<1>1. ServerTypes' /\ ServerInStep' /\ Descriptors' /\ Unannounced'
  BY <1>a, <1>e, Kept
<1>2. EventIsHeld' /\ SenderFrames' /\ ServiceFrames' /\ OwnerFrames' /\
      AcceptFrames' /\ DestructorAlone' /\ Lives' /\ AcceptedIsNew' /\
      AnnouncedFirst' /\ OpenIsKnown'
  BY <1>g, MoveInv
<1>3. BusTypes'
  BY <1>e DEF BusTypes
<1>4. Dispatching'
  BY <1>b, <1>e, <1>f DEF Dispatching, BusTypes, ConnTypes
<1>5. SocketIsOwn'
  BY <1>a, <1>f, <1>h DEF SocketIsOwn, ConnTypes, Sets
<1>6. OneWinner'
  BY <1>a, <1>f, <1>h DEF OneWinner, Sets
<1>7. Counted'
  <2>1. ASSUME NEW u \in Threads, u # t, td[u].at \in Winning \cup {"dispatch"}
        PROVE  td[u].c \in Conns /\ td[u].c # c
    BY <1>a, <1>b, <2>1, FrameTypes DEF Counted, OneWinner
  <2>2. \A u \in Threads : u # t => td'[u] = td[u]
    BY <1>a DEF Sets
  <2>3. td'[t].c = c /\ td'[t].at = "dispatch"
    BY <1>a DEF Sets
  <2> QED
    BY <1>b, <1>f, <1>h, <2>1, <2>2, <2>3 DEF Counted
<1>8. Pursued'
  BY <1>a, <1>f, <1>h DEF Pursued, ConnTypes, ServerTypes, Sets
<1>9. HandlerIsListed'
  BY <1>a, <1>c, <1>e DEF HandlerIsListed, BusTypes
<1>10. HandlerWillRun'
  <2>1. ASSUME running' \/ owner' \in {"join", "close"},
               NEW d \in connections' \ left', gone'[d] = 1
        PROVE  \E u \in Threads :
                   /\ td'[u].c = d /\ td'[u].at = "dispatch"
                   /\ \/ current'[u] = Handler'
                      \/ Handler' \in Bus!Range(snapshot'[u])
    <3>1. CASE d = c
      <4>1. Handler \in Bus!Range(subscribers[ND])
        BY <1>h, <2>1 DEF HandlerIsListed
      <4>2. snapshot'[t] = subscribers[ND]
        BY <1>e DEF BusTypes
      <4> QED
        BY <1>a, <1>e, <3>1, <4>1, <4>2 DEF Sets
    <3>2. CASE d # c
      <4>1. PICK u \in Threads :
                /\ td[u].c = d /\ td[u].at = "dispatch"
                /\ current[u] = Handler \/ Handler \in Bus!Range(snapshot[u])
        BY <1>f, <1>h, <2>1, <3>2 DEF HandlerWillRun, ServerTypes
      <4>2. u # t
        BY <1>a, <4>1
      <4>3. snapshot'[u] = snapshot[u] /\ td'[u] = td[u]
        BY <1>a, <1>e, <4>2 DEF BusTypes, Sets
      <4> QED
        BY <1>e, <4>1, <4>3
    <3> QED
      BY <3>1, <3>2
  <2> QED
    BY <1>h, <2>1 DEF HandlerWillRun
<1> QED
  BY <1>1, <1>2, <1>3, <1>d, <1>4, <1>5, <1>6, <1>7, <1>8, <1>9, <1>10 DEF Inv

(* The event goes, perhaps with the last reference.                        *)
LEMMA TeardownReturnInv ==
    ASSUME Inv, NEW t \in Threads, TeardownReturn(t)
    PROVE  Inv'
<1> USE DEF Inv, busVars, serverVars, serviceVars, connVars, objVars
<1>a. PICK c \in Conns :
         /\ td[t].at = "dispatch" /\ td[t].c = c /\ Dropped(t, c)
         /\ \/ Bus!PublishReturns(t)
            \/ event[t] = Bus!NoEvent /\ UNCHANGED busVars
         /\ evref' = [evref EXCEPT ![t] = None]
         /\ UNCHANGED <<serverVars, serviceVars, connVars, life, announced, gone>>
  <2>1. td[t].at = "dispatch" /\ td[t].c \in Conns
    BY FrameKinds DEF TeardownReturn, ConnTypes
  <2> QED
    BY <2>1 DEF TeardownReturn, Dropped
<1>b. t # "accept" /\ evref[t] = c /\ Referenced(c) /\ dtor[t] = None
  BY <1>a DEF EventIsHeld, Referenced, DestructorAlone
<1>e. /\ current[t] = 0 /\ snapshot[t] = <<>>
      /\ UNCHANGED <<subscribers, next_id, handle, temp, snapshot, current>>
      /\ dispatching' = [dispatching EXCEPT ![t] = FALSE]
      /\ event' = [event EXCEPT ![t] = Bus!NoEvent]
  <2>1. CASE Bus!PublishReturns(t)
    BY <2>1 DEF Bus!PublishReturns
  <2>2. CASE event[t] = Bus!NoEvent /\ UNCHANGED busVars
    <3>1. dispatching[t] = FALSE
      BY <2>2 DEF Dispatching, BusTypes
    <3> QED
      BY <2>2, <3>1 DEF Dispatching, BusTypes
  <2> QED
    BY <1>a, <2>1, <2>2
<1>c. Drops(t, c)
  BY <1>a, <1>b, FrameDropped
<1>f. /\ evref' \in [Threads -> Conns \cup {None}] /\ evref'[t] = None
      /\ \A u \in Threads : u # t => evref'[u] = evref[u]
  BY <1>a DEF ConnTypes
<1>h. UNCHANGED <<serverVars, serviceVars, connVars, life, announced, gone>>
  BY <1>a
<1>1. ServerTypes' /\ ServerInStep' /\ Descriptors' /\ AnnouncedFirst' /\
      HandlerIsListed'
  BY <1>a, <1>e, Kept
<1>2. ConnTypes' /\ SenderFrames' /\ DestructorAlone' /\ Lives' /\
      SocketIsOwn' /\ OneWinner' /\ Counted' /\ Pursued'
  BY <1>a, <1>b, <1>c, <1>f, DropInv DEF Loses
<1>3. BusTypes'
  BY <1>e DEF BusTypes
<1>4. Dispatching'
  BY <1>b, <1>e, <1>f DEF Dispatching, BusTypes, ConnTypes
<1>5. EventIsHeld'
  BY <1>b, <1>c, <1>f, <1>h DEF EventIsHeld, ConnTypes, ServerTypes,
      ServerInStep, Drops, Sets
<1>6. ServiceFrames'
  BY <1>a, <1>b, <1>c, <1>h DEF ServiceFrames, Drops, Referenced, Sets
<1>7. OwnerFrames'
  BY <1>a, <1>b, <1>c, <1>h DEF OwnerFrames, Drops, Referenced, Sets
<1>8. AcceptFrames'
  BY <1>b, <1>c, <1>e, <1>h DEF AcceptFrames, Drops, Sets
<1>9. Unannounced'
  BY <1>a, <1>b, <1>c, <1>h DEF Unannounced, Drops
<1>10. AcceptedIsNew'
  BY <1>a, <1>b, <1>c, <1>h DEF AcceptedIsNew, Drops, ServerInStep, Sets
<1>11. OpenIsKnown'
  BY <1>a, <1>b, <1>c, <1>h DEF OpenIsKnown, ConnTypes, ServerTypes,
      ServerInStep, Drops, Sets
<1>12. HandlerWillRun'
  BY <1>a, <1>e, <1>c, DispatchesGoOn DEF Drops
<1> QED
  BY <1>1, <1>2, <1>3, <1>4, <1>5, <1>6, <1>7, <1>8, <1>9, <1>10, <1>11, <1>12
      DEF Inv

(* The object goes.                                                        *)
LEMMA FinishDestructorInv ==
    ASSUME Inv, NEW t \in Threads, FinishDestructor(t)
    PROVE  Inv'
<1> USE DEF Inv, FinishDestructor, SenderJoined, NoFrame, busVars, serverVars,
      serviceVars, connVars, objVars
<1>a. PICK c \in Conns :
         /\ dtor[t] = c /\ td[t].at = "none" /\ td[t].c = None
         /\ ~Referenced(c) /\ life[c] = "live" /\ ~connected[c]
         /\ \A u \in Threads : dtor[u] = c => u = t
         /\ sender[c] \in {"none", "done"} \/ t = c
  BY DEF ConnTypes, DestructorAlone
<1>b. /\ life'[c] = "dead" /\ \A d \in Conns : d # c => life'[d] = life[d]
      /\ dtor'[t] = None /\ \A u \in Threads : u # t => dtor'[u] = dtor[u]
  BY <1>a DEF ConnTypes
<1>c. \A u \in Threads : td[u].c # c
  <2>1. ASSUME NEW u \in Threads, td[u].c = c PROVE FALSE
    <3>1. u # t /\ dtor[u] # c /\ td[u].at # "none"
      BY <1>a, <2>1, FrameKinds DEF ConnTypes
    <3>2. CASE u \in Conns
      BY <1>a, <2>1, <3>1, <3>2 DEF SenderFrames
    <3>3. CASE u = "service"
      BY <1>a, <2>1, <3>1, <3>3 DEF ServiceFrames, Referenced
    <3>4. CASE u = "owner"
      BY <1>a, <2>1, <3>1, <3>4 DEF OwnerFrames, Referenced
    <3>5. CASE u = "accept"
      BY <1>a, <2>1, <3>1, <3>5 DEF AcceptFrames, Referenced
    <3> QED
      BY <3>2, <3>3, <3>4, <3>5 DEF Threads
  <2> QED
    BY <2>1
<1>e. \A d \in Conns : Referenced(d)' <=> Referenced(d)
  BY DEF Referenced
<1>f. sender[c] \in {"none", "ending", "done"}
  BY <1>a DEF SenderFrames, ConnTypes
<1>1. BusTypes' /\ ServerTypes' /\ ServerInStep' /\ Dispatching' /\
      EventIsHeld' /\ Descriptors' /\ SocketIsOwn' /\ OneWinner' /\ Counted'
      /\ AcceptedIsNew' /\ AnnouncedFirst' /\ Pursued' /\ HandlerIsListed' /\
      HandlerWillRun'
  BY Kept
<1>2. ConnTypes'
  BY <1>a, <1>b DEF ConnTypes
<1>3. SenderFrames'
  BY <1>a, <1>b DEF SenderFrames, ConnTypes
<1>4. ServiceFrames'
  BY <1>a, <1>b DEF ServiceFrames, ConnTypes, ServerTypes, ServerInStep
<1>5. OwnerFrames'
  BY <1>a, <1>b DEF OwnerFrames, ConnTypes, ServerTypes, ServerInStep
<1>6. AcceptFrames'
  BY <1>a, <1>b DEF AcceptFrames, ConnTypes, ServerTypes, ServerInStep,
      Dispatching, EventIsHeld, BusTypes
<1>7. DestructorAlone'
  BY <1>a, <1>b, <1>e DEF DestructorAlone, ConnTypes
<1>8. Lives'
  BY <1>a, <1>b, <1>c, <1>e, <1>f DEF Lives
<1>9. Unannounced'
  BY <1>a, <1>b DEF Unannounced, ConnTypes, ServerTypes
<1>10. OpenIsKnown'
  BY <1>a, <1>b DEF OpenIsKnown, ConnTypes, ServerTypes, ServerInStep,
      DestructorAlone
<1> QED
  BY <1>1, <1>2, <1>3, <1>4, <1>5, <1>6, <1>7, <1>8, <1>9, <1>10 DEF Inv

(* A callback begins.                                                      *)
LEMMA DispatchInv ==
    ASSUME Inv, NEW t \in Threads, Dispatch(t)
    PROVE  Inv'
<1> USE DEF Inv, busVars, serverVars, serviceVars, connVars, objVars
<1>a. /\ event[t] # Bus!NoEvent /\ current[t] = 0 /\ snapshot[t] # <<>>
      /\ current' = [current EXCEPT ![t] = Head(snapshot[t])]
      /\ snapshot' = [snapshot EXCEPT ![t] = Tail(@)]
      /\ UNCHANGED <<subscribers, next_id, handle, temp, dispatching, event>>
      /\ UNCHANGED <<serverVars, serviceVars, connVars, objVars>>
  BY DEF Dispatch, Bus!Call
<1>b. /\ Head(snapshot[t]) \in Nat \ {0} /\ Tail(snapshot[t]) \in Seq(Nat \ {0})
      /\ Bus!Range(snapshot[t]) = {Head(snapshot[t])} \cup Bus!Range(Tail(snapshot[t]))
  BY <1>a, MoveHead DEF BusTypes
<1>c. /\ current'[t] = Head(snapshot[t]) /\ snapshot'[t] = Tail(snapshot[t])
      /\ \A u \in Threads : u # t => current'[u] = current[u] /\ snapshot'[u] = snapshot[u]
  BY <1>a DEF BusTypes
<1>1. ServerTypes' /\ ConnTypes' /\ ServerInStep' /\ EventIsHeld' /\
      SenderFrames' /\ ServiceFrames' /\ OwnerFrames' /\ DestructorAlone' /\
      Lives' /\ Descriptors' /\ SocketIsOwn' /\ OneWinner' /\ Counted' /\
      Unannounced' /\ AcceptedIsNew' /\ AnnouncedFirst' /\ OpenIsKnown' /\
      Pursued'
  BY <1>a, Kept
<1>2. BusTypes'
  BY <1>a, <1>b DEF BusTypes
<1>3. Dispatching'
  BY <1>a, <1>b, <1>c DEF Dispatching, BusTypes, ConnTypes
<1>4. AcceptFrames'
  BY <1>a, <1>b, <1>c DEF AcceptFrames, ConnTypes, ServerTypes, ServerInStep,
      Dispatching, EventIsHeld, BusTypes
<1>5. HandlerIsListed'
  <2>1. t = "accept" => Head(snapshot[t]) = 1 /\ Tail(snapshot[t]) = <<>>
    BY <1>a, OneElement DEF HandlerIsListed
  <2> QED
    BY <1>a, <1>c, <2>1 DEF HandlerIsListed
<1>6. HandlerWillRun'
  <2>1. ASSUME running' \/ owner' \in {"join", "close"},
               NEW d \in connections' \ left', gone'[d] = 1
        PROVE  \E u \in Threads :
                   /\ td'[u].c = d /\ td'[u].at = "dispatch"
                   /\ \/ current'[u] = Handler'
                      \/ Handler' \in Bus!Range(snapshot'[u])
    <3>1. PICK u \in Threads :
              /\ td[u].c = d /\ td[u].at = "dispatch"
              /\ current[u] = Handler \/ Handler \in Bus!Range(snapshot[u])
      BY <1>a, <2>1 DEF HandlerWillRun
    <3>2. Handler # 0
      BY <1>a, <2>1 DEF HandlerIsListed
    <3>3. CASE u = t
      BY <1>a, <1>b, <1>c, <3>1, <3>2, <3>3
    <3>4. CASE u # t
      BY <1>a, <1>c, <3>1, <3>4
    <3> QED
      BY <3>3, <3>4
  <2> QED
    BY <1>a, <2>1 DEF HandlerWillRun
<1> QED
  BY <1>1, <1>2, <1>3, <1>4, <1>5, <1>6 DEF Inv

(* The server's handler forgets a connection that is closed and counted.   *)
LEMMA OnDisconnectedInv ==
    ASSUME Inv, NEW t \in Threads, OnDisconnected(t)
    PROVE  Inv'
<1> USE DEF Inv, OnDisconnected, busVars, serverVars, serviceVars, connVars,
      objVars
<1>a. current[t] \notin {0, 1} /\ current' = [current EXCEPT ![t] = 0]
  BY DEF Bus!CallReturns
<1>b. PICK c \in Conns :
         /\ t # "accept" /\ evref[t] = c /\ td[t].at = "dispatch" /\ td[t].c = c
         /\ gone[c] = 1 /\ ~connected[c] /\ c \in announced
  BY <1>a, InCallback DEF HandlerIsListed
<1>c. /\ owner # "destroyed" => connections' = connections \ {c}
      /\ owner = "destroyed" => connections' = connections
  BY <1>b DEF Erased
<1>e. current'[t] = 0 /\ \A u \in Threads : u # t => current'[u] = current[u]
  BY <1>a DEF BusTypes
<1>f. UNCHANGED <<subscribers, next_id, handle, temp, snapshot, dispatching, event>>
  BY DEF Bus!CallReturns
<1>g. \A d \in Conns : Referenced(d)' <=> Referenced(d)
  BY <1>b, <1>c DEF Referenced
<1>1. ConnTypes' /\ ServerInStep' /\ EventIsHeld' /\ SenderFrames' /\
      ServiceFrames' /\ OwnerFrames' /\ Descriptors' /\ SocketIsOwn' /\
      OneWinner' /\ Counted' /\ Unannounced' /\ AcceptedIsNew'
  BY <1>f, Kept
<1>2. BusTypes'
  BY <1>a, <1>f DEF BusTypes
<1>3. ServerTypes'
  BY <1>b, <1>c, <1>e, <1>f DEF ServerTypes
<1>4. Dispatching'
  BY <1>b, <1>c, <1>e, <1>f DEF Dispatching, BusTypes, ConnTypes
<1>5. AcceptFrames'
  BY <1>b, <1>c, <1>e, <1>f DEF AcceptFrames, ConnTypes, ServerTypes,
      ServerInStep, Dispatching, EventIsHeld, BusTypes
<1>6. DestructorAlone'
  BY <1>g DEF DestructorAlone, ConnTypes
<1>7. Lives'
  BY <1>g DEF Lives
<1>8. AnnouncedFirst'
  BY <1>b, <1>c, <1>e, <1>f DEF AnnouncedFirst, ConnTypes, ServerTypes,
      ServerInStep, AcceptedIsNew
<1>9. OpenIsKnown'
  BY <1>b, <1>c, <1>e, <1>f DEF OpenIsKnown, ConnTypes, ServerTypes,
      ServerInStep
<1>10. Pursued'
  BY <1>b, <1>c, <1>e, <1>f DEF Pursued, ConnTypes, ServerTypes
<1>11. HandlerIsListed'
  BY <1>b, <1>c, <1>e, <1>f DEF HandlerIsListed, BusTypes, ServerTypes
<1>12. HandlerWillRun'
  <2>1. ASSUME running' \/ owner' \in {"join", "close"},
               NEW d \in connections' \ left', gone'[d] = 1
        PROVE  \E u \in Threads :
                   /\ td'[u].c = d /\ td'[u].at = "dispatch"
                   /\ \/ current'[u] = Handler'
                      \/ Handler' \in Bus!Range(snapshot'[u])
    <3>1. d # c /\ d \in connections \ left
      BY <1>c, <2>1 DEF ServerInStep
    <3>2. PICK u \in Threads :
              /\ td[u].c = d /\ td[u].at = "dispatch"
              /\ current[u] = Handler \/ Handler \in Bus!Range(snapshot[u])
      BY <2>1, <3>1 DEF HandlerWillRun
    <3>3. u # t
      BY <1>b, <3>1, <3>2
    <3> QED
      BY <1>e, <1>f, <3>2, <3>3
  <2>2. connections' \subseteq connections
    BY <1>c
  <2> QED
    BY <2>1, <2>2 DEF HandlerWillRun
<1> QED
  BY <1>1, <1>2, <1>3, <1>4, <1>5, <1>6, <1>7, <1>8, <1>9, <1>10, <1>11, <1>12
      DEF Inv

(* The application keeps a connection that is announced.                   *)
LEMMA AppOnConnectedInv ==
    ASSUME Inv, NEW t \in Threads, AppOnConnected(t)
    PROVE  Inv'
<1> USE DEF Inv, AppOnConnected, busVars, serverVars, serviceVars, connVars,
      objVars
<1>a. /\ current[t] = 1 /\ current' = [current EXCEPT ![t] = 0]
      /\ UNCHANGED <<subscribers, next_id, handle, temp, snapshot, dispatching, event>>
  BY DEF Bus!CallReturns
<1>b. PICK c \in Conns :
         /\ evref[t] = c /\ c \in announced
         /\ t = "accept" => accept = "dispatch" /\ accepted = c
  BY <1>a, InCallback
<1>c. current'[t] = 0 /\ \A u \in Threads : u # t => current'[u] = current[u]
  BY <1>a DEF BusTypes
<1>e. held' = held \/ held' = held \cup {c}
  BY <1>b
<1>g. \A d \in Conns : Referenced(d)' <=> Referenced(d)
  BY <1>b, <1>e DEF Referenced
<1>1. ConnTypes' /\ ServerInStep' /\ EventIsHeld' /\ SenderFrames' /\
      ServiceFrames' /\ OwnerFrames' /\ Descriptors' /\ SocketIsOwn' /\
      OneWinner' /\ Counted' /\ Unannounced' /\ AnnouncedFirst' /\
      OpenIsKnown' /\ Pursued'
  BY <1>a, Kept
<1>2. BusTypes'
  BY <1>a DEF BusTypes
<1>3. ServerTypes'
  BY <1>a, <1>b, <1>c, <1>e DEF ServerTypes
<1>4. Dispatching'
  BY <1>a, <1>b, <1>c, <1>e DEF Dispatching, BusTypes, ConnTypes
<1>5. AcceptFrames'
  BY <1>a, <1>b, <1>c, <1>e DEF AcceptFrames, ConnTypes, ServerTypes,
      ServerInStep, Dispatching, EventIsHeld, BusTypes, NoFrame
<1>6. DestructorAlone'
  BY <1>g DEF DestructorAlone, ConnTypes
<1>7. Lives'
  BY <1>g DEF Lives
<1>8. AcceptedIsNew'
  BY <1>a, <1>b, <1>c, <1>e DEF AcceptedIsNew, ConnTypes, ServerTypes,
      ServerInStep
<1>9. HandlerIsListed'
  BY <1>a, <1>b, <1>c, <1>e DEF HandlerIsListed, BusTypes, ServerTypes
<1>10. HandlerWillRun'
  BY <1>a, <1>c, DispatchesGoOn
<1> QED
  BY <1>1, <1>2, <1>3, <1>4, <1>5, <1>6, <1>7, <1>8, <1>9, <1>10 DEF Inv

(* The application closes the connection the accept thread has announced.  *)
LEMMA AppClosesInHandlerInv ==
    ASSUME Inv, NEW t \in Threads, AppClosesInHandler(t)
    PROVE  Inv'
<1> USE DEF Inv, AppClosesInHandler, busVars, serverVars, serviceVars,
      connVars, objVars
<1>a. current[t] = 1 /\ td[t].at = "none"
  BY DEF NoFrame
<1>b. /\ t = "accept" /\ accept = "dispatch" /\ evref[t] = accepted
      /\ accepted \in Conns /\ connected[accepted]
  BY <1>a, InCallback
<1>c. PICK c \in Conns : c = accepted /\ Sets(t, c, "exchange") /\ evref[t] = c
  BY <1>b, FrameEnter
<1>d. ConnTypes'
  BY <1>c DEF ConnTypes, Sets
<1>e. life[c] = "live" /\ c \in announced
  BY <1>b, <1>c DEF Lives, Referenced, AnnouncedFirst
<1>f. Enters(t, c)
  BY <1>a, <1>b, <1>c, <1>e DEF Enters, Sets, AcceptFrames, ConnTypes
<1>1. BusTypes' /\ ServerTypes' /\ ServerInStep' /\ Dispatching' /\
      Descriptors' /\ Unannounced' /\ AnnouncedFirst' /\ HandlerIsListed'
  BY Kept
<1>2. SenderFrames' /\ DestructorAlone' /\ Lives' /\ SocketIsOwn' /\
      OneWinner' /\ Counted' /\ Pursued' /\ HandlerWillRun' /\ EventIsHeld' /\
      AcceptedIsNew'
  BY <1>f, EnterInv
<1>3. ServiceFrames'
  BY <1>a, <1>b, <1>c, <1>d DEF ServiceFrames, ConnTypes, ServerTypes,
      ServerInStep, Sets
<1>4. OwnerFrames'
  BY <1>a, <1>b, <1>c, <1>d DEF OwnerFrames, ConnTypes, ServerTypes,
      ServerInStep, Sets
<1>5. AcceptFrames'
  BY <1>a, <1>b, <1>c, <1>d DEF AcceptFrames, ConnTypes, ServerTypes,
      ServerInStep, Dispatching, EventIsHeld, BusTypes, Sets
<1>6. OpenIsKnown'
  BY <1>a, <1>b, <1>c, <1>d DEF OpenIsKnown, ConnTypes, ServerTypes,
      ServerInStep, Sets
<1> QED
  BY <1>1, <1>2, <1>d, <1>3, <1>4, <1>5, <1>6 DEF Inv

(* The application lets go of a connection, which the event still holds.   *)
LEMMA AppOnDisconnectedInv ==
    ASSUME Inv, NEW t \in Threads, AppOnDisconnected(t)
    PROVE  Inv'
<1> USE DEF Inv, AppOnDisconnected, busVars, serverVars, serviceVars,
      connVars, objVars
<1>a. /\ current[t] = 2 /\ current' = [current EXCEPT ![t] = 0]
      /\ UNCHANGED <<subscribers, next_id, handle, temp, snapshot, dispatching, event>>
  BY DEF Bus!CallReturns
<1>b. PICK c \in Conns :
         /\ evref[t] = c /\ c \in announced
         /\ t = "accept" => accept = "dispatch" /\ accepted = c
  BY <1>a, InCallback
<1>c. current'[t] = 0 /\ \A u \in Threads : u # t => current'[u] = current[u]
  BY <1>a DEF BusTypes
<1>e. held' = held \ {c}
  BY <1>b
<1>g. \A d \in Conns : Referenced(d)' <=> Referenced(d)
  BY <1>b, <1>e DEF Referenced
<1>1. ConnTypes' /\ ServerInStep' /\ EventIsHeld' /\ SenderFrames' /\
      ServiceFrames' /\ OwnerFrames' /\ Descriptors' /\ SocketIsOwn' /\
      OneWinner' /\ Counted' /\ Unannounced' /\ AnnouncedFirst' /\
      OpenIsKnown' /\ Pursued'
  BY <1>a, Kept
<1>2. BusTypes'
  BY <1>a DEF BusTypes
<1>3. ServerTypes'
  BY <1>a, <1>b, <1>c, <1>e DEF ServerTypes
<1>4. Dispatching'
  BY <1>a, <1>b, <1>c, <1>e DEF Dispatching, BusTypes, ConnTypes
<1>5. AcceptFrames'
  BY <1>a, <1>b, <1>c, <1>e DEF AcceptFrames, ConnTypes, ServerTypes,
      ServerInStep, Dispatching, EventIsHeld, BusTypes, HandlerIsListed
<1>6. DestructorAlone'
  BY <1>g DEF DestructorAlone, ConnTypes
<1>7. Lives'
  BY <1>g DEF Lives
<1>8. AcceptedIsNew'
  BY <1>a, <1>b, <1>c, <1>e DEF AcceptedIsNew, ConnTypes, ServerTypes,
      ServerInStep
<1>9. HandlerIsListed'
  BY <1>a, <1>b, <1>c, <1>e DEF HandlerIsListed, BusTypes, ServerTypes
<1>10. HandlerWillRun'
  BY <1>a, <1>c, DispatchesGoOn
<1> QED
  BY <1>1, <1>2, <1>3, <1>4, <1>5, <1>6, <1>7, <1>8, <1>9, <1>10 DEF Inv

(* The new entry is on the list.                                           *)
LEMMA StartSubscribesInv ==
    ASSUME Inv, StartSubscribes
    PROVE  Inv'
<1> USE DEF Inv, StartSubscribes, Bus!Subscribe, busVars, serverVars,
      serviceVars, connVars, objVars
<1>e. /\ subscribers[ND] \in Seq(Nat \ {0}) /\ next_id \in Nat \ {0}
      /\ next_id + 1 \in Nat /\ next_id + 1 >= 3
  BY DEF BusTypes
<1>f. /\ next_id' = next_id + 1 /\ temp' = [temp EXCEPT !["owner"] = next_id]
      /\ subscribers' = [subscribers EXCEPT ![ND] = Append(@, next_id)]
  BY DEF Bus!Subscribe
<1>a. /\ Append(subscribers[ND], next_id) \in Seq(Nat \ {0})
      /\ next_id \in Bus!Range(Append(subscribers[ND], next_id))
  BY <1>e, AppendRange
<1>b. /\ next_id' \in Nat /\ next_id' >= 3
      /\ subscribers' \in [{NC, ND} -> Seq(Nat \ {0})]
      /\ temp' \in [Threads -> Nat]
  <2>1. /\ subscribers \in [{NC, ND} -> Seq(Nat \ {0})]
        /\ temp \in [Threads -> Nat]
    BY DEF BusTypes
  <2>2. next_id' \in Nat /\ next_id' >= 3
    BY <1>e, <1>f
  <2>3. subscribers' \in [{NC, ND} -> Seq(Nat \ {0})]
    BY <1>a, <1>f, <2>1
  <2>4. temp' \in [Threads -> Nat]
    BY <1>e, <1>f, <2>1
  <2> QED
    BY <2>2, <2>3, <2>4
<1>1. ConnTypes' /\ Dispatching' /\ EventIsHeld' /\ SenderFrames' /\
      ServiceFrames' /\ AcceptFrames' /\ DestructorAlone' /\ Lives' /\
      Descriptors' /\ SocketIsOwn' /\ OneWinner' /\ Counted' /\ Unannounced'
      /\ AcceptedIsNew' /\ AnnouncedFirst'
  BY Kept
<1>2. BusTypes'
  BY <1>a, <1>b DEF BusTypes
<1>3. ServerTypes'
  BY <1>a, <1>b DEF ServerTypes
<1>4. ServerInStep'
  BY <1>a, <1>b DEF ServerInStep, ServerTypes
<1>5. OwnerFrames'
  BY <1>a, <1>b DEF OwnerFrames, ConnTypes, ServerTypes, ServerInStep
<1>6. OpenIsKnown'
  BY <1>a, <1>b DEF OpenIsKnown, ConnTypes, ServerTypes, ServerInStep
<1>7. Pursued'
  BY <1>a, <1>b DEF Pursued, ConnTypes, ServerTypes
<1>8. HandlerIsListed'
  BY <1>a, <1>b DEF HandlerIsListed, BusTypes, ServerTypes
<1>9. HandlerWillRun'
  BY <1>a, <1>b DEF HandlerWillRun, HandlerIsListed, BusTypes, ConnTypes,
      ServerTypes
<1> QED
  BY <1>1, <1>2, <1>3, <1>4, <1>5, <1>6, <1>7, <1>8, <1>9 DEF Inv

(* The handle held nothing, and owns the entry.                            *)
LEMMA StartAssignsInv ==
    ASSUME Inv, StartAssigns
    PROVE  Inv'
<1> USE DEF Inv, StartAssigns, busVars, serverVars, serviceVars, connVars,
      objVars
<1>a. /\ Bus!RemoveSubscriberFromState(Handler) /\ temp["owner"] # 0
      /\ handle' = [handle EXCEPT !["disconnect_sub"] = temp["owner"]]
      /\ temp' = [temp EXCEPT !["owner"] = 0]
      /\ UNCHANGED <<next_id, dispatching, snapshot, current, event>>
  BY DEF Bus!AssignResult, Bus!OverwrittenCancelled
<1>b. Handler = 0 /\ \A e \in {NC, ND} : 0 \notin Bus!Range(subscribers[e])
  BY NoZero DEF HandlerIsListed, BusTypes
<1>c. UNCHANGED subscribers
  BY <1>a, <1>b DEF Bus!RemoveSubscriberFromState, Bus!FoundEntry, Bus!Registered
<1>e. handle'["disconnect_sub"] = temp["owner"] /\ temp'["owner"] = 0
  BY <1>a DEF BusTypes
<1>1. ConnTypes' /\ Dispatching' /\ EventIsHeld' /\ SenderFrames' /\
      ServiceFrames' /\ AcceptFrames' /\ DestructorAlone' /\ Lives' /\
      Descriptors' /\ SocketIsOwn' /\ OneWinner' /\ Counted' /\ Unannounced'
      /\ AcceptedIsNew' /\ AnnouncedFirst'
  BY <1>a, <1>c, Kept
<1>2. BusTypes'
  BY <1>a, <1>c, <1>e DEF BusTypes
<1>3. ServerTypes'
  BY <1>a, <1>c, <1>e DEF ServerTypes
<1>4. ServerInStep'
  BY <1>a, <1>c, <1>e DEF ServerInStep, ServerTypes
<1>5. OwnerFrames'
  BY <1>a, <1>c, <1>e DEF OwnerFrames, ConnTypes, ServerTypes, ServerInStep
<1>6. OpenIsKnown'
  BY <1>a, <1>c, <1>e DEF OpenIsKnown, ConnTypes, ServerTypes, ServerInStep
<1>7. Pursued'
  BY <1>a, <1>c, <1>e DEF Pursued, ConnTypes, ServerTypes
<1>8. HandlerIsListed'
  BY <1>a, <1>c, <1>e DEF HandlerIsListed, BusTypes, ServerTypes, ServerInStep
<1>9. HandlerWillRun'
  BY <1>a, <1>c, <1>e DEF HandlerWillRun, HandlerIsListed, BusTypes,
      ConnTypes, ServerTypes
<1> QED
  BY <1>1, <1>2, <1>3, <1>4, <1>5, <1>6, <1>7, <1>8, <1>9 DEF Inv

(* The accept thread begins with nothing accepted.                         *)
LEMMA StartSpawnsInv ==
    ASSUME Inv, StartSpawns
    PROVE  Inv'
<1> USE DEF Inv, StartSpawns, busVars, serverVars, serviceVars, connVars,
      objVars
<1>1. BusTypes' /\ ConnTypes' /\ Dispatching' /\ SenderFrames' /\
      ServiceFrames' /\ DestructorAlone' /\ Lives' /\ Descriptors' /\
      SocketIsOwn' /\ OneWinner' /\ Counted'
  BY Kept
<1>2. ServerTypes'
  BY DEF ServerTypes
<1>3. ServerInStep'
  BY DEF ServerInStep, ServerTypes
<1>4. EventIsHeld'
  BY DEF EventIsHeld, ConnTypes, ServerTypes, ServerInStep
<1>5. OwnerFrames'
  BY DEF OwnerFrames, ConnTypes, ServerTypes, ServerInStep
<1>6. AcceptFrames'
  BY DEF AcceptFrames, ConnTypes, ServerTypes, ServerInStep, Dispatching,
      EventIsHeld, BusTypes
<1>7. Unannounced'
  BY DEF Unannounced, ConnTypes, ServerTypes, ServerInStep
<1>8. AcceptedIsNew'
  BY DEF AcceptedIsNew, ConnTypes, ServerTypes, ServerInStep
<1>9. AnnouncedFirst'
  BY DEF AnnouncedFirst, ConnTypes, ServerTypes, ServerInStep
<1>10. OpenIsKnown'
  BY DEF OpenIsKnown, ConnTypes, ServerTypes, ServerInStep
<1>11. Pursued'
  BY DEF Pursued, ConnTypes, ServerTypes
<1>12. HandlerIsListed'
  BY DEF HandlerIsListed, BusTypes, ServerTypes
<1>13. HandlerWillRun'
  BY DEF HandlerWillRun, HandlerIsListed, BusTypes, ConnTypes, ServerTypes
<1> QED
  BY <1>1, <1>2, <1>3, <1>4, <1>5, <1>6, <1>7, <1>8, <1>9, <1>10, <1>11,
      <1>12, <1>13 DEF Inv

(* A failed Start takes its entry off the list.                            *)
LEMMA StartFailsInv ==
    ASSUME Inv, StartFails
    PROVE  Inv'
<1> USE DEF Inv, StartFails, busVars, serverVars, serviceVars, connVars,
      objVars
<1>a. /\ subscribers' \in [{NC, ND} -> Seq(Nat \ {0})]
      /\ subscribers'[NC] = <<1>>
      /\ handle' = [handle EXCEPT !["disconnect_sub"] = 0]
      /\ UNCHANGED <<next_id, temp, dispatching, snapshot, current, event>>
  BY CancelStep
<1>b. handle'["disconnect_sub"] = 0
  BY <1>a DEF BusTypes
<1>1. ConnTypes' /\ Dispatching' /\ EventIsHeld' /\ SenderFrames' /\
      ServiceFrames' /\ AcceptFrames' /\ DestructorAlone' /\ Lives' /\
      Descriptors' /\ SocketIsOwn' /\ OneWinner' /\ Counted' /\ Unannounced'
      /\ AcceptedIsNew' /\ AnnouncedFirst'
  BY <1>a, Kept
<1>2. BusTypes'
  BY <1>a DEF BusTypes
<1>3. ServerTypes'
  BY <1>a, <1>b DEF ServerTypes
<1>4. ServerInStep'
  BY <1>a, <1>b DEF ServerInStep, ServerTypes
<1>5. OwnerFrames'
  BY <1>a, <1>b DEF OwnerFrames, ConnTypes, ServerTypes, ServerInStep
<1>6. OpenIsKnown'
  BY <1>a, <1>b DEF OpenIsKnown, ConnTypes, ServerTypes, ServerInStep
<1>7. Pursued'
  BY <1>a, <1>b DEF Pursued, ConnTypes, ServerTypes
<1>8. HandlerIsListed'
  BY <1>a, <1>b DEF HandlerIsListed, BusTypes, ServerTypes, ServerInStep
<1>9. HandlerWillRun'
  BY <1>a, <1>b DEF HandlerWillRun, HandlerIsListed, BusTypes, ConnTypes,
      ServerTypes, ServerInStep
<1> QED
  BY <1>1, <1>2, <1>3, <1>4, <1>5, <1>6, <1>7, <1>8, <1>9 DEF Inv

(* Stop begins.                                                            *)
LEMMA StopBeginsInv ==
    ASSUME Inv, StopBegins
    PROVE  Inv'
<1> USE DEF Inv, StopBegins, busVars, serverVars, serviceVars, connVars,
      objVars
<1>1. BusTypes' /\ ConnTypes' /\ Dispatching' /\ EventIsHeld' /\ SenderFrames'
      /\ ServiceFrames' /\ AcceptFrames' /\ DestructorAlone' /\ Lives' /\
      Descriptors' /\ SocketIsOwn' /\ OneWinner' /\ Counted' /\ Unannounced'
      /\ AcceptedIsNew' /\ AnnouncedFirst'
  BY Kept
<1>2. ServerTypes'
  BY DEF ServerTypes
<1>3. ServerInStep'
  BY DEF ServerInStep, ServerTypes
<1>4. OwnerFrames'
  BY DEF OwnerFrames, ConnTypes, ServerTypes, ServerInStep
<1>5. OpenIsKnown'
  BY DEF OpenIsKnown, ConnTypes, ServerTypes, ServerInStep
<1>6. Pursued'
  BY DEF Pursued, ConnTypes, ServerTypes
<1>7. HandlerIsListed'
  BY DEF HandlerIsListed, BusTypes, ServerTypes
<1>8. HandlerWillRun'
  BY DEF HandlerWillRun, HandlerIsListed, BusTypes, ConnTypes, ServerTypes
<1> QED
  BY <1>1, <1>2, <1>3, <1>4, <1>5, <1>6, <1>7, <1>8 DEF Inv

(* The accept thread is gone, and with it what only it knew.               *)
LEMMA StopSnapshotsInv ==
    ASSUME Inv, StopSnapshots
    PROVE  Inv'
<1> USE DEF Inv, StopSnapshots, AcceptJoined, busVars, serverVars,
      serviceVars, connVars, objVars
<1>1. BusTypes' /\ ConnTypes' /\ Dispatching' /\ EventIsHeld' /\ SenderFrames'
      /\ ServiceFrames' /\ AcceptFrames' /\ Descriptors' /\ SocketIsOwn' /\
      OneWinner' /\ Counted' /\ Unannounced' /\ AnnouncedFirst'
  BY Kept
<1>2. ServerTypes'
  BY DEF ServerTypes
<1>3. ServerInStep'
  BY DEF ServerInStep, ServerTypes
<1>4. OwnerFrames'
  BY DEF OwnerFrames, ConnTypes, ServerTypes, ServerInStep
<1>5. DestructorAlone'
  BY DEF DestructorAlone, Lives, Referenced, ConnTypes, ServerTypes,
      ServerInStep, SenderFrames, ServiceFrames, OwnerFrames, AcceptFrames,
      Dispatching, EventIsHeld
<1>6. Lives'
  BY DEF Lives, DestructorAlone, Referenced, ConnTypes, ServerTypes,
      ServerInStep, SenderFrames, ServiceFrames, OwnerFrames, AcceptFrames,
      Dispatching, EventIsHeld
<1>7. AcceptedIsNew'
  BY DEF AcceptedIsNew, ConnTypes, ServerTypes, ServerInStep
<1>8. OpenIsKnown'
  BY DEF OpenIsKnown, ConnTypes, ServerTypes, ServerInStep, AcceptFrames
<1>9. Pursued'
  BY DEF Pursued, ConnTypes, ServerTypes
<1>10. HandlerIsListed'
  BY DEF HandlerIsListed, BusTypes, ServerTypes
<1>11. HandlerWillRun'
  BY DEF HandlerWillRun, HandlerIsListed, BusTypes, ConnTypes, ServerTypes
<1> QED
  BY <1>1, <1>2, <1>3, <1>4, <1>5, <1>6, <1>7, <1>8, <1>9, <1>10, <1>11 DEF
      Inv

(* Stop closes a connection that it holds.                                 *)
LEMMA StopClosesInv ==
    ASSUME Inv, NEW c \in Conns, StopCloses(c)
    PROVE  Inv'
<1> USE DEF Inv, StopCloses, busVars, serverVars, serviceVars, connVars,
      objVars
<1>a. td["owner"].at = "none" /\ dtor["owner"] = None /\ c \in to_close
  BY DEF Free, NoFrame, ServerTypes
<1>b. Sets("owner", c, "exchange") /\ closing' = closing \ {c}
  BY FrameEnter
<1>d. ConnTypes'
  BY <1>b DEF ConnTypes, Sets
<1>e. life[c] = "live" /\ c # accepted
  BY <1>a DEF Lives, Referenced, ServerInStep
<1>f. Enters("owner", c)
  BY <1>a, <1>b, <1>e DEF Enters, Sets, ConnTypes
<1>1. BusTypes' /\ Dispatching' /\ Descriptors' /\ Unannounced' /\
      AnnouncedFirst' /\ HandlerIsListed'
  BY Kept
<1>2. SenderFrames' /\ DestructorAlone' /\ Lives' /\ SocketIsOwn' /\
      OneWinner' /\ Counted' /\ Pursued' /\ HandlerWillRun' /\ EventIsHeld' /\
      AcceptedIsNew'
  BY <1>f, EnterInv
<1>3. ServerTypes'
  BY <1>a, <1>b, <1>d DEF ServerTypes
<1>4. ServerInStep'
  BY <1>a, <1>b, <1>d DEF ServerInStep, ServerTypes
<1>5. ServiceFrames'
  BY <1>a, <1>b, <1>d DEF ServiceFrames, ConnTypes, ServerTypes, ServerInStep,
      Sets
<1>6. OwnerFrames'
  BY <1>a, <1>b, <1>d DEF OwnerFrames, ConnTypes, ServerTypes, ServerInStep,
      Sets
<1>7. AcceptFrames'
  BY <1>a, <1>b, <1>d DEF AcceptFrames, ConnTypes, ServerTypes, ServerInStep,
      Dispatching, EventIsHeld, BusTypes, Sets
<1>8. OpenIsKnown'
  BY <1>a, <1>b, <1>d DEF OpenIsKnown, ConnTypes, ServerTypes, ServerInStep,
      Sets
<1> QED
  BY <1>1, <1>2, <1>3, <1>d, <1>4, <1>5, <1>6, <1>7, <1>8 DEF Inv

(* All are closed, and the handler is no longer needed.                    *)
LEMMA StopCancelsInv ==
    ASSUME Inv, StopCancels
    PROVE  Inv'
<1> USE DEF Inv, StopCancels, Free, NoFrame, busVars, serverVars, serviceVars,
      connVars, objVars
<1>a. /\ subscribers' \in [{NC, ND} -> Seq(Nat \ {0})]
      /\ subscribers'[NC] = <<1>>
      /\ handle' = [handle EXCEPT !["disconnect_sub"] = 0]
      /\ UNCHANGED <<next_id, temp, dispatching, snapshot, current, event>>
  BY CancelStep
<1>b. handle'["disconnect_sub"] = 0
  BY <1>a DEF BusTypes
<1>1. ConnTypes' /\ Dispatching' /\ EventIsHeld' /\ SenderFrames' /\
      ServiceFrames' /\ AcceptFrames' /\ DestructorAlone' /\ Lives' /\
      Descriptors' /\ SocketIsOwn' /\ OneWinner' /\ Counted' /\ Unannounced'
      /\ AcceptedIsNew' /\ AnnouncedFirst'
  BY <1>a, Kept
<1>2. BusTypes'
  BY <1>a DEF BusTypes
<1>3. ServerTypes'
  BY <1>a, <1>b DEF ServerTypes
<1>4. ServerInStep'
  BY <1>a, <1>b DEF ServerInStep, ServerTypes
<1>5. OwnerFrames'
  BY <1>a, <1>b DEF OwnerFrames, ConnTypes, ServerTypes, ServerInStep
<1>6. OpenIsKnown'
  BY <1>a, <1>b DEF OpenIsKnown, ConnTypes, ServerTypes, ServerInStep
<1>7. Pursued'
  BY <1>a, <1>b DEF Pursued, ConnTypes, ServerTypes
<1>8. HandlerIsListed'
  BY <1>a, <1>b DEF HandlerIsListed, BusTypes, ServerTypes, ServerInStep
<1>9. HandlerWillRun'
  BY <1>a, <1>b DEF HandlerWillRun, HandlerIsListed, BusTypes, ConnTypes,
      ServerTypes, ServerInStep
<1> QED
  BY <1>1, <1>2, <1>3, <1>4, <1>5, <1>6, <1>7, <1>8, <1>9 DEF Inv

(* What is still listed is left.                                           *)
LEMMA StopReturnsInv ==
    ASSUME Inv, StopReturns
    PROVE  Inv'
<1> USE DEF Inv, StopReturns, Free, NoFrame, busVars, serverVars, serviceVars,
      connVars, objVars
<1>1. BusTypes' /\ ConnTypes' /\ Dispatching' /\ EventIsHeld' /\ SenderFrames'
      /\ ServiceFrames' /\ AcceptFrames' /\ DestructorAlone' /\ Lives' /\
      Descriptors' /\ SocketIsOwn' /\ OneWinner' /\ Counted' /\ Unannounced'
      /\ AcceptedIsNew' /\ AnnouncedFirst'
  BY Kept
<1>2. ServerTypes'
  BY DEF ServerTypes
<1>3. ServerInStep'
  BY DEF ServerInStep, ServerTypes
<1>4. OwnerFrames'
  BY DEF OwnerFrames, ConnTypes, ServerTypes, ServerInStep
<1>5. OpenIsKnown'
  BY DEF OpenIsKnown, ConnTypes, ServerTypes, ServerInStep
<1>6. Pursued'
  BY DEF Pursued, ConnTypes, ServerTypes
<1>7. HandlerIsListed'
  BY DEF HandlerIsListed, BusTypes, ServerTypes
<1>8. HandlerWillRun'
  BY DEF HandlerWillRun, HandlerIsListed, BusTypes, ConnTypes, ServerTypes
<1> QED
  BY <1>1, <1>2, <1>3, <1>4, <1>5, <1>6, <1>7, <1>8 DEF Inv

(* The server is destroyed after Stop.                                     *)
LEMMA ServerDestroyedInv ==
    ASSUME Inv, ServerDestroyed
    PROVE  Inv'
<1> USE DEF Inv, ServerDestroyed, busVars, serverVars, serviceVars, connVars,
      objVars
<1>1. BusTypes' /\ ConnTypes' /\ Dispatching' /\ EventIsHeld' /\ SenderFrames'
      /\ ServiceFrames' /\ AcceptFrames' /\ DestructorAlone' /\ Lives' /\
      Descriptors' /\ SocketIsOwn' /\ OneWinner' /\ Counted' /\ Unannounced'
      /\ AcceptedIsNew' /\ AnnouncedFirst'
  BY Kept
<1>2. ServerTypes'
  BY DEF ServerTypes
<1>3. ServerInStep'
  BY DEF ServerInStep, ServerTypes
<1>4. OwnerFrames'
  BY DEF OwnerFrames, ConnTypes, ServerTypes, ServerInStep
<1>5. OpenIsKnown'
  BY DEF OpenIsKnown, ConnTypes, ServerTypes, ServerInStep
<1>6. Pursued'
  BY DEF Pursued, ConnTypes, ServerTypes
<1>7. HandlerIsListed'
  BY DEF HandlerIsListed, BusTypes, ServerTypes
<1>8. HandlerWillRun'
  BY DEF HandlerWillRun, HandlerIsListed, BusTypes, ConnTypes, ServerTypes
<1> QED
  BY <1>1, <1>2, <1>3, <1>4, <1>5, <1>6, <1>7, <1>8 DEF Inv

(* Stop drops what it closed.                                              *)
LEMMA StopDropsInv ==
    ASSUME Inv, NEW c \in Conns, StopDrops(c)
    PROVE  Inv'
<1> USE DEF Inv, StopDrops, busVars, serverVars, serviceVars, connVars,
      objVars
<1>a. /\ td["owner"].at = "none" /\ dtor["owner"] = None /\ Dropped("owner", c)
      /\ Referenced(c)
  BY DEF Free, NoFrame, Referenced
<1>c. Drops("owner", c)
  BY <1>a, FrameDropped
<1>1. BusTypes' /\ Dispatching' /\ Descriptors' /\ AnnouncedFirst' /\
      HandlerIsListed'
  BY Kept
<1>2. ConnTypes' /\ SenderFrames' /\ DestructorAlone' /\ Lives' /\
      SocketIsOwn' /\ OneWinner' /\ Counted' /\ Pursued'
  BY <1>a, <1>c, DropInv DEF Loses, ConnTypes
<1>3. ServerTypes'
  BY <1>a DEF ServerTypes, ServerInStep
<1>4. ServerInStep'
  BY <1>a, <1>c DEF ServerInStep, ServerTypes
<1>5. EventIsHeld'
  BY <1>a, <1>c DEF EventIsHeld, Drops, Sets
<1>6. ServiceFrames'
  BY <1>a, <1>c DEF ServiceFrames, Drops, Sets
<1>7. OwnerFrames'
  BY <1>a, <1>c DEF OwnerFrames, Drops, Sets
<1>8. AcceptFrames'
  BY <1>a, <1>c DEF AcceptFrames, Drops, Sets
<1>9. Unannounced'
  BY <1>a, <1>c DEF Unannounced, Drops
<1>10. AcceptedIsNew'
  BY <1>a, <1>c DEF AcceptedIsNew, Drops, ServerInStep, Sets
<1>11. OpenIsKnown'
  BY <1>a, <1>c DEF OpenIsKnown, Drops, Sets
<1>12. HandlerWillRun'
  BY <1>a, <1>c, DispatchesGoOn DEF Drops
<1> QED
  BY <1>1, <1>2, <1>3, <1>4, <1>5, <1>6, <1>7, <1>8, <1>9, <1>10, <1>11, <1>12
      DEF Inv

(* The destroyed server drops what it left.                                *)
LEMMA ServerDropsInv ==
    ASSUME Inv, NEW c \in Conns, ServerDrops(c)
    PROVE  Inv'
<1> USE DEF Inv, ServerDrops, busVars, serverVars, serviceVars, connVars,
      objVars
<1>a. /\ td["owner"].at = "none" /\ dtor["owner"] = None /\ Dropped("owner", c)
      /\ Referenced(c)
  BY DEF Free, NoFrame, Referenced
<1>c. Drops("owner", c)
  BY <1>a, FrameDropped
<1>1. BusTypes' /\ ServerInStep' /\ Dispatching' /\ Descriptors' /\
      HandlerIsListed'
  BY Kept
<1>2. ConnTypes' /\ SenderFrames' /\ DestructorAlone' /\ Lives' /\
      SocketIsOwn' /\ OneWinner' /\ Counted' /\ Pursued'
  BY <1>a, <1>c, DropInv DEF Loses, ConnTypes
<1>3. ServerTypes'
  BY <1>a, <1>c DEF ServerTypes
<1>4. EventIsHeld'
  BY <1>a, <1>c DEF EventIsHeld, Drops, Sets
<1>5. ServiceFrames'
  BY <1>a, <1>c DEF ServiceFrames, Drops, Sets
<1>6. OwnerFrames'
  BY <1>a, <1>c DEF OwnerFrames, Drops, Sets
<1>7. AcceptFrames'
  BY <1>a, <1>c DEF AcceptFrames, Drops, Sets
<1>8. Unannounced'
  BY <1>a, <1>c DEF Unannounced, Drops
<1>9. AcceptedIsNew'
  BY <1>a, <1>c DEF AcceptedIsNew, Drops, ServerInStep, Sets
<1>10. AnnouncedFirst'
  BY <1>a, <1>c DEF AnnouncedFirst, ConnTypes, ServerTypes, ServerInStep
<1>11. OpenIsKnown'
  BY <1>a, <1>c DEF OpenIsKnown, Drops, ServerInStep, Sets
<1>12. HandlerWillRun'
  BY DEF HandlerWillRun, ServerInStep
<1> QED
  BY <1>1, <1>2, <1>3, <1>4, <1>5, <1>6, <1>7, <1>8, <1>9, <1>10, <1>11, <1>12
      DEF Inv

(* The service lets go of a connection.                                    *)
LEMMA ForgetInv ==
    ASSUME Inv, NEW c \in Conns, Forget(c)
    PROVE  Inv'
<1> USE DEF Inv, Forget, busVars, serverVars, serviceVars, connVars, objVars
<1>a. /\ td["service"].at = "none" /\ dtor["service"] = None /\ Dropped("service", c)
      /\ Referenced(c)
  BY DEF Free, NoFrame, Referenced
<1>c. Drops("service", c)
  BY <1>a, FrameDropped
<1>1. BusTypes' /\ ServerInStep' /\ Dispatching' /\ Descriptors' /\
      AnnouncedFirst' /\ HandlerIsListed'
  BY Kept
<1>2. ConnTypes' /\ SenderFrames' /\ DestructorAlone' /\ Lives' /\
      SocketIsOwn' /\ OneWinner' /\ Counted' /\ Pursued'
  BY <1>a, <1>c, DropInv DEF Loses, ConnTypes
<1>3. ServerTypes'
  BY <1>a, <1>c DEF ServerTypes
<1>4. EventIsHeld'
  BY <1>a, <1>c DEF EventIsHeld, Drops, Sets
<1>5. ServiceFrames'
  BY <1>a, <1>c DEF ServiceFrames, Drops, Sets
<1>6. OwnerFrames'
  BY <1>a, <1>c DEF OwnerFrames, Drops, Sets
<1>7. AcceptFrames'
  BY <1>a, <1>c DEF AcceptFrames, Drops, Sets
<1>8. Unannounced'
  BY <1>a, <1>c DEF Unannounced, Drops
<1>9. AcceptedIsNew'
  BY <1>a, <1>c DEF AcceptedIsNew, Drops, ServerInStep, Sets
<1>10. OpenIsKnown'
  BY <1>a, <1>c DEF OpenIsKnown, Drops, Sets
<1>11. HandlerWillRun'
  BY <1>a, <1>c, DispatchesGoOn DEF Drops
<1> QED
  BY <1>1, <1>2, <1>3, <1>4, <1>5, <1>6, <1>7, <1>8, <1>9, <1>10, <1>11 DEF
      Inv

(* The service has returned from the connection.                           *)
LEMMA ServiceReturnsInv ==
    ASSUME Inv, ServiceReturns
    PROVE  Inv'
<1> USE DEF Inv, ServiceReturns, busVars, serverVars, serviceVars, connVars,
      objVars
<1>a. PICK c \in Conns :
         /\ using = c /\ td["service"].at = "none" /\ dtor["service"] = None
         /\ Dropped("service", c) /\ Referenced(c)
  <2>1. using \in Conns
    BY DEF ServerInStep, ServerTypes
  <2> QED
    BY <2>1 DEF Free, NoFrame, Dropped, Referenced
<1>c. Drops("service", c)
  BY <1>a, FrameDropped
<1>1. BusTypes' /\ Dispatching' /\ Descriptors' /\ AnnouncedFirst' /\
      HandlerIsListed'
  BY Kept
<1>2. ConnTypes' /\ SenderFrames' /\ DestructorAlone' /\ Lives' /\
      SocketIsOwn' /\ OneWinner' /\ Counted' /\ Pursued'
  BY <1>a, <1>c, DropInv DEF Loses, ConnTypes
<1>3. ServerTypes'
  BY <1>a, <1>c DEF ServerTypes
<1>4. ServerInStep'
  BY <1>a, <1>c DEF ServerInStep, ServerTypes
<1>5. EventIsHeld'
  BY <1>a, <1>c DEF EventIsHeld, Drops, Sets
<1>6. ServiceFrames'
  BY <1>a, <1>c DEF ServiceFrames, Drops, Sets
<1>7. OwnerFrames'
  BY <1>a, <1>c DEF OwnerFrames, Drops, Sets
<1>8. AcceptFrames'
  BY <1>a, <1>c DEF AcceptFrames, Drops, Sets
<1>9. Unannounced'
  BY <1>a, <1>c DEF Unannounced, Drops
<1>10. AcceptedIsNew'
  BY <1>a, <1>c DEF AcceptedIsNew, Drops, ServerInStep, Sets
<1>11. OpenIsKnown'
  BY <1>a, <1>c DEF OpenIsKnown, Drops, Sets
<1>12. HandlerWillRun'
  BY <1>a, <1>c, DispatchesGoOn DEF Drops
<1> QED
  BY <1>1, <1>2, <1>3, <1>4, <1>5, <1>6, <1>7, <1>8, <1>9, <1>10, <1>11, <1>12
      DEF Inv

(* The accept thread looks at its token.                                   *)
LEMMA AcceptChecksInv ==
    ASSUME Inv, AcceptChecks
    PROVE  Inv'
<1> USE DEF Inv, AcceptChecks, Free, NoFrame, busVars, serverVars,
      serviceVars, connVars, objVars
<1>1. BusTypes' /\ ConnTypes' /\ Dispatching' /\ SenderFrames' /\
      ServiceFrames' /\ OwnerFrames' /\ DestructorAlone' /\ Lives' /\
      Descriptors' /\ SocketIsOwn' /\ OneWinner' /\ Counted' /\ Pursued' /\
      HandlerIsListed' /\ HandlerWillRun'
  BY Kept
<1>2. ServerTypes'
  BY DEF ServerTypes
<1>3. ServerInStep'
  BY DEF ServerInStep, ServerTypes
<1>4. EventIsHeld'
  BY DEF EventIsHeld, ConnTypes, ServerTypes, ServerInStep
<1>5. AcceptFrames'
  BY DEF AcceptFrames, ConnTypes, ServerTypes, ServerInStep, Dispatching,
      EventIsHeld, BusTypes
<1>6. Unannounced'
  BY DEF Unannounced, ConnTypes, ServerTypes
<1>7. AcceptedIsNew'
  BY DEF AcceptedIsNew, ConnTypes, ServerTypes, ServerInStep
<1>8. AnnouncedFirst'
  BY DEF AnnouncedFirst, ConnTypes, ServerTypes, ServerInStep
<1>9. OpenIsKnown'
  BY DEF OpenIsKnown, ConnTypes, ServerTypes, ServerInStep
<1> QED
  BY <1>1, <1>2, <1>3, <1>4, <1>5, <1>6, <1>7, <1>8, <1>9 DEF Inv

(* Nothing to accept.                                                      *)
LEMMA AcceptNothingInv ==
    ASSUME Inv, AcceptNothing
    PROVE  Inv'
<1> USE DEF Inv, AcceptNothing, busVars, serverVars, serviceVars, connVars,
      objVars
<1>1. BusTypes' /\ ConnTypes' /\ Dispatching' /\ SenderFrames' /\
      ServiceFrames' /\ OwnerFrames' /\ DestructorAlone' /\ Lives' /\
      Descriptors' /\ SocketIsOwn' /\ OneWinner' /\ Counted' /\ Pursued' /\
      HandlerIsListed' /\ HandlerWillRun'
  BY Kept
<1>2. ServerTypes'
  BY DEF ServerTypes
<1>3. ServerInStep'
  BY DEF ServerInStep, ServerTypes
<1>4. EventIsHeld'
  BY DEF EventIsHeld, ConnTypes, ServerTypes, ServerInStep
<1>5. AcceptFrames'
  BY DEF AcceptFrames, ConnTypes, ServerTypes, ServerInStep, Dispatching,
      EventIsHeld, BusTypes
<1>6. Unannounced'
  BY DEF Unannounced, ConnTypes, ServerTypes
<1>7. AcceptedIsNew'
  BY DEF AcceptedIsNew, ConnTypes, ServerTypes, ServerInStep
<1>8. AnnouncedFirst'
  BY DEF AnnouncedFirst, ConnTypes, ServerTypes, ServerInStep
<1>9. OpenIsKnown'
  BY DEF OpenIsKnown, ConnTypes, ServerTypes, ServerInStep
<1> QED
  BY <1>1, <1>2, <1>3, <1>4, <1>5, <1>6, <1>7, <1>8, <1>9 DEF Inv

(* The accept thread gives up.                                             *)
LEMMA AcceptGivesUpInv ==
    ASSUME Inv, AcceptGivesUp
    PROVE  Inv'
<1> USE DEF Inv, AcceptGivesUp, busVars, serverVars, serviceVars, connVars,
      objVars
<1>1. BusTypes' /\ ConnTypes' /\ Dispatching' /\ SenderFrames' /\
      ServiceFrames' /\ OwnerFrames' /\ DestructorAlone' /\ Lives' /\
      Descriptors' /\ SocketIsOwn' /\ OneWinner' /\ Counted' /\ Pursued' /\
      HandlerIsListed' /\ HandlerWillRun'
  BY Kept
<1>2. ServerTypes'
  BY DEF ServerTypes
<1>3. ServerInStep'
  BY DEF ServerInStep, ServerTypes
<1>4. EventIsHeld'
  BY DEF EventIsHeld, ConnTypes, ServerTypes, ServerInStep
<1>5. AcceptFrames'
  BY DEF AcceptFrames, ConnTypes, ServerTypes, ServerInStep, Dispatching,
      EventIsHeld, BusTypes
<1>6. Unannounced'
  BY DEF Unannounced, ConnTypes, ServerTypes
<1>7. AcceptedIsNew'
  BY DEF AcceptedIsNew, ConnTypes, ServerTypes, ServerInStep
<1>8. AnnouncedFirst'
  BY DEF AnnouncedFirst, ConnTypes, ServerTypes, ServerInStep
<1>9. OpenIsKnown'
  BY DEF OpenIsKnown, ConnTypes, ServerTypes, ServerInStep
<1> QED
  BY <1>1, <1>2, <1>3, <1>4, <1>5, <1>6, <1>7, <1>8, <1>9 DEF Inv

(* The accepted connection is listed.                                      *)
LEMMA AcceptRegistersInv ==
    ASSUME Inv, AcceptRegisters
    PROVE  Inv'
<1> USE DEF Inv, AcceptRegisters, busVars, serverVars, serviceVars, connVars,
      objVars
<1>a. /\ accepted \in Conns
      /\ (owner = "idle" /\ running) \/ owner = "join"
      /\ gone[accepted] = 0
  BY DEF ServerInStep, ServerTypes, AcceptedIsNew, Counted
<1>1. BusTypes' /\ ConnTypes' /\ Dispatching' /\ SenderFrames' /\
      ServiceFrames' /\ OwnerFrames' /\ Descriptors' /\ SocketIsOwn' /\
      OneWinner' /\ Counted' /\ HandlerIsListed'
  BY Kept
<1>2. ServerTypes'
  BY <1>a DEF ServerTypes
<1>3. ServerInStep'
  BY <1>a DEF ServerInStep, ServerTypes
<1>4. EventIsHeld'
  BY <1>a DEF EventIsHeld, ConnTypes, ServerTypes, ServerInStep
<1>5. AcceptFrames'
  BY <1>a DEF AcceptFrames, ConnTypes, ServerTypes, ServerInStep, Dispatching,
      EventIsHeld, BusTypes
<1>6. DestructorAlone'
  BY <1>a DEF DestructorAlone, Lives, Referenced, ConnTypes, ServerTypes,
      ServerInStep, SenderFrames, ServiceFrames, OwnerFrames, AcceptFrames,
      Dispatching, EventIsHeld
<1>7. Lives'
  BY <1>a DEF Lives, DestructorAlone, Referenced, ConnTypes, ServerTypes,
      ServerInStep, SenderFrames, ServiceFrames, OwnerFrames, AcceptFrames,
      Dispatching, EventIsHeld
<1>8. Unannounced'
  BY <1>a DEF Unannounced, ConnTypes, ServerTypes
<1>9. AcceptedIsNew'
  BY <1>a DEF AcceptedIsNew, ConnTypes, ServerTypes, ServerInStep
<1>10. AnnouncedFirst'
  BY <1>a DEF AnnouncedFirst, ConnTypes, ServerTypes, ServerInStep
<1>11. OpenIsKnown'
  BY <1>a DEF OpenIsKnown, ConnTypes, ServerTypes, ServerInStep
<1>12. Pursued'
  BY <1>a DEF Pursued, ConnTypes, ServerTypes
<1>13. HandlerWillRun'
  BY <1>a DEF HandlerWillRun
<1> QED
  BY <1>1, <1>2, <1>3, <1>4, <1>5, <1>6, <1>7, <1>8, <1>9, <1>10, <1>11,
      <1>12, <1>13 DEF Inv

(* A sender that takes a chunk is still the live connection's.             *)
LEMMA SenderPopsInv ==
    ASSUME Inv, NEW c \in Conns, SenderPops(c)
    PROVE  Inv'
<1> USE DEF Inv, SenderPops, SenderAt, busVars, serverVars, serviceVars,
      connVars, objVars
<1>1. BusTypes' /\ ServerTypes' /\ ServerInStep' /\ Dispatching' /\
      EventIsHeld' /\ ServiceFrames' /\ OwnerFrames' /\ AcceptFrames' /\
      DestructorAlone' /\ Descriptors' /\ SocketIsOwn' /\ OneWinner' /\
      Counted' /\ Unannounced' /\ AnnouncedFirst' /\ OpenIsKnown' /\ Pursued'
      /\ HandlerIsListed' /\ HandlerWillRun'
  BY Kept
<1>2. ConnTypes'
  BY DEF ConnTypes
<1>3. SenderFrames'
  BY DEF SenderFrames, ConnTypes
<1>4. Lives'
  BY DEF Lives, DestructorAlone, Referenced, ConnTypes, ServerTypes,
      ServerInStep, SenderFrames, ServiceFrames, OwnerFrames, AcceptFrames,
      Dispatching, EventIsHeld
<1>5. AcceptedIsNew'
  BY DEF AcceptedIsNew, ConnTypes, ServerTypes, ServerInStep
<1> QED
  BY <1>1, <1>2, <1>3, <1>4, <1>5 DEF Inv

(* A sender that was told to stop touches the connection no more.          *)
LEMMA SenderStopsInv ==
    ASSUME Inv, NEW c \in Conns, SenderStops(c)
    PROVE  Inv'
<1> USE DEF Inv, SenderStops, SenderAt, busVars, serverVars, serviceVars,
      connVars, objVars
<1>1. BusTypes' /\ ServerTypes' /\ ServerInStep' /\ Dispatching' /\
      EventIsHeld' /\ ServiceFrames' /\ OwnerFrames' /\ AcceptFrames' /\
      DestructorAlone' /\ Descriptors' /\ SocketIsOwn' /\ OneWinner' /\
      Counted' /\ Unannounced' /\ AnnouncedFirst' /\ OpenIsKnown' /\ Pursued'
      /\ HandlerIsListed' /\ HandlerWillRun'
  BY Kept
<1>2. ConnTypes'
  BY DEF ConnTypes
<1>3. SenderFrames'
  BY DEF SenderFrames, ConnTypes
<1>4. Lives'
  <2>1. \A d \in Conns : Referenced(d)' <=> Referenced(d)
    BY DEF Referenced
  <2>2. /\ sender[c] \in {"pop", "check"} /\ sender'[c] \in {"done"}
        /\ \A d \in Conns : d # c => sender'[d] = sender[d]
    BY DEF ConnTypes
  <2> QED
    BY <2>1, <2>2 DEF Lives
<1>5. AcceptedIsNew'
  BY DEF AcceptedIsNew, ConnTypes, ServerTypes, ServerInStep
<1> QED
  BY <1>1, <1>2, <1>3, <1>4, <1>5 DEF Inv

(* A sender goes on to write.                                              *)
LEMMA SenderChecksInv ==
    ASSUME Inv, NEW c \in Conns, SenderChecks(c)
    PROVE  Inv'
<1> USE DEF Inv, SenderChecks, SenderAt, busVars, serverVars, serviceVars,
      connVars, objVars
<1>1. BusTypes' /\ ServerTypes' /\ ServerInStep' /\ Dispatching' /\
      EventIsHeld' /\ ServiceFrames' /\ OwnerFrames' /\ AcceptFrames' /\
      DestructorAlone' /\ Descriptors' /\ SocketIsOwn' /\ OneWinner' /\
      Counted' /\ Unannounced' /\ AnnouncedFirst' /\ OpenIsKnown' /\ Pursued'
      /\ HandlerIsListed' /\ HandlerWillRun'
  BY Kept
<1>2. ConnTypes'
  BY DEF ConnTypes
<1>3. SenderFrames'
  BY DEF SenderFrames, ConnTypes
<1>4. Lives'
  BY DEF Lives, DestructorAlone, Referenced, ConnTypes, ServerTypes,
      ServerInStep, SenderFrames, ServiceFrames, OwnerFrames, AcceptFrames,
      Dispatching, EventIsHeld
<1>5. AcceptedIsNew'
  BY DEF AcceptedIsNew, ConnTypes, ServerTypes, ServerInStep
<1> QED
  BY <1>1, <1>2, <1>3, <1>4, <1>5 DEF Inv

(* A sender has written, all of a chunk or a part.                         *)
LEMMA SenderWritesInv ==
    ASSUME Inv, NEW c \in Conns, SenderWrites(c)
    PROVE  Inv'
<1> USE DEF Inv, SenderWrites, SenderAt, busVars, serverVars, serviceVars,
      connVars, objVars
<1>1. BusTypes' /\ ServerTypes' /\ ServerInStep' /\ Dispatching' /\
      EventIsHeld' /\ ServiceFrames' /\ OwnerFrames' /\ AcceptFrames' /\
      DestructorAlone' /\ Descriptors' /\ SocketIsOwn' /\ OneWinner' /\
      Counted' /\ Unannounced' /\ AnnouncedFirst' /\ OpenIsKnown' /\ Pursued'
      /\ HandlerIsListed' /\ HandlerWillRun'
  BY Kept
<1>2. ConnTypes'
  BY DEF ConnTypes
<1>3. SenderFrames'
  BY DEF SenderFrames, ConnTypes
<1>4. Lives'
  <2>1. \A d \in Conns : Referenced(d)' <=> Referenced(d)
    BY DEF Referenced
  <2>2. /\ sender[c] \in {"write"} /\ sender'[c] \in {"pop", "check"}
        /\ \A d \in Conns : d # c => sender'[d] = sender[d]
    BY DEF ConnTypes
  <2> QED
    BY <2>1, <2>2 DEF Lives
<1>5. AcceptedIsNew'
  BY DEF AcceptedIsNew, ConnTypes, ServerTypes, ServerInStep
<1> QED
  BY <1>1, <1>2, <1>3, <1>4, <1>5 DEF Inv

(* A sender ends outside its Teardown.                                     *)
LEMMA SenderEndsInv ==
    ASSUME Inv, NEW c \in Conns, SenderEnds(c)
    PROVE  Inv'
<1> USE DEF Inv, SenderEnds, SenderAt, Free, NoFrame, busVars, serverVars,
      serviceVars, connVars, objVars
<1>1. BusTypes' /\ ServerTypes' /\ ServerInStep' /\ Dispatching' /\
      EventIsHeld' /\ ServiceFrames' /\ OwnerFrames' /\ AcceptFrames' /\
      DestructorAlone' /\ Descriptors' /\ SocketIsOwn' /\ OneWinner' /\
      Counted' /\ Unannounced' /\ AnnouncedFirst' /\ OpenIsKnown' /\ Pursued'
      /\ HandlerIsListed' /\ HandlerWillRun'
  BY Kept
<1>2. ConnTypes'
  BY DEF ConnTypes
<1>3. SenderFrames'
  BY DEF SenderFrames, ConnTypes
<1>4. Lives'
  BY DEF Lives, DestructorAlone, Referenced, ConnTypes, ServerTypes,
      ServerInStep, SenderFrames, ServiceFrames, OwnerFrames, AcceptFrames,
      Dispatching, EventIsHeld
<1>5. AcceptedIsNew'
  BY DEF AcceptedIsNew, ConnTypes, ServerTypes, ServerInStep
<1> QED
  BY <1>1, <1>2, <1>3, <1>4, <1>5 DEF Inv

(* A chunk is queued on an open connection.                                *)
LEMMA SendInv ==
    ASSUME Inv, NEW c \in Conns, Send(c)
    PROVE  Inv'
<1> USE DEF Inv, Send, Free, busVars, serverVars, serviceVars, connVars,
      objVars
<1>1. BusTypes' /\ ServerTypes' /\ ServerInStep' /\ Dispatching' /\
      EventIsHeld' /\ SenderFrames' /\ ServiceFrames' /\ OwnerFrames' /\
      AcceptFrames' /\ DestructorAlone' /\ Descriptors' /\ SocketIsOwn' /\
      OneWinner' /\ Counted' /\ Unannounced' /\ AnnouncedFirst' /\
      OpenIsKnown' /\ Pursued' /\ HandlerIsListed' /\ HandlerWillRun'
  BY Kept
<1>2. ConnTypes'
  BY DEF ConnTypes
<1>3. Lives'
  BY DEF Lives, DestructorAlone, Referenced, ConnTypes, ServerTypes,
      ServerInStep, SenderFrames, ServiceFrames, OwnerFrames, AcceptFrames,
      Dispatching, EventIsHeld
<1>4. AcceptedIsNew'
  BY DEF AcceptedIsNew, ConnTypes, ServerTypes, ServerInStep
<1> QED
  BY <1>1, <1>2, <1>3, <1>4 DEF Inv

(* Recv holds the connection it reads from.                                *)
LEMMA RecvInv ==
    ASSUME Inv, NEW c \in Conns, Recv(c)
    PROVE  Inv'
<1> USE DEF Inv, Recv, Free, busVars, serverVars, serviceVars, connVars,
      objVars
<1>1. BusTypes' /\ ConnTypes' /\ Dispatching' /\ EventIsHeld' /\ SenderFrames'
      /\ OwnerFrames' /\ AcceptFrames' /\ Descriptors' /\ SocketIsOwn' /\
      OneWinner' /\ Counted' /\ Unannounced' /\ AnnouncedFirst' /\
      OpenIsKnown' /\ Pursued' /\ HandlerIsListed' /\ HandlerWillRun'
  BY Kept
<1>2. ServerTypes'
  BY DEF ServerTypes
<1>3. ServerInStep'
  BY DEF ServerInStep, ServerTypes
<1>4. ServiceFrames'
  BY DEF ServiceFrames, ConnTypes, ServerTypes, ServerInStep
<1>5. DestructorAlone'
  BY DEF DestructorAlone, Lives, Referenced, ConnTypes, ServerTypes,
      ServerInStep, SenderFrames, ServiceFrames, OwnerFrames, AcceptFrames,
      Dispatching, EventIsHeld
<1>6. Lives'
  BY DEF Lives, DestructorAlone, Referenced, ConnTypes, ServerTypes,
      ServerInStep, SenderFrames, ServiceFrames, OwnerFrames, AcceptFrames,
      Dispatching, EventIsHeld
<1>7. AcceptedIsNew'
  BY DEF AcceptedIsNew, ConnTypes, ServerTypes, ServerInStep
<1> QED
  BY <1>1, <1>2, <1>3, <1>4, <1>5, <1>6, <1>7 DEF Inv

(* Recv has read.                                                          *)
LEMMA RecvReadsInv ==
    ASSUME Inv, RecvReads
    PROVE  Inv'
<1> USE DEF Inv, RecvReads, busVars, serverVars, serviceVars, connVars,
      objVars
<1>1. BusTypes' /\ ConnTypes' /\ Dispatching' /\ EventIsHeld' /\ SenderFrames'
      /\ OwnerFrames' /\ AcceptFrames' /\ DestructorAlone' /\ Lives' /\
      Descriptors' /\ SocketIsOwn' /\ OneWinner' /\ Counted' /\ Unannounced'
      /\ AcceptedIsNew' /\ AnnouncedFirst' /\ OpenIsKnown' /\ Pursued' /\
      HandlerIsListed' /\ HandlerWillRun'
  BY Kept
<1>2. ServerTypes'
  BY DEF ServerTypes
<1>3. ServerInStep'
  BY DEF ServerInStep, ServerTypes
<1>4. ServiceFrames'
  BY DEF ServiceFrames, ConnTypes, ServerTypes, ServerInStep
<1> QED
  BY <1>1, <1>2, <1>3, <1>4 DEF Inv

(* Recv has waited in vain.                                                *)
LEMMA RecvTimesOutInv ==
    ASSUME Inv, RecvTimesOut
    PROVE  Inv'
<1> USE DEF Inv, RecvTimesOut, busVars, serverVars, serviceVars, connVars,
      objVars
<1>1. BusTypes' /\ ConnTypes' /\ Dispatching' /\ EventIsHeld' /\ SenderFrames'
      /\ OwnerFrames' /\ AcceptFrames' /\ DestructorAlone' /\ Lives' /\
      Descriptors' /\ SocketIsOwn' /\ OneWinner' /\ Counted' /\ Unannounced'
      /\ AcceptedIsNew' /\ AnnouncedFirst' /\ OpenIsKnown' /\ Pursued' /\
      HandlerIsListed' /\ HandlerWillRun'
  BY Kept
<1>2. ServerTypes'
  BY DEF ServerTypes
<1>3. ServerInStep'
  BY DEF ServerInStep, ServerTypes
<1>4. ServiceFrames'
  BY DEF ServiceFrames, ConnTypes, ServerTypes, ServerInStep
<1> QED
  BY <1>1, <1>2, <1>3, <1>4 DEF Inv

(* A remote end that connects makes no object yet.                         *)
LEMMA PeerConnectsInv ==
    ASSUME Inv, NEW c \in Conns, PeerConnects(c)
    PROVE  Inv'
<1> USE DEF Inv, PeerConnects, busVars, serverVars, serviceVars, connVars,
      objVars
<1>1. BusTypes' /\ ServerTypes' /\ ServerInStep' /\ Dispatching' /\
      EventIsHeld' /\ SenderFrames' /\ ServiceFrames' /\ OwnerFrames' /\
      AcceptFrames' /\ DestructorAlone' /\ Descriptors' /\ SocketIsOwn' /\
      OneWinner' /\ Counted' /\ Unannounced' /\ AcceptedIsNew' /\
      AnnouncedFirst' /\ OpenIsKnown' /\ Pursued' /\ HandlerIsListed' /\
      HandlerWillRun'
  BY Kept
<1>2. ConnTypes'
  BY DEF ConnTypes
<1>3. Lives'
  BY DEF Lives, DestructorAlone, Referenced, ConnTypes, ServerTypes,
      ServerInStep, SenderFrames, ServiceFrames, OwnerFrames, AcceptFrames,
      Dispatching, EventIsHeld
<1> QED
  BY <1>1, <1>2, <1>3 DEF Inv

(* A sender that cannot send enters the Teardown.                          *)
LEMMA SenderFailsInv ==
    ASSUME Inv, NEW c \in Conns, SenderFails(c)
    PROVE  Inv'
<1> USE DEF Inv, SenderFails, busVars, serverVars, serviceVars, connVars,
      objVars
<1>a. /\ td[c].at = "none" /\ dtor[c] = None /\ sender[c] = "write"
      /\ sender'[c] = "ending" /\ life[c] = "live"
      /\ \A d \in Conns : d # c => sender'[d] = sender[d]
  BY DEF SenderFrames, Lives, ConnTypes
<1>b. Sets(c, c, "exchange")
  BY FrameEnter
<1>d. ConnTypes'
  BY <1>b DEF ConnTypes, Sets
<1>e. accept \in {"register", "announce"} => c # accepted
  BY <1>a DEF AcceptedIsNew
<1>f. Enters(c, c)
  BY <1>a, <1>b, <1>d, <1>e DEF Enters, ConnTypes
<1>1. BusTypes' /\ ServerTypes' /\ ServerInStep' /\ Dispatching' /\
      Descriptors' /\ Unannounced' /\ AnnouncedFirst' /\ HandlerIsListed'
  BY Kept
<1>2. SenderFrames' /\ DestructorAlone' /\ Lives' /\ SocketIsOwn' /\
      OneWinner' /\ Counted' /\ Pursued' /\ HandlerWillRun' /\ EventIsHeld' /\
      AcceptedIsNew'
  BY <1>f, EnterInv
<1>3. ServiceFrames'
  BY <1>a, <1>b, <1>d DEF ServiceFrames, ConnTypes, ServerTypes, ServerInStep,
      Sets
<1>4. OwnerFrames'
  BY <1>a, <1>b, <1>d DEF OwnerFrames, ConnTypes, ServerTypes, ServerInStep,
      Sets
<1>5. AcceptFrames'
  BY <1>a, <1>b, <1>d DEF AcceptFrames, ConnTypes, ServerTypes, ServerInStep,
      Dispatching, EventIsHeld, BusTypes, Sets
<1>6. OpenIsKnown'
  BY <1>a, <1>b, <1>d DEF OpenIsKnown, ConnTypes, ServerTypes, ServerInStep,
      Sets
<1> QED
  BY <1>1, <1>2, <1>d, <1>3, <1>4, <1>5, <1>6 DEF Inv

(* The service closes a connection it keeps.                               *)
LEMMA CloseInv ==
    ASSUME Inv, NEW c \in Conns, Close(c)
    PROVE  Inv'
<1> USE DEF Inv, Close, busVars, serverVars, serviceVars, connVars, objVars
<1>a. td["service"].at = "none" /\ dtor["service"] = None /\ life[c] = "live"
  BY DEF Free, NoFrame, Lives, Referenced
<1>b. Sets("service", c, "exchange")
  BY FrameEnter
<1>d. ConnTypes'
  BY <1>b DEF ConnTypes, Sets
<1>e. accept \in {"register", "announce"} => c # accepted
  BY <1>a DEF AcceptedIsNew
<1>f. Enters("service", c)
  BY <1>a, <1>b, <1>e DEF Enters, ConnTypes
<1>1. BusTypes' /\ Dispatching' /\ Descriptors' /\ Unannounced' /\
      AnnouncedFirst' /\ HandlerIsListed'
  BY Kept
<1>2. SenderFrames' /\ DestructorAlone' /\ Lives' /\ SocketIsOwn' /\
      OneWinner' /\ Counted' /\ Pursued' /\ HandlerWillRun' /\ EventIsHeld' /\
      AcceptedIsNew'
  BY <1>f, EnterInv
<1>3. ServerTypes'
  BY <1>a, <1>b, <1>d DEF ServerTypes
<1>4. ServerInStep'
  BY <1>a, <1>b, <1>d DEF ServerInStep, ServerTypes
<1>5. ServiceFrames'
  BY <1>a, <1>b, <1>d DEF ServiceFrames, ConnTypes, ServerTypes, ServerInStep,
      Sets
<1>6. OwnerFrames'
  BY <1>a, <1>b, <1>d DEF OwnerFrames, ConnTypes, ServerTypes, ServerInStep,
      Sets
<1>7. AcceptFrames'
  BY <1>a, <1>b, <1>d DEF AcceptFrames, ConnTypes, ServerTypes, ServerInStep,
      Dispatching, EventIsHeld, BusTypes, Sets
<1>8. OpenIsKnown'
  BY <1>a, <1>b, <1>d DEF OpenIsKnown, ConnTypes, ServerTypes, ServerInStep,
      Sets
<1> QED
  BY <1>1, <1>2, <1>3, <1>d, <1>4, <1>5, <1>6, <1>7, <1>8 DEF Inv

(* Recv closes the connection it cannot read from.                         *)
LEMMA RecvFailsInv ==
    ASSUME Inv, RecvFails
    PROVE  Inv'
<1> USE DEF Inv, RecvFails, busVars, serverVars, serviceVars, connVars,
      objVars
<1>a. PICK c \in Conns : using = c /\ Enter("service", c)
  BY DEF ServerInStep, ServerTypes
<1>b. /\ td["service"].at = "none" /\ dtor["service"] = None
      /\ life[c] = "live" /\ Sets("service", c, "exchange")
  BY <1>a, FrameEnter, FrameTypes DEF ServiceFrames, Lives, Referenced
<1>d. ConnTypes'
  BY <1>b DEF ConnTypes, Sets
<1>e. accept \in {"register", "announce"} => c # accepted
  BY <1>a DEF AcceptedIsNew
<1>f. Enters("service", c)
  BY <1>a, <1>b, <1>e DEF Enters, ConnTypes
<1>1. BusTypes' /\ Dispatching' /\ Descriptors' /\ Unannounced' /\
      AnnouncedFirst' /\ HandlerIsListed'
  BY Kept
<1>2. SenderFrames' /\ DestructorAlone' /\ Lives' /\ SocketIsOwn' /\
      OneWinner' /\ Counted' /\ Pursued' /\ HandlerWillRun' /\ EventIsHeld' /\
      AcceptedIsNew'
  BY <1>f, EnterInv
<1>3. ServerTypes'
  BY <1>a, <1>b, <1>d DEF ServerTypes
<1>4. ServerInStep'
  BY <1>a, <1>b, <1>d DEF ServerInStep, ServerTypes
<1>5. ServiceFrames'
  BY <1>a, <1>b, <1>d DEF ServiceFrames, ConnTypes, ServerTypes, ServerInStep,
      Sets
<1>6. OwnerFrames'
  BY <1>a, <1>b, <1>d DEF OwnerFrames, ConnTypes, ServerTypes, ServerInStep,
      Sets
<1>7. AcceptFrames'
  BY <1>a, <1>b, <1>d DEF AcceptFrames, ConnTypes, ServerTypes, ServerInStep,
      Dispatching, EventIsHeld, BusTypes, Sets
<1>8. OpenIsKnown'
  BY <1>a, <1>b, <1>d DEF OpenIsKnown, ConnTypes, ServerTypes, ServerInStep,
      Sets
<1> QED
  BY <1>1, <1>2, <1>3, <1>d, <1>4, <1>5, <1>6, <1>7, <1>8 DEF Inv

(* An iteration of the accept thread ends, perhaps with the last           *)
(* reference.                                                              *)
LEMMA AcceptIteratesInv ==
    ASSUME Inv, AcceptIterates
    PROVE  Inv'
<1> USE DEF Inv, busVars, serverVars, serviceVars, connVars, objVars
<1>a. PICK c \in Conns :
         /\ accepted = c /\ Dropped("accept", c) /\ Referenced(c)
         /\ accept = "dispatch" /\ Bus!PublishReturns("accept")
         /\ accept' = "loop" /\ accepted' = None
         /\ evref' = [evref EXCEPT !["accept"] = None]
         /\ UNCHANGED <<running, token, connections, owner, to_close, closing,
                        left, serviceVars, connVars, life, announced, gone>>
  <2>1. accept = "dispatch" /\ accepted \in Conns
    BY DEF AcceptIterates, ServerInStep, ServerTypes
  <2> QED
    BY <2>1 DEF AcceptIterates, Dropped, Referenced
<1>b. /\ td["accept"].at = "none" /\ dtor["accept"] = None
      /\ snapshot["accept"] = <<>> /\ current["accept"] = 0
  <2>1. snapshot["accept"] = <<>> /\ current["accept"] = 0
    BY <1>a DEF Bus!PublishReturns
  <2> QED
    BY <1>a, <2>1, FrameTypes DEF AcceptFrames
<1>c. Drops("accept", c)
  BY <1>a, <1>b, FrameDropped
<1>e. /\ UNCHANGED <<subscribers, next_id, handle, temp, snapshot, current>>
      /\ dispatching' = [dispatching EXCEPT !["accept"] = FALSE]
      /\ event' = [event EXCEPT !["accept"] = Bus!NoEvent]
  BY <1>a DEF Bus!PublishReturns
<1>f. /\ evref'["accept"] = None /\ evref' \in [Threads -> Conns \cup {None}]
      /\ \A u \in Threads : u # "accept" => evref'[u] = evref[u]
  BY <1>a DEF ConnTypes
<1>g. c \in announced /\ td'["accept"].c \in {None, c}
  BY <1>a, <1>c DEF AnnouncedFirst, Drops
<1>1. Descriptors' /\ HandlerIsListed'
  BY <1>a, <1>e, Kept
<1>2. ConnTypes' /\ SenderFrames' /\ DestructorAlone' /\ Lives' /\
      SocketIsOwn' /\ OneWinner' /\ Counted' /\ Pursued'
  BY <1>a, <1>b, <1>c, <1>f, DropInv DEF Loses, ConnTypes
<1>3. BusTypes'
  BY <1>e DEF BusTypes
<1>4. ServerTypes'
  BY <1>a, <1>b, <1>c, <1>f, <1>g DEF ServerTypes
<1>5. ServerInStep'
  BY <1>a, <1>b, <1>c, <1>f, <1>g DEF ServerInStep, ServerTypes
<1>6. Dispatching'
  BY <1>b, <1>e, <1>f DEF Dispatching, BusTypes, ConnTypes
<1>7. EventIsHeld'
  BY <1>a, <1>b, <1>c, <1>f, <1>g DEF EventIsHeld, Drops, Sets
<1>8. ServiceFrames'
  BY <1>a, <1>b, <1>c, <1>f, <1>g DEF ServiceFrames, Drops, Sets
<1>9. OwnerFrames'
  BY <1>a, <1>b, <1>c, <1>f, <1>g DEF OwnerFrames, Drops, Sets
<1>10. AcceptFrames'
  BY <1>a, <1>b, <1>c, <1>f, <1>g DEF AcceptFrames, Drops, ConnTypes, Sets
<1>11. Unannounced'
  BY <1>a, <1>b, <1>c, <1>f, <1>g DEF Unannounced, Drops, DestructorAlone
<1>12. AcceptedIsNew'
  BY <1>a, <1>b, <1>c, <1>f, <1>g DEF AcceptedIsNew, Sets
<1>13. AnnouncedFirst'
  BY <1>a, <1>b, <1>c, <1>f, <1>g DEF AnnouncedFirst, ConnTypes, ServerTypes,
      ServerInStep
<1>14. OpenIsKnown'
  BY <1>a, <1>b, <1>c, <1>f, <1>g DEF OpenIsKnown, Drops, Sets
<1>15. HandlerWillRun'
  BY <1>a, <1>b, <1>c, <1>e, DispatchesGoOn DEF Drops
<1> QED
  BY <1>1, <1>2, <1>3, <1>4, <1>5, <1>6, <1>7, <1>8, <1>9, <1>10, <1>11,
      <1>12, <1>13, <1>14, <1>15 DEF Inv

(* A connection that is open is announced, to the application alone.       *)
LEMMA AcceptPublishesInv ==
    ASSUME Inv, AcceptPublishes
    PROVE  Inv'
<1> USE DEF Inv, busVars, serverVars, serviceVars, connVars, objVars
<1>a. PICK c \in Conns :
         /\ accepted = c /\ accept = "announce" /\ accept' = "dispatch"
         /\ Bus!Publish("accept", NC)
         /\ evref' = [evref EXCEPT !["accept"] = c]
         /\ announced' = announced \cup {c}
         /\ UNCHANGED <<running, token, connections, owner, to_close, closing,
                        accepted, left, serviceVars, connVars, life, td, dtor,
                        gone>>
  BY DEF AcceptPublishes, ServerInStep, ServerTypes
<1>b. /\ connected[c] /\ server_side[c] /\ gone[c] = 0 /\ c \in connections
      /\ life[c] = "live"
  BY <1>a DEF AcceptedIsNew, Counted, AnnouncedFirst, Lives, Referenced
<1>c. /\ evref["accept"] = None /\ event["accept"] = Bus!NoEvent
      /\ current["accept"] = 0 /\ snapshot["accept"] = <<>> /\ ~dispatching["accept"]
  BY <1>a DEF EventIsHeld, Dispatching
<1>e. /\ UNCHANGED <<subscribers, next_id, handle, temp, current>>
      /\ snapshot' = [snapshot EXCEPT !["accept"] = <<1>>]
      /\ event' = [event EXCEPT !["accept"] = NC]
      /\ dispatching' = [dispatching EXCEPT !["accept"] = TRUE]
  <2>1. subscribers[NC] = <<1>> /\ <<1>> # <<>>
    BY DEF HandlerIsListed
  <2>2. /\ snapshot' = [snapshot EXCEPT !["accept"] = subscribers[NC]]
        /\ dispatching' = [dispatching EXCEPT !["accept"] = TRUE]
        /\ event' = [event EXCEPT !["accept"] = NC]
        /\ current' = [current EXCEPT !["accept"] = 0]
        /\ UNCHANGED <<subscribers, next_id, handle, temp>>
    BY <1>a, <1>c, <2>1 DEF Bus!Publish, Bus!Reentrant, Bus!Snapshot
  <2> QED
    BY <1>c, <2>1, <2>2 DEF BusTypes
<1>h. snapshot' \in [Threads -> Seq(Nat \ {0})]
  <2>1. <<1>> \in Seq(Nat \ {0})
    OBVIOUS
  <2> QED
    BY <1>e, <2>1 DEF BusTypes
<1>f. /\ evref'["accept"] = c /\ evref' \in [Threads -> Conns \cup {None}]
      /\ \A u \in Threads : u # "accept" => evref'[u] = evref[u]
  BY <1>a DEF ConnTypes
<1>g. \A d \in Conns : Referenced(d)' <=> Referenced(d)
  BY <1>a, <1>c, <1>f DEF Referenced
<1>1. SenderFrames' /\ ServiceFrames' /\ OwnerFrames' /\ Descriptors' /\
      SocketIsOwn' /\ OneWinner' /\ Counted'
  BY <1>a, <1>e, Kept
<1>2. BusTypes'
  BY <1>e, <1>h DEF BusTypes
<1>3. ServerTypes'
  BY <1>a, <1>b, <1>c, <1>f DEF ServerTypes
<1>4. ConnTypes'
  BY <1>a, <1>b, <1>c, <1>f DEF ConnTypes
<1>5. ServerInStep'
  BY <1>a, <1>b, <1>c, <1>f DEF ServerInStep, ServerTypes
<1>6. Dispatching'
  BY <1>a, <1>c, <1>e, <1>f DEF Dispatching, BusTypes, ConnTypes
<1>7. EventIsHeld'
  BY <1>a, <1>b, <1>c, <1>f DEF EventIsHeld, ConnTypes, ServerTypes,
      ServerInStep
<1>8. AcceptFrames'
  BY <1>a, <1>b, <1>c, <1>f DEF AcceptFrames, ConnTypes, ServerTypes,
      ServerInStep, Dispatching, EventIsHeld, BusTypes
<1>9. DestructorAlone'
  BY <1>a, <1>g DEF DestructorAlone, ConnTypes
<1>10. Lives'
  BY <1>a, <1>b, <1>g DEF Lives
<1>11. Unannounced'
  BY <1>a, <1>b, <1>c, <1>f DEF Unannounced, ConnTypes, ServerTypes
<1>12. AcceptedIsNew'
  BY <1>a, <1>b, <1>c, <1>f DEF AcceptedIsNew, ConnTypes, ServerTypes,
      ServerInStep
<1>13. AnnouncedFirst'
  BY <1>a, <1>b, <1>c, <1>f DEF AnnouncedFirst, ConnTypes, ServerTypes,
      ServerInStep
<1>14. OpenIsKnown'
  BY <1>a, <1>b, <1>c, <1>f DEF OpenIsKnown, ConnTypes, ServerTypes,
      ServerInStep
<1>15. Pursued'
  BY <1>a, <1>b, <1>c, <1>f DEF Pursued, ConnTypes, ServerTypes
<1>16. HandlerIsListed'
  BY <1>a, <1>e DEF HandlerIsListed, BusTypes, ServerTypes
<1>17. HandlerWillRun'
  <2>1. ASSUME running' \/ owner' \in {"join", "close"},
               NEW d \in connections' \ left', gone'[d] = 1
        PROVE  \E u \in Threads :
                   /\ td'[u].c = d /\ td'[u].at = "dispatch"
                   /\ \/ current'[u] = Handler'
                      \/ Handler' \in Bus!Range(snapshot'[u])
    <3>1. PICK u \in Threads :
              /\ td[u].c = d /\ td[u].at = "dispatch"
              /\ current[u] = Handler \/ Handler \in Bus!Range(snapshot[u])
      BY <1>a, <2>1 DEF HandlerWillRun
    <3>2. u # "accept"
      BY <3>1 DEF EventIsHeld
    <3>3. snapshot'[u] = snapshot[u]
      BY <1>e, <3>2 DEF BusTypes
    <3> QED
      BY <1>a, <1>e, <3>1, <3>3
  <2> QED
    BY <1>a, <2>1 DEF HandlerWillRun
<1> QED
  BY <1>1, <1>2, <1>3, <1>4, <1>5, <1>6, <1>7, <1>8, <1>9, <1>10, <1>11,
      <1>12, <1>13, <1>14, <1>15, <1>16, <1>17 DEF Inv

(* The accepted connection is new, and only the accept thread knows it.    *)
LEMMA AcceptStartsInv ==
    ASSUME Inv, NEW c \in Conns, NEW n \in Fds, AcceptStarts(c, n)
    PROVE  Inv'
<1> USE DEF Inv, AcceptStarts, busVars, serverVars, serviceVars, connVars,
      objVars
<1>a. Makes(c, n, TRUE)
  BY Made
<1>b. /\ td["accept"].at = "none" /\ dtor["accept"] = None
      /\ accepted = None /\ evref["accept"] = None
  BY FrameTypes DEF AcceptFrames, ServerInStep, EventIsHeld
<1>c. /\ \A u \in Threads : td[u].c # c /\ dtor[u] # c /\ evref[u] # c
      /\ c \notin announced \cup connections \cup held \cup to_close \cup closing
      /\ queue[c] = 0 /\ using # c
  BY <1>a, Fresh DEF Makes
<1>e. \A d \in Conns : d # c => (Referenced(d)' <=> Referenced(d))
  BY <1>b DEF Referenced
<1>f. MakeRefs("accept", c)
  BY <1>e DEF MakeRefs
<1>g. (owner = "idle" /\ running) \/ owner = "join"
  BY DEF ServerInStep
<1>1. BusTypes' /\ Dispatching' /\ ServiceFrames' /\ OwnerFrames' /\
      OneWinner' /\ HandlerIsListed' /\ HandlerWillRun'
  BY Kept
<1>2. ConnTypes' /\ SenderFrames' /\ DestructorAlone' /\ Lives' /\
      Descriptors' /\ SocketIsOwn' /\ Counted' /\ Pursued'
  BY <1>a, <1>f, MakeInv
<1>3. ServerTypes'
  BY <1>a, <1>b, <1>c, <1>g DEF ServerTypes
<1>4. ServerInStep'
  BY <1>a, <1>b, <1>c, <1>g DEF ServerInStep, ServerTypes
<1>5. EventIsHeld'
  BY <1>a, <1>b, <1>c, <1>g DEF EventIsHeld
<1>6. AcceptFrames'
  BY <1>a, <1>b, <1>c, <1>g DEF AcceptFrames
<1>7. Unannounced'
  BY <1>a, <1>b, <1>c, <1>g DEF Unannounced, Makes
<1>8. AcceptedIsNew'
  BY <1>a, <1>b, <1>c, <1>g DEF AcceptedIsNew, Makes, ConnTypes
<1>9. AnnouncedFirst'
  BY <1>a, <1>b, <1>c, <1>g DEF AnnouncedFirst, Makes, ServerTypes
<1>10. OpenIsKnown'
  BY <1>a, <1>b, <1>c, <1>g DEF OpenIsKnown, Makes
<1> QED
  BY <1>1, <1>2, <1>3, <1>4, <1>5, <1>6, <1>7, <1>8, <1>9, <1>10 DEF Inv

(* A connection without a sender is destroyed where it was made.           *)
LEMMA AcceptFailsInv ==
    ASSUME Inv, NEW c \in Conns, NEW n \in Fds, AcceptFails(c, n)
    PROVE  Inv'
<1> USE DEF Inv, AcceptFails, busVars, serverVars, serviceVars, connVars,
      objVars
<1>a. Makes(c, n, TRUE)
  BY Made
<1>b. /\ td["accept"].at = "none" /\ dtor["accept"] = None
      /\ accepted = None /\ evref["accept"] = None
  BY FrameTypes DEF AcceptFrames, ServerInStep, EventIsHeld
<1>c. /\ ~Referenced(c)
      /\ \A u \in Threads : td[u].c # c /\ dtor[u] # c /\ evref[u] # c
      /\ c \notin announced \cup connections \cup held \cup to_close \cup closing
      /\ queue[c] = 0 /\ using # c
  BY <1>a, Fresh DEF Makes
<1>e. \A d \in Conns : Referenced(d)' <=> Referenced(d)
  BY DEF Referenced
<1>d. Sets("accept", c, "exchange")
  BY FrameEnter
<1>f. MakeRefs("accept", c)
  BY <1>b, <1>c, <1>d, <1>e DEF MakeRefs
<1>g. (owner = "idle" /\ running) \/ owner = "join"
  BY DEF ServerInStep
<1>h. dtor'["accept"] = c /\ \A u \in Threads : u # "accept" => dtor'[u] = dtor[u]
  BY DEF ConnTypes
<1>1. BusTypes' /\ Dispatching' /\ HandlerIsListed'
  BY Kept
<1>2. ConnTypes' /\ SenderFrames' /\ DestructorAlone' /\ Lives' /\
      Descriptors' /\ SocketIsOwn' /\ OneWinner' /\ Counted' /\ Pursued'
  BY <1>a, <1>f, MakeInv
<1>3. ServerTypes'
  BY <1>a, <1>b, <1>c, <1>d, <1>g, <1>h DEF ServerTypes
<1>4. ServerInStep'
  BY <1>a, <1>b, <1>c, <1>d, <1>g, <1>h DEF ServerInStep, ServerTypes
<1>5. EventIsHeld'
  BY <1>a, <1>b, <1>c, <1>d, <1>g, <1>h DEF EventIsHeld, Sets
<1>6. ServiceFrames'
  BY <1>a, <1>b, <1>c, <1>d, <1>g, <1>h DEF ServiceFrames, Sets
<1>7. OwnerFrames'
  BY <1>a, <1>b, <1>c, <1>d, <1>g, <1>h DEF OwnerFrames, Sets
<1>8. AcceptFrames'
  BY <1>a, <1>b, <1>c, <1>d, <1>g, <1>h DEF AcceptFrames, Sets
<1>9. Unannounced'
  BY <1>a, <1>b, <1>c, <1>d, <1>g, <1>h DEF Unannounced, Makes
<1>10. AcceptedIsNew'
  BY <1>a, <1>b, <1>c, <1>d, <1>g, <1>h DEF AcceptedIsNew, Sets
<1>11. AnnouncedFirst'
  BY <1>a, <1>b, <1>c, <1>d, <1>g, <1>h DEF AnnouncedFirst, Makes, ServerTypes
<1>12. OpenIsKnown'
  BY <1>a, <1>b, <1>c, <1>d, <1>g, <1>h DEF OpenIsKnown, Makes, Sets
<1>13. HandlerWillRun'
  BY <1>b, <1>d, DispatchesGoOn DEF Sets, busVars
<1> QED
  BY <1>1, <1>2, <1>3, <1>4, <1>5, <1>6, <1>7, <1>8, <1>9, <1>10, <1>11,
      <1>12, <1>13 DEF Inv

(* A client's connection is not the server's.                              *)
LEMMA ClientConnectInv ==
    ASSUME Inv, NEW c \in Conns, NEW n \in Fds, ClientConnect(c, n)
    PROVE  Inv'
<1> USE DEF Inv, ClientConnect, Free, NoFrame, busVars, serverVars,
      serviceVars, connVars, objVars
<1>a. Makes(c, n, FALSE)
  BY Made
<1>c. /\ \A u \in Threads : td[u].c # c /\ dtor[u] # c /\ evref[u] # c
      /\ c \notin announced \cup connections \cup held \cup to_close \cup closing
      /\ accepted # c /\ using # c
  BY <1>a, Fresh DEF Makes
<1>e. \A d \in Conns : d # c => (Referenced(d)' <=> Referenced(d))
  BY DEF Referenced
<1>f. MakeRefs("service", c)
  BY <1>e DEF MakeRefs
<1>1. BusTypes' /\ ServerInStep' /\ Dispatching' /\ EventIsHeld' /\
      ServiceFrames' /\ OwnerFrames' /\ AcceptFrames' /\ OneWinner' /\
      HandlerIsListed' /\ HandlerWillRun'
  BY Kept
<1>2. ConnTypes' /\ SenderFrames' /\ DestructorAlone' /\ Lives' /\
      Descriptors' /\ SocketIsOwn' /\ Counted' /\ Pursued'
  BY <1>a, <1>f, MakeInv
<1>3. ServerTypes'
  BY <1>a, <1>c DEF ServerTypes
<1>4. Unannounced'
  BY <1>a, <1>c DEF Unannounced, Makes
<1>5. AcceptedIsNew'
  BY <1>a, <1>c DEF AcceptedIsNew, Makes, ServerTypes, ServerInStep, ConnTypes
<1>6. AnnouncedFirst'
  BY <1>a, <1>c DEF AnnouncedFirst, Makes, ServerTypes
<1>7. OpenIsKnown'
  BY <1>a, <1>c DEF OpenIsKnown, Makes
<1> QED
  BY <1>1, <1>2, <1>3, <1>4, <1>5, <1>6, <1>7 DEF Inv

(* A client's connection without a sender is destroyed where it was made.  *)
LEMMA ClientConnectFailsInv ==
    ASSUME Inv, NEW c \in Conns, NEW n \in Fds, ClientConnectFails(c, n)
    PROVE  Inv'
<1> USE DEF Inv, ClientConnectFails, busVars, serverVars, serviceVars,
      connVars, objVars
<1>a. Makes(c, n, FALSE)
  BY Made
<1>b. td["service"].at = "none" /\ dtor["service"] = None /\ service = "idle"
  BY DEF Free, NoFrame
<1>c. /\ ~Referenced(c)
      /\ \A u \in Threads : td[u].c # c /\ dtor[u] # c /\ evref[u] # c
      /\ c \notin announced \cup connections \cup held \cup to_close \cup closing
      /\ accepted # c /\ using # c
  BY <1>a, Fresh DEF Makes
<1>e. \A d \in Conns : Referenced(d)' <=> Referenced(d)
  BY DEF Referenced
<1>d. Sets("service", c, "exchange")
  BY FrameEnter
<1>f. MakeRefs("service", c)
  BY <1>b, <1>c, <1>d, <1>e DEF MakeRefs
<1>h. dtor'["service"] = c /\ \A u \in Threads : u # "service" => dtor'[u] = dtor[u]
  BY DEF ConnTypes
<1>1. BusTypes' /\ ServerTypes' /\ ServerInStep' /\ Dispatching' /\
      HandlerIsListed'
  BY Kept
<1>2. ConnTypes' /\ SenderFrames' /\ DestructorAlone' /\ Lives' /\
      Descriptors' /\ SocketIsOwn' /\ OneWinner' /\ Counted' /\ Pursued'
  BY <1>a, <1>f, MakeInv
<1>3. EventIsHeld'
  BY <1>a, <1>b, <1>c, <1>d, <1>h DEF EventIsHeld, Sets
<1>4. ServiceFrames'
  BY <1>a, <1>b, <1>c, <1>d, <1>h DEF ServiceFrames, Sets
<1>5. OwnerFrames'
  BY <1>a, <1>b, <1>c, <1>d, <1>h DEF OwnerFrames, Sets
<1>6. AcceptFrames'
  BY <1>a, <1>b, <1>c, <1>d, <1>h DEF AcceptFrames, Sets
<1>7. Unannounced'
  BY <1>a, <1>b, <1>c, <1>d, <1>h DEF Unannounced, Makes
<1>8. AcceptedIsNew'
  BY <1>a, <1>b, <1>c, <1>d, <1>h DEF AcceptedIsNew, Makes, ServerTypes,
      ServerInStep, Sets
<1>9. AnnouncedFirst'
  BY <1>a, <1>b, <1>c, <1>d, <1>h DEF AnnouncedFirst, Makes, ServerTypes
<1>10. OpenIsKnown'
  BY <1>a, <1>b, <1>c, <1>d, <1>h DEF OpenIsKnown, Makes, Sets
<1>11. HandlerWillRun'
  BY <1>b, <1>d, DispatchesGoOn DEF Sets, busVars
<1> QED
  BY <1>1, <1>2, <1>3, <1>4, <1>5, <1>6, <1>7, <1>8, <1>9, <1>10, <1>11 DEF
      Inv

-----------------------------------------------------------------------------
(* Nothing is connected, listed or running to begin with.                  *)
LEMMA InitInv == Init => Inv
<1> SUFFICES ASSUME Init PROVE Inv
  OBVIOUS
<1> USE DEF Init
<1>1. BusTypes
  <2>1. <<1>> \in Seq(Nat \ {0}) /\ <<2>> \in Seq(Nat \ {0}) /\ <<>> \in Seq(Nat \ {0})
    OBVIOUS
  <2> QED
    BY <2>1 DEF BusTypes
<1>2. ServerTypes
  BY DEF ServerTypes
<1>3. ConnTypes
  BY DEF ConnTypes, Frames, Rejected
<1>4. ServerInStep /\ Dispatching /\ EventIsHeld
  BY DEF ServerInStep, Dispatching, EventIsHeld, NoFrame
<1>5. SenderFrames /\ ServiceFrames /\ OwnerFrames /\ AcceptFrames
  BY DEF SenderFrames, ServiceFrames, OwnerFrames, AcceptFrames, NoFrame
<1>6. DestructorAlone
  BY DEF DestructorAlone
<1>7. Lives
  BY DEF Lives, Referenced, NoFrame
<1>8. Descriptors /\ SocketIsOwn /\ OneWinner /\ Counted
  BY DEF Descriptors, SocketIsOwn, OneWinner, Counted, NoFrame
<1>9. Unannounced /\ AcceptedIsNew /\ AnnouncedFirst /\ OpenIsKnown /\ Pursued
  BY DEF Unannounced, AcceptedIsNew, AnnouncedFirst, OpenIsKnown, Pursued
<1>10. HandlerIsListed
  BY DEF HandlerIsListed
<1>11. HandlerWillRun
  BY DEF HandlerWillRun
<1> QED
  BY <1>1, <1>2, <1>3, <1>4, <1>5, <1>6, <1>7, <1>8, <1>9, <1>10, <1>11
     DEF Inv

(* Publishing the end: rejected, accepted or too late.                     *)
LEMMA TeardownPublishInv ==
    ASSUME Inv, NEW t \in Threads, TeardownPublish(t) PROVE Inv'
  BY PublishRejectedInv, PublishAcceptedInv, PublishTooLateInv

(* Every step keeps the invariant.                                         *)
LEMMA NextInv == Inv /\ [Next]_vars => Inv'
<1> SUFFICES ASSUME Inv, [Next]_vars PROVE Inv'
  OBVIOUS
<1>1. CASE Owner
  BY <1>1, StartSubscribesInv, StartAssignsInv, StartSpawnsInv,
     StartFailsInv, StopBeginsInv, StopSnapshotsInv, StopClosesInv,
     StopCancelsInv, StopDropsInv, StopReturnsInv, ServerDestroyedInv,
     ServerDropsInv DEF Owner
<1>2. CASE AcceptLoop
  BY <1>2, AcceptChecksInv, AcceptNothingInv, AcceptGivesUpInv,
     AcceptStartsInv, AcceptFailsInv, AcceptRegistersInv,
     AcceptPublishesInv, AcceptIteratesInv DEF AcceptLoop
<1>3. CASE ServiceCalls
  BY <1>3, SendInv, CloseInv, RecvInv, ForgetInv, ClientConnectInv,
     ClientConnectFailsInv DEF ServiceCalls
<1>4. CASE ServiceEnds
  BY <1>4, RecvReadsInv, RecvTimesOutInv, RecvFailsInv, ServiceReturnsInv
     DEF ServiceEnds
<1>5. ASSUME NEW c \in Conns, SendLoop(c) \/ PeerConnects(c) PROVE Inv'
  BY <1>5, SenderPopsInv, SenderStopsInv, SenderChecksInv, SenderWritesInv,
     SenderFailsInv, SenderEndsInv, PeerConnectsInv DEF SendLoop
<1>6. ASSUME NEW t \in Threads, Teardown(t) \/ FinishDestructor(t) PROVE Inv'
  BY <1>6, TeardownExchangeInv, TeardownMarkInv, TeardownCloseInv,
     TeardownClearInv, TeardownPublishInv, TeardownReturnInv,
     FinishDestructorInv DEF Teardown
<1>7. ASSUME NEW t \in Threads, Callbacks(t) PROVE Inv'
  BY <1>7, DispatchInv, OnDisconnectedInv, AppOnConnectedInv,
     AppClosesInHandlerInv, AppOnDisconnectedInv DEF Callbacks
<1>8. CASE UNCHANGED vars
  BY <1>8, Kept DEF Inv, vars, busVars, serverVars, serviceVars, connVars,
     objVars
<1> QED
  BY <1>1, <1>2, <1>3, <1>4, <1>5, <1>6, <1>7, <1>8 DEF Next

(* The invariant holds whatever the threads and the peers do.              *)
THEOREM Invariance == Spec => []Inv
<1>1. Init => Inv
  BY InitInv
<1>2. Inv /\ [Next]_vars => Inv'
  BY NextInv
<1> QED
  BY <1>1, <1>2, PTL DEF Spec

-----------------------------------------------------------------------------
(* However many threads tear a connection down at once, and whichever      *)
(* numbers the kernel gives out again, a close() gets a descriptor that is *)
(* still this connection's.                                                *)
THEOREM ClosesAreOwn == Spec => []ClosesOwnSocket
<1>1. Inv => ClosesOwnSocket
  BY DEF Inv, SocketIsOwn, ClosesOwnSocket
<1> QED
  BY <1>1, Invariance, PTL

(* A connection has one NetworkDisconnected at most, and none without an   *)
(* earlier NetworkConnected.                                               *)
THEOREM DisconnectsOnce == Spec => []OneDisconnect
<1>1. Inv => OneDisconnect
  BY DEF Inv, AnnouncedFirst, ConnTypes, OneDisconnect, Rejected
<1> QED
  BY <1>1, Invariance, PTL

(* No announced connection ends unheard: once closed, and out of Teardown, *)
(* its NetworkDisconnected was published or refused by the bus.            *)
THEOREM EndsArePublished == Spec => []EndIsPublished
<1>1. Inv => EndIsPublished
  BY DEF Inv, Pursued, ServerTypes, ConnTypes, EndIsPublished
<1> QED
  BY <1>1, Invariance, PTL

(* While the server runs, connections_ keeps no connection that is closed  *)
(* and torn down, but for those an earlier Stop left or whose event the    *)
(* bus refused.                                                            *)
THEOREM ClosedAreForgotten == Spec => []ClosedIsForgotten
<1>1. Inv => ClosedIsForgotten
  <2> SUFFICES ASSUME Inv, running, NEW c \in connections \ left,
                      ~connected[c], gone[c] # Rejected
               PROVE  \E t \in Threads : td[t].c = c
    BY DEF ClosedIsForgotten
  <2> USE DEF Inv
  <2>1. c \in Conns /\ gone[c] \in {0, 1} /\ owner = "idle"
    BY DEF ServerTypes, ConnTypes, ServerInStep
  <2>2. CASE gone[c] = 1
    BY <2>2 DEF HandlerWillRun
  <2>3. CASE gone[c] = 0
    <3>1. Referenced(c) /\ server_side[c] /\ life[c] = "live"
      BY <2>1 DEF Referenced, AnnouncedFirst, Lives
    <3>2. dtor["accept"] # c
      BY <2>1, <3>1 DEF DestructorAlone
    <3>3. c \in announced
      BY <2>1, <3>1, <3>2 DEF Unannounced, AcceptedIsNew
    <3> QED
      BY <2>1, <2>3, <3>3 DEF Pursued
  <2> QED
    BY <2>1, <2>2, <2>3
<1> QED
  BY <1>1, Invariance, PTL

(* Once Stop has returned nothing the server accepted is open, whatever    *)
(* the accept thread was doing when Stop began.                            *)
THEOREM StopLeavesNothingOpen == Spec => []StopClosesAll
<1>1. Inv => StopClosesAll
  BY DEF Inv, OpenIsKnown, StopClosesAll
<1> QED
  BY <1>1, Invariance, PTL

(* No thread is in a member function of a destroyed connection, whichever  *)
(* of them dropped the last reference.                                     *)
THEOREM ObjectsOutliveTheirUse == Spec => []NoUseAfterFree
<1>1. Inv => NoUseAfterFree
  BY DEF Inv, Lives, NoUseAfterFree
<1> QED
  BY <1>1, Invariance, PTL
=============================================================================
