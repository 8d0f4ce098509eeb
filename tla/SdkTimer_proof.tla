--------------------------- MODULE SdkTimer_proof ---------------------------
(* Theorems on the timer, for any triggers, periods and items: its typing, *)
(* that whatever may fire can be cancelled, that none due is passed over   *)
(* again and again, and that it implements the interface its users rely on. *)
EXTENDS SdkTimer, FiniteSetTheorems, SequenceTheorems, WellFoundedInduction, TLAPS

In(s, x) == \E k \in DOMAIN s : s[k] = x
Listed(i) == In(list, i)
Locked == tm.at \in {"call", "done"}

\* A new item is its client's alone until it is inserted.
NewOK ==
  /\ \A t \in Triggers : cl[t] = "insert" =>
       ptr[t] \in alive /\ ~Listed(ptr[t]) /\ ptr[t] # tm.cur
  /\ \A t, u \in Triggers : cl[t] = "insert" /\ cl[u] = "insert" /\ t # u => ptr[t] # ptr[u]

\* While a callback runs, and until it is dealt with, its item is in no list,
\* and no other item of its trigger may fire.
RunOK ==
  /\ phase = "off" => tm.at = "off"
  /\ ~Locked => tm.cur = None
  /\ tm.at = "scan" => tm.pos # 0
  /\ Locked =>
       /\ tm.pos \in 1..(Len(list) + 1)
       /\ tm.cur \in alive /\ ~Listed(tm.cur) /\ tm.trig \in Triggers
       /\ item[tm.cur].trig \in {tm.trig, None}
       /\ \A i \in Items : Fires(i) /\ item[i].trig = tm.trig => i = tm.cur

\* From its mark on, a cancellation leaves nothing that may fire, but perhaps
\* the one-shot item whose callback runs; that one is waited for.
SilentOK ==
  \A t \in Triggers :
    /\ cl[t] \in {"detach", "forget", "barrier", "idle"} =>
         \A i \in Items : Fires(i) /\ item[i].trig = t => tm.cur = i /\ t \notin Repeated
    /\ cl[t] \in {"idle", "insert"} /\ Locked => tm.trig # t

\* Where addresses are not used again under a cancellation, its item is its own.
AddressOK ==
  ~Reuse =>
    /\ \A t \in Triggers : ptr[t] \in alive => item[ptr[t]].trig \in {t, None}
    /\ \A t, u \in Triggers : ptr[t] = ptr[u] /\ ptr[t] # None => t = u

IInv == TypeOK /\ Cancellable /\ NewOK /\ RunOK /\ SilentOK /\ AddressOK
-----------------------------------------------------------------------------
(* What the operations make of a list, and of an item.                     *)

LEMMA EmptyFact ==
  \A S : <<>> \in Seq(S) /\ IsInjective(<<>>) /\ \A x : ~In(<<>>, x)
  BY EmptySeq DEF IsInjective, In

LEMMA InjectiveFact ==
  ASSUME NEW S, NEW s \in Seq(S), IsInjective(s), NEW i \in 1..Len(s), NEW j \in 1..Len(s), s[i] = s[j]
  PROVE  i = j
  BY LenProperties DEF IsInjective

\* The places of a list after the one at k has been taken out.
LEMMA RemoveFact ==
  ASSUME NEW S, NEW s \in Seq(S), NEW k \in 1..Len(s)
  PROVE  /\ RemoveAt(s, k) \in Seq(S) /\ Len(RemoveAt(s, k)) = Len(s) - 1
         /\ DOMAIN RemoveAt(s, k) = 1..(Len(s) - 1)
         /\ \A i \in 1..(Len(s) - 1) : RemoveAt(s, k)[i] = s[IF i < k THEN i ELSE i + 1]
<1> DEFINE a == SubSeq(s, 1, k - 1)
           b == SubSeq(s, k + 1, Len(s))
<1>1. Len(s) \in Nat /\ k \in 1..Len(s) /\ \A i \in 1..Len(s) : s[i] \in S
  BY LenProperties, ElementOfSeq
<1>2. a \in Seq(S) /\ Len(a) = k - 1 /\ \A i \in 1..(k - 1) : a[i] = s[i]
  BY <1>1, SubSeqProperties
<1>3. b \in Seq(S) /\ Len(b) = Len(s) - k /\ \A i \in 1..(Len(s) - k) : b[i] = s[k + i]
  BY <1>1, SubSeqProperties
<1> HIDE DEF a, b
<1>4. /\ a \o b \in Seq(S) /\ Len(a \o b) = Len(a) + Len(b)
      /\ \A i \in 1..(Len(a) + Len(b)) : (a \o b)[i] = IF i <= Len(a) THEN a[i] ELSE b[i - Len(a)]
  BY <1>2, <1>3, ConcatProperties
<1>5. Len(a \o b) = Len(s) - 1
  BY <1>1, <1>2, <1>3, <1>4
<1>6. \A i \in 1..(Len(s) - 1) : (a \o b)[i] = s[IF i < k THEN i ELSE i + 1]
  <2> TAKE i \in 1..(Len(s) - 1)
  <2>1. (a \o b)[i] = IF i <= k - 1 THEN a[i] ELSE b[i - (k - 1)]
    BY <1>1, <1>2, <1>3, <1>4
  <2>2. CASE i < k
    <3>1. i \in 1..(k - 1) /\ i <= k - 1
      BY <1>1, <2>2
    <3> QED
      BY <1>2, <2>1, <2>2, <3>1
  <2>3. CASE ~(i < k)
    <3>1. /\ i - (k - 1) \in 1..(Len(s) - k) /\ ~(i <= k - 1)
          /\ k + (i - (k - 1)) = i + 1
      BY <1>1, <2>3
    <3> QED
      BY <1>3, <2>1, <2>3, <3>1
  <2> QED
    BY <2>2, <2>3
<1>7. RemoveAt(s, k) = a \o b
  BY DEF RemoveAt, a, b
<1> QED
  BY <1>4, <1>5, <1>6, <1>7, LenProperties

\* Taking out the one place of an item leaves the others.
LEMMA TakeOutFact ==
  ASSUME NEW S, NEW s \in Seq(S), IsInjective(s), NEW k \in 1..Len(s)
  PROVE  /\ RemoveAt(s, k) \in Seq(S \ {s[k]}) /\ IsInjective(RemoveAt(s, k))
         /\ Len(RemoveAt(s, k)) = Len(s) - 1
         /\ \A x : In(RemoveAt(s, k), x) => In(s, x) /\ x # s[k]
<1> DEFINE r == RemoveAt(s, k)
           At(i) == IF i < k THEN i ELSE i + 1
<1>1. /\ r \in Seq(S) /\ Len(r) = Len(s) - 1 /\ DOMAIN r = 1..(Len(s) - 1)
      /\ \A i \in 1..(Len(s) - 1) : r[i] = s[At(i)]
  BY RemoveFact
<1>2. Len(s) \in Nat /\ DOMAIN s = 1..Len(s) /\ k \in 1..Len(s) /\ \A i \in 1..Len(s) : s[i] \in S
  BY LenProperties, ElementOfSeq
<1>3. \A i \in 1..(Len(s) - 1) : At(i) \in 1..Len(s) /\ At(i) # k
  BY <1>2
<1>4. \A i, j \in 1..(Len(s) - 1) : At(i) = At(j) => i = j
  BY <1>2
<1> HIDE DEF r, At
<1>5. \A i, j \in 1..(Len(s) - 1) : r[i] = r[j] => i = j
  BY <1>1, <1>3, <1>4, InjectiveFact
<1>6. \A i \in 1..(Len(s) - 1) : r[i] \in S \ {s[k]}
  BY <1>1, <1>2, <1>3, InjectiveFact
<1>7. r \in [1..(Len(s) - 1) -> S \ {s[k]}]
  BY <1>1, <1>6
<1>8. r \in Seq(S \ {s[k]})
  BY <1>2, <1>7, IsASeq
<1>9. \A x : In(r, x) => In(s, x) /\ x # s[k]
  BY <1>1, <1>2, <1>3, <1>6 DEF In
<1> QED
  BY <1>1, <1>5, <1>8, <1>9 DEF IsInjective, r

\* The places of a list after an entry has been put in at k.
LEMMA InsertFact ==
  ASSUME NEW S, NEW s \in Seq(S), NEW e \in S, NEW k \in 1..(Len(s) + 1)
  PROVE  /\ InsertAt(s, k, e) \in Seq(S) /\ Len(InsertAt(s, k, e)) = Len(s) + 1
         /\ DOMAIN InsertAt(s, k, e) = 1..(Len(s) + 1)
         /\ \A i \in 1..(Len(s) + 1) : InsertAt(s, k, e)[i] = IF i = k THEN e ELSE s[IF i < k THEN i ELSE i - 1]
<1> DEFINE a == SubSeq(s, 1, k - 1)
           b == SubSeq(s, k, Len(s))
           r == InsertAt(s, k, e)
           At(i) == IF i < k THEN i ELSE i - 1
<1>1. /\ Len(s) \in Nat /\ k \in 1..(Len(s) + 1) /\ DOMAIN s = 1..Len(s)
      /\ \A i \in 1..Len(s) : s[i] \in S
  BY LenProperties, ElementOfSeq
<1>2. a \in Seq(S) /\ Len(a) = k - 1 /\ \A i \in 1..(k - 1) : a[i] = s[i]
  BY <1>1, SubSeqProperties
<1>3. b \in Seq(S) /\ Len(b) = Len(s) - k + 1 /\ \A i \in 1..(Len(s) - k + 1) : b[i] = s[k + i - 1]
  <2>1. /\ k \in Int /\ Len(s) \in Int /\ \A i \in k..Len(s) : s[i] \in S
        /\ (k > Len(s) => Len(s) - k + 1 = 0)
    BY <1>1
  <2> QED
    BY <1>1, <2>1, SubSeqProperties
<1>4. <<e>> \in Seq(S) /\ Len(<<e>>) = 1 /\ <<e>>[1] = e
  OBVIOUS
<1> HIDE DEF a, b
<1>5. /\ a \o <<e>> \in Seq(S) /\ Len(a \o <<e>>) = k
      /\ \A i \in 1..k : (a \o <<e>>)[i] = IF i < k THEN s[i] ELSE e
  <2> DEFINE f == <<e>>
  <2>0. f \in Seq(S) /\ Len(f) = 1
    BY <1>4
  <2> HIDE DEF f
  <2>3. /\ a \o f \in Seq(S) /\ Len(a \o f) = Len(a) + Len(f)
        /\ \A i \in 1..(Len(a) + Len(f)) : (a \o f)[i] = IF i <= Len(a) THEN a[i] ELSE f[i - Len(a)]
    BY <1>2, <2>0, ConcatProperties
  <2>1. /\ a \o f \in Seq(S) /\ Len(a \o f) = (k - 1) + 1
        /\ \A i \in 1..((k - 1) + 1) :
             (a \o f)[i] = IF i <= k - 1 THEN a[i] ELSE f[i - (k - 1)]
    BY <1>2, <2>0, <2>3
  <2>2. /\ (k - 1) + 1 = k
        /\ \A i \in 1..k : (i <= k - 1 <=> i < k) /\ (i < k => i \in 1..(k - 1))
                        /\ (~(i < k) => i - (k - 1) = 1)
    BY <1>1
  <2> QED
    BY <1>2, <1>4, <2>1, <2>2 DEF f
<1>6. /\ r \in Seq(S) /\ Len(r) = Len(s) + 1
      /\ \A i \in 1..(Len(s) + 1) : r[i] = IF i = k THEN e ELSE s[At(i)]
  <2>1. /\ r \in Seq(S) /\ Len(r) = k + (Len(s) - k + 1)
        /\ \A i \in 1..(k + (Len(s) - k + 1)) :
             r[i] = IF i <= k THEN (a \o <<e>>)[i] ELSE b[i - k]
    <3>1. r = (a \o <<e>>) \o b
      BY DEF InsertAt, a, b
    <3> DEFINE c == a \o <<e>>
    <3>2. c \in Seq(S) /\ Len(c) = k
      BY <1>5
    <3> HIDE DEF c
    <3>3. /\ c \o b \in Seq(S) /\ Len(c \o b) = Len(c) + Len(b)
          /\ \A i \in 1..(Len(c) + Len(b)) :
               (c \o b)[i] = IF i <= Len(c) THEN c[i] ELSE b[i - Len(c)]
      BY <1>3, <3>2, ConcatProperties
    <3> HIDE DEF r
    <3> QED
      BY <1>3, <3>1, <3>2, <3>3 DEF c
  <2>2. /\ k + (Len(s) - k + 1) = Len(s) + 1
        /\ \A i \in 1..(Len(s) + 1) :
             /\ i <= k => i \in 1..k
             /\ ~(i <= k) => i - k \in 1..(Len(s) - k + 1) /\ k + (i - k) - 1 = i - 1
    BY <1>1
  <2> HIDE DEF r
  <2>3. \A i \in 1..(Len(s) + 1) : r[i] = IF i = k THEN e ELSE s[At(i)]
    <3> TAKE i \in 1..(Len(s) + 1)
    <3>1. CASE i <= k
      BY <1>1, <1>5, <2>1, <2>2, <3>1
    <3>2. CASE ~(i <= k)
      <4>1. i - k \in 1..(Len(s) - k + 1) /\ k + (i - k) - 1 = i - 1
        BY <2>2, <3>2
      <4>2. b[i - k] = s[i - 1]
        BY <1>3, <4>1
      <4>3. i # k /\ ~(i < k)
        BY <1>1, <3>2
      <4> QED
        BY <2>1, <2>2, <3>2, <4>2, <4>3
    <3> QED
      BY <3>1, <3>2
  <2> QED
    BY <2>1, <2>2, <2>3
<1> QED
  BY <1>1, <1>6, LenProperties

LEMMA PutInFact ==
  ASSUME NEW S, NEW s \in Seq(S), IsInjective(s), NEW e \in S, ~In(s, e), NEW k \in 1..(Len(s) + 1)
  PROVE  /\ InsertAt(s, k, e) \in Seq(S) /\ IsInjective(InsertAt(s, k, e))
         /\ Len(InsertAt(s, k, e)) = Len(s) + 1
         /\ \A x : In(InsertAt(s, k, e), x) => In(s, x) \/ x = e
<1> DEFINE r == InsertAt(s, k, e)
           At(i) == IF i < k THEN i ELSE i - 1
<1>1. /\ Len(s) \in Nat /\ k \in 1..(Len(s) + 1) /\ DOMAIN s = 1..Len(s)
      /\ \A i \in 1..Len(s) : s[i] \in S /\ s[i] # e
  BY LenProperties, ElementOfSeq DEF In
<1>2. /\ r \in Seq(S) /\ Len(r) = Len(s) + 1 /\ DOMAIN r = 1..(Len(s) + 1)
      /\ \A i \in 1..(Len(s) + 1) : r[i] = IF i = k THEN e ELSE s[At(i)]
  BY InsertFact
<1>3. /\ \A i \in 1..(Len(s) + 1) : i # k => At(i) \in 1..Len(s)
      /\ \A i, j \in 1..(Len(s) + 1) : i # k /\ j # k /\ At(i) = At(j) => i = j
  BY <1>1
<1> HIDE DEF r, At
<1>4. \A i, j \in 1..(Len(s) + 1) : r[i] = r[j] => i = j
  <2> TAKE i, j \in 1..(Len(s) + 1)
  <2>1. CASE i # k /\ j # k
    BY <1>2, <1>3, <2>1, InjectiveFact
  <2>2. CASE i = k \/ j = k
    BY <1>1, <1>2, <1>3, <2>2
  <2> QED
    BY <2>1, <2>2
<1>5. \A x : In(r, x) => In(s, x) \/ x = e
  BY <1>1, <1>2, <1>3 DEF In
<1> QED
  BY <1>2, <1>4, <1>5 DEF IsInjective, r

\* A place for an item is one in the list, or behind it.
LEMMA PlaceFact ==
  ASSUME NEW S, NEW s \in Seq(S), NEW n PROVE PlaceOf(s, n) \in 1..(Len(s) + 1)
<1> DEFINE K == {k \in DOMAIN s : item[s[k]].left <= n}
<1>1. Len(s) \in Nat /\ DOMAIN s = 1..Len(s) /\ K \in SUBSET (1..Len(s))
  BY LenProperties
<1> HIDE DEF K
<1>2. IsFiniteSet(1..Len(s)) /\ Cardinality(1..Len(s)) = Len(s)
  <2>1. /\ IsFiniteSet(1..Len(s))
        /\ Cardinality(1..Len(s)) = IF 1 > Len(s) THEN 0 ELSE Len(s) - 1 + 1
    BY <1>1, FS_Interval
  <2> QED
    BY <1>1, <2>1
<1>3. IsFiniteSet(K) /\ Cardinality(K) <= Len(s)
  <2>1. IsFiniteSet(K) /\ Cardinality(K) <= Cardinality(1..Len(s))
    BY <1>1, <1>2, FS_Subset
  <2> QED
    BY <1>2, <2>1
<1>4. Cardinality(K) \in Nat
  BY <1>3, FS_CardinalityType
<1>5. Cardinality(K) + 1 \in 1..(Len(s) + 1)
  BY <1>1, <1>3, <1>4
<1> QED
  BY <1>5 DEF PlaceOf, K
-----------------------------------------------------------------------------
(* Every step keeps the types.                                             *)

Entries == [trig : Triggers \cup {None}, removed : BOOLEAN, left : Nat, due : BOOLEAN]
Jumps == [Items -> [Items -> 0..2]]

LEMMA DeleteType ==
  ASSUME TypeOK, NEW i \in Items, Delete(i)
  PROVE  item' \in [Items -> Entries] /\ alive' \subseteq Items /\ jumped' \in Jumps
<1>1. Blank \in Entries
  BY DEF Blank, Entries
<1>2. item' \in [Items -> Entries] /\ alive' \subseteq Items
  BY <1>1 DEF Delete, TypeOK, Entries
<1>3. jumped' \in Jumps
  BY DEF Delete, TypeOK, Jumps
<1> QED
  BY <1>2, <1>3

LEMMA LookedAtType ==
  ASSUME TypeOK, NEW i \in Items, LookedAt(i) PROVE jumped' \in Jumps
  BY DEF LookedAt, TypeOK, Jumps

LEMMA JumpToType ==
  ASSUME TypeOK, NEW i \in Items, NEW p, JumpTo(i, p) PROVE jumped' \in Jumps
<1> DEFINE over == {list[k] : k \in {k \in tm.pos..(p - 1) : item[list[k]].left = 0}}
<1>1. jumped' = [jumped EXCEPT ![i] = [y \in Items |-> IF y \in over /\ @[y] < 2 THEN @[y] + 1
                                                   ELSE @[y]]]
  BY DEF JumpTo
<1> HIDE DEF over
<1>2. \A y \in Items : jumped[i][y] \in 0..2
  BY DEF TypeOK
<1>3. [y \in Items |-> IF y \in over /\ jumped[i][y] < 2 THEN jumped[i][y] + 1 ELSE jumped[i][y]]
        \in [Items -> 0..2]
  BY <1>2
<1> QED
  BY <1>1, <1>3 DEF TypeOK, Jumps

\* Where the scan is, and what it looks at.
LEMMA CurFact ==
  ASSUME TypeOK, RunOK, TmAt("scan"), tm.pos <= Len(list)
  PROVE  /\ tm.pos \in 1..Len(list) /\ Cur = list[tm.pos] /\ Cur \in alive /\ Cur \in Items
         /\ Listed(Cur) /\ tm.cur = None
<1>1. tm.pos \in 1..Len(list) /\ DOMAIN list = 1..Len(list)
  BY LenProperties DEF TypeOK, RunOK, TmAt
<1>2. list[tm.pos] \in alive
  BY <1>1, ElementOfSeq DEF TypeOK
<1> QED
  BY <1>1, <1>2 DEF TypeOK, RunOK, TmAt, Locked, Cur, Listed, In

LEMMA Initially == Init => IInv
<1> SUFFICES ASSUME Init PROVE IInv
  OBVIOUS
<1>1. <<>> \in Seq(alive) /\ IsInjective(<<>>)
  BY EmptyFact
<1>2. TypeOK
  BY <1>1 DEF Init, TypeOK, Blank, Thread, NoJumps
<1>3. \A i : ~Fires(i)
  BY DEF Init, Fires
<1>4. Cancellable /\ NewOK /\ RunOK /\ SilentOK /\ AddressOK
  BY <1>3, TimerAssumption DEF Init, Cancellable, NewOK, RunOK, SilentOK, AddressOK, Thread, Locked
<1> QED
  BY <1>2, <1>4 DEF IInv

LEMMA TypeStep == IInv /\ [Next]_vars => TypeOK'
<1> SUFFICES ASSUME IInv, [Next]_vars PROVE TypeOK'
  OBVIOUS
<1> USE DEF Entries, Jumps
<1>0. /\ TypeOK /\ NewOK /\ RunOK
      /\ Unlocked <=> tm.at \notin {"scan", "call", "done"}
      /\ Blank \in Entries
  BY DEF IInv, Unlocked, Blank
<1>1. CASE Start \/ Exit \/ Joined
  BY <1>0, <1>1 DEF Start, Exit, Joined, TypeOK, Thread
<1>2. CASE ClearTimer
  <2>1. tm.cur = None /\ list' \in Seq(alive') /\ IsInjective(list')
    BY <1>0, <1>2, EmptyFact DEF ClearTimer, RunOK, Locked
  <2>2. alive' \subseteq Items /\ item' \in [Items -> Entries] /\ jumped' \in Jumps
    BY <1>0, <1>2 DEF ClearTimer, TypeOK, NoJumps
  <2> QED
    BY <1>0, <1>2, <2>1, <2>2 DEF ClearTimer, TypeOK
<1>3. ASSUME NEW t \in Triggers, RegisterTimer(t) PROVE TypeOK'
  <2>1. PICK i \in Items \ alive :
          /\ alive' = alive \cup {i} /\ ptr' = [ptr EXCEPT ![t] = i]
          /\ item' = [item EXCEPT ![i] = [Blank EXCEPT !.trig = t, !.left = Period[t]]]
    BY <1>3 DEF RegisterTimer
  <2>2. [Blank EXCEPT !.trig = t, !.left = Period[t]] \in Entries
    BY TimerAssumption DEF Blank
  <2>3. list' \in Seq(alive') /\ IsInjective(list')
    BY <1>0, <1>3, <2>1, SeqMonotonic DEF RegisterTimer, TypeOK
  <2> QED
    BY <1>0, <1>3, <2>1, <2>2, <2>3 DEF RegisterTimer, ClGo, TypeOK
<1>4. ASSUME NEW t \in Triggers, Insert(t) PROVE TypeOK'
  <2>1. ptr[t] \in alive /\ ~In(list, ptr[t])
    BY <1>0, <1>4 DEF Insert, NewOK, Listed
  <2>2. PlaceOf(list, item[ptr[t]].left) \in 1..(Len(list) + 1)
    BY <1>0, PlaceFact DEF TypeOK
  <2>3. list' \in Seq(alive) /\ IsInjective(list')
    BY <1>0, <1>4, <2>1, <2>2, PutInFact DEF Insert, TypeOK
  <2> QED
    BY <1>0, <1>4, <2>3 DEF Insert, ClGo, TypeOK
<1>5. ASSUME NEW t \in Triggers, CancelTimer(t) \/ ForgetItem(t) \/ Barrier(t) PROVE TypeOK'
  BY <1>0, <1>5 DEF CancelTimer, ForgetItem, Barrier, ClGo, TypeOK
<1>6. ASSUME NEW t \in Triggers, Mark(t) \/ Detach(t) PROVE TypeOK'
  <2>1. ptr[t] \in Items /\ item \in [Items -> Entries]
    BY <1>0, <1>6 DEF Mark, Detach, TypeOK
  <2>2. CASE Mark(t)
    <3>1. [item[ptr[t]] EXCEPT !.removed = TRUE, !.due = FALSE] \in Entries
      BY <2>1
    <3>2. item' = [item EXCEPT ![ptr[t]] = [item[ptr[t]] EXCEPT !.removed = TRUE, !.due = FALSE]]
      BY <2>1, <2>2 DEF Mark
    <3> QED
      BY <1>0, <2>1, <2>2, <3>1, <3>2 DEF Mark, ClGo, TypeOK
  <2>3. CASE Detach(t)
    <3>1. item' \in [Items -> Entries]
      BY <2>1, <2>3 DEF Detach
    <3> QED
      BY <1>0, <2>3, <3>1 DEF Detach, ClGo, TypeOK
  <2> QED
    BY <1>6, <2>2, <2>3
<1>7. ASSUME NEW i \in Items, TicksPass(i) PROVE TypeOK'
  BY <1>0, <1>7 DEF TicksPass, TypeOK
<1>8. CASE Wake
  <2>1. ASSUME NEW i \in Items PROVE item[i].left > 0 => [item[i] EXCEPT !.left = @ - 1] \in Entries
    <3>1. item[i] \in Entries /\ item[i].left \in Nat
      BY <1>0 DEF TypeOK
    <3>2. item[i].left > 0 => item[i].left - 1 \in Nat
      BY <3>1
    <3> QED
      BY <3>1, <3>2
  <2>2. item' \in [Items -> Entries]
    BY <1>0, <1>8, <2>1 DEF Wake, TypeOK
  <2> QED
    BY <1>0, <1>8, <2>2 DEF Wake, TypeOK, Thread
<1>9. CASE Quit \/ Lock \/ Unlock \/ Returned
  <2>1. CASE Quit \/ Unlock
    BY <1>0, <2>1 DEF Quit, Unlock, TypeOK, Thread
  <2>2. CASE Lock
    BY <1>0, <2>2 DEF Lock, TypeOK, Thread
  <2>3. CASE Returned
    BY <1>0, <2>3 DEF Returned, TypeOK
  <2> QED
    BY <1>9, <2>1, <2>2, <2>3
<1>10. CASE EraseRemoved
  <2>1. /\ tm.pos \in 1..Len(list) /\ Cur = list[tm.pos] /\ Cur \in alive /\ Cur \in Items
        /\ tm.cur = None
    BY <1>0, <1>10, CurFact DEF EraseRemoved
  <2>2. item' \in [Items -> Entries] /\ alive' \subseteq Items /\ jumped' \in Jumps
    BY <1>0, <1>10, <2>1, DeleteType DEF EraseRemoved
  <2>3. list' \in Seq(alive') /\ IsInjective(list')
    BY <1>0, <1>10, <2>1, TakeOutFact DEF EraseRemoved, Delete, TypeOK
  <2> QED
    BY <1>0, <1>10, <2>1, <2>2, <2>3 DEF EraseRemoved, TypeOK
<1>11. CASE NotYet
  <2>1. jumped' \in Jumps
    BY <1>0, <1>11, CurFact, LookedAtType DEF NotYet
  <2>2. tm.pos \in Nat /\ tm.pos + 1 \in Nat
    BY <1>0 DEF TypeOK
  <2>3. tm' = [tm EXCEPT !.pos = tm.pos + 1] /\ UNCHANGED <<phase, alive, item, list, ptr, cl>>
    BY <1>11 DEF NotYet
  <2> QED
    BY <1>0, <2>1, <2>2, <2>3 DEF TypeOK
<1>12. CASE OnTrigger
  <2>1. tm.pos \in 1..Len(list) /\ Cur = list[tm.pos] /\ Cur \in alive /\ Cur \in Items
    BY <1>0, <1>12, CurFact DEF OnTrigger
  <2>2. jumped' \in Jumps /\ item' \in [Items -> Entries]
    BY <1>0, <1>12, <2>1, LookedAtType DEF OnTrigger, TypeOK
  <2>3. list' \in Seq(alive) /\ IsInjective(list')
    <3>1. list' \in Seq(alive \ {Cur}) /\ IsInjective(list')
      BY <1>0, <1>12, <2>1, TakeOutFact DEF OnTrigger, TypeOK
    <3> QED
      BY <3>1, SeqMonotonic
  <2>4. item[Cur].trig \in Triggers \cup {None}
    BY <1>0, <2>1 DEF TypeOK
  <2> QED
    BY <1>0, <1>12, <2>1, <2>2, <2>3, <2>4 DEF OnTrigger, TypeOK
<1>13. CASE OneShotDone
  <2>1. tm.cur \in alive /\ ~In(list, tm.cur) /\ tm.trig \in Triggers
    BY <1>0, <1>13 DEF OneShotDone, TmAt, RunOK, Locked, Listed
  <2>2. item' \in [Items -> Entries] /\ alive' \subseteq Items /\ jumped' \in Jumps
    BY <1>0, <1>13, <2>1, DeleteType DEF OneShotDone, TypeOK
  <2>3. list \in Seq(alive \ {tm.cur})
    <3>1. /\ Len(list) \in Nat /\ DOMAIN list = 1..Len(list) /\ list = [k \in 1..Len(list) |-> list[k]]
          /\ \A k \in 1..Len(list) : list[k] \in alive
      BY <1>0, LenProperties, ElementOfSeq DEF TypeOK
    <3>2. \A k \in 1..Len(list) : list[k] \in alive \ {tm.cur}
      BY <2>1, <3>1 DEF In
    <3> QED
      BY <3>1, <3>2, IsASeq
  <2> QED
    BY <1>0, <1>13, <2>1, <2>2, <2>3 DEF OneShotDone, Delete, Thread, TypeOK
<1>14. CASE PutBack
  <2> DEFINE place == PlaceOf(list, Period[tm.trig])
  <2>1. /\ tm.cur \in alive /\ tm.cur \in Items /\ ~In(list, tm.cur) /\ tm.trig \in Triggers
        /\ Period[tm.trig] \in Nat /\ place \in 1..(Len(list) + 1) /\ place \in Nat
    <3>1. place \in 1..(Len(list) + 1) /\ Len(list) \in Nat
      BY <1>0, PlaceFact, LenProperties DEF TypeOK
    <3> HIDE DEF place
    <3> QED
      BY <1>0, <1>14, <3>1, TimerAssumption DEF PutBack, TmAt, RunOK, Locked, Listed, TypeOK
  <2>2. /\ item' = [item EXCEPT ![tm.cur].left = Period[tm.trig]]
        /\ list' = InsertAt(list, place, tm.cur) /\ tm' = [Thread("scan") EXCEPT !.pos = place]
        /\ JumpTo(tm.cur, place) /\ UNCHANGED <<phase, alive, ptr, cl>>
    BY <1>14 DEF PutBack
  <2> HIDE DEF place
  <2>3. jumped' \in Jumps /\ item' \in [Items -> Entries]
    BY <1>0, <2>1, <2>2, JumpToType DEF TypeOK
  <2>4. list' \in Seq(alive) /\ IsInjective(list')
    BY <1>0, <2>1, <2>2, PutInFact DEF TypeOK
  <2> QED
    BY <1>0, <2>1, <2>2, <2>3, <2>4 DEF TypeOK, Thread
<1>15. CASE UNCHANGED vars
  BY <1>0, <1>15 DEF vars, TypeOK
<1> QED
  BY <1>1, <1>2, <1>3, <1>4, <1>5, <1>6, <1>7, <1>8, <1>9, <1>10, <1>11, <1>12, <1>13, <1>14,
     <1>15 DEF Next, Owner, MainLoop, Client
-----------------------------------------------------------------------------
(* Every step keeps what the theorems rest on.                             *)

Safe == Cancellable /\ NewOK /\ RunOK /\ SilentOK /\ AddressOK

\* What fires after a step, that makes nothing fire, has been there before it.
Fewer == \A i \in Items : Fires(i)' => Fires(i) /\ item'[i].trig = item[i].trig

LEMMA FewerByDelete ==
  ASSUME TypeOK, NEW i \in Items, Delete(i)
  PROVE  /\ Fewer /\ alive' = alive \ {i}
         /\ \A j \in Items : j # i => item'[j] = item[j]
         /\ item'[i] = Blank
  BY DEF TypeOK, Delete, Fewer, Fires, Blank

LEMMA OwnerStep == IInv /\ Owner => Safe'
<1> SUFFICES ASSUME IInv, Owner PROVE Safe'
  OBVIOUS
<1>0. TypeOK /\ Cancellable /\ NewOK /\ RunOK /\ SilentOK /\ AddressOK
  BY DEF IInv
<1>1. CASE Start \/ Joined
  <2>1. /\ UNCHANGED <<alive, item, list, ptr, cl>> /\ tm.cur = None /\ tm'.cur = None
        /\ ~Locked' /\ (\A i : Fires(i)' = Fires(i)) /\ (\A i : Listed(i)' = Listed(i))
        /\ phase' = "off" => tm'.at = "off"
        /\ tm'.at # "scan" /\ phase \in {"off", "exit"}
    <3>1. /\ UNCHANGED <<alive, item, list, ptr, cl>> /\ tm.at = "off"
          /\ tm'.cur = None \/ tm' = tm
          /\ tm'.at \in {"sleep", "off"}
          /\ phase' = "off" => tm'.at = "off"
          /\ phase \in {"off", "exit"}
      BY <1>0, <1>1 DEF Start, Joined, RunOK, Thread
    <3> QED
      BY <1>0, <3>1 DEF RunOK, Locked, Fires, Listed, In
  <2> QED
    BY <1>0, <2>1 DEF Safe, Cancellable, NewOK, RunOK, SilentOK, AddressOK
<1>2. CASE ClearTimer
  <2>1. /\ UNCHANGED <<ptr, cl, tm>> /\ phase' = "clear" /\ list' = <<>>
        /\ ~Locked /\ tm.cur = None /\ tm.at # "scan"
        /\ (\A t \in Triggers : cl[t] = "idle") /\ alive' \subseteq alive
        /\ item' \in [Items -> {item[i] : i \in Items} \cup {Blank}]
        /\ \A i \in Items : i \in alive' => item'[i] = item[i]
    BY <1>0, <1>2 DEF ClearTimer, RunOK, Unlocked, Locked
  <2>2. \A i \in Items : ~Fires(i)
    <3> SUFFICES ASSUME NEW i \in Items, Fires(i) PROVE FALSE
      OBVIOUS
    <3>1. item[i].trig \in Triggers
      BY <1>0 DEF TypeOK, Fires
    <3>2. tm.cur = i
      BY <1>0, <2>1, <3>1 DEF SilentOK
    <3> QED
      BY <2>1, <3>2, TimerAssumption
  <2>3. \A i \in Items : ~Fires(i)'
    BY <2>1, <2>2 DEF Fires
  <2>4. Cancellable' /\ SilentOK' /\ NewOK'
    BY <2>1, <2>3 DEF Cancellable, SilentOK, NewOK, Locked
  <2>5. RunOK' /\ AddressOK'
    BY <1>0, <2>1 DEF RunOK, AddressOK, Locked, TypeOK
  <2> QED
    BY <2>4, <2>5 DEF Safe
<1>3. CASE Exit
  <2>1. UNCHANGED <<alive, item, list, ptr, cl, tm>> /\ phase' = "exit"
    BY <1>3 DEF Exit
  <2>2. /\ \A i : Fires(i)' = Fires(i) /\ Listed(i)' = Listed(i)
        /\ Locked' = Locked
    BY <2>1 DEF Fires, Listed, In, Locked
  <2> QED
    BY <1>0, <2>1, <2>2 DEF Safe, Cancellable, NewOK, RunOK, SilentOK, AddressOK
<1> QED
  BY <1>1, <1>2, <1>3 DEF Owner

LEMMA ClientStep == ASSUME NEW t \in Triggers PROVE IInv /\ Client(t) => Safe'
<1> SUFFICES ASSUME IInv, Client(t) PROVE Safe'
  OBVIOUS
<1>0. TypeOK /\ Cancellable /\ NewOK /\ RunOK /\ SilentOK /\ AddressOK
  BY DEF IInv
<1>1. CASE RegisterTimer(t)
  <2>1. PICK i \in Items \ alive :
          /\ Reuse \/ \A u \in Triggers : ptr[u] # i
          /\ alive' = alive \cup {i} /\ ptr' = [ptr EXCEPT ![t] = i]
          /\ item' = [item EXCEPT ![i] = [Blank EXCEPT !.trig = t, !.left = Period[t]]]
    BY <1>1 DEF RegisterTimer
  <2>2. /\ cl[t] = "idle" /\ phase = "on" /\ cl' = [cl EXCEPT ![t] = "insert"]
        /\ UNCHANGED <<phase, list, tm>>
    BY <1>1 DEF RegisterTimer, ClGo
  <2>3. /\ item'[i].trig = t /\ ptr'[t] = i /\ cl'[t] = "insert"
        /\ \A j \in Items : j # i => item'[j] = item[j] /\ (Fires(j)' <=> Fires(j))
        /\ \A u \in Triggers : u # t => ptr'[u] = ptr[u] /\ cl'[u] = cl[u]
    BY <1>0, <2>1, <2>2 DEF TypeOK, Fires, Blank
  <2>4. ~Listed(i) /\ i # tm.cur
    <3>1. \A k \in DOMAIN list : list[k] \in alive
      BY <1>0, ElementOfSeq, LenProperties DEF TypeOK
    <3> QED
      BY <1>0, <2>1, <3>1, TimerAssumption DEF Listed, In, TypeOK
  <2>5. (\A j : Listed(j)' = Listed(j)) /\ Locked' = Locked
    BY <2>2 DEF Listed, In, Locked
  <2>6. \A j \in Items : Fires(j) => item[j].trig # t \/ tm.cur = j
    BY <1>0, <2>2 DEF SilentOK
  <2>7. Locked => tm.trig # t
    BY <1>0, <2>2 DEF SilentOK
  <2>8. ~Locked => tm.cur = None
    BY <1>0 DEF RunOK
  <2>9. Cancellable'
    <3> SUFFICES ASSUME NEW j \in Items, Fires(j)'
                 PROVE  ptr'[item'[j].trig] = j \/ (tm'.cur = j /\ item'[j].trig \notin Repeated)
      BY DEF Cancellable
    <3>1. CASE j = i
      BY <2>3, <3>1
    <3>2. CASE j # i
      <4>1. Fires(j) /\ item'[j] = item[j] /\ item[j].trig \in Triggers
        BY <1>0, <2>3, <3>2 DEF TypeOK, Fires
      <4> QED
        BY <1>0, <2>2, <2>3, <3>2, <4>1 DEF Cancellable, SilentOK
    <3> QED
      BY <3>1, <3>2
  <2>10. NewOK'
    <3>1. \A u \in Triggers : cl'[u] = "insert" /\ u # t => ptr'[u] \in alive /\ ptr'[u] # i
      BY <1>0, <2>1, <2>3 DEF NewOK
    <3> QED
      BY <1>0, <2>1, <2>2, <2>3, <2>4, <2>5, <3>1 DEF NewOK
  <2>11. RunOK'
    <3>1. CASE ~Locked
      BY <1>0, <2>2, <2>5, <3>1 DEF RunOK
    <3>2. CASE Locked
      <4>1. /\ tm.cur \in alive /\ tm.cur # i /\ tm.trig # t /\ tm.cur \in Items
            /\ item'[tm.cur] = item[tm.cur]
        BY <1>0, <2>1, <2>3, <2>7, <3>2 DEF RunOK, TypeOK
      <4>2. \A j \in Items : Fires(j)' /\ item'[j].trig = tm.trig => j = tm.cur
        BY <1>0, <2>3, <3>2, <4>1 DEF RunOK
      <4> QED
        BY <1>0, <2>1, <2>2, <2>5, <3>2, <4>1, <4>2 DEF RunOK
    <3> QED
      BY <3>1, <3>2
  <2>12. SilentOK'
    <3> SUFFICES ASSUME NEW u \in Triggers
                 PROVE  /\ cl'[u] \in {"detach", "forget", "barrier", "idle"} =>
                             \A j \in Items : Fires(j)' /\ item'[j].trig = u =>
                               tm'.cur = j /\ u \notin Repeated
                        /\ cl'[u] \in {"idle", "insert"} /\ Locked' => tm'.trig # u
      BY DEF SilentOK
    <3>1. CASE u = t
      BY <2>2, <2>3, <2>5, <2>7, <3>1
    <3>2. CASE u # t
      BY <1>0, <2>2, <2>3, <2>5, <3>2 DEF SilentOK
    <3> QED
      BY <3>1, <3>2
  <2>13. AddressOK'
    <3> SUFFICES ASSUME ~Reuse
                 PROVE  /\ \A u \in Triggers : ptr'[u] \in alive' => item'[ptr'[u]].trig \in {u, None}
                        /\ \A u, v \in Triggers : ptr'[u] = ptr'[v] /\ ptr'[u] # None => u = v
      BY DEF AddressOK
    <3>1. \A u \in Triggers : ptr[u] # i
      BY <2>1
    <3>2. \A u \in Triggers : u # t => ptr'[u] = ptr[u] /\ ptr'[u] # i
      BY <2>3, <3>1
    <3>3. ASSUME NEW u \in Triggers, ptr'[u] \in alive' PROVE item'[ptr'[u]].trig \in {u, None}
      BY <1>0, <2>1, <2>3, <3>2, <3>3 DEF AddressOK, TypeOK
    <3>4. ASSUME NEW u \in Triggers, NEW v \in Triggers, ptr'[u] = ptr'[v], ptr'[u] # None PROVE u = v
      BY <1>0, <2>3, <3>2, <3>4 DEF AddressOK
    <3> QED
      BY <3>3, <3>4
  <2> QED
    BY <2>9, <2>10, <2>11, <2>12, <2>13 DEF Safe
<1>2. CASE Insert(t)
  <2>1. /\ cl[t] = "insert" /\ ~Locked /\ tm.at # "scan" /\ cl' = [cl EXCEPT ![t] = "set"]
        /\ UNCHANGED <<phase, alive, item, ptr, tm>> /\ ~Locked'
        /\ list' = InsertAt(list, PlaceOf(list, item[ptr[t]].left), ptr[t])
    BY <1>2 DEF Insert, ClGo, Unlocked, Locked
  <2>2. \A x : Listed(x)' => Listed(x) \/ x = ptr[t]
    <3>1. ptr[t] \in alive /\ ~In(list, ptr[t])
      BY <1>0, <2>1 DEF NewOK, Listed
    <3>2. PlaceOf(list, item[ptr[t]].left) \in 1..(Len(list) + 1)
      BY <1>0, PlaceFact DEF TypeOK
    <3> QED
      BY <1>0, <2>1, <3>1, <3>2, PutInFact DEF TypeOK, Listed
  <2>3. /\ \A i : Fires(i)' = Fires(i)
        /\ \A u \in Triggers : cl'[u] = IF u = t THEN "set" ELSE cl[u]
    BY <1>0, <2>1 DEF Fires, TypeOK
  <2>4. Cancellable' /\ AddressOK' /\ SilentOK'
    BY <1>0, <2>1, <2>3 DEF Cancellable, AddressOK, SilentOK
  <2>5. NewOK' /\ RunOK'
    BY <1>0, <2>1, <2>2, <2>3 DEF NewOK, RunOK
  <2> QED
    BY <2>4, <2>5 DEF Safe
<1>3. CASE CancelTimer(t) \/ Barrier(t)
  <2>1. UNCHANGED <<phase, alive, item, list, ptr, tm>>
    BY <1>3 DEF CancelTimer, Barrier
  <2>2. /\ \A i : Fires(i)' = Fires(i) /\ Listed(i)' = Listed(i)
        /\ Locked' = Locked
        /\ \A u \in Triggers : u # t => cl'[u] = cl[u]
    BY <1>0, <1>3, <2>1 DEF CancelTimer, Barrier, ClGo, Fires, Listed, In, Locked, TypeOK
  <2>3. Cancellable' /\ AddressOK' /\ RunOK'
    BY <1>0, <2>1, <2>2 DEF Cancellable, AddressOK, RunOK
  <2>4. CASE CancelTimer(t)
    <3>1. cl'[t] \in {"mark", "barrier"} /\ (cl'[t] = "barrier" => ptr[t] = None)
      BY <1>0, <2>4 DEF CancelTimer, ClGo, TypeOK
    <3>2. ptr[t] = None => \A i \in Items : Fires(i) /\ item[i].trig = t =>
                             tm.cur = i /\ t \notin Repeated
      BY <1>0, TimerAssumption DEF Cancellable
    <3>3. NewOK' /\ SilentOK'
      BY <1>0, <2>1, <2>2, <3>1, <3>2 DEF NewOK, SilentOK
    <3> QED
      BY <2>3, <3>3 DEF Safe
  <2>5. CASE Barrier(t)
    <3>1. cl'[t] = "idle" /\ cl[t] = "barrier" /\ ~Locked
      BY <1>0, <2>5 DEF Barrier, ClGo, TypeOK, Unlocked, Locked
    <3>2. NewOK' /\ SilentOK'
      BY <1>0, <2>1, <2>2, <3>1 DEF NewOK, SilentOK
    <3> QED
      BY <2>3, <3>2 DEF Safe
  <2> QED
    BY <1>3, <2>4, <2>5
<1>4. CASE Mark(t) \/ Detach(t)
  <2>1. /\ UNCHANGED <<phase, alive, list, ptr, tm>> /\ ptr[t] \in alive /\ ptr[t] \in Items
        /\ \A i \in Items : i # ptr[t] => item'[i] = item[i]
        /\ item'[ptr[t]].removed \/ item'[ptr[t]].trig = None
        /\ item'[ptr[t]].trig \in {item[ptr[t]].trig, None}
        /\ \A u \in Triggers : u # t => cl'[u] = cl[u]
        /\ \/ cl[t] = "mark" /\ cl'[t] = "detach"
           \/ cl[t] = "detach" /\ cl'[t] = "forget"
    BY <1>0, <1>4 DEF Mark, Detach, ClGo, TypeOK
  <2>2. /\ \A i \in Items : Fires(i)' <=> Fires(i) /\ i # ptr[t]
        /\ \A i : Listed(i)' = Listed(i)
        /\ Locked' = Locked
    BY <2>1 DEF Fires, Listed, In, Locked
  <2>3. Cancellable' /\ NewOK'
    BY <1>0, <2>1, <2>2 DEF Cancellable, NewOK
  <2>4. RunOK'
    <3>1. Locked => tm.cur \in Items /\ item'[tm.cur].trig \in {tm.trig, None}
      BY <1>0, <2>1 DEF RunOK, TypeOK
    <3> QED
      BY <1>0, <2>1, <2>2, <3>1 DEF RunOK
  <2>5. SilentOK'
    <3>1. \A i \in Items : Fires(i)' /\ item'[i].trig = t => tm.cur = i /\ t \notin Repeated
      BY <1>0, <2>1, <2>2 DEF Cancellable
    <3> QED
      BY <1>0, <2>1, <2>2, <3>1 DEF SilentOK
  <2>6. AddressOK'
    BY <1>0, <2>1 DEF AddressOK, TypeOK
  <2> QED
    BY <2>3, <2>4, <2>5, <2>6 DEF Safe
<1>5. CASE ForgetItem(t)
  <2>1. /\ UNCHANGED <<phase, alive, item, list, tm>> /\ ptr'[t] = None
        /\ cl[t] = "forget" /\ cl'[t] = "barrier"
        /\ \A u \in Triggers : u # t => cl'[u] = cl[u] /\ ptr'[u] = ptr[u]
    BY <1>0, <1>5 DEF ForgetItem, ClGo, TypeOK
  <2>2. /\ \A i : Fires(i)' = Fires(i) /\ Listed(i)' = Listed(i)
        /\ Locked' = Locked
    BY <2>1 DEF Fires, Listed, In, Locked
  <2>3. Cancellable'
    <3>1. \A i \in Items : Fires(i) => item[i].trig \in Triggers
      BY <1>0 DEF TypeOK, Fires
    <3> QED
      BY <1>0, <2>1, <2>2, <3>1 DEF Cancellable, SilentOK
  <2>4. NewOK' /\ RunOK' /\ SilentOK'
    BY <1>0, <2>1, <2>2 DEF NewOK, RunOK, SilentOK
  <2>5. AddressOK'
    <3>1. None \notin alive
      BY <1>0, TimerAssumption DEF TypeOK
    <3>2. /\ \A u \in Triggers : ptr'[u] \in alive => u # t /\ ptr'[u] = ptr[u]
          /\ \A u \in Triggers : ptr'[u] # None => u # t /\ ptr'[u] = ptr[u]
      BY <2>1, <3>1
    <3> QED
      BY <1>0, <2>1, <3>2 DEF AddressOK
  <2> QED
    BY <2>3, <2>4, <2>5 DEF Safe
<1> QED
  BY <1>1, <1>2, <1>3, <1>4, <1>5 DEF Client

LEMMA ThreadStep == IInv /\ MainLoop => Safe'
<1> SUFFICES ASSUME IInv, MainLoop PROVE Safe'
  OBVIOUS
<1>0. TypeOK /\ Cancellable /\ NewOK /\ RunOK /\ SilentOK /\ AddressOK
  BY DEF IInv
<1>1. CASE Quit \/ Lock \/ Unlock \/ NotYet
  <2>1. /\ UNCHANGED <<phase, alive, item, list, ptr, cl>>
        /\ tm.at \in {"sleep", "lock", "scan"} /\ tm.cur = None
        /\ tm'.at \in {"off", "sleep", "scan"} /\ tm'.cur = None
        /\ phase = "off" => tm'.at = "off"
        /\ tm'.at = "scan" => tm'.pos # 0
    BY <1>0, <1>1 DEF Quit, Lock, Unlock, NotYet, TmAt, RunOK, TypeOK, Thread, Locked
  <2>2. ~Locked /\ ~Locked' /\ \A i : Fires(i)' = Fires(i) /\ Listed(i)' = Listed(i)
    BY <2>1 DEF Fires, Listed, In, Locked
  <2> QED
    BY <1>0, <2>1, <2>2 DEF Safe, Cancellable, NewOK, RunOK, SilentOK, AddressOK
<1>2. CASE Wake
  <2>1. /\ UNCHANGED <<phase, alive, list, ptr, cl>> /\ tm.at = "sleep" /\ tm.cur = None
        /\ tm'.at = "lock" /\ tm'.cur = None /\ phase # "off"
        /\ \A i \in Items : item'[i].trig = item[i].trig /\ item'[i].removed = item[i].removed
    BY <1>0, <1>2 DEF Wake, TmAt, RunOK, TypeOK, Thread, Locked
  <2>2. /\ ~Locked /\ ~Locked' /\ \A i : Listed(i)' = Listed(i)
        /\ \A i \in Items : Fires(i)' <=> Fires(i)
    BY <2>1 DEF Fires, Listed, In, Locked
  <2>3. AddressOK'
    BY <1>0, <2>1 DEF AddressOK, TypeOK
  <2> QED
    BY <1>0, <2>1, <2>2, <2>3 DEF Safe, Cancellable, NewOK, RunOK, SilentOK
<1>3. CASE EraseRemoved
  <2>1. /\ tm.pos \in 1..Len(list) /\ Cur = list[tm.pos] /\ Cur \in alive /\ Cur \in Items
        /\ Listed(Cur) /\ tm.cur = None /\ ~Locked /\ tm.at = "scan" /\ ~Fires(Cur)
    BY <1>0, <1>3, CurFact DEF EraseRemoved, TmAt, Locked, Fires
  <2>2. /\ UNCHANGED <<phase, ptr, cl, tm>> /\ list' = RemoveAt(list, tm.pos) /\ Delete(Cur)
    BY <1>3 DEF EraseRemoved
  <2>3. /\ alive' = alive \ {Cur} /\ \A j \in Items : j # Cur => item'[j] = item[j]
        /\ Fewer
    BY <1>0, <2>1, <2>2, FewerByDelete
  <2>4. ~Locked' /\ \A x : Listed(x)' => Listed(x) /\ x # Cur
    <3>1. ~Locked'
      BY <2>1, <2>2 DEF Locked
    <3>2. \A x : In(RemoveAt(list, tm.pos), x) => In(list, x) /\ x # list[tm.pos]
      BY <1>0, <2>1, TakeOutFact DEF TypeOK
    <3> QED
      BY <2>1, <2>2, <3>1, <3>2 DEF Listed
  <2>5. Cancellable' /\ NewOK' /\ RunOK' /\ SilentOK'
    BY <1>0, <2>1, <2>2, <2>3, <2>4 DEF Fewer, Cancellable, NewOK, RunOK, SilentOK
  <2>6. AddressOK'
    BY <1>0, <2>2, <2>3 DEF AddressOK, TypeOK
  <2> QED
    BY <2>5, <2>6 DEF Safe
<1>4. CASE OnTrigger
  <2>1. /\ tm.pos \in 1..Len(list) /\ Cur = list[tm.pos] /\ Cur \in alive /\ Cur \in Items
        /\ Listed(Cur) /\ tm.cur = None /\ ~Locked /\ tm.at = "scan"
    BY <1>0, <1>4, CurFact DEF OnTrigger, TmAt, Locked
  <2>2. /\ UNCHANGED <<phase, alive, ptr, cl>> /\ list' = RemoveAt(list, tm.pos)
        /\ item' = [item EXCEPT ![Cur].due = FALSE] /\ Fires(Cur)
        /\ tm' = [tm EXCEPT !.at = "call", !.cur = Cur, !.trig = item[Cur].trig]
    BY <1>4, <2>1 DEF OnTrigger, Fires
  <2>3. /\ \A i \in Items : item'[i].trig = item[i].trig /\ (Fires(i)' <=> Fires(i))
        /\ tm'.at = "call" /\ tm'.pos = tm.pos /\ tm'.cur = Cur /\ tm'.trig = item[Cur].trig
        /\ Locked' /\ item[Cur].trig \in Triggers
    BY <1>0, <2>1, <2>2 DEF TypeOK, Fires, Locked
  <2>4. /\ \A x : Listed(x)' => Listed(x) /\ x # Cur
        /\ Len(list') = Len(list) - 1 /\ Len(list) \in Nat
    BY <1>0, <2>1, <2>2, TakeOutFact, LenProperties DEF TypeOK, Listed
  <2>5. tm'.pos \in 1..(Len(list') + 1)
    BY <2>1, <2>3, <2>4
  <2>6. ptr[item[Cur].trig] = Cur
    BY <1>0, <2>1, <2>2, TimerAssumption DEF Cancellable
  <2>7. \A i \in Items : Fires(i) /\ item[i].trig = item[Cur].trig => i = Cur
    BY <1>0, <2>1, <2>6, TimerAssumption DEF Cancellable
  <2>8. /\ cl[item[Cur].trig] # "insert"
        /\ cl[item[Cur].trig] \notin {"detach", "forget", "barrier", "idle"}
    BY <1>0, <2>1, <2>2, <2>3, <2>6, TimerAssumption DEF NewOK, SilentOK
  <2>9. Cancellable' /\ NewOK' /\ AddressOK'
    <3>1. Cancellable'
      BY <1>0, <2>1, <2>2, <2>3, TimerAssumption DEF Cancellable
    <3>2. NewOK'
      BY <1>0, <2>1, <2>2, <2>3, <2>4 DEF NewOK
    <3>3. AddressOK'
      BY <1>0, <2>2, <2>3 DEF AddressOK, TypeOK
    <3> QED
      BY <3>1, <3>2, <3>3
  <2>10. RunOK'
    <3>1. phase # "off"
      BY <1>0, <2>1 DEF RunOK
    <3> QED
      BY <2>1, <2>2, <2>3, <2>4, <2>5, <2>7, <3>1 DEF RunOK
  <2>11. SilentOK'
    BY <1>0, <2>1, <2>2, <2>3, <2>8, TimerAssumption DEF SilentOK
  <2> QED
    BY <2>9, <2>10, <2>11 DEF Safe
<1>5. CASE Returned
  <2>1. /\ UNCHANGED <<phase, alive, item, list, ptr, cl>> /\ tm.at = "call" /\ tm'.at = "done"
        /\ tm'.pos = tm.pos /\ tm'.cur = tm.cur /\ tm'.trig = tm.trig
    BY <1>0, <1>5 DEF Returned, TmAt, TypeOK
  <2>2. Locked /\ Locked' /\ \A i : Fires(i)' = Fires(i) /\ Listed(i)' = Listed(i)
    BY <2>1 DEF Fires, Listed, In, Locked
  <2> QED
    BY <1>0, <2>1, <2>2 DEF Safe, Cancellable, NewOK, RunOK, SilentOK, AddressOK
<1>6. CASE OneShotDone
  <2>1. /\ tm.at = "done" /\ Locked /\ tm.cur \in alive /\ tm.cur \in Items /\ tm.trig \in Triggers
        /\ tm.trig \notin Repeated /\ tm.pos \in 1..(Len(list) + 1) /\ phase # "off"
        /\ ~Listed(tm.cur)
    BY <1>0, <1>6 DEF OneShotDone, TmAt, RunOK, Locked, TypeOK
  <2>2. /\ UNCHANGED <<phase, list, cl>> /\ ptr' = [ptr EXCEPT ![tm.trig] = None] /\ Delete(tm.cur)
        /\ tm'.at = "scan" /\ tm'.cur = None /\ tm'.pos = tm.pos
    BY <1>6 DEF OneShotDone, Thread
  <2>3. /\ alive' = alive \ {tm.cur} /\ \A j \in Items : j # tm.cur => item'[j] = item[j]
        /\ Fewer
    BY <1>0, <2>1, <2>2, FewerByDelete
  <2>4. /\ ~Locked' /\ \A x : Listed(x)' = Listed(x)
        /\ \A i \in Items : Fires(i)' => i # tm.cur /\ item'[i].trig # tm.trig
    BY <1>0, <2>1, <2>2, <2>3 DEF Locked, Listed, In, RunOK, Fires, Fewer
  <2>5. \A u \in Triggers : ptr'[u] = IF u = tm.trig THEN None ELSE ptr[u]
    BY <1>0, <2>1, <2>2 DEF TypeOK
  <2>6. Cancellable'
    <3>1. \A i \in Items : Fires(i)' => item'[i].trig \in Triggers
      BY <1>0, <2>3 DEF TypeOK, Fires, Fewer
    <3> QED
      BY <1>0, <2>3, <2>4, <2>5, <3>1 DEF Cancellable, Fewer
  <2>7. NewOK'
    <3>1. \A u \in Triggers : cl[u] = "insert" => u # tm.trig /\ ptr[u] # tm.cur
      BY <1>0, <2>1 DEF SilentOK, NewOK
    <3>2. None \notin alive
      BY <1>0, TimerAssumption DEF TypeOK
    <3> QED
      BY <1>0, <2>2, <2>3, <2>4, <2>5, <3>1, <3>2 DEF NewOK
  <2>8. RunOK'
    BY <2>1, <2>2, <2>4 DEF RunOK
  <2>9. SilentOK'
    BY <1>0, <2>1, <2>2, <2>3, <2>4 DEF SilentOK, Fewer
  <2>10. AddressOK'
    <3>1. None \notin alive'
      BY <1>0, <2>3, TimerAssumption DEF TypeOK
    <3>2. /\ \A u \in Triggers : ptr'[u] \in alive' => u # tm.trig /\ ptr'[u] = ptr[u] /\ ptr[u] \in alive /\ ptr[u] # tm.cur
          /\ \A u \in Triggers : ptr'[u] # None => u # tm.trig /\ ptr'[u] = ptr[u]
      BY <2>3, <2>5, <3>1
    <3>3. \A u \in Triggers : ptr'[u] \in alive' => item'[ptr'[u]] = item[ptr[u]]
      BY <1>0, <2>3, <3>2 DEF TypeOK
    <3> QED
      BY <1>0, <3>2, <3>3 DEF AddressOK
  <2> QED
    BY <2>6, <2>7, <2>8, <2>9, <2>10 DEF Safe
<1>7. CASE PutBack
  <2> DEFINE place == PlaceOf(list, Period[tm.trig])
  <2>1. /\ tm.at = "done" /\ Locked /\ tm.cur \in alive /\ tm.cur \in Items /\ tm.trig \in Triggers
        /\ tm.trig \in Repeated /\ phase # "off" /\ ~Listed(tm.cur)
    BY <1>0, <1>7 DEF PutBack, TmAt, RunOK, Locked, TypeOK
  <2>2. place \in 1..(Len(list) + 1) /\ place # 0
    <3>1. place \in 1..(Len(list) + 1) /\ Len(list) \in Nat
      BY <1>0, PlaceFact, LenProperties DEF TypeOK
    <3> HIDE DEF place
    <3> QED
      BY <3>1
  <2>3. /\ UNCHANGED <<phase, alive, ptr, cl>> /\ list' = InsertAt(list, place, tm.cur)
        /\ item' = [item EXCEPT ![tm.cur].left = Period[tm.trig]]
        /\ tm'.at = "scan" /\ tm'.cur = None /\ tm'.pos = place
    BY <1>7 DEF PutBack, Thread
  <2> HIDE DEF place
  <2>4. /\ \A i \in Items : item'[i].trig = item[i].trig /\ (Fires(i)' <=> Fires(i))
        /\ ~Locked'
    BY <1>0, <2>1, <2>3 DEF TypeOK, Fires, Locked
  <2>5. \A x : Listed(x)' => Listed(x) \/ x = tm.cur
    BY <1>0, <2>1, <2>2, <2>3, PutInFact DEF TypeOK, Listed
  <2>6. Cancellable'
    <3>1. \A i \in Items : Fires(i) => ptr[item[i].trig] = i
      <4> SUFFICES ASSUME NEW i \in Items, Fires(i), i = tm.cur, item[i].trig \notin Repeated
                   PROVE  FALSE
        BY <1>0 DEF Cancellable
      <4> QED
        BY <1>0, <2>1 DEF RunOK, Fires
    <3> QED
      BY <2>3, <2>4, <3>1 DEF Cancellable
  <2>7. NewOK'
    <3>1. /\ \A u \in Triggers : cl[u] = "insert" => ptr[u] # tm.cur
          /\ None \notin alive
      BY <1>0, TimerAssumption DEF NewOK, TypeOK
    <3> QED
      BY <1>0, <2>3, <2>5, <3>1 DEF NewOK
  <2>8. RunOK'
    BY <2>1, <2>2, <2>3, <2>4 DEF RunOK
  <2>9. SilentOK'
    <3>1. \A u \in Triggers : cl[u] \in {"detach", "forget", "barrier", "idle"} =>
            \A i \in Items : Fires(i) => item[i].trig # u
      <4> SUFFICES ASSUME NEW u \in Triggers, cl[u] \in {"detach", "forget", "barrier", "idle"},
                          NEW i \in Items, Fires(i), item[i].trig = u
                   PROVE  FALSE
        OBVIOUS
      <4>1. tm.cur = i /\ u \notin Repeated
        BY <1>0 DEF SilentOK
      <4> QED
        BY <1>0, <2>1, <4>1 DEF RunOK, Fires
    <3> QED
      BY <2>3, <2>4, <3>1 DEF SilentOK
  <2>10. AddressOK'
    BY <1>0, <2>3, <2>4 DEF AddressOK, TypeOK
  <2> QED
    BY <2>6, <2>7, <2>8, <2>9, <2>10 DEF Safe
<1> QED
  BY <1>1, <1>2, <1>3, <1>4, <1>5, <1>6, <1>7 DEF MainLoop

LEMMA SafeStep == IInv /\ [Next]_vars => Safe'
<1> SUFFICES ASSUME IInv, [Next]_vars PROVE Safe'
  OBVIOUS
<1>0. TypeOK /\ Cancellable /\ NewOK /\ RunOK /\ SilentOK /\ AddressOK
  BY DEF IInv
<1>1. ASSUME NEW i \in Items, TicksPass(i) PROVE Safe'
  <2>1. /\ UNCHANGED <<phase, alive, list, ptr, cl, tm>>
        /\ \A j \in Items : item'[j].trig = item[j].trig /\ (Fires(j)' <=> Fires(j))
    BY <1>0, <1>1 DEF TicksPass, TypeOK, Fires
  <2>2. Locked' = Locked /\ \A x : Listed(x)' = Listed(x)
    BY <2>1 DEF Locked, Listed, In
  <2>3. RunOK' /\ AddressOK'
    BY <1>0, <2>1, <2>2 DEF RunOK, AddressOK, TypeOK
  <2> QED
    BY <1>0, <2>1, <2>2, <2>3 DEF Safe, Cancellable, NewOK, SilentOK
<1>2. CASE UNCHANGED vars
  <2>1. /\ UNCHANGED <<phase, alive, item, list, ptr, cl, tm>>
        /\ Locked' = Locked /\ \A x : Listed(x)' = Listed(x) /\ Fires(x)' = Fires(x)
    BY <1>2 DEF vars, Locked, Listed, In, Fires
  <2> QED
    BY <1>0, <2>1 DEF Safe, Cancellable, NewOK, RunOK, SilentOK, AddressOK
<1> QED
  BY <1>1, <1>2, OwnerStep, ClientStep, ThreadStep DEF Next

LEMMA Inductive == Spec => []IInv
<1>1. IInv /\ [Next]_vars => IInv'
  BY TypeStep, SafeStep DEF IInv, Safe
<1> QED
  BY Initially, <1>1, PTL DEF Spec
-----------------------------------------------------------------------------
\* The variables keep their types: the list holds living items only, each once,
\* and the item whose callback runs is not deleted under it (mainLoop).
THEOREM TypeCorrect == Spec => []TypeOK
<1>1. IInv => TypeOK
  BY DEF IInv
<1> QED
  BY Inductive, <1>1, PTL

\* Whatever may fire is found by cancelTimer through its trigger, whether
\* addresses are used again or not, and whatever the order of the unlocked
\* writes of cancellations.
THEOREM NothingEscapes == Spec => []Cancellable
<1>1. IInv => Cancellable
  BY DEF IInv
<1> QED
  BY Inductive, <1>1, PTL

-----------------------------------------------------------------------------
(* The list is ordered by the scale at which an item is due.               *)

\* y stands before x in the list.
Before(y, x) == \E j, k \in DOMAIN list : j < k /\ list[j] = y /\ list[k] = x

\* The list is ordered, an item is never due later than after its period, and
\* one whose callback runs was not ahead of its place.
OrderOK ==
  /\ \A j, k \in DOMAIN list : j < k => item[list[j]].left <= item[list[k]].left
  /\ \A i \in Items : item[i].trig # None => item[i].left <= Period[item[i].trig]
  /\ Locked => \A k \in DOMAIN list : k < tm.pos => item[list[k]].left <= Period[tm.trig]

\* Whatever has been passed over is due, and stands before the item that has
\* taken the iterator over it; so that one is not looked at again first.
JumpsOK ==
  \A x, y \in Items : jumped[x][y] # 0 =>
    /\ jumped[x][y] = 1 /\ item[y].left = 0
    /\ IF Locked /\ tm.cur = x THEN \E k \in DOMAIN list : k < tm.pos /\ list[k] = y
       ELSE Before(y, x)

\* Where the entry at i is after one has been put in at k, or taken out there.
Up(k, i) == IF i < k THEN i ELSE i + 1
Down(k, i) == IF i < k THEN i ELSE i - 1

\* What stays in a list keeps its order.
LEMMA TakenOut ==
  ASSUME NEW S, NEW s \in Seq(S), NEW k \in DOMAIN s
  PROVE  LET r == RemoveAt(s, k) IN
         /\ \A i \in DOMAIN r : Up(k, i) \in DOMAIN s \ {k} /\ r[i] = s[Up(k, i)]
         /\ \A i \in DOMAIN s \ {k} : Down(k, i) \in DOMAIN r /\ r[Down(k, i)] = s[i]
         /\ \A i, j \in DOMAIN r : i < j => Up(k, i) < Up(k, j)
         /\ \A i, j \in DOMAIN s \ {k} : i < j => Down(k, i) < Down(k, j)
         /\ \A i \in DOMAIN r : i < k => Up(k, i) = i
         /\ \A i \in DOMAIN s : i < k => Down(k, i) = i
<1> DEFINE r == RemoveAt(s, k)
<1>1. k \in 1..Len(s) /\ Len(s) \in Nat /\ DOMAIN s = 1..Len(s)
  BY LenProperties
<1>2. DOMAIN r = 1..(Len(s) - 1) /\ \A i \in 1..(Len(s) - 1) : r[i] = s[Up(k, i)]
  BY <1>1, RemoveFact DEF Up
<1> HIDE DEF r
<1>3. \A i \in 1..(Len(s) - 1) : Up(k, i) \in 1..Len(s) /\ Up(k, i) # k
  BY <1>1 DEF Up
<1>4. \A i \in 1..Len(s) : i # k => Down(k, i) \in 1..(Len(s) - 1) /\ Up(k, Down(k, i)) = i
  BY <1>1 DEF Up, Down
<1>5. /\ \A i, j \in 1..(Len(s) - 1) : i < j => Up(k, i) < Up(k, j)
      /\ \A i, j \in 1..Len(s) : i # k /\ j # k /\ i < j => Down(k, i) < Down(k, j)
  BY <1>1 DEF Up, Down
<1> QED
  BY <1>1, <1>2, <1>3, <1>4, <1>5 DEF Up, Down, r

LEMMA PutIn ==
  ASSUME NEW S, NEW s \in Seq(S), NEW e \in S, NEW k \in 1..(Len(s) + 1)
  PROVE  LET r == InsertAt(s, k, e) IN
         /\ k \in DOMAIN r /\ r[k] = e
         /\ \A i \in DOMAIN r \ {k} : Down(k, i) \in DOMAIN s /\ r[i] = s[Down(k, i)]
         /\ \A i \in DOMAIN s : Up(k, i) \in DOMAIN r \ {k} /\ r[Up(k, i)] = s[i]
         /\ \A i, j \in DOMAIN r \ {k} : i < j => Down(k, i) < Down(k, j)
         /\ \A i, j \in DOMAIN s : i < j => Up(k, i) < Up(k, j)
         /\ \A i \in DOMAIN r : i < k => Down(k, i) = i
         /\ \A i \in DOMAIN r : i > k => Down(k, i) >= k
         /\ \A i \in DOMAIN s : i < k => Up(k, i) = i
<1> DEFINE r == InsertAt(s, k, e)
<1>1. k \in 1..(Len(s) + 1) /\ Len(s) \in Nat /\ DOMAIN s = 1..Len(s)
  BY LenProperties
<1>2. /\ DOMAIN r = 1..(Len(s) + 1)
      /\ \A i \in 1..(Len(s) + 1) : r[i] = IF i = k THEN e ELSE s[Down(k, i)]
  <2>1. /\ DOMAIN r = 1..(Len(s) + 1)
        /\ \A i \in 1..(Len(s) + 1) : r[i] = IF i = k THEN e ELSE s[IF i < k THEN i ELSE i - 1]
    BY InsertFact
  <2> HIDE DEF r
  <2> QED
    BY <2>1 DEF Down
<1> HIDE DEF r
<1>3. \A i \in 1..(Len(s) + 1) : i # k => Down(k, i) \in 1..Len(s)
  BY <1>1 DEF Down
<1>4. \A i \in 1..Len(s) : Up(k, i) \in 1..(Len(s) + 1) /\ Up(k, i) # k /\ Down(k, Up(k, i)) = i
  BY <1>1 DEF Up, Down
<1>5. /\ \A i, j \in 1..Len(s) : i < j => Up(k, i) < Up(k, j)
      /\ \A i, j \in 1..(Len(s) + 1) : i # k /\ j # k /\ i < j => Down(k, i) < Down(k, j)
      /\ \A i \in 1..(Len(s) + 1) : i > k => Down(k, i) >= k
  BY <1>1 DEF Up, Down
<1> QED
  BY <1>1, <1>2, <1>3, <1>4, <1>5 DEF Up, Down, r

LEMMA LeastFact ==
  ASSUME NEW T, T \subseteq Nat, T # {} PROVE \E x \in T : \A y \in T : x <= y
<1> DEFINE R == OpToRel(<, Nat)
<1>1. R = {ss \in Nat \X Nat : ss[1] < ss[2]}
  BY DEF OpToRel
<1>2. IsWellFoundedOn(R, Nat)
  BY NatLessThanWellFounded
<1> HIDE DEF R
<1>3. PICK x \in T : \A y \in T : ~(<<y, x>> \in R)
  BY <1>2, WFMin
<1>4. \A y \in T : x \in Nat /\ y \in Nat /\ ~(y < x)
  BY <1>1, <1>3
<1> QED
  BY <1>3, <1>4

\* In an ordered list, the place for a key is behind the keys up to it, and
\* before those beyond it.
LEMMA PlaceOrder ==
  ASSUME NEW S, NEW s \in Seq(S), NEW n, \A k \in DOMAIN s : item[s[k]].left \in Nat, n \in Nat,
         \A j, k \in DOMAIN s : j < k => item[s[j]].left <= item[s[k]].left
  PROVE  /\ \A k \in DOMAIN s : k < PlaceOf(s, n) => item[s[k]].left <= n
         /\ \A k \in DOMAIN s : k >= PlaceOf(s, n) => item[s[k]].left > n
<1> DEFINE K == {k \in DOMAIN s : item[s[k]].left <= n}
           Over == {k \in DOMAIN s : ~(item[s[k]].left <= n)}
<1>1. Len(s) \in Nat /\ DOMAIN s = 1..Len(s)
  BY LenProperties
<1>2. \A m \in Nat : Cardinality(1..m) = m
  BY FS_Interval
<1>3. PlaceOf(s, n) = Cardinality(K) + 1
  BY DEF PlaceOf
<1>4. CASE Over = {}
  <2>1. K = 1..Len(s)
    BY <1>1, <1>4
  <2>2. PlaceOf(s, n) = Len(s) + 1
    BY <1>1, <1>2, <1>3, <2>1
  <2> QED
    BY <1>1, <1>4, <2>2
<1>5. CASE Over # {}
  <2>1. Over \subseteq Nat
    BY <1>1
  <2>2. PICK m \in Over : \A k \in Over : m <= k
    BY <1>5, <2>1, LeastFact
  <2>3. m \in 1..Len(s) /\ ~(item[s[m]].left <= n)
    BY <1>1, <2>2
  <2>4. \A k \in DOMAIN s : k < m => item[s[k]].left <= n
    BY <1>1, <2>2
  <2>5. \A k \in DOMAIN s : k >= m => ~(item[s[k]].left <= n)
    BY <1>1, <2>3
  <2>6. K = 1..(m - 1) /\ m - 1 \in Nat
    BY <1>1, <2>3, <2>4, <2>5
  <2>7. PlaceOf(s, n) = m
    <3> HIDE DEF K
    <3>1. Cardinality(K) = m - 1
      BY <1>2, <2>6
    <3> QED
      BY <1>3, <2>3, <3>1
  <2> QED
    BY <2>4, <2>5, <2>7
<1> QED
  BY <1>4, <1>5

\* A step that leaves the list alone.
LEMMA StillStep ==
  ASSUME IInv, OrderOK, JumpsOK, list' = list,
         \A i \in Items : item[i].trig # None /\ item'[i].trig # None => item'[i].trig = item[i].trig,
         \A i \in alive : \A j \in alive : item[i].left <= item[j].left => item'[i].left <= item'[j].left,
         \A i \in alive : item[i].left = 0 => item'[i].left = 0,
         \A i \in Items : item'[i].trig # None =>
           item'[i].left <= Period[item'[i].trig] \/ (item[i].trig # None /\ item'[i].left <= item[i].left),
         \A i \in Items : item'[i].left \in Nat /\ item'[i].trig \in Triggers \cup {None},
         Locked' => Locked /\ tm'.pos = tm.pos /\ tm'.trig = tm.trig /\ tm'.cur = tm.cur
                      /\ \A i \in alive : item'[i].left = item[i].left,
         \A x, y \in Items : jumped'[x][y] # 0 =>
           jumped'[x][y] = jumped[x][y] /\ (Locked /\ tm.cur = x => Locked')
  PROVE  OrderOK' /\ JumpsOK'
<1>0. /\ TypeOK /\ \A k \in DOMAIN list : list[k] \in alive /\ list[k] \in Items
      /\ Period \in [Triggers -> Nat \ {0}]
  BY ElementOfSeq, LenProperties, TimerAssumption DEF IInv, TypeOK
<1>1. \A i \in Items : item'[i].trig # None => item'[i].left <= Period[item'[i].trig]
  <2> SUFFICES ASSUME NEW i \in Items, item'[i].trig # None, item[i].trig # None,
                      item'[i].left <= item[i].left
               PROVE  item'[i].left <= Period[item'[i].trig]
    OBVIOUS
  <2>1. item'[i].trig = item[i].trig /\ item[i].left <= Period[item[i].trig]
    BY DEF OrderOK
  <2>2. item[i].left \in Nat /\ Period[item[i].trig] \in Nat /\ item'[i].left \in Nat
    BY <1>0, <2>1 DEF TypeOK
  <2> QED
    BY <2>1, <2>2
<1>2. OrderOK'
  BY <1>0, <1>1 DEF OrderOK
<1>3. ASSUME NEW x \in Items, NEW y \in Items, jumped'[x][y] # 0
      PROVE  /\ jumped'[x][y] = 1 /\ item'[y].left = 0
             /\ IF Locked' /\ tm'.cur = x THEN \E k \in DOMAIN list' : k < tm'.pos /\ list'[k] = y
                ELSE Before(y, x)'
  <2>1. jumped[x][y] = 1 /\ jumped'[x][y] = 1 /\ item[y].left = 0
    BY <1>3 DEF JumpsOK
  <2>2. y \in alive
    BY <1>0, <2>1 DEF JumpsOK, Before
  <2>3. IF Locked /\ tm.cur = x THEN \E k \in DOMAIN list : k < tm.pos /\ list[k] = y
        ELSE Before(y, x)
    BY <2>1 DEF JumpsOK
  <2>4. Before(y, x)' = Before(y, x)
    BY DEF Before
  <2> QED
    BY <1>3, <2>1, <2>2, <2>3, <2>4
<1> QED
  BY <1>2, <1>3 DEF JumpsOK

LEMMA SameItems ==
  ASSUME IInv, OrderOK, JumpsOK, UNCHANGED <<alive, item, list, jumped>>,
         (Locked /\ Locked' /\ tm'.pos = tm.pos /\ tm'.trig = tm.trig /\ tm'.cur = tm.cur) \/ (~Locked /\ ~Locked')
  PROVE  OrderOK' /\ JumpsOK'
<1>1. \A i \in Items : item[i].left \in Nat /\ item[i].trig \in Triggers \cup {None}
  BY DEF IInv, TypeOK
<1>2. \A i \in Items : item[i].trig # None => item[i].left <= Period[item[i].trig]
  BY DEF OrderOK
<1> QED
  BY <1>1, <1>2, StillStep
  
LEMMA OwnerOrder == ASSUME IInv, OrderOK, JumpsOK, Owner PROVE OrderOK' /\ JumpsOK'
<1>0. RunOK /\ TypeOK
  BY DEF IInv
<1>1. CASE Start \/ Exit \/ Joined
  BY <1>0, <1>1, SameItems DEF Start, Exit, Joined, Thread, Locked, RunOK
<1>2. CASE ClearTimer
  <2>1. list' = <<>> /\ ~Locked' /\ \A x, y \in Items : jumped'[x][y] = 0
    BY <1>2 DEF ClearTimer, NoJumps, Unlocked, Locked
  <2>2. \A i \in Items : item'[i] \in {Blank, item[i]}
    BY <1>2 DEF ClearTimer
  <2> QED
    BY <2>1, <2>2 DEF OrderOK, JumpsOK, Blank
<1> QED
  BY <1>1, <1>2 DEF Owner

\* An item is put into its place, where the order is kept.
LEMMA InsertStep ==
  ASSUME TypeOK, OrderOK, JumpsOK, NEW e \in alive, ~Listed(e), NEW p, p = PlaceOf(list, item'[e].left),
         list' = InsertAt(list, p, e), \A i \in Items : i # e => item'[i].left = item[i].left,
         item'[e].left \in Nat
  PROVE  /\ \A j, k \in DOMAIN list' : j < k => item'[list'[j]].left <= item'[list'[k]].left
         /\ \A x, y : Before(y, x) => Before(y, x)'
         /\ \A k \in DOMAIN list : k < p => k \in DOMAIN list' /\ list'[k] = list[k]
         /\ p \in DOMAIN list' /\ list'[p] = e
<1>0. /\ list \in Seq(alive) /\ \A k \in DOMAIN list : list[k] \in alive /\ list[k] # e /\ list[k] \in Items
      /\ \A k \in DOMAIN list : item[list[k]].left \in Nat /\ item'[list[k]].left = item[list[k]].left
      /\ p \in 1..(Len(list) + 1) /\ Len(list) \in Nat /\ e \in Items
  <2>1. p \in 1..(Len(list) + 1)
    BY PlaceFact DEF TypeOK
  <2>2. list \in Seq(alive) /\ \A k \in DOMAIN list : list[k] \in alive /\ list[k] # e
    BY LenProperties, ElementOfSeq DEF TypeOK, Listed, In
  <2>3. alive \subseteq Items /\ \A i \in Items : item[i].left \in Nat
    BY DEF TypeOK
  <2> QED
    BY <2>1, <2>2, <2>3, LenProperties
<1>1. /\ \A k \in DOMAIN list : k < p => item[list[k]].left <= item'[e].left
      /\ \A k \in DOMAIN list : k >= p => item[list[k]].left > item'[e].left
  BY <1>0, PlaceOrder DEF OrderOK
<1>2. /\ p \in DOMAIN list' /\ list'[p] = e
      /\ \A i \in DOMAIN list' \ {p} : Down(p, i) \in DOMAIN list /\ list'[i] = list[Down(p, i)]
      /\ \A i \in DOMAIN list : Up(p, i) \in DOMAIN list' \ {p} /\ list'[Up(p, i)] = list[i]
      /\ \A i, j \in DOMAIN list' \ {p} : i < j => Down(p, i) < Down(p, j)
      /\ \A i, j \in DOMAIN list : i < j => Up(p, i) < Up(p, j)
      /\ \A i \in DOMAIN list' : i < p => Down(p, i) = i
      /\ \A i \in DOMAIN list' : i > p => Down(p, i) >= p
      /\ \A i \in DOMAIN list : i < p => Up(p, i) = i
  BY <1>0, PutIn
<1>3. ASSUME NEW j \in DOMAIN list', NEW k \in DOMAIN list', j < k
      PROVE  item'[list'[j]].left <= item'[list'[k]].left
  <2>1. CASE j # p /\ k # p
    BY <1>0, <1>2, <1>3, <2>1 DEF OrderOK
  <2>2. CASE j = p
    <3>1. k > p /\ k # p /\ k \in DOMAIN list'
      BY <1>0, <1>3, <2>2
    <3>2. Down(p, k) >= p /\ Down(p, k) \in DOMAIN list /\ list'[k] = list[Down(p, k)]
      BY <1>2, <3>1
    <3>3. item[list[Down(p, k)]].left > item'[e].left /\ item[list[Down(p, k)]].left \in Nat
      BY <1>0, <1>1, <3>2
    <3> QED
      BY <1>0, <1>2, <2>2, <3>2, <3>3
  <2>3. CASE k = p
    <3>1. j < p /\ j # p /\ j \in DOMAIN list'
      BY <1>0, <1>3, <2>3
    <3>2. Down(p, j) < p /\ Down(p, j) \in DOMAIN list /\ list'[j] = list[Down(p, j)]
      BY <1>2, <3>1
    <3>3. item[list[Down(p, j)]].left <= item'[e].left
      BY <1>1, <3>2
    <3> QED
      BY <1>0, <1>2, <2>3, <3>2, <3>3
  <2> QED
    BY <2>1, <2>2, <2>3
<1>4. ASSUME NEW x, NEW y, Before(y, x) PROVE Before(y, x)'
  BY <1>2, <1>4 DEF Before
<1> QED
  BY <1>2, <1>3, <1>4

LEMMA ClientOrder ==
  ASSUME IInv, OrderOK, JumpsOK, NEW t \in Triggers, Client(t) PROVE OrderOK' /\ JumpsOK'
<1>0. /\ RunOK /\ TypeOK /\ NewOK /\ Blank.left = 0 /\ Period \in [Triggers -> Nat \ {0}] /\ alive \subseteq Items
      /\ \A i \in Items : item[i].left \in Nat /\ item[i].trig \in Triggers \cup {None}
      /\ \A i \in Items : item[i].trig # None => item[i].left <= Period[item[i].trig]
  BY TimerAssumption DEF IInv, TypeOK, Blank, OrderOK
<1>1. CASE RegisterTimer(t)
  <2>1. PICK i \in Items \ alive : /\ alive' = alive \cup {i}
                                   /\ item' = [item EXCEPT ![i] = [Blank EXCEPT !.trig = t, !.left = Period[t]]]
    BY <1>1 DEF RegisterTimer
  <2> DEFINE r == [Blank EXCEPT !.trig = t, !.left = Period[t]]
  <2>2. r.left = Period[t] /\ r.trig = t
    BY DEF Blank
  <2>3. item'[i] = r /\ \A j \in Items : j # i => item'[j] = item[j]
    BY <1>0, <2>1 DEF TypeOK
  <2> HIDE DEF r
  <2>4. UNCHANGED <<list, tm, jumped>> /\ Locked' = Locked
    BY <1>1 DEF RegisterTimer, Locked
  <2>5. /\ \A j \in alive : item'[j] = item[j]
        /\ \A j \in Items : item'[j].left \in Nat /\ item'[j].trig \in Triggers \cup {None}
        /\ \A j \in Items : item'[j].trig # None => item'[j].left <= Period[item'[j].trig]
    BY <1>0, <2>1, <2>2, <2>3
  <2>6. \A k \in DOMAIN list : list[k] \in alive
    BY <1>0, ElementOfSeq, LenProperties DEF TypeOK
  <2>7. OrderOK'
    BY <2>4, <2>5, <2>6 DEF OrderOK
  <2>8. \A x, y \in Items : jumped[x][y] # 0 => y \in alive
    BY <2>6 DEF JumpsOK, Before
  <2>9. \A x, y : Before(y, x)' = Before(y, x)
    BY <2>4 DEF Before
  <2>10. JumpsOK'
    BY <2>4, <2>5, <2>8, <2>9 DEF JumpsOK
  <2> QED
    BY <2>7, <2>10
<1>2. CASE Insert(t)
  <2>1. /\ ptr[t] \in alive /\ ~Listed(ptr[t]) /\ UNCHANGED <<alive, item, tm, jumped>> /\ ~Locked /\ ~Locked'
        /\ list' = InsertAt(list, PlaceOf(list, item[ptr[t]].left), ptr[t])
    BY <1>0, <1>2 DEF Insert, NewOK, Unlocked, Locked
  <2>2. /\ \A j, k \in DOMAIN list' : j < k => item'[list'[j]].left <= item'[list'[k]].left
        /\ \A x, y : Before(y, x) => Before(y, x)'
    BY <1>0, <2>1, InsertStep
  <2> QED
    BY <2>1, <2>2 DEF OrderOK, JumpsOK
<1>3. CASE CancelTimer(t) \/ ForgetItem(t) \/ Barrier(t)
  BY <1>3, SameItems DEF CancelTimer, ForgetItem, Barrier, Locked
<1>4. CASE Mark(t) \/ Detach(t)
  <2>1. UNCHANGED <<list, tm, jumped>> /\ Locked' = Locked
    BY <1>4 DEF Mark, Detach, Locked
  <2>2. \A i \in Items : item'[i].left = item[i].left /\ item'[i].trig \in {item[i].trig, None}
    BY <1>0, <1>4 DEF Mark, Detach, TypeOK
  <2>3. \A i \in alive : item'[i].left = item[i].left
    BY <1>0, <2>2
  <2> QED
    BY <1>0, <2>1, <2>2, <2>3, StillStep
<1> QED
  BY <1>1, <1>2, <1>3, <1>4 DEF Client

\* An item is taken out.
LEMMA TakeStep ==
  ASSUME TypeOK, OrderOK, NEW p \in 1..Len(list), list' = RemoveAt(list, p),
         \A i \in Items : i # list[p] => item'[i].left = item[i].left
  PROVE  /\ \A j, k \in DOMAIN list' : j < k => item'[list'[j]].left <= item'[list'[k]].left
         /\ \A x, y : x # list[p] /\ y # list[p] /\ Before(y, x) => Before(y, x)'
         /\ \A k \in DOMAIN list' : k < p => k \in DOMAIN list /\ list'[k] = list[k]
         /\ \A k \in DOMAIN list : k < p => k \in DOMAIN list' /\ list'[k] = list[k]
<1>0. /\ p \in DOMAIN list /\ list \in Seq(alive) /\ \A k \in DOMAIN list : list[k] \in Items /\ k \in Nat
      /\ \A k \in DOMAIN list : list[k] = list[p] => k = p
  BY LenProperties, ElementOfSeq, InjectiveFact DEF TypeOK
<1>1. /\ \A i \in DOMAIN list' : Up(p, i) \in DOMAIN list \ {p} /\ list'[i] = list[Up(p, i)]
      /\ \A i \in DOMAIN list \ {p} : Down(p, i) \in DOMAIN list' /\ list'[Down(p, i)] = list[i]
      /\ \A i, j \in DOMAIN list' : i < j => Up(p, i) < Up(p, j)
      /\ \A i, j \in DOMAIN list \ {p} : i < j => Down(p, i) < Down(p, j)
      /\ \A i \in DOMAIN list' : i < p => Up(p, i) = i
      /\ \A i \in DOMAIN list : i < p => Down(p, i) = i
  BY <1>0, TakenOut
<1>2. \A j, k \in DOMAIN list' : j < k => item'[list'[j]].left <= item'[list'[k]].left
  <2> SUFFICES ASSUME NEW j \in DOMAIN list', NEW k \in DOMAIN list', j < k
               PROVE  item'[list'[j]].left <= item'[list'[k]].left
    OBVIOUS
  <2> DEFINE m == Up(p, j)
             n == Up(p, k)
  <2>1. m \in DOMAIN list \ {p} /\ n \in DOMAIN list \ {p} /\ m < n /\ list'[j] = list[m] /\ list'[k] = list[n]
    BY <1>1
  <2> HIDE DEF m, n
  <2>2. item[list[m]].left <= item[list[n]].left
    BY <2>1 DEF OrderOK
  <2>3. item'[list[m]].left = item[list[m]].left /\ item'[list[n]].left = item[list[n]].left
    BY <1>0, <2>1
  <2> QED
    BY <2>1, <2>2, <2>3
<1>3. ASSUME NEW x, NEW y, x # list[p], y # list[p], Before(y, x) PROVE Before(y, x)'
  <2>1. PICK j, k \in DOMAIN list : j < k /\ list[j] = y /\ list[k] = x
    BY <1>3 DEF Before
  <2>2. j # p /\ k # p
    BY <1>3, <2>1
  <2> QED
    BY <1>1, <2>1, <2>2 DEF Before
<1>4. \A k \in DOMAIN list : k < p => k # p
  BY <1>0
<1> QED
  BY <1>1, <1>2, <1>3, <1>4

LEMMA ThreadOrder == ASSUME IInv, OrderOK, JumpsOK, MainLoop PROVE OrderOK' /\ JumpsOK'
<1>0. /\ RunOK /\ TypeOK /\ Blank.left = 0 /\ Blank.trig = None /\ Period \in [Triggers -> Nat \ {0}]
      /\ alive \subseteq Items
      /\ \A i \in Items : item[i].left \in Nat /\ item[i].trig \in Triggers \cup {None}
      /\ \A i \in Items : item[i].trig # None => item[i].left <= Period[item[i].trig]
      /\ \A x, y \in Items : jumped[x][y] \in 0..2
  BY TimerAssumption DEF IInv, TypeOK, Blank, OrderOK
<1>1. CASE Quit \/ Lock \/ Returned \/ Unlock
  BY <1>0, <1>1, SameItems DEF Quit, Lock, Returned, Unlock, Locked, Thread, TmAt, TypeOK
<1>2. CASE NotYet
  <2>1. Cur \in Items /\ ~Locked
    BY <1>0, <1>2, CurFact DEF NotYet, TmAt, Locked
  <2>2. \A x, y \in Items : jumped'[x][y] # 0 => jumped'[x][y] = jumped[x][y]
    BY <1>0, <1>2, <2>1 DEF NotYet, LookedAt, TypeOK
  <2>3. UNCHANGED <<item, list>> /\ ~Locked'
    BY <1>0, <1>2 DEF NotYet, Locked, TmAt, TypeOK
  <2> QED
    BY <1>0, <2>1, <2>2, <2>3, StillStep
<1>3. CASE Wake
  <2>1. UNCHANGED <<list, jumped>> /\ ~Locked /\ ~Locked'
    BY <1>3 DEF Wake, Locked, Thread, TmAt
  <2>2. \A i \in Items : /\ item'[i].trig = item[i].trig
                         /\ item'[i].left = IF item[i].left > 0 THEN item[i].left - 1 ELSE item[i].left
    BY <1>0, <1>3 DEF Wake, TypeOK
  <2>3. \A i \in Items : /\ item'[i].left \in Nat /\ item'[i].left <= item[i].left
                         /\ item[i].left = 0 => item'[i].left = 0
    BY <1>0, <2>2
  <2>4. \A i, j \in Items : item[i].left <= item[j].left => item'[i].left <= item'[j].left
    BY <1>0, <2>2
  <2> QED
    BY <1>0, <2>1, <2>2, <2>3, <2>4, StillStep
<1>4. CASE EraseRemoved
  <2>1. tm.pos \in 1..Len(list) /\ Cur = list[tm.pos] /\ Cur \in Items /\ ~Locked /\ ~Locked'
    BY <1>0, <1>4, CurFact DEF EraseRemoved, TmAt, Locked
  <2>2. /\ list' = RemoveAt(list, tm.pos) /\ item' = [item EXCEPT ![Cur] = Blank]
        /\ jumped' = [x \in Items |-> [y \in Items |-> IF Cur \in {x, y} THEN 0 ELSE jumped[x][y]]]
    BY <1>4 DEF EraseRemoved, Delete
  <2>3. \A i \in Items : i # Cur => item'[i] = item[i]
    BY <1>0, <2>1, <2>2 DEF TypeOK
  <2>4. item'[Cur] = Blank
    BY <1>0, <2>1, <2>2 DEF TypeOK
  <2>5. \A x, y \in Items : jumped'[x][y] # 0 => jumped'[x][y] = jumped[x][y] /\ x # Cur /\ y # Cur
    BY <2>2
  <2>6. /\ \A j, k \in DOMAIN list' : j < k => item'[list'[j]].left <= item'[list'[k]].left
        /\ \A x, y : x # Cur /\ y # Cur /\ Before(y, x) => Before(y, x)'
    <3>1. \A i \in Items : i # list[tm.pos] => item'[i].left = item[i].left
      BY <2>1, <2>3
    <3> QED
      BY <1>0, <2>1, <2>2, <3>1, TakeStep
  <2>7. \A i \in Items : item'[i].trig # None => item'[i].left <= Period[item'[i].trig]
    BY <1>0, <2>3, <2>4
  <2>8. OrderOK'
    BY <2>1, <2>6, <2>7 DEF OrderOK
  <2>9. JumpsOK'
    BY <2>1, <2>3, <2>5, <2>6 DEF JumpsOK
  <2> QED
    BY <2>8, <2>9
<1>5. CASE OnTrigger
  <2>1. /\ tm.pos \in 1..Len(list) /\ Cur = list[tm.pos] /\ Cur \in Items /\ ~Locked /\ Locked'
        /\ tm'.pos = tm.pos /\ tm'.cur = Cur /\ tm'.trig = item[Cur].trig /\ tm.pos \in Nat
        /\ tm.pos \in DOMAIN list /\ \A k \in DOMAIN list : k \in Nat
    BY <1>0, <1>5, CurFact, LenProperties DEF OnTrigger, TmAt, Locked, TypeOK
  <2>2. /\ list' = RemoveAt(list, tm.pos) /\ item' = [item EXCEPT ![Cur].due = FALSE]
        /\ jumped' = [x \in Items |-> [jumped[x] EXCEPT ![Cur] = 0]] /\ item[Cur].trig # None
    BY <1>5 DEF OnTrigger, LookedAt
  <2>3. \A i \in Items : item'[i].left = item[i].left /\ item'[i].trig = item[i].trig
    BY <1>0, <2>2 DEF TypeOK
  <2>4. \A x, y \in Items : jumped'[x][y] # 0 => jumped'[x][y] = jumped[x][y] /\ y # Cur
    BY <1>0, <2>1, <2>2 DEF TypeOK
  <2>5. /\ \A j, k \in DOMAIN list' : j < k => item'[list'[j]].left <= item'[list'[k]].left
        /\ \A x, y : x # Cur /\ y # Cur /\ Before(y, x) => Before(y, x)'
        /\ \A k \in DOMAIN list' : k < tm.pos => k \in DOMAIN list /\ list'[k] = list[k]
        /\ \A k \in DOMAIN list : k < tm.pos => k \in DOMAIN list' /\ list'[k] = list[k]
    BY <1>0, <2>1, <2>2, <2>3, TakeStep
  <2>6. \A k \in DOMAIN list' : k < tm'.pos => item'[list'[k]].left <= Period[tm'.trig]
    <3> SUFFICES ASSUME NEW k \in DOMAIN list', k < tm.pos PROVE item'[list'[k]].left <= Period[item[Cur].trig]
      BY <2>1
    <3>1. k \in DOMAIN list /\ list'[k] = list[k] /\ list[k] \in Items
      BY <1>0, <2>5, ElementOfSeq, LenProperties DEF TypeOK
    <3>2. item[list[k]].left <= item[Cur].left
      BY <2>1, <3>1 DEF OrderOK
    <3>3. item[Cur].left <= Period[item[Cur].trig] /\ Period[item[Cur].trig] \in Nat
      BY <1>0, <2>1, <2>2
    <3> QED
      BY <1>0, <2>1, <2>3, <3>1, <3>2, <3>3
  <2>7. OrderOK'
    BY <1>0, <2>3, <2>5, <2>6 DEF OrderOK
  <2>8. ASSUME NEW x \in Items, NEW y \in Items, jumped'[x][y] # 0
        PROVE  /\ jumped'[x][y] = 1 /\ item'[y].left = 0
               /\ IF Locked' /\ tm'.cur = x THEN \E k \in DOMAIN list' : k < tm'.pos /\ list'[k] = y
                  ELSE Before(y, x)'
    <3>1. jumped[x][y] = 1 /\ jumped'[x][y] = 1 /\ item'[y].left = 0 /\ Before(y, x) /\ y # Cur
      BY <2>1, <2>3, <2>4, <2>8 DEF JumpsOK
    <3>2. CASE x = Cur
      <4>1. PICK j, k \in DOMAIN list : j < k /\ list[j] = y /\ list[k] = x
        BY <3>1 DEF Before
      <4>2. k = tm.pos
        BY <1>0, <2>1, <3>2, <4>1, InjectiveFact, LenProperties DEF TypeOK
      <4> QED
        BY <2>1, <2>5, <3>1, <3>2, <4>1, <4>2
    <3>3. CASE x # Cur
      BY <2>1, <2>5, <3>1, <3>3
    <3> QED
      BY <3>2, <3>3
  <2>9. JumpsOK'
    BY <2>8 DEF JumpsOK
  <2> QED
    BY <2>7, <2>9
<1>6. CASE OneShotDone
  <2>1. tm.cur \in Items /\ tm.cur \in alive /\ ~Listed(tm.cur) /\ Locked /\ ~Locked' /\ list' = list
    BY <1>0, <1>6 DEF OneShotDone, TmAt, Locked, RunOK, Thread
  <2>2. /\ item' = [item EXCEPT ![tm.cur] = Blank]
        /\ jumped' = [x \in Items |-> [y \in Items |-> IF tm.cur \in {x, y} THEN 0 ELSE jumped[x][y]]]
    BY <1>6 DEF OneShotDone, Delete
  <2>3. \A i \in Items : i # tm.cur => item'[i] = item[i]
    BY <1>0, <2>1, <2>2 DEF TypeOK
  <2>4. item'[tm.cur] = Blank
    BY <1>0, <2>1, <2>2 DEF TypeOK
  <2>5. \A x, y \in Items : jumped'[x][y] # 0 => jumped'[x][y] = jumped[x][y] /\ x # tm.cur /\ y # tm.cur
    BY <2>2
  <2>6. \A k \in DOMAIN list : list[k] # tm.cur /\ list[k] \in Items
    BY <1>0, <2>1, ElementOfSeq, LenProperties DEF Listed, In, TypeOK
  <2>7. OrderOK'
    BY <1>0, <2>1, <2>3, <2>4, <2>6 DEF OrderOK
  <2>8. \A x, y : Before(y, x)' = Before(y, x)
    BY <2>1 DEF Before
  <2>9. JumpsOK'
    BY <2>1, <2>3, <2>5, <2>8 DEF JumpsOK
  <2> QED
    BY <2>7, <2>9
<1>7. CASE PutBack
  <2> DEFINE p == PlaceOf(list, Period[tm.trig])
             over == {list[k] : k \in {k \in tm.pos..(p - 1) : item[list[k]].left = 0}}
  <2>1. /\ tm.cur \in Items /\ tm.cur \in alive /\ ~Listed(tm.cur) /\ Locked /\ ~Locked'
        /\ tm.trig \in Triggers /\ tm.pos \in 1..(Len(list) + 1) /\ item[tm.cur].trig \in {tm.trig, None}
        /\ Period[tm.trig] \in Nat /\ tm.pos \in Nat
    BY <1>0, <1>7, LenProperties DEF PutBack, TmAt, Locked, RunOK, Thread
  <2>2. /\ item' = [item EXCEPT ![tm.cur].left = Period[tm.trig]] /\ list' = InsertAt(list, p, tm.cur)
        /\ jumped' = [jumped EXCEPT ![tm.cur] = [y \in Items |-> IF y \in over /\ @[y] < 2 THEN @[y] + 1 ELSE @[y]]]
    BY <1>7 DEF PutBack, JumpTo
  <2>3. /\ \A i \in Items : i # tm.cur => item'[i] = item[i]
        /\ item'[tm.cur].left = Period[tm.trig] /\ item'[tm.cur].trig = item[tm.cur].trig
    BY <1>0, <2>1, <2>2 DEF TypeOK
  <2>4. /\ \A x \in Items : x # tm.cur => \A y \in Items : jumped'[x][y] = jumped[x][y]
        /\ \A y \in Items : jumped'[tm.cur][y] = IF y \in over /\ jumped[tm.cur][y] < 2
                                                 THEN jumped[tm.cur][y] + 1 ELSE jumped[tm.cur][y]
    <3> HIDE DEF over
    <3> QED
      BY <1>0, <2>1, <2>2 DEF TypeOK
  <2>5. /\ \A j, k \in DOMAIN list' : j < k => item'[list'[j]].left <= item'[list'[k]].left
        /\ \A x, y : Before(y, x) => Before(y, x)'
        /\ \A k \in DOMAIN list : k < p => k \in DOMAIN list' /\ list'[k] = list[k]
        /\ p \in DOMAIN list' /\ list'[p] = tm.cur
    BY <1>0, <2>1, <2>2, <2>3, InsertStep
  <2>6. /\ p \in 1..(Len(list) + 1) /\ p \in Nat /\ DOMAIN list = 1..Len(list) /\ Len(list) \in Nat
        /\ \A k \in DOMAIN list : list[k] # tm.cur /\ list[k] \in Items
    <3>1. p \in 1..(Len(list) + 1)
      BY <1>0, PlaceFact DEF TypeOK
    <3>2. DOMAIN list = 1..Len(list) /\ Len(list) \in Nat
      BY <1>0, LenProperties DEF TypeOK
    <3>3. \A k \in DOMAIN list : list[k] # tm.cur /\ list[k] \in Items
      BY <1>0, <2>1, ElementOfSeq, LenProperties DEF Listed, In, TypeOK
    <3> HIDE DEF p, over
    <3> QED
      BY <3>1, <3>2, <3>3
  <2>7. tm.pos <= p
    <3> SUFFICES ASSUME p < tm.pos PROVE FALSE
      BY <2>1, <2>6
    <3>1. p \in DOMAIN list /\ p >= p
      BY <2>1, <2>6
    <3>2. item[list[p]].left <= Period[tm.trig]
      BY <2>1, <3>1 DEF OrderOK
    <3>3. \A k \in DOMAIN list : item[list[k]].left \in Nat
      BY <1>0, <2>6
    <3>4. \A k \in DOMAIN list : k >= p => item[list[k]].left > Period[tm.trig]
      BY <1>0, <2>1, <3>3, PlaceOrder DEF OrderOK, TypeOK
    <3>5. item[list[p]].left > Period[tm.trig] /\ item[list[p]].left \in Nat
      BY <3>1, <3>3, <3>4
    <3> QED
      BY <2>1, <3>2, <3>5
  <2>8. \A y \in over : item[y].left = 0 /\ \E k \in DOMAIN list : tm.pos <= k /\ k < p /\ list[k] = y
    BY <2>1, <2>6
  <2> HIDE DEF p, over
  <2>9. OrderOK'
    <3>1. \A i \in Items : item'[i].trig # None => item'[i].left <= Period[item'[i].trig]
      BY <1>0, <2>1, <2>3
    <3> QED
      BY <2>1, <2>5, <3>1 DEF OrderOK
  <2>10. ASSUME NEW x \in Items, NEW y \in Items, jumped'[x][y] # 0
         PROVE  jumped'[x][y] = 1 /\ item'[y].left = 0 /\ Before(y, x)'
    <3>1. CASE x # tm.cur
      <4>1. jumped'[x][y] = 1 /\ item[y].left = 0 /\ Before(y, x)
        BY <2>4, <2>10, <3>1 DEF JumpsOK
      <4>2. y # tm.cur
        BY <2>6, <4>1 DEF Before
      <4> QED
        BY <2>3, <2>5, <4>1, <4>2
    <3>2. CASE x = tm.cur /\ jumped[x][y] # 0
      <4>1. jumped[x][y] = 1 /\ item[y].left = 0
        BY <3>2 DEF JumpsOK
      <4>2. PICK k \in DOMAIN list : k < tm.pos /\ list[k] = y
        BY <2>1, <3>2 DEF JumpsOK
      <4>3. y \notin over
        <5> SUFFICES ASSUME y \in over PROVE FALSE
          OBVIOUS
        <5>1. PICK j \in DOMAIN list : tm.pos <= j /\ list[j] = y
          BY <2>8
        <5>2. j = k
          <6>1. IsInjective(list)
            BY <1>0 DEF TypeOK
          <6> QED
            BY <4>2, <5>1, <6>1 DEF IsInjective
        <5> QED
          BY <2>1, <2>6, <4>2, <5>1, <5>2
      <4>4. k < p /\ y # tm.cur
        BY <2>1, <2>6, <2>7, <4>2
      <4>5. Before(y, x)'
        BY <2>5, <3>2, <4>2, <4>4 DEF Before
      <4> QED
        BY <2>3, <2>4, <3>2, <4>1, <4>3, <4>4, <4>5
    <3>3. CASE x = tm.cur /\ jumped[x][y] = 0
      <4>1. y \in over /\ jumped'[x][y] = 1
        BY <2>4, <2>10, <3>3
      <4>2. PICK k \in DOMAIN list : k < p /\ list[k] = y /\ item[y].left = 0
        BY <2>8, <4>1
      <4>3. y # tm.cur
        BY <2>6, <4>2
      <4>4. Before(y, x)'
        BY <2>5, <3>3, <4>2 DEF Before
      <4> QED
        BY <2>3, <4>1, <4>2, <4>3, <4>4
    <3> QED
      BY <3>1, <3>2, <3>3
  <2>11. JumpsOK'
    BY <2>1, <2>10 DEF JumpsOK
  <2> QED
    BY <2>9, <2>11
<1> QED
  BY <1>1, <1>2, <1>3, <1>4, <1>5, <1>6, <1>7 DEF MainLoop

LEMMA OrderStep == IInv /\ OrderOK /\ JumpsOK /\ [Next]_vars => OrderOK' /\ JumpsOK'
<1> SUFFICES ASSUME IInv, OrderOK, JumpsOK, [Next]_vars PROVE OrderOK' /\ JumpsOK'
  OBVIOUS
<1>0. /\ TypeOK /\ \A i \in Items : item[i].left \in Nat /\ item[i].trig \in Triggers \cup {None}
      /\ \A i \in Items : item[i].trig # None => item[i].left <= Period[item[i].trig]
      /\ alive \subseteq Items
  BY DEF IInv, TypeOK, OrderOK
<1>1. ASSUME NEW i \in Items, TicksPass(i) PROVE OrderOK' /\ JumpsOK'
  <2>1. UNCHANGED <<list, tm, jumped>> /\ Locked' = Locked
    BY <1>1 DEF TicksPass, Locked
  <2>2. \A j \in Items : item'[j].left = item[j].left /\ item'[j].trig = item[j].trig
    BY <1>0, <1>1 DEF TicksPass, TypeOK
  <2>3. \A j \in alive : item'[j].left = item[j].left
    BY <1>0, <2>2
  <2> QED
    BY <1>0, <2>1, <2>2, <2>3, StillStep
<1>2. CASE UNCHANGED vars
  BY <1>2, SameItems DEF vars, Locked
<1> QED
  BY <1>1, <1>2, OwnerOrder, ClientOrder, ThreadOrder DEF Next

\* An item that is due is passed over at most once by each of the others until
\* the scan looks at it (mainLoop): the list is ordered by the scale at which an
\* item is due, so the one that took the iterator along stands behind it.
THEOREM PassedOnce == Spec => []NeverTwice
<1> DEFINE Inv == IInv /\ OrderOK /\ JumpsOK
<1>1. Init => OrderOK /\ JumpsOK
  BY DEF Init, OrderOK, JumpsOK, Blank, Thread, Locked, NoJumps
<1>2. Init => Inv
  BY <1>1, Initially
<1>3. Inv /\ [Next]_vars => Inv'
  BY OrderStep, TypeStep, SafeStep DEF IInv, Safe
<1>4. Inv => NeverTwice
  <2>1. JumpsOK => \A x, y \in Items : jumped[x][y] = 0 \/ jumped[x][y] = 1
    BY DEF JumpsOK
  <2> QED
    BY <2>1 DEF NeverTwice
<1> QED
  BY <1>2, <1>3, <1>4, PTL DEF Spec
-----------------------------------------------------------------------------
(* The timer implements TimerPromise.                                      *)

Cancelling == {t \in Triggers : cl[t] \in {"mark", "detach", "forget", "barrier"}}
Busy == IF tm.at = "call" THEN tm.trig ELSE None

LEMMA StepKeepsPromise == IInv /\ TypeOK' /\ [Next]_vars => [Promise!Next]_(Promise!vars)
<1> SUFFICES ASSUME IInv, TypeOK', [Next]_vars PROVE [Promise!Next]_(Promise!vars)
  OBVIOUS
<1>0. TypeOK /\ Cancellable /\ NewOK /\ RunOK /\ SilentOK /\ AddressOK
  BY DEF IInv
<1>a. \A i \in Items : Fires(i) => item[i].trig \in Triggers
  BY <1>0 DEF TypeOK, Fires
<1>b. None \notin Items /\ None \notin Triggers
  BY TimerAssumption
<1>c. ASSUME UNCHANGED <<Armed, Cancelling, Busy>> PROVE UNCHANGED Promise!vars
  BY <1>c DEF Promise!vars, Cancelling, Busy
<1>d. ASSUME \A i \in Items : /\ Fires(i)' <=> Fires(i)
                              /\ Fires(i) => item'[i].trig = item[i].trig,
             UNCHANGED tm.cur
      PROVE  UNCHANGED Armed
  <2>1. ASSUME NEW t \in Triggers PROVE t \in Armed' <=> t \in Armed
    BY <1>d DEF Armed
  <2>2. Armed \subseteq Triggers /\ Armed' \subseteq Triggers
    BY DEF Armed
  <2> QED
    BY <2>1, <2>2
<1>1. CASE Owner
  <2>1. UNCHANGED <<Cancelling, Busy>>
    <3>1. CASE Start
      BY <1>0, <3>1 DEF Start, RunOK, Thread, Cancelling, Busy
    <3>2. CASE ClearTimer \/ Exit \/ Joined
      BY <3>2 DEF ClearTimer, Exit, Joined, Cancelling, Busy
    <3> QED
      BY <1>1, <3>1, <3>2 DEF Owner
  <2>2. CASE ClearTimer
    <3>1. /\ tm.cur = None /\ \A t \in Triggers : cl[t] = "idle"
          /\ \A i \in Items : i \in alive' => i \in alive /\ item'[i] = item[i]
      BY <1>0, <2>2 DEF ClearTimer, RunOK, Unlocked, Locked
    <3>2. \A i \in Items : ~Fires(i)
      BY <1>0, <1>a, <1>b, <3>1 DEF SilentOK
    <3>3. \A i \in Items : ~Fires(i)'
      BY <3>1, <3>2 DEF Fires
    <3>4. UNCHANGED Armed
      BY <3>2, <3>3 DEF Armed
    <3> QED
      BY <1>c, <2>1, <3>4
  <2>3. CASE Start \/ Exit \/ Joined
    <3>1. /\ UNCHANGED tm.cur
          /\ \A i \in Items : (Fires(i)' <=> Fires(i)) /\ item'[i].trig = item[i].trig
      BY <1>0, <2>3 DEF Start, Exit, Joined, Thread, RunOK, Locked, Fires
    <3> QED
      BY <1>c, <1>d, <2>1, <3>1
  <2> QED
    BY <1>1, <2>2, <2>3 DEF Owner
<1>2. ASSUME NEW t \in Triggers, RegisterTimer(t) PROVE Promise!Register(t)
  <2>1. PICK i \in Items \ alive :
          item' = [item EXCEPT ![i] = [Blank EXCEPT !.trig = t, !.left = Period[t]]]
          /\ alive' = alive \cup {i}
    BY <1>2 DEF RegisterTimer
  <2>2. cl[t] = "idle" /\ cl' = [cl EXCEPT ![t] = "insert"] /\ UNCHANGED tm
    BY <1>2 DEF RegisterTimer, ClGo
  <2>3. UNCHANGED <<Cancelling, Busy>> /\ t \notin Cancelling
    BY <1>0, <2>2 DEF Cancelling, Busy, TypeOK
  <2>4. Busy # t
    BY <1>0, <1>b, <2>2 DEF Busy, SilentOK, Locked
  <2>5. /\ Fires(i)' /\ item'[i].trig = t /\ ~Fires(i) /\ tm.cur # i
        /\ \A j \in Items : j # i => item'[j] = item[j] /\ (Fires(j)' <=> Fires(j))
    BY <1>0, <1>b, <2>1, <2>2 DEF TypeOK, Fires, Blank
  <2>6. t \notin Armed
    BY <1>0, <2>2 DEF Armed, SilentOK
  <2>7. Armed' = Armed \cup {t}
    <3>1. ASSUME NEW u \in Triggers PROVE u \in Armed' <=> u \in Armed \cup {t}
      BY <2>2, <2>5, <3>1 DEF Armed
    <3>2. Armed \subseteq Triggers /\ Armed' \subseteq Triggers
      BY DEF Armed
    <3> QED
      BY <3>1, <3>2
  <2> QED
    BY <2>3, <2>4, <2>6, <2>7 DEF Promise!Register, Cancelling, Busy
<1>3. ASSUME NEW t \in Triggers, Insert(t) \/ ForgetItem(t) PROVE UNCHANGED Promise!vars
  <2>1. UNCHANGED <<alive, item, tm>>
    BY <1>3 DEF Insert, ForgetItem
  <2>2. UNCHANGED Cancelling
    <3>1. /\ \A u \in Triggers : u # t => cl'[u] = cl[u]
          /\ \/ cl[t] = "insert" /\ cl'[t] = "set"
             \/ cl[t] = "forget" /\ cl'[t] = "barrier"
      BY <1>0, <1>3 DEF Insert, ForgetItem, ClGo, TypeOK
    <3> QED
      BY <3>1 DEF Cancelling
  <2> QED
    BY <1>c, <1>d, <2>1, <2>2 DEF Fires, Busy
<1>4. ASSUME NEW t \in Triggers, CancelTimer(t) PROVE Promise!BeginCancel(t)
  <2>1. UNCHANGED <<alive, item, tm>> /\ UNCHANGED Armed
    BY <1>4, <1>d DEF CancelTimer, Fires
  <2>2. Cancelling' = Cancelling \cup {t}
    BY <1>0, <1>4 DEF CancelTimer, ClGo, Cancelling, TypeOK
  <2> QED
    BY <2>1, <2>2 DEF Promise!BeginCancel, Cancelling, Busy
<1>5. ASSUME NEW t \in Triggers, Mark(t) \/ Detach(t) PROVE [Promise!Next]_(Promise!vars)
  <2> DEFINE i == ptr[t]
  <2>1. /\ UNCHANGED <<alive, tm>> /\ i \in alive /\ i \in Items
        /\ \A j \in Items : j # i => item'[j] = item[j]
        /\ item'[i].removed \/ item'[i].trig = None
        /\ cl[t] \in {"mark", "detach"}
        /\ \A u \in Triggers : u # t => cl'[u] = cl[u]
        /\ cl'[t] \in {"detach", "forget"}
    BY <1>0, <1>5 DEF Mark, Detach, ClGo, TypeOK
  <2> HIDE DEF i
  <2>2. \A j \in Items : Fires(j)' <=> Fires(j) /\ j # i
    BY <2>1 DEF Fires
  <2>3. UNCHANGED <<Cancelling, Busy>> /\ t \in Cancelling
    BY <2>1 DEF Cancelling, Busy
  <2>4. CASE Fires(i)
    <3> DEFINE u == item[i].trig
    <3>1. u \in Triggers
      BY <1>a, <2>1, <2>4
    <3>2. u = t \/ Reuse
      BY <1>0, <2>1, <2>4, <3>1 DEF AddressOK, i, Fires
    <3>3. \A j \in Items : Fires(j) /\ item[j].trig = u /\ j # i => tm.cur \in {i, j} /\ u \notin Repeated
      BY <1>0, <2>1, <2>4 DEF Cancellable
    <3>4. CASE tm.cur = i => u \in Repeated
      <4>1. Armed' = Armed \ {u}
        <5>1. ASSUME NEW v \in Triggers PROVE v \in Armed' <=> v \in Armed \ {u}
          <6>1. CASE v = u
            BY <2>1, <2>2, <3>3, <3>4, <6>1 DEF Armed
          <6>2. CASE v # u
            BY <1>b, <2>1, <2>2, <6>2 DEF Armed
          <6> QED
            BY <6>1, <6>2
        <5>2. Armed \subseteq Triggers /\ Armed' \subseteq Triggers
          BY DEF Armed
        <5> QED
          BY <5>1, <5>2
      <4>2. Promise!Disarm(u)
        BY <2>3, <3>2, <4>1 DEF Promise!Disarm, Cancelling, Busy
      <4> QED
        BY <3>1, <4>2 DEF Promise!Next
    <3>5. CASE tm.cur = i /\ u \notin Repeated
      <4>1. ASSUME NEW v \in Triggers PROVE v \in Armed' <=> v \in Armed
        BY <2>1, <2>2, <3>5, <4>1 DEF Armed
      <4>2. Armed \subseteq Triggers /\ Armed' \subseteq Triggers
        BY DEF Armed
      <4>3. UNCHANGED Armed
        BY <4>1, <4>2
      <4> QED
        BY <1>c, <2>3, <4>3
    <3> QED
      BY <3>4, <3>5
  <2>5. CASE ~Fires(i)
    <3>1. \A j \in Items : (Fires(j)' <=> Fires(j)) /\ (Fires(j) => item'[j].trig = item[j].trig)
      BY <2>1, <2>2, <2>5
    <3> QED
      BY <1>c, <1>d, <2>1, <2>3, <3>1
  <2> QED
    BY <2>4, <2>5
<1>6. ASSUME NEW t \in Triggers, Barrier(t) PROVE Promise!EndCancel(t)
  <2>1. /\ UNCHANGED <<alive, item, tm>> /\ cl[t] = "barrier" /\ ~Locked /\ tm.cur = None
        /\ cl' = [cl EXCEPT ![t] = "idle"]
    BY <1>0, <1>6 DEF Barrier, ClGo, Unlocked, Locked, RunOK
  <2>2. UNCHANGED Armed
    BY <1>d, <2>1 DEF Fires
  <2>3. t \in Cancelling /\ Cancelling' = Cancelling \ {t} /\ UNCHANGED Busy /\ Busy = None
    BY <1>0, <2>1 DEF Cancelling, Busy, Locked, TypeOK
  <2>4. t \notin Armed
    BY <1>0, <1>b, <2>1 DEF Armed, SilentOK
  <2> QED
    BY <1>b, <2>2, <2>3, <2>4 DEF Promise!EndCancel, Cancelling, Busy
<1>7. ASSUME NEW i \in Items, TicksPass(i) PROVE UNCHANGED Promise!vars
  <2>1. /\ UNCHANGED <<cl, tm>>
        /\ \A j \in Items : item'[j].trig = item[j].trig /\ (Fires(j)' <=> Fires(j))
    BY <1>0, <1>7 DEF TicksPass, TypeOK, Fires
  <2> QED
    BY <1>c, <1>d, <2>1 DEF Cancelling, Busy
<1>8. CASE Quit \/ Lock \/ Unlock \/ NotYet \/ Wake
  <2>1. /\ UNCHANGED <<cl, alive>> /\ tm.cur = None /\ tm'.cur = None
        /\ tm.at # "call" /\ tm'.at # "call"
    BY <1>0, <1>8 DEF Quit, Lock, Unlock, NotYet, Wake, TmAt, RunOK, Locked, Thread, TypeOK
  <2>2. \A i \in Items : item'[i].trig = item[i].trig /\ (Fires(i)' <=> Fires(i))
    <3>1. CASE Wake
      BY <1>0, <3>1 DEF Wake, Fires, TypeOK
    <3>2. CASE Quit \/ Lock \/ Unlock \/ NotYet
      BY <3>2 DEF Quit, Lock, Unlock, NotYet, Fires
    <3> QED
      BY <1>8, <3>1, <3>2
  <2> QED
    BY <1>c, <1>d, <2>1, <2>2 DEF Cancelling, Busy
<1>9. CASE EraseRemoved
  <2>1. /\ Cur \in Items /\ ~Fires(Cur) /\ Delete(Cur) /\ UNCHANGED <<cl, tm>>
    BY <1>0, <1>9, CurFact DEF EraseRemoved, Fires
  <2>2. \A i \in Items : (Fires(i)' <=> Fires(i)) /\ (Fires(i) => item'[i].trig = item[i].trig)
    BY <1>0, <2>1, FewerByDelete DEF Fires, Fewer
  <2> QED
    BY <1>c, <1>d, <2>1, <2>2 DEF Cancelling, Busy
<1>10. CASE OnTrigger
  <2> DEFINE t == item[Cur].trig
  <2>1. /\ Cur \in Items /\ tm.cur = None /\ tm.at = "scan" /\ Fires(Cur) /\ t \in Triggers
    BY <1>0, <1>10, <1>a, CurFact DEF OnTrigger, TmAt, Fires
  <2>2. /\ UNCHANGED <<alive, cl>> /\ item' = [item EXCEPT ![Cur].due = FALSE]
        /\ tm' = [tm EXCEPT !.at = "call", !.cur = Cur, !.trig = t]
    BY <1>10 DEF OnTrigger
  <2>3. /\ \A i \in Items : item'[i].trig = item[i].trig /\ (Fires(i)' <=> Fires(i))
        /\ tm'.at = "call" /\ tm'.cur = Cur /\ tm'.trig = t
    BY <1>0, <2>1, <2>2 DEF TypeOK, Fires
  <2>4. \A i \in Items : Fires(i) /\ item[i].trig = t => i = Cur
    BY <1>0, <1>b, <2>1 DEF Cancellable
  <2>5. Busy = None /\ Busy' = t /\ UNCHANGED Cancelling
    BY <2>1, <2>2, <2>3 DEF Busy, Cancelling
  <2>6. t \in Armed
    BY <1>b, <2>1 DEF Armed
  <2> HIDE DEF t
  <2>7. Armed' = IF t \in Repeated THEN Armed ELSE Armed \ {t}
    <3>1. ASSUME NEW u \in Triggers
          PROVE  u \in Armed' <=> u \in Armed /\ (u = t => t \in Repeated)
      <4>1. CASE u = t
        BY <2>1, <2>3, <2>4, <2>6, <4>1 DEF Armed, t
      <4>2. CASE u # t
        BY <1>b, <2>1, <2>3, <4>2 DEF Armed, t
      <4> QED
        BY <4>1, <4>2
    <3>2. Armed \subseteq Triggers /\ Armed' \subseteq Triggers
      BY DEF Armed
    <3> QED
      BY <3>1, <3>2
  <2>8. Promise!Fire(t)
    BY <2>5, <2>6, <2>7 DEF Promise!Fire, Cancelling, Busy
  <2> QED
    BY <2>1, <2>8 DEF Promise!Next, t
<1>11. CASE Returned
  <2>1. /\ UNCHANGED <<alive, item, cl>> /\ UNCHANGED tm.cur /\ tm.at = "call" /\ tm'.at = "done"
    BY <1>0, <1>11 DEF Returned, TmAt, TypeOK
  <2>2. Busy # None /\ Busy' = None /\ UNCHANGED <<Armed, Cancelling>>
    BY <1>0, <1>b, <1>d, <2>1 DEF Busy, Cancelling, RunOK, Locked, Fires
  <2>3. Promise!Return
    BY <2>2 DEF Promise!Return, Busy, Cancelling
  <2> QED
    BY <2>3 DEF Promise!Next
<1>12. CASE OneShotDone
  <2>1. /\ tm.at = "done" /\ tm.cur \in Items /\ item[tm.cur].trig \in {tm.trig, None}
        /\ tm.trig \notin Repeated
        /\ Delete(tm.cur) /\ UNCHANGED cl /\ tm'.at = "scan" /\ tm'.cur = None
    BY <1>0, <1>12 DEF OneShotDone, TmAt, RunOK, Locked, TypeOK, Thread
  <2>2. /\ \A i \in Items : Fires(i)' <=> Fires(i) /\ i # tm.cur
        /\ \A i \in Items : Fires(i)' => item'[i].trig = item[i].trig
    BY <1>0, <2>1, FewerByDelete DEF Fires, Fewer, Blank
  <2>3. UNCHANGED Armed
    BY <1>b, <2>1, <2>2 DEF Armed, Fires
  <2> QED
    BY <1>c, <2>1, <2>3 DEF Busy, Cancelling
<1>13. CASE PutBack
  <2>1. /\ tm.at = "done" /\ tm.cur \in Items /\ item[tm.cur].trig \in {tm.trig, None}
        /\ tm.trig \in Repeated
        /\ item' = [item EXCEPT ![tm.cur].left = Period[tm.trig]]
        /\ UNCHANGED <<alive, cl>> /\ tm'.at = "scan" /\ tm'.cur = None
    BY <1>0, <1>13 DEF PutBack, TmAt, RunOK, Locked, TypeOK, Thread
  <2>2. \A i \in Items : (Fires(i)' <=> Fires(i)) /\ item'[i].trig = item[i].trig
    BY <1>0, <2>1 DEF Fires, TypeOK
  <2>3. UNCHANGED Armed
    BY <1>b, <2>1, <2>2 DEF Armed, Fires
  <2> QED
    BY <1>c, <2>1, <2>3 DEF Busy, Cancelling
<1>14. CASE UNCHANGED vars
  <2>1. UNCHANGED <<alive, item, cl, tm>>
    BY <1>14 DEF vars
  <2> QED
    BY <1>c, <1>d, <2>1 DEF Fires, Cancelling, Busy
<1>15. ASSUME NEW t \in Triggers, Client(t) PROVE [Promise!Next]_(Promise!vars)
  BY <1>2, <1>3, <1>4, <1>5, <1>6, <1>15 DEF Client, Promise!Next
<1>16. CASE MainLoop
  BY <1>8, <1>9, <1>10, <1>11, <1>12, <1>13, <1>16 DEF MainLoop
<1> QED
  BY <1>1, <1>7, <1>14, <1>15, <1>16 DEF Next

\* registerTimer, cancelTimer and mainLoop together do what TimerPromise says: a
\* trigger fires only while it is armed, one callback at a time, and never after
\* cancelTimer has returned.  This holds although the address of a deleted item
\* may be given out while a cancellation still writes to it; what is lost then is
\* only that a trigger is disarmed by nobody else's cancellation.
THEOREM PromiseIsKept == Spec => KeepsPromise
<1>1. Init => Promise!Init
  BY DEF Init, Promise!Init, Armed, Fires, Thread
<1>2. IInv /\ TypeOK' /\ [Next]_vars => [Promise!Next]_(Promise!vars)
  BY StepKeepsPromise
<1>3. IInv => TypeOK
  BY DEF IInv
<1> QED
  BY Inductive, <1>1, <1>2, <1>3, PTL DEF Spec, KeepsPromise, Promise!Spec
=============================================================================
