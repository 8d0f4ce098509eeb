--------------------------- MODULE LiveView_proof ---------------------------
(* Theorems on the live views of a session, for any number of addresses and *)
(* clients, any capacity of the queue and any number of broken streams.     *)
EXTENDS LiveView, FiniteSetTheorems, SequenceTheorems, WellFoundedInduction, TLAPS

\* The event thread names the view whose event it handles, and no other.
EvOK ==
  /\ ev.at = "idle" <=> ev.p = None
  /\ ev.entry.h \in {None, ev.p} /\ ev.entry.obj \in {None, ev.entry.h}

\* The resume thread has a view from its entry to the end of its restart.
RsOK == rs.p = None <=> rs.at \in {"idle", "take", "back"}

\* The handle of an entry is that of its object.
ListOK == \A i \in DOMAIN list : list[i].obj \in {None, list[i].h}

\* One client has a view that a window start has made, and it is out of the map
\* before its reference is put back.
OneClient ==
  \A u, v \in Users : usr[u].p \in sole /\ usr[u].p = usr[v].p => u = v
UsersOK ==
  /\ \A u \in Users :
       /\ usr[u].at = "idle" <=> usr[u].p = None
       /\ usr[u].at = "free" => usr[u].cb
       /\ usr[u].p \in sole => ~usr[u].cb /\ (usr[u].at = "put" => usr[u].p \notin map)
  /\ OneClient

\* A view that has been stopped is in nobody's hands that could start it.
FinishedOK ==
  \A p \in sole : view[p].status = "finished" =>
    /\ stream[p] = "off"
    /\ rs.at = "connect" => rs.p # p
    /\ \A u \in Users : usr[u].p = p => usr[u].at \in {"erase", "put"}

\* The references of a view against those who hold it; of a deleted one,
\* nobody is left but the event thread that counts its entry late.
Counted(p) ==
  IF p \in obj THEN view[p].ref + One(Uncounted(p)) >= Holders(p)
  ELSE Holders(p) = One(Uncounted(p))
CountsOK == out = "in" => \A p \in sole : Counted(p)

\* Who will start a view whose stream was stopped: what the resume thread has
\* refused, or started, does not count.
Awaited(p) ==
  \/ ev.p = p /\ ev.at \in {"remove", "add"}
  \/ \E i \in DOMAIN list : list[i].obj = p
  \/ \E i \in DOMAIN rs.failed : rs.failed[i] = p
  \/ rs.p = p /\ rs.at \in {"try", "connect"}
Stopping(p) == \E u \in Users : usr[u].at = "stop" /\ usr[u].p = p
WayOK ==
  out = "in" => \A p \in sole \cap map :
    view[p].status = "stopped" => p \in blind \/ Awaited(p) \/ Stopping(p)

IInv ==
  TypeOK /\ EvOK /\ RsOK /\ ListOK /\ UsersOK /\ FinishedOK /\ CountsOK /\ WayOK
-----------------------------------------------------------------------------
(* What the operations make of a sequence, and of how often it names an     *)
(* object.                                                                  *)

\* The positions of s that hold a member of T, and how many they are.
Places(s, T) == {i \in DOMAIN s : s[i] \in T}
Number(s, T) == Cardinality(Places(s, T))

LEMMA SeqFact ==
  ASSUME NEW S, NEW s \in Seq(S)
  PROVE  /\ Len(s) \in Nat /\ DOMAIN s = 1..Len(s)
         /\ \A i \in DOMAIN s : s[i] \in S
  BY LenProperties, ElementOfSeq

\* A number of places is a natural one, and not 0 when there is a place.
LEMMA NumberFact ==
  ASSUME NEW S, NEW s \in Seq(S), NEW T
  PROVE  /\ IsFiniteSet(Places(s, T)) /\ Number(s, T) \in Nat
         /\ Number(s, T) = 0 <=> \A i \in DOMAIN s : s[i] \notin T
<1>1. IsFiniteSet(1..Len(s)) /\ Places(s, T) \subseteq 1..Len(s)
  <2>1. Len(s) \in Nat /\ DOMAIN s = 1..Len(s)
    BY SeqFact
  <2>2. IsFiniteSet(1..Len(s))
    BY <2>1, FS_Interval
  <2> QED
    BY <2>1, <2>2 DEF Places
<1>2. IsFiniteSet(Places(s, T))
  BY <1>1, FS_Subset
<1>3. Number(s, T) \in Nat /\ (Number(s, T) = 0 <=> Places(s, T) = {})
  BY <1>2, FS_CardinalityType, FS_EmptySet DEF Number
<1> QED
  BY <1>2, <1>3 DEF Places

\* Fewer places, when each place of one is a place of the other.
LEMMA FewerFact ==
  ASSUME NEW S, NEW T, NEW s \in Seq(S), NEW P, NEW f \in [P -> Places(s, T)],
         \A i, j \in P : f[i] = f[j] => i = j
  PROVE  IsFiniteSet(P) /\ Cardinality(P) <= Number(s, T)
<1>1. f \in Injection(P, Places(s, T))
  BY DEF Injection, IsInjective
<1>2. IsFiniteSet(Places(s, T))
  BY NumberFact
<1> QED
  BY <1>1, <1>2, FS_Injection DEF Number

LEMMA AppendFact ==
  ASSUME NEW S, NEW s \in Seq(S), NEW e \in S, NEW T
  PROVE  /\ Append(s, e) \in Seq(S) /\ Len(Append(s, e)) = Len(s) + 1
         /\ DOMAIN Append(s, e) = 1..(Len(s) + 1)
         /\ \A i \in DOMAIN Append(s, e) :
              Append(s, e)[i] = IF i = Len(s) + 1 THEN e ELSE s[i]
         /\ \A i \in DOMAIN Append(s, e) : i = Len(s) + 1 \/ i \in DOMAIN s
         /\ Number(Append(s, e), T) = Number(s, T) + One(e \in T)
<1>1. /\ Append(s, e) \in Seq(S) /\ Len(Append(s, e)) = Len(s) + 1
      /\ DOMAIN Append(s, e) = 1..(Len(s) + 1)
      /\ \A i \in DOMAIN Append(s, e) :
           Append(s, e)[i] = IF i = Len(s) + 1 THEN e ELSE s[i]
      /\ \A i \in DOMAIN Append(s, e) : i = Len(s) + 1 \/ i \in DOMAIN s
  BY AppendProperties, LenProperties
<1>2. IsFiniteSet(Places(s, T)) /\ Number(s, T) \in Nat
  BY NumberFact
<1>3. /\ Len(s) \in Nat /\ DOMAIN s = 1..Len(s) /\ Len(s) + 1 \notin Places(s, T)
      /\ DOMAIN s \subseteq DOMAIN Append(s, e) /\ Len(s) + 1 \in DOMAIN Append(s, e)
      /\ Len(s) + 1 \notin DOMAIN s
  BY <1>1, SeqFact DEF Places
<1>4. Places(Append(s, e), T) = IF e \in T THEN Places(s, T) \cup {Len(s) + 1} ELSE Places(s, T)
  BY <1>1, <1>3 DEF Places
<1>5. CASE e \in T
  <2>1. Cardinality(Places(s, T) \cup {Len(s) + 1}) = Number(s, T) + 1
    BY <1>2, <1>3, FS_AddElement DEF Number
  <2> QED
    BY <1>4, <1>5, <2>1 DEF Number, One
<1>6. CASE e \notin T
  BY <1>2, <1>4, <1>6 DEF Number, One
<1> QED
  BY <1>1, <1>5, <1>6

LEMMA TailFact ==
  ASSUME NEW S, NEW s \in Seq(S), s # <<>>, NEW T
  PROVE  /\ Head(s) = s[1] /\ 1 \in DOMAIN s /\ Head(s) \in S
         /\ Tail(s) \in Seq(S) /\ Len(Tail(s)) = Len(s) - 1 /\ Len(s) \in Nat \ {0}
         /\ DOMAIN Tail(s) = 1..(Len(s) - 1)
         /\ \A i \in DOMAIN Tail(s) : Tail(s)[i] = s[i + 1] /\ i + 1 \in DOMAIN s
         /\ \A i \in DOMAIN s : i = 1 \/ (i - 1 \in DOMAIN Tail(s) /\ s[i] = Tail(s)[i - 1])
         /\ Number(Tail(s), T) + One(Head(s) \in T) <= Number(s, T)
<1>1. Len(s) \in Nat /\ DOMAIN s = 1..Len(s) /\ Len(s) # 0
  BY LenProperties, EmptySeq
<1>2. /\ Head(s) = s[1] /\ Head(s) \in S
      /\ Tail(s) \in Seq(S) /\ Len(Tail(s)) = Len(s) - 1
      /\ DOMAIN Tail(s) = 1..(Len(s) - 1)
      /\ \A i \in DOMAIN Tail(s) : Tail(s)[i] = s[i + 1] /\ i + 1 \in DOMAIN s
  BY <1>1, HeadTailProperties, LenProperties
<1>3. \A i \in DOMAIN s : i = 1 \/ (i - 1 \in DOMAIN Tail(s) /\ s[i] = Tail(s)[i - 1])
  <2> TAKE i \in DOMAIN s
  <2>1. i # 1 => i - 1 \in 1..(Len(s) - 1) /\ (i - 1) + 1 = i
    BY <1>1
  <2> QED
    BY <1>2, <2>1
<1>4. Number(Tail(s), T) + One(Head(s) \in T) <= Number(s, T)
  <2> DEFINE P == {i \in 2..Len(s) : s[i] \in T}
             B == Places(Tail(s), T)
             f == [i \in B |-> i + 1]
  <2>1. \A i \in B : i \in Int /\ i + 1 \in P /\ i + 1 \in Places(s, T) /\ i + 1 # 1
    <3>1. \A i \in B : i \in 1..(Len(s) - 1) /\ s[i + 1] \in T /\ i + 1 \in 1..Len(s)
      BY <1>1, <1>2 DEF Places
    <3> QED
      BY <1>1, <3>1 DEF Places
  <2>2. f \in [B -> Places(s, T) \ {1}] /\ \A i, j \in B : f[i] = f[j] => i = j
    BY <2>1
  <2>3. IsFiniteSet(Places(s, T)) /\ Number(s, T) \in Nat
    BY NumberFact
  <2>4. /\ IsFiniteSet(Places(s, T) \ {1})
        /\ Cardinality(Places(s, T) \ {1}) = IF 1 \in Places(s, T) THEN Number(s, T) - 1 ELSE Number(s, T)
    BY <2>3, FS_RemoveElement DEF Number
  <2>5. IsFiniteSet(B) /\ Cardinality(B) <= Cardinality(Places(s, T) \ {1})
    <3> HIDE DEF B, f
    <3>1. f \in Injection(B, Places(s, T) \ {1})
      BY <2>2 DEF Injection, IsInjective
    <3> QED
      BY <2>4, <3>1, FS_Injection
  <2>6. Cardinality(B) \in Nat
    BY <2>5, FS_CardinalityType
  <2>7. 1 \in Places(s, T) <=> Head(s) \in T
    BY <1>1, <1>2 DEF Places
  <2>8. Number(Tail(s), T) = Cardinality(B)
    BY DEF Number
  <2> HIDE DEF B
  <2> QED
    BY <2>3, <2>4, <2>5, <2>6, <2>7, <2>8 DEF One
<1> QED
  BY <1>1, <1>2, <1>3, <1>4

\* Without(l, h) is l, or l less one place, which holds an entry of h.
LEMMA LeastFact ==
  ASSUME NEW T, T \subseteq Nat, T # {} PROVE \E x \in T : \A y \in T : x <= y
<1> DEFINE R == OpToRel(<, Nat)
<1>1. R = {ss \in Nat \X Nat : ss[1] < ss[2]}
  BY DEF OpToRel
<1>2. IsWellFoundedOn(R, Nat)
  BY NatLessThanWellFounded
<1> HIDE DEF R
<1>3. PICK x \in T : \A y \in T : ~(<<y, x>> \in R)
  BY <1>2, WFMin
<1>4. \A y \in T : x \in Nat /\ y \in Nat /\ ~(y < x)
  BY <1>1, <1>3
<1> QED
  BY <1>3, <1>4

LEMMA RemoveFact ==
  ASSUME NEW S, NEW s \in Seq(S), NEW k \in DOMAIN s, NEW T
  PROVE  /\ RemoveAt(s, k) \in Seq(S)
         /\ \A i \in DOMAIN RemoveAt(s, k) : \E j \in DOMAIN s : RemoveAt(s, k)[i] = s[j]
         /\ \A j \in DOMAIN s : j = k \/ \E i \in DOMAIN RemoveAt(s, k) : RemoveAt(s, k)[i] = s[j]
         /\ Number(RemoveAt(s, k), T) <= Number(s, T)
<1> DEFINE a == SubSeq(s, 1, k - 1)
           b == SubSeq(s, k + 1, Len(s))
           r == RemoveAt(s, k)
           old(i) == IF i < k THEN i ELSE i + 1
<1>1. Len(s) \in Nat /\ k \in 1..Len(s) /\ DOMAIN s = 1..Len(s) /\ \A i \in DOMAIN s : s[i] \in S
  BY SeqFact
<1>2. /\ a \in Seq(S) /\ Len(a) = k - 1
      /\ \A i \in 1..(k - 1) : a[i] = s[i]
  BY <1>1, SubSeqProperties
<1>3. /\ b \in Seq(S) /\ Len(b) = Len(s) - k
      /\ \A i \in 1..(Len(s) - k) : b[i] = s[k + i]
  BY <1>1, SubSeqProperties
<1> HIDE DEF a, b
<1>4. /\ r \in Seq(S) /\ DOMAIN r = 1..(Len(s) - 1)
      /\ \A i \in 1..(Len(s) - 1) : r[i] = IF i <= k - 1 THEN a[i] ELSE b[i - (k - 1)]
  <2>1. /\ a \o b \in Seq(S) /\ Len(a \o b) = Len(a) + Len(b)
        /\ \A i \in 1..(Len(a) + Len(b)) :
             (a \o b)[i] = IF i <= Len(a) THEN a[i] ELSE b[i - Len(a)]
    BY <1>2, <1>3, ConcatProperties
  <2>2. Len(a) + Len(b) = Len(s) - 1
    BY <1>1, <1>2, <1>3
  <2>3. DOMAIN (a \o b) = 1..(Len(s) - 1)
    BY <2>1, <2>2, LenProperties
  <2>4. r = a \o b
    BY DEF RemoveAt, a, b
  <2> QED
    BY <1>2, <2>1, <2>2, <2>3, <2>4
<1> HIDE DEF r
<1>5. \A i \in 1..(Len(s) - 1) : r[i] = s[old(i)] /\ old(i) \in 1..Len(s)
  <2> TAKE i \in 1..(Len(s) - 1)
  <2>1. CASE i < k
    <3>1. i \in 1..(k - 1) /\ i <= k - 1 /\ i \in 1..Len(s)
      BY <1>1, <2>1
    <3> QED
      BY <1>1, <1>2, <1>4, <2>1, <3>1
  <2>2. CASE ~(i < k)
    <3>1. /\ i - (k - 1) \in 1..(Len(s) - k) /\ ~(i <= k - 1) /\ i + 1 \in 1..Len(s)
          /\ k + (i - (k - 1)) = i + 1
      BY <1>1, <2>2
    <3>2. r[i] = b[i - (k - 1)]
      BY <1>4, <3>1
    <3> QED
      BY <1>1, <1>3, <2>2, <3>1, <3>2
  <2> QED
    BY <2>1, <2>2
<1>6. \A j \in DOMAIN s : j = k \/ \E i \in DOMAIN r : r[i] = s[j]
  <2> SUFFICES ASSUME NEW j \in DOMAIN s, j # k PROVE \E i \in DOMAIN r : r[i] = s[j]
    OBVIOUS
  <2> DEFINE i == IF j < k THEN j ELSE j - 1
  <2>1. i \in 1..(Len(s) - 1) /\ old(i) = j
    BY <1>1
  <2> QED
    BY <1>4, <1>5, <2>1
<1>7. Number(r, T) <= Number(s, T)
  <2> DEFINE P == Places(r, T)
             f == [i \in P |-> old(i)]
  <2>1. \A i \in P : i \in 1..(Len(s) - 1) /\ old(i) \in Places(s, T)
    BY <1>1, <1>4, <1>5 DEF Places
  <2>2. \A i, j \in 1..(Len(s) - 1) : old(i) = old(j) => i = j
    BY <1>1
  <2> HIDE DEF P, old
  <2>3. f \in [P -> Places(s, T)] /\ \A i, j \in P : f[i] = f[j] => i = j
    BY <2>1, <2>2
  <2> HIDE DEF f
  <2>4. Cardinality(P) <= Number(s, T)
    BY <2>3, FewerFact
  <2> QED
    BY <2>4 DEF Number, P
<1> QED
  BY <1>1, <1>4, <1>5, <1>6, <1>7 DEF r

LEMMA WithoutFact ==
  ASSUME NEW l \in Seq(Entries), NEW h, NEW T
  PROVE  /\ Without(l, h) \in Seq(Entries)
         /\ \A i \in DOMAIN Without(l, h) : \E j \in DOMAIN l : Without(l, h)[i] = l[j]
         /\ \A j \in DOMAIN l :
              l[j].h = h \/ \E i \in DOMAIN Without(l, h) : Without(l, h)[i] = l[j]
         /\ Number(Without(l, h), T) <= Number(l, T)
<1> DEFINE at == SelectInSeq(l, LAMBDA e : e.h = h)
           I == {i \in 1..Len(l) : l[i].h = h}
<1>1. at = IF I # {} THEN CHOOSE x \in I : \A y \in I : x <= y ELSE 0
  BY DEF SelectInSeq, Min
<1>2. Len(l) \in Nat /\ DOMAIN l = 1..Len(l)
  BY SeqFact
<1>3. I \subseteq Nat /\ \A i \in I : i \in DOMAIN l /\ i # 0 /\ l[i].h = h
  BY <1>2
<1> HIDE DEF I
<1>4. at = 0 \/ at \in I
  BY <1>1, <1>3, LeastFact
<1>5. Without(l, h) = IF at = 0 THEN l ELSE RemoveAt(l, at)
  BY DEF Without
<1> HIDE DEF at
<1>6. CASE at = 0
  <2>1. Number(l, T) \in Nat
    BY NumberFact
  <2> QED
    BY <1>5, <1>6, <2>1
<1>7. CASE at \in I /\ at # 0
  <2>1. at \in DOMAIN l /\ l[at].h = h
    BY <1>3, <1>7
  <2>2. /\ RemoveAt(l, at) \in Seq(Entries)
        /\ \A i \in DOMAIN RemoveAt(l, at) : \E j \in DOMAIN l : RemoveAt(l, at)[i] = l[j]
        /\ \A j \in DOMAIN l :
             j = at \/ \E i \in DOMAIN RemoveAt(l, at) : RemoveAt(l, at)[i] = l[j]
        /\ Number(RemoveAt(l, at), T) <= Number(l, T)
    BY <2>1, RemoveFact
  <2>3. Without(l, h) = RemoveAt(l, at)
    BY <1>5, <1>7
  <2> QED
    BY <2>1, <2>2, <2>3
<1> QED
  BY <1>4, <1>6, <1>7

\* The entries of the views that were not resumed name them.
Again(f) == [i \in DOMAIN f |-> Entry("window", f[i])]

LEMMA AgainSeq ==
  ASSUME NEW f \in Seq(Plays)
  PROVE  /\ Again(f) \in Seq(Entries) /\ Len(Again(f)) = Len(f)
         /\ \A i \in DOMAIN f : Again(f)[i] = Entry("window", f[i]) /\ Again(f)[i] \in Entries
<1> DEFINE m == Len(f)
           a == Again(f)
<1>1. m \in Nat /\ DOMAIN f = 1..m /\ \A i \in DOMAIN f : f[i] \in Plays
  BY SeqFact
<1>2. \A i \in DOMAIN f : Entry("window", f[i]) \in Entries
  BY <1>1 DEF Entry, Entries
<1>3. a \in [1..m -> Entries] /\ \A i \in 1..m : a[i] = Entry("window", f[i])
  BY <1>1, <1>2 DEF Again
<1> HIDE DEF a, m
<1>4. a \in Seq(Entries)
  BY <1>1, <1>3, SeqDef
<1>5. Len(a) \in Nat /\ DOMAIN a = 1..Len(a) /\ DOMAIN a = 1..m
  BY <1>3, <1>4, LenProperties
<1>6. \A x, y \in Nat : 1..x = 1..y => x <= y
  OBVIOUS
<1>7. Len(a) <= m
  BY <1>1, <1>5, <1>6
<1>8. m <= Len(a)
  BY <1>1, <1>5, <1>6
<1>9. Len(a) \in Nat /\ m \in Nat
  BY <1>1, <1>5
<1>10. Len(a) = m
  BY <1>7, <1>8, <1>9
<1> QED
  BY <1>1, <1>2, <1>3, <1>4, <1>10 DEF a, m

LEMMA AgainFact ==
  ASSUME NEW l \in Seq(Entries), NEW f \in Seq(Plays), NEW p
  PROVE  LET T == {e \in Entries : e.obj = p} IN
         /\ l \o Again(f) \in Seq(Entries)
         /\ \A i \in DOMAIN (l \o Again(f)) :
              \/ \E j \in DOMAIN l : (l \o Again(f))[i] = l[j]
              \/ \E j \in DOMAIN f : (l \o Again(f))[i] = Entry("window", f[j])
         /\ \A j \in DOMAIN l : \E i \in DOMAIN (l \o Again(f)) : (l \o Again(f))[i] = l[j]
         /\ \A j \in DOMAIN f :
              \E i \in DOMAIN (l \o Again(f)) : (l \o Again(f))[i] = Entry("window", f[j])
         /\ Number(l \o Again(f), T) <= Number(l, T) + Number(f, {p})
<1> DEFINE T == {e \in Entries : e.obj = p}
           a == Again(f)
           c == l \o a
           n == Len(l)
           m == Len(f)
<1>1. /\ n \in Nat /\ DOMAIN l = 1..n /\ m \in Nat /\ DOMAIN f = 1..m
      /\ \A i \in DOMAIN f : f[i] \in Plays
  BY SeqFact
<1>2. \A i \in DOMAIN f : Entry("window", f[i]).obj = f[i]
  BY DEF Entry
<1>3. /\ a \in Seq(Entries) /\ Len(a) = m
      /\ \A i \in 1..m : a[i] = Entry("window", f[i]) /\ (a[i] \in T <=> f[i] = p)
  <2>1. \A i \in 1..m : a[i] = Entry("window", f[i]) /\ a[i] \in Entries
    BY <1>1, AgainSeq
  <2> QED
    BY <1>1, <1>2, <2>1, AgainSeq
<1> HIDE DEF a
<1>4. /\ c \in Seq(Entries) /\ Len(c) = n + m /\ DOMAIN c = 1..(n + m)
      /\ \A i \in 1..(n + m) : c[i] = IF i <= n THEN l[i] ELSE a[i - n]
  <2>1. /\ l \o a \in Seq(Entries) /\ Len(l \o a) = n + Len(a)
        /\ \A i \in 1..(n + Len(a)) : (l \o a)[i] = IF i <= n THEN l[i] ELSE a[i - n]
    BY <1>3, ConcatProperties
  <2>2. DOMAIN (l \o a) = 1..Len(l \o a)
    BY <2>1, LenProperties
  <2> QED
    BY <1>3, <2>1, <2>2
<1> HIDE DEF c, n, m
<1>5. \A i \in 1..n : i \in 1..(n + m) /\ c[i] = l[i]
  BY <1>1, <1>4
<1>6. \A i \in 1..m : n + i \in 1..(n + m) /\ c[n + i] = a[i]
  <2>1. \A i \in 1..m : n + i \in 1..(n + m) /\ ~(n + i <= n) /\ (n + i) - n = i
    BY <1>1
  <2> QED
    BY <1>4, <2>1
<1>7. \A i \in 1..(n + m) : i \in 1..n \/ (i - n \in 1..m /\ i > n /\ c[i] = a[i - n])
  BY <1>1, <1>4
<1>8. Number(c, T) <= Number(l, T) + Number(f, {p})
  <2> DEFINE A == Places(l, T)
             B == {i \in (n + 1)..(n + m) : c[i] \in T}
             g == [i \in B |-> i - n]
  <2>1. \A i \in B : i \in Int /\ i - n \in Places(f, {p})
    <3> SUFFICES ASSUME NEW i \in (n + 1)..(n + m), c[i] \in T PROVE i \in Int /\ i - n \in Places(f, {p})
      OBVIOUS
    <3>1. i \in Int /\ i - n \in 1..m /\ i \in 1..(n + m) /\ ~(i \in 1..n)
      BY <1>1
    <3>2. f[i - n] = p
      BY <1>3, <1>7, <3>1
    <3> QED
      BY <1>1, <3>1, <3>2 DEF Places
  <2>2. Places(c, T) \subseteq A \cup B
    <3> SUFFICES ASSUME NEW i \in 1..(n + m), c[i] \in T PROVE i \in A \cup B
      BY <1>4 DEF Places
    <3>1. CASE i \in 1..n
      BY <1>1, <1>5, <3>1 DEF Places
    <3>2. CASE i \notin 1..n
      <4>1. i \in (n + 1)..(n + m)
        BY <1>1, <3>2
      <4> QED
        BY <4>1
    <3> QED
      BY <3>1, <3>2
  <2>3. IsFiniteSet(A) /\ Cardinality(A) = Number(l, T) /\ Number(l, T) \in Nat /\ Number(f, {p}) \in Nat
    BY NumberFact DEF Number
  <2> HIDE DEF A, B
  <2>3a. \A i, j \in B : i - n = j - n => i = j
    BY <1>1, <2>1
  <2>4. g \in [B -> Places(f, {p})] /\ \A i, j \in B : g[i] = g[j] => i = j
    BY <2>1, <2>3a
  <2> HIDE DEF g
  <2>5. IsFiniteSet(B) /\ Cardinality(B) <= Number(f, {p})
    BY <2>4, FewerFact
  <2>6. /\ IsFiniteSet(A \cup B)
        /\ Cardinality(A \cup B) = Cardinality(A) + Cardinality(B) - Cardinality(A \cap B)
    BY <2>3, <2>5, FS_Union
  <2>7. /\ IsFiniteSet(A \cap B) /\ Cardinality(A \cap B) \in Nat /\ Cardinality(B) \in Nat
    <3>1. A \cap B \in SUBSET A
      OBVIOUS
    <3> QED
      BY <2>3, <2>5, <3>1, FS_Subset, FS_CardinalityType
  <2>8. Number(c, T) <= Cardinality(A \cup B)
    BY <2>2, <2>6, FS_Subset DEF Number
  <2>9. Number(c, T) \in Nat
    BY <1>4, NumberFact
  <2> QED
    BY <2>3, <2>5, <2>6, <2>7, <2>8, <2>9
<1>9. \A i \in DOMAIN c :
        (\E j \in DOMAIN l : c[i] = l[j]) \/ (\E j \in DOMAIN f : c[i] = Entry("window", f[j]))
  BY <1>1, <1>3, <1>4, <1>5, <1>7
<1>10. \A j \in DOMAIN l : \E i \in DOMAIN c : c[i] = l[j]
  BY <1>1, <1>4, <1>5
<1>11. \A j \in DOMAIN f : \E i \in DOMAIN c : c[i] = Entry("window", f[j])
  <2> TAKE j \in DOMAIN f
  <2>1. n + j \in DOMAIN c /\ c[n + j] = Entry("window", f[j])
    BY <1>1, <1>3, <1>4, <1>6
  <2> QED
    BY <2>1
<1> QED
  BY <1>4, <1>8, <1>9, <1>10, <1>11 DEF c, a

-----------------------------------------------------------------------------
(* Every step keeps the types.                                             *)

LEMMA RecordFact ==
  /\ Blank \in Views /\ Idle \in EventStates /\ Client \in Clients
  /\ \A p \in Plays \cup {None}, kind \in {"none", "window", "callback"} : Entry(kind, p) \in Entries
  BY DEF Blank, Views, Idle, EventStates, Client, Clients, Entry, Entries

LEMMA ViewFact ==
  ASSUME NEW v \in Views
  PROVE  /\ v.ref \in Int /\ v.busy \in BOOLEAN
         /\ \A n \in Int : [v EXCEPT !.ref = n] \in Views
         /\ \A b \in BOOLEAN : [v EXCEPT !.busy = b] \in Views
         /\ \A s \in {"ready", "playing", "stopped", "finished"} : [v EXCEPT !.status = s] \in Views
         /\ \A s \in {"none", "window", "callback"} : [v EXCEPT !.info = s] \in Views
  BY DEF Views

\* What becomes of the client that a step is of: the others stay.
LEMMA GoFact ==
  ASSUME usr \in [Users -> Clients], NEW u \in Users,
         NEW a \in {"idle", "lock", "connect", "free", "view", "stop", "erase", "put"}, Go(u, a)
  PROVE  /\ usr' \in [Users -> Clients]
         /\ usr'[u].at = a /\ usr'[u].p = usr[u].p /\ usr'[u].cb = usr[u].cb
         /\ \A v \in Users \ {u} : usr'[v] = usr[v]
<1>1. \A c \in Clients :
        /\ [c EXCEPT !.at = a] \in Clients
        /\ [c EXCEPT !.at = a].at = a /\ [c EXCEPT !.at = a].p = c.p /\ [c EXCEPT !.at = a].cb = c.cb
  BY DEF Clients
<1> QED
  BY <1>1 DEF Go

LEMMA LeaveFact ==
  ASSUME usr \in [Users -> Clients], NEW u \in Users, Leave(u)
  PROVE  /\ usr' \in [Users -> Clients]
         /\ usr'[u].at = "idle" /\ usr'[u].p = None /\ usr'[u].cb = FALSE
         /\ \A v \in Users \ {u} : usr'[v] = usr[v]
  BY RecordFact DEF Leave, Client

LEMMA NewFact ==
  ASSUME usr \in [Users -> Clients], view \in [Plays -> Views],
         NEW u \in Users, NEW p \in Plays, NEW n \in Int, NEW cb \in BOOLEAN, New(u, p, n, cb)
  PROVE  /\ usr' \in [Users -> Clients]
         /\ usr'[u] = [at |-> "lock", p |-> p, cb |-> cb]
         /\ \A v \in Users \ {u} : usr'[v] = usr[v]
         /\ view' \in [Plays -> Views]
         /\ view'[p].ref = n /\ view'[p].status = "ready"
         /\ \A q \in Plays \ {p} : view'[q] = view[q]
<1>1. [at |-> "lock", p |-> p, cb |-> cb] \in Clients
  BY DEF Clients
<1>2. /\ [Blank EXCEPT !.ref = n, !.busy = cb] \in Views
      /\ [Blank EXCEPT !.ref = n, !.busy = cb].ref = n
      /\ [Blank EXCEPT !.ref = n, !.busy = cb].status = "ready"
  BY DEF Blank, Views
<1> QED
  BY <1>1, <1>2 DEF New

LEMMA PutRefFact ==
  ASSUME obj \subseteq Plays, view \in [Plays -> Views], NEW p \in Plays, PutRef(p)
  PROVE  /\ obj' \subseteq Plays /\ view' \in [Plays -> Views] /\ p \in obj
         /\ IF view[p].ref = 1 THEN obj' = obj \ {p} /\ view'[p] = Blank
            ELSE /\ obj' = obj /\ view'[p].ref = view[p].ref - 1
                 /\ view'[p].status = view[p].status
         /\ \A q \in Plays \ {p} : view'[q] = view[q]
<1>1. view[p].ref - 1 \in Int /\ view[p] \in Views
  <2>1. view[p] \in Views
    OBVIOUS
  <2>2. view[p].ref \in Int
    BY <2>1, ViewFact
  <2> QED
    BY <2>1, <2>2
<1>2. \A v \in Views, n \in Int :
        [v EXCEPT !.ref = n] \in Views /\ [v EXCEPT !.ref = n].ref = n /\ [v EXCEPT !.ref = n].status = v.status
  BY DEF Views
<1>3. CASE view[p].ref = 1
  BY <1>3, RecordFact DEF PutRef, Delete
<1>4. CASE view[p].ref # 1
  <2>1. view' = [view EXCEPT ![p] = [view[p] EXCEPT !.ref = view[p].ref - 1]] /\ obj' = obj /\ p \in obj
    BY <1>4 DEF PutRef
  <2> QED
    BY <1>1, <1>2, <1>4, <2>1
<1> QED
  BY <1>3, <1>4

LEMMA TypeClient ==
  ASSUME TypeOK, NEW u \in Users, Begin(u) \/ Call(u) PROVE TypeOK'
<1> USE RecordFact, ViewFact DEF TypeOK, playVars, threadVars
<1>1. CASE StartWindow(u)
  <2>1. PICK p \in Plays : New(u, p, 1, FALSE) /\ sole' \subseteq sole \cup {p}
    BY <1>1 DEF StartWindow, Fresh
  <2>2. usr' \in [Users -> Clients] /\ view' \in [Plays -> Views]
    <3>1. usr \in [Users -> Clients] /\ view \in [Plays -> Views]
      OBVIOUS
    <3>2. 1 \in Int
      OBVIOUS
    <3> HIDE DEF TypeOK
    <3> QED
      BY <2>1, <3>1, <3>2, NewFact, Zenon
  <2> QED
    BY <2>1, <2>2 DEF New
<1>2. CASE StartCallback(u)
  <2>1. CASE LooksFree # {}
    <3>1. \A p \in Plays : [at |-> "lock", p |-> p, cb |-> TRUE] \in Clients
      BY DEF Clients
    <3>2. PICK p \in Plays :
            /\ view' = [view EXCEPT ![p].busy = TRUE] /\ sole' = sole \ {p}
            /\ usr' = [usr EXCEPT ![u] = [at |-> "lock", p |-> p, cb |-> TRUE]]
            /\ UNCHANGED <<obj, map, stream, queue, list, ev, rs, out, breaks, blind>>
      BY <1>2, <2>1 DEF StartCallback
    <3>3. view' \in [Plays -> Views]
      BY <3>2
    <3> QED
      BY <3>1, <3>2, <3>3
  <2>2. CASE LooksFree = {}
    <3>1. PICK p \in Plays : New(u, p, 0, TRUE) /\ sole' \subseteq sole
      BY <1>2, <2>2 DEF StartCallback, Fresh
    <3>2. usr' \in [Users -> Clients] /\ view' \in [Plays -> Views]
      <4>1. usr \in [Users -> Clients] /\ view \in [Plays -> Views]
        OBVIOUS
      <4>2. 0 \in Int
        OBVIOUS
      <4> HIDE DEF TypeOK
      <4> QED
        BY <3>1, <4>1, <4>2, NewFact, Zenon
    <3> QED
      BY <3>1, <3>2 DEF New
  <2> QED
    BY <2>1, <2>2
<1>3. CASE StopBegins(u)
  BY <1>3, WithoutFact, GoFact DEF StopBegins
<1>4. CASE Connect(u)
  BY <1>4, GoFact DEF Connect
<1>5. CASE Connected(u)
  BY <1>5, GoFact DEF Connected
<1>6. CASE ConnectFails(u) \/ WindowFails(u)
  <2>1. Go(u, Failed(u)) /\ Failed(u) \in {"free", "erase"}
    BY <1>6 DEF ConnectFails, WindowFails, Failed
  <2>2. usr' \in [Users -> Clients]
    BY <2>1, GoFact
  <2>3. CASE ConnectFails(u)
    BY <2>2, <2>3 DEF ConnectFails
  <2>4. CASE WindowFails(u)
    BY <2>2, <2>4 DEF WindowFails
  <2> QED
    BY <1>6, <2>3, <2>4
<1>7. CASE FreeRealPlay(u)
  BY <1>7, LeaveFact DEF FreeRealPlay, Delete
<1>8. CASE NotFound(u) \/ Erase(u)
  BY <1>8, GoFact, LeaveFact DEF NotFound, Erase
<1>9. CASE StopRealPlay(u)
  BY <1>9, GoFact DEF StopRealPlay
<1>10. CASE Put(u)
  <2>1. usr[u].p \in Plays
    BY <1>10 DEF Put, PutRef
  <2> QED
    BY <1>10, <2>1, LeaveFact, PutRefFact DEF Put
<1> QED
  BY <1>1, <1>2, <1>3, <1>4, <1>5, <1>6, <1>7, <1>8, <1>9, <1>10 DEF Begin, Call

LEMMA EvGoFact ==
  ASSUME ev \in EventStates, NEW a \in {"idle", "copy", "stop", "remove", "add", "ref", "release"}, EvGo(a)
  PROVE  /\ ev' \in EventStates
         /\ ev'.at = a /\ ev'.p = ev.p /\ ev'.code = ev.code /\ ev'.entry = ev.entry
  BY DEF EvGo, EventStates

\* A message taken, and a view copied.
LEMMA EvTakeFact ==
  ASSUME NEW p \in Plays, NEW code \in {"resume", "end"},
         ev' = [Idle EXCEPT !.at = "copy", !.p = p, !.code = code]
  PROVE  ev' \in EventStates /\ ev'.at = "copy" /\ ev'.p = p /\ ev'.entry.h = None /\ ev'.entry.obj = None
  BY DEF Idle, Entry, EventStates, Entries

LEMMA EvCopyFact ==
  ASSUME ev \in EventStates, NEW x \in Entries, ev' = [ev EXCEPT !.at = "stop", !.entry = x]
  PROVE  ev' \in EventStates /\ ev'.at = "stop" /\ ev'.p = ev.p /\ ev'.entry = x
  BY DEF EventStates

\* The resume thread goes on with its view, with another one or with none.
LEMMA RsGoFact ==
  ASSUME rs \in ResumeStates, NEW a \in {"idle", "take", "try", "connect", "release", "back"}, RsGo(a)
  PROVE  rs' \in ResumeStates /\ rs'.at = a /\ rs'.p = rs.p /\ rs'.failed = rs.failed
  BY DEF RsGo, ResumeStates

LEMMA RsSetFact ==
  ASSUME rs \in ResumeStates, NEW p \in Plays \cup {None}, NEW a \in {"take", "try"},
         rs' = [rs EXCEPT !.at = a, !.p = p]
  PROVE  rs' \in ResumeStates /\ rs'.at = a /\ rs'.p = p /\ rs'.failed = rs.failed
  BY DEF ResumeStates

LEMMA RsNewFact ==
  \A f \in Seq(Plays), a \in {"idle", "take"} : [at |-> a, p |-> None, failed |-> f] \in ResumeStates
  BY DEF ResumeStates

LEMMA FieldFact ==
  /\ \A e \in EventStates : e.p \in Plays \cup {None} /\ e.entry \in Entries /\ e.code \in {"resume", "end"}
  /\ \A r \in ResumeStates : r.p \in Plays \cup {None} /\ r.failed \in Seq(Plays)
  /\ \A c \in Clients : c.p \in Plays \cup {None}
  /\ \A e \in Entries : e.h \in Plays \cup {None} /\ e.obj \in Plays \cup {None}
  /\ \A v \in Views : v.info \in {"none", "window", "callback"}
  BY DEF EventStates, ResumeStates, Clients, Entries, Views

Messages == [p : Plays, code : {"resume", "end"}]
LEMMA TypeMedia ==
  ASSUME TypeOK, NEW p \in Plays, NEW code \in {"resume", "end"}, StreamEnds(p, code)
  PROVE  TypeOK'
<1> DEFINE m == [p |-> p, code |-> code]
           q == IF Len(queue) >= MaxQueue THEN Tail(queue) ELSE queue
<1>1. queue \in Seq(Messages) /\ m \in Messages /\ Len(queue) <= MaxQueue /\ Len(queue) \in Nat
  BY LenProperties DEF TypeOK, Messages
<1>2. q \in Seq(Messages) /\ Len(q) \in Nat /\ Len(q) + 1 <= MaxQueue
  <2>1. CASE Len(queue) >= MaxQueue
    <3>1. queue # <<>>
      BY <1>1, <2>1, LiveAssumption, EmptySeq
    <3> QED
      BY <1>1, <2>1, <3>1, LiveAssumption, TailFact
  <2>2. CASE ~(Len(queue) >= MaxQueue)
    BY <1>1, <2>2, LiveAssumption
  <2> QED
    BY <2>1, <2>2
<1>3. queue' = Append(q, m)
  BY DEF StreamEnds, Post
<1> HIDE DEF q, m
<1>4. queue' \in Seq(Messages) /\ Len(queue') <= MaxQueue
  BY <1>1, <1>2, <1>3, AppendProperties
<1>5. breaks' \in 0..MaxBreaks
  BY LiveAssumption DEF StreamEnds, TypeOK
<1> QED
  BY <1>4, <1>5 DEF StreamEnds, TypeOK, Messages, threadVars

LEMMA TypeEvent == ASSUME TypeOK, EvOK, EventThread PROVE TypeOK'
<1> USE FieldFact DEF TypeOK, playVars, threadVars
<1>1. queue # <<>> => /\ Head(queue).p \in Plays /\ Head(queue).code \in {"resume", "end"}
                      /\ Tail(queue) \in Seq([p : Plays, code : {"resume", "end"}])
                      /\ Len(Tail(queue)) <= MaxQueue
  <2> SUFFICES ASSUME queue # <<>> PROVE /\ Head(queue) \in Messages
                                         /\ Tail(queue) \in Seq(Messages)
                                         /\ Len(Tail(queue)) <= MaxQueue
    BY DEF Messages
  <2>1. queue \in Seq(Messages) /\ Len(queue) <= MaxQueue
    BY DEF Messages
  <2> HIDE DEF TypeOK
  <2>2. Head(queue) \in Messages /\ Tail(queue) \in Seq(Messages) /\ Len(Tail(queue)) = Len(queue) - 1 /\ Len(queue) \in Nat
    BY <2>1, TailFact
  <2> QED
    BY <2>1, <2>2, LiveAssumption
<1>2. CASE EventIgnored
  BY <1>1, <1>2 DEF EventIgnored
<1>3. CASE GetRealPlayEx
  <2>1. /\ ev' \in EventStates
        /\ view' = [view EXCEPT ![Head(queue).p] = [view[Head(queue).p] EXCEPT !.ref = view[Head(queue).p].ref + 1]]
    BY <1>1, <1>3, EvTakeFact DEF GetRealPlayEx
  <2>2. view' \in [Plays -> Views]
    <3>1. view[Head(queue).p] \in Views
      BY <1>1, <1>3 DEF GetRealPlayEx
    <3>2. view[Head(queue).p].ref \in Int
      BY <3>1, ViewFact
    <3>3. view[Head(queue).p].ref + 1 \in Int
      BY <3>2
    <3> QED
      BY <2>1, <3>1, <3>3, ViewFact
  <2> QED
    BY <1>1, <1>3, <2>1, <2>2 DEF GetRealPlayEx
<1>4. CASE CopyInfo
  <2>1. ev.p \in Plays /\ view[ev.p] \in Views
    BY <1>4 DEF CopyInfo
  <2>2. Entry(view[ev.p].info, ev.p) \in Entries
    BY <2>1, RecordFact
  <2>3. ev' \in EventStates
    BY <1>4, <2>2, EvCopyFact DEF CopyInfo
  <2> QED
    BY <1>4, <2>3 DEF CopyInfo
<1>5. CASE StopStream
  <2>1. ev.p \in Plays /\ view[ev.p] \in Views /\ AfterStop \in {"remove", "release"}
    BY <1>5 DEF StopStream, AfterStop
  <2>2. ev' \in EventStates
    BY <1>5, <2>1, EvGoFact DEF StopStream
  <2>3. view' \in [Plays -> Views] /\ stream' \in [Plays -> {"off", "on", "broken"}]
    BY <1>5, <2>1, ViewFact DEF StopStream
  <2> QED
    BY <1>5, <2>1, <2>2, <2>3 DEF StopStream
<1>6. CASE RemoveEntry
  BY <1>6, EvGoFact, WithoutFact DEF RemoveEntry
<1>7. CASE AddEntry
  <2>1. ev' \in EventStates
    BY <1>7, EvGoFact DEF AddEntry
  <2>2. list' \in Seq(Entries)
    BY <1>7, AppendProperties DEF AddEntry
  <2>3. blind' \subseteq Plays
    <3>1. ev.p \in Plays /\ blind' \subseteq blind \cup {ev.p}
      BY <1>7 DEF AddEntry, EvAt, EvOK
    <3> QED
      BY <3>1
  <2> QED
    BY <1>7, <2>1, <2>2, <2>3 DEF AddEntry
<1>8. CASE RefEntry
  <2>1. /\ ev.p \in Plays /\ view[ev.p] \in Views
        /\ view' = [view EXCEPT ![ev.p] = [view[ev.p] EXCEPT !.ref = view[ev.p].ref + 1]]
    BY <1>8 DEF RefEntry
  <2>2. view[ev.p].ref \in Int
    BY <2>1, ViewFact
  <2>3. view' \in [Plays -> Views]
    <3>1. view[ev.p].ref + 1 \in Int
      BY <2>2
    <3> QED
      BY <2>1, <3>1, ViewFact
  <2>4. ev' \in EventStates
    BY <1>8, EvGoFact DEF RefEntry
  <2> QED
    BY <1>8, <2>3, <2>4 DEF RefEntry
<1>9. CASE ReleaseEvent
  <2>1. ev.p \in Plays
    BY <1>9 DEF ReleaseEvent, PutRef
  <2>2. obj' \subseteq Plays /\ view' \in [Plays -> Views]
    BY <1>9, <2>1, PutRefFact DEF ReleaseEvent
  <2> QED
    BY <1>9, <2>2, RecordFact DEF ReleaseEvent
<1> QED
  BY <1>2, <1>3, <1>4, <1>5, <1>6, <1>7, <1>8, <1>9 DEF EventThread

LEMMA TypeResume == ASSUME TypeOK, RsOK, ResumeThread PROVE TypeOK'
<1> USE FieldFact DEF TypeOK, playVars, threadVars
<1>1. CASE Trigger \/ AllTaken \/ RestartRefused
  BY <1>1, RsGoFact DEF Trigger, AllTaken, RestartRefused
<1>2. CASE TakeEntry
  <2>1. Head(list) \in Entries /\ Tail(list) \in Seq(Entries)
    BY <1>2, TailFact DEF TakeEntry
  <2>2. rs' \in ResumeStates
    <3>1. CASE Head(list).obj = None
      BY <1>2, <3>1 DEF TakeEntry
    <3>2. CASE Head(list).obj # None
      <4>1. rs' = [rs EXCEPT !.at = "try", !.p = Head(list).obj] /\ Head(list).obj \in Plays
        BY <1>2, <2>1, <3>2 DEF TakeEntry
      <4> QED
        BY <4>1, RsSetFact
    <3> QED
      BY <3>1, <3>2
  <2> QED
    BY <1>2, <2>1, <2>2 DEF TakeEntry
<1>3. CASE BackToList
  <2>1. <<>> \in Seq(Plays) /\ rs.failed \in Seq(Plays)
    OBVIOUS
  <2>2. rs' \in ResumeStates
    BY <1>3, <2>1, RsNewFact DEF BackToList
  <2>3. list' \in Seq(Entries)
    <3>1. Again(rs.failed) \in Seq(Entries)
      BY <2>1, AgainSeq
    <3>2. list' = list \o Again(rs.failed)
      BY <1>3 DEF BackToList, Again
    <3> QED
      BY <3>1, <3>2, ConcatProperties
  <2> QED
    BY <1>3, <2>2, <2>3 DEF BackToList
<1>4. CASE ReStartRealPlay
  <2>1. rs' \in ResumeStates
    BY <1>4, RsGoFact DEF ReStartRealPlay
  <2> QED
    BY <1>4, <2>1 DEF ReStartRealPlay
<1>5. CASE Restarted
  <2>1. rs' \in ResumeStates
    BY <1>5, RsGoFact DEF Restarted
  <2>2. view' \in [Plays -> Views]
    BY <1>5, ViewFact DEF Restarted
  <2> QED
    BY <1>5, <2>1, <2>2 DEF Restarted
<1>6. CASE RestartFails
  <2>1. rs.p \in Plays /\ rs.failed \in Seq(Plays)
    BY <1>6 DEF RestartFails
  <2>2. Append(rs.failed, rs.p) \in Seq(Plays)
    BY <2>1, AppendProperties
  <2>3. rs' \in ResumeStates
    BY <1>6, <2>2, RsNewFact DEF RestartFails
  <2> QED
    BY <1>6, <2>3 DEF RestartFails
<1>7. CASE ReleaseResumed
  <2>1. rs.p \in Plays
    BY <1>7 DEF ReleaseResumed, PutRef
  <2>2. obj' \subseteq Plays /\ view' \in [Plays -> Views]
    BY <1>7, <2>1, PutRefFact DEF ReleaseResumed
  <2>3. rs' \in ResumeStates
    BY <1>7, RsSetFact DEF ReleaseResumed
  <2> QED
    BY <1>7, <2>2, <2>3 DEF ReleaseResumed
<1> QED
  BY <1>1, <1>2, <1>3, <1>4, <1>5, <1>6, <1>7 DEF ResumeThread

LEMMA TypeLogout == ASSUME TypeOK, Logout \/ LogoutSteps PROVE TypeOK'
<1> USE DEF TypeOK, playVars, threadVars
<1>1. CASE Logout \/ AllStopped \/ CancelTimer
  BY <1>1 DEF Logout, AllStopped, CancelTimer
<1>2. ASSUME NEW p \in Plays, StopAllRealPlay(p) PROVE TypeOK'
  BY <1>2, RecordFact DEF StopAllRealPlay, Delete
<1>3. CASE ClearList
  BY <1>3 DEF ClearList
<1> QED
  BY <1>1, <1>2, <1>3 DEF LogoutSteps

-----------------------------------------------------------------------------
(* The threads and the list.                                               *)

ClientStep == \E u \in Users : Begin(u) \/ Call(u)
MediaStep == \E p \in Plays, code \in {"resume", "end"} : StreamEnds(p, code)
LogoutStep == Logout \/ LogoutSteps

LEMMA NextFact == Next <=> ClientStep \/ MediaStep \/ EventThread \/ ResumeThread \/ LogoutStep
  BY DEF Next, ClientStep, MediaStep, LogoutStep

\* What a step of one actor leaves alone of the others.
LEMMA ClientFrame ==
  ASSUME ClientStep PROVE UNCHANGED <<queue, ev, rs, out, breaks>>
  BY DEF ClientStep, Begin, Call, StartWindow, StartCallback, New, StopBegins, Connect, Connected,
         ConnectFails, WindowFails, FreeRealPlay, NotFound, StopRealPlay, Erase, Put, playVars

LEMMA MediaFrame ==
  ASSUME MediaStep PROVE UNCHANGED <<obj, map, view, list, ev, rs, usr, out, sole, blind>>
  BY DEF MediaStep, StreamEnds, threadVars

LEMMA EventFrame ==
  ASSUME EventThread PROVE UNCHANGED <<map, rs, usr, out, breaks, sole>>
  BY DEF EventThread, EventIgnored, GetRealPlayEx, CopyInfo, StopStream, RemoveEntry, AddEntry,
         RefEntry, ReleaseEvent, playVars, threadVars

LEMMA ResumeFrame ==
  ASSUME ResumeThread PROVE UNCHANGED <<map, queue, ev, usr, out, breaks, sole>>
  BY DEF ResumeThread, Trigger, TakeEntry, AllTaken, BackToList, RestartRefused, ReStartRealPlay,
         Restarted, RestartFails, ReleaseResumed, playVars

LEMMA LogoutFrame ==
  ASSUME LogoutStep
  PROVE  /\ UNCHANGED <<queue, ev, rs, usr, breaks, sole>>
         /\ out' # "in" /\ map' \subseteq map
  BY DEF LogoutStep, Logout, LogoutSteps, StopAllRealPlay, AllStopped, ClearList, CancelTimer,
         playVars, threadVars

LEMMA EvStep == ASSUME TypeOK, EvOK, Next PROVE EvOK'
<1>1. CASE EventThread
  <2> USE DEF EvAt, EvOK
  <2>1. CASE EventIgnored
    BY <2>1 DEF EventIgnored, threadVars
  <2>2. CASE GetRealPlayEx
    <3>1. /\ Head(queue).p \in Plays /\ Head(queue).code \in {"resume", "end"}
      <4>1. queue \in Seq(Messages) /\ queue # <<>>
        BY <2>2 DEF GetRealPlayEx, TypeOK, Messages
      <4>2. Head(queue) \in Messages
        BY <4>1, TailFact
      <4> QED
        BY <4>2 DEF Messages
    <3>2. ev' = [Idle EXCEPT !.at = "copy", !.p = Head(queue).p, !.code = Head(queue).code]
      BY <2>2 DEF GetRealPlayEx
    <3>3. ev'.at = "copy" /\ ev'.p = Head(queue).p /\ ev'.entry.h = None /\ ev'.entry.obj = None
      BY <3>1, <3>2, EvTakeFact
    <3> QED
      BY <3>1, <3>3, LiveAssumption
  <2>3. CASE CopyInfo
    <3>1. ev.p \in Plays /\ ev \in EventStates /\ view[ev.p].info \in {"none", "window", "callback"}
      BY <2>3, FieldFact DEF CopyInfo, TypeOK
    <3>2. Entry(view[ev.p].info, ev.p) \in Entries
      BY <3>1, RecordFact
    <3>3. ev' = [ev EXCEPT !.at = "stop", !.entry = Entry(view[ev.p].info, ev.p)]
      BY <2>3 DEF CopyInfo
    <3>4. ev'.at = "stop" /\ ev'.p = ev.p /\ ev'.entry = Entry(view[ev.p].info, ev.p)
      BY <3>1, <3>2, <3>3, EvCopyFact
    <3>5. Entry(view[ev.p].info, ev.p).h \in {None, ev.p}
      BY DEF Entry
    <3>6. Entry(view[ev.p].info, ev.p).obj \in {None, Entry(view[ev.p].info, ev.p).h}
      BY DEF Entry
    <3> QED
      BY <3>1, <3>4, <3>5, <3>6, LiveAssumption
  <2>4. CASE StopStream \/ RemoveEntry \/ AddEntry \/ RefEntry
    <3>1. \E a \in {"release", "remove", "add", "ref"} : EvGo(a) /\ ev.at # "idle" /\ ev \in EventStates
      BY <2>4 DEF StopStream, AfterStop, RemoveEntry, AddEntry, RefEntry, TypeOK
    <3> QED
      BY <3>1, EvGoFact
  <2>5. CASE ReleaseEvent
    BY <2>5 DEF ReleaseEvent, Idle, Entry
  <2> QED
    BY <1>1, <2>1, <2>2, <2>3, <2>4, <2>5 DEF EventThread
<1>2. CASE UNCHANGED ev
  BY <1>2 DEF EvOK
<1> QED
  BY <1>1, <1>2, NextFact, ClientFrame, MediaFrame, ResumeFrame, LogoutFrame

LEMMA RsStep == ASSUME TypeOK, RsOK, Next PROVE RsOK'
<1>1. CASE ResumeThread
  <2> USE DEF RsAt, RsOK, TypeOK
  <2>1. CASE Trigger \/ AllTaken
    BY <2>1, RsGoFact DEF Trigger, AllTaken
  <2>2. CASE TakeEntry
    <3>1. Head(list) \in Entries
      BY <2>2, TailFact DEF TakeEntry
    <3>2. CASE Head(list).obj = None
      BY <2>2, <3>2 DEF TakeEntry
    <3>3. CASE Head(list).obj # None
      <4>1. rs' = [rs EXCEPT !.at = "try", !.p = Head(list).obj] /\ Head(list).obj \in Plays
        BY <2>2, <3>1, <3>3, FieldFact DEF TakeEntry
      <4>2. rs'.at = "try" /\ rs'.p = Head(list).obj
        BY <4>1, RsSetFact
      <4> QED
        BY <4>1, <4>2, LiveAssumption
    <3> QED
      BY <3>2, <3>3
  <2>3. CASE BackToList \/ RestartFails
    BY <2>3 DEF BackToList, RestartFails
  <2>4. CASE RestartRefused \/ ReStartRealPlay \/ Restarted
    BY <2>4, RsGoFact DEF RestartRefused, ReStartRealPlay, Restarted
  <2>5. CASE ReleaseResumed
    <3>1. rs' = [rs EXCEPT !.at = "take", !.p = None]
      BY <2>5 DEF ReleaseResumed
    <3>2. rs'.at = "take" /\ rs'.p = None
      BY <3>1, RsSetFact
    <3> QED
      BY <3>2
  <2> QED
    BY <1>1, <2>1, <2>2, <2>3, <2>4, <2>5 DEF ResumeThread
<1>2. CASE UNCHANGED rs
  BY <1>2 DEF RsOK
<1> QED
  BY <1>1, <1>2, NextFact, ClientFrame, MediaFrame, EventFrame, LogoutFrame

LEMMA ListFrame ==
  ASSUME Next
  PROVE  \/ UNCHANGED list
         \/ \E u \in Users : StopBegins(u)
         \/ RemoveEntry \/ AddEntry \/ TakeEntry \/ BackToList \/ ClearList
<1>1. CASE ClientStep
  BY <1>1 DEF ClientStep, Begin, Call, StartWindow, StartCallback, New, Connect, Connected,
         ConnectFails, WindowFails, FreeRealPlay, NotFound, StopRealPlay, Erase, Put
<1>2. CASE EventThread
  BY <1>2 DEF EventThread, EventIgnored, GetRealPlayEx, CopyInfo, StopStream, RefEntry, ReleaseEvent
<1>3. CASE ResumeThread
  BY <1>3 DEF ResumeThread, Trigger, AllTaken, RestartRefused, ReStartRealPlay,
         Restarted, RestartFails, ReleaseResumed
<1>4. CASE LogoutStep
  BY <1>4 DEF LogoutStep, Logout, LogoutSteps, StopAllRealPlay, AllStopped, CancelTimer
<1> QED
  BY <1>1, <1>2, <1>3, <1>4, NextFact, MediaFrame

LEMMA ListStep == ASSUME TypeOK, EvOK, ListOK, Next PROVE ListOK'
<1>1. list \in Seq(Entries) /\ ev.entry \in Entries /\ rs.failed \in Seq(Plays)
  BY FieldFact DEF TypeOK
<1>2. ASSUME NEW h, list' = Without(list, h) PROVE ListOK'
  <2>1. \A i \in DOMAIN list' : \E j \in DOMAIN list : list'[i] = list[j]
    BY <1>1, <1>2, WithoutFact
  <2> QED
    BY <2>1 DEF ListOK
<1>3. CASE AddEntry
  <2>1. list' = Append(list, ev.entry)
    BY <1>3 DEF AddEntry
  <2> QED
    BY <1>1, <2>1, AppendFact DEF ListOK, EvOK
<1>4. CASE TakeEntry
  BY <1>1, <1>4, TailFact DEF ListOK, TakeEntry
<1>5. CASE BackToList
  <2>1. list' = list \o Again(rs.failed)
    BY <1>5 DEF BackToList, Again
  <2>2. \A i \in DOMAIN list' :
          \/ \E j \in DOMAIN list : list'[i] = list[j]
          \/ \E j \in DOMAIN rs.failed : list'[i] = Entry("window", rs.failed[j])
    BY <1>1, <2>1, AgainFact
  <2> QED
    BY <2>2 DEF ListOK, Entry
<1>6. CASE ClearList
  BY <1>6 DEF ClearList, ListOK
<1>7. CASE UNCHANGED list
  BY <1>7 DEF ListOK
<1> QED
  BY <1>2, <1>3, <1>4, <1>5, <1>6, <1>7, ListFrame DEF StopBegins, RemoveEntry

-----------------------------------------------------------------------------
(* The clients.                                                            *)

\* A window start makes a view of its own, unless somebody still refers to
\* the address.
LEMMA StartFact ==
  ASSUME TypeOK, NEW u \in Users, Begin(u), ~StopBegins(u)
  PROVE  \E p \in Plays, cb \in BOOLEAN :
           /\ usr[u].at = "idle" /\ out = "in"
           /\ usr'[u].at = "lock" /\ usr'[u].p = p /\ (usr'[u].cb <=> cb)
           /\ \A v \in Users \ {u} : usr'[v] = usr[v]
           /\ sole' \subseteq sole \cup {p} /\ UNCHANGED <<stream, list>>
           /\ p \in sole' => /\ ~cb /\ ~ReferredTo(p)
                            /\ obj' = obj \cup {p} /\ view'[p].ref = 1 /\ view'[p].status = "ready"
           /\ \A q \in Plays \ {p} :
                /\ (q \in sole' <=> q \in sole) /\ (q \in map' <=> q \in map)
                /\ (q \in obj' <=> q \in obj) /\ (q \in blind' <=> q \in blind)
                /\ view'[q] = view[q]
<1>1. usr \in [Users -> Clients] /\ view \in [Plays -> Views] /\ map \subseteq Plays
  BY DEF TypeOK
<1>2. CASE StartWindow(u)
  <2> DEFINE n == 1
  <2>1. PICK p \in Plays, cb \in BOOLEAN :
          /\ New(u, p, n, cb) /\ ~cb
          /\ sole' = IF ReferredTo(p) THEN sole \ {p} ELSE sole \cup {p}
    BY <1>2 DEF StartWindow, Fresh
  <2>2. n \in Int /\ New(u, p, n, cb)
    BY <2>1
  <2> HIDE DEF n
  <2>3. /\ usr' \in [Users -> Clients]
        /\ usr'[u] = [at |-> "lock", p |-> p, cb |-> cb]
        /\ \A v \in Users \ {u} : usr'[v] = usr[v]
        /\ view' \in [Plays -> Views]
        /\ view'[p].ref = n /\ view'[p].status = "ready"
        /\ \A q \in Plays \ {p} : view'[q] = view[q]
    <3> HIDE DEF New
    <3>1. usr \in [Users -> Clients] /\ view \in [Plays -> Views]
      BY <1>1
    <3> QED
      BY <2>2, <3>1, NewFact
  <2>4. /\ usr[u].at = "idle" /\ out = "in" /\ UNCHANGED <<stream, list>>
        /\ obj' = obj \cup {p} /\ map' = map \cup {p} /\ blind' = blind \ {p}
    BY <1>2, <2>1 DEF StartWindow, At, New
  <2>5. usr'[u].at = "lock" /\ usr'[u].p = p /\ (usr'[u].cb <=> cb)
    BY <2>3
  <2> QED
    BY <2>1, <2>3, <2>4, <2>5 DEF n
<1>3. CASE StartCallback(u)
  <2>1. usr[u].at = "idle" /\ out = "in"
    BY <1>3 DEF StartCallback, At
  <2>2. CASE LooksFree # {}
    <3>1. PICK p \in Plays :
            /\ view' = [view EXCEPT ![p].busy = TRUE] /\ sole' = sole \ {p}
            /\ usr' = [usr EXCEPT ![u] = [at |-> "lock", p |-> p, cb |-> TRUE]]
            /\ UNCHANGED <<obj, map, stream, queue, list, ev, rs, out, breaks, blind>>
      BY <1>1, <1>3, <2>2 DEF StartCallback, LooksFree
    <3> QED
      BY <1>1, <2>1, <3>1
  <2>3. CASE LooksFree = {}
    <3>1. PICK p \in Plays, cb \in BOOLEAN : New(u, p, 0, cb) /\ cb /\ sole' = sole \ {p}
      BY <1>3, <2>3 DEF StartCallback, Fresh
    <3>2. 0 \in Int
      OBVIOUS
    <3>3. /\ usr'[u] = [at |-> "lock", p |-> p, cb |-> cb]
          /\ \A v \in Users \ {u} : usr'[v] = usr[v]
          /\ \A q \in Plays \ {p} : view'[q] = view[q]
      BY <1>1, <3>1, <3>2, NewFact, Zenon
    <3>4. /\ UNCHANGED <<stream, list>>
          /\ obj' = obj \cup {p} /\ map' = map \cup {p} /\ blind' = blind \ {p}
      BY <3>1 DEF New
    <3>5. usr'[u].at = "lock" /\ usr'[u].p = p /\ (usr'[u].cb <=> cb)
      BY <3>3
    <3> QED
      BY <2>1, <3>1, <3>3, <3>4, <3>5
  <2> QED
    BY <2>2, <2>3
<1> QED
  BY <1>2, <1>3 DEF Begin

\* A client that goes on keeps its view, or leaves it; nobody gets another.
LEMMA CallFact ==
  ASSUME TypeOK, NEW u \in Users, StopBegins(u) \/ Call(u)
  PROVE  /\ \A v \in Users \ {u} : usr'[v] = usr[v]
         /\ usr[u].at # "idle" /\ UNCHANGED sole /\ map' \subseteq map
         /\ \/ usr'[u].at = "idle" /\ usr'[u].p = None
            \/ /\ usr'[u].at # "idle" /\ usr'[u].p = usr[u].p /\ usr'[u].cb = usr[u].cb
               /\ usr'[u].at = "free" => usr[u].cb
               /\ usr'[u].at = "put" => map' = map \ {usr[u].p}
<1>1. usr \in [Users -> Clients]
  BY DEF TypeOK
<1>2. ASSUME NEW a \in {"connect", "view", "stop", "erase", "free"}, Go(u, a), a = "free" => usr[u].cb,
             usr[u].at # "idle", UNCHANGED <<sole, map>>
      PROVE  /\ \A v \in Users \ {u} : usr'[v] = usr[v]
             /\ usr[u].at # "idle" /\ UNCHANGED sole /\ map' \subseteq map
             /\ /\ usr'[u].at # "idle" /\ usr'[u].p = usr[u].p /\ usr'[u].cb = usr[u].cb
                /\ usr'[u].at = "free" => usr[u].cb
                /\ usr'[u].at = "put" => map' = map \ {usr[u].p}
  BY <1>1, <1>2, GoFact
<1>3. CASE StopBegins(u) \/ Connect(u) \/ Connected(u) \/ StopRealPlay(u)
  BY <1>2, <1>3 DEF StopBegins, Connect, Connected, StopRealPlay, At, playVars
<1>4. CASE ConnectFails(u) \/ WindowFails(u)
  BY <1>2, <1>4 DEF ConnectFails, WindowFails, Failed, At
<1>5. CASE FreeRealPlay(u) \/ NotFound(u) \/ Put(u)
  BY <1>1, <1>5, LeaveFact DEF FreeRealPlay, NotFound, Put, At, playVars
<1>6. CASE Erase(u)
  <2>1. /\ usr[u].at # "idle" /\ UNCHANGED sole /\ map' = map \ {usr[u].p}
        /\ Go(u, "put") \/ Leave(u)
    BY <1>6 DEF Erase, At
  <2> QED
    BY <1>1, <2>1, GoFact, LeaveFact
<1> QED
  BY <1>3, <1>4, <1>5, <1>6 DEF Call

LEMMA UsersStep == ASSUME TypeOK, UsersOK, Next PROVE UsersOK'
<1> USE DEF UsersOK, OneClient
<1>1. \A v \in Users : usr[v].p \in Plays \cup {None}
  BY FieldFact DEF TypeOK
<1>2. ASSUME NEW u \in Users, Begin(u), ~StopBegins(u) PROVE UsersOK'
  <2>1. PICK p \in Plays, cb \in BOOLEAN :
           /\ usr'[u].at = "lock" /\ usr'[u].p = p /\ (usr'[u].cb <=> cb)
           /\ \A v \in Users \ {u} : usr'[v] = usr[v]
           /\ sole' \subseteq sole \cup {p}
           /\ p \in sole' => ~cb /\ ~ReferredTo(p)
           /\ \A q \in Plays \ {p} : (q \in sole' <=> q \in sole) /\ (q \in map' <=> q \in map)
    BY <1>2, StartFact
  <2>2. \A v \in Users \ {u} : p \in sole' => usr'[v].p # p
    BY <2>1 DEF ReferredTo
  <2>3. sole \subseteq Plays /\ sole' \subseteq Plays
    BY <2>1 DEF TypeOK
  <2> QED
    BY <1>1, <2>1, <2>2, <2>3, LiveAssumption
<1>3. ASSUME NEW u \in Users, StopBegins(u) \/ Call(u) PROVE UsersOK'
  <2>1. sole \subseteq Plays
    BY DEF TypeOK
  <2> QED
    BY <1>3, <2>1, CallFact, LiveAssumption
<1>4. CASE usr' = usr /\ sole' = sole /\ map' \subseteq map
  BY <1>4
<1> QED
  BY <1>2, <1>3, <1>4, NextFact, MediaFrame, EventFrame, ResumeFrame, LogoutFrame DEF ClientStep, Begin

-----------------------------------------------------------------------------
(* The status of a view, and its stream.                                   *)

LEMMA ViewChange ==
  ASSUME view \in [Plays -> Views], NEW p \in Plays
  PROVE  /\ \A n \in Int : view' = [view EXCEPT ![p].ref = n] =>
              /\ view'[p].ref = n /\ view'[p].status = view[p].status
              /\ \A q \in Plays \ {p} : view'[q] = view[q]
         /\ \A s \in {"playing", "stopped"} : view' = [view EXCEPT ![p].status = s] =>
              /\ view'[p].ref = view[p].ref /\ view'[p].status = s
              /\ \A q \in Plays \ {p} : view'[q] = view[q]
<1>1. \A v \in Views, n \in Int : [v EXCEPT !.ref = n].ref = n /\ [v EXCEPT !.ref = n].status = v.status
  BY DEF Views
<1>2. \A v \in Views, s \in {"playing", "stopped"} :
        [v EXCEPT !.status = s].ref = v.ref /\ [v EXCEPT !.status = s].status = s
  BY DEF Views
<1>3. view[p] \in Views
  OBVIOUS
<1>4. ASSUME NEW n \in Int, view' = [view EXCEPT ![p].ref = n]
      PROVE  /\ view'[p].ref = n /\ view'[p].status = view[p].status
             /\ \A q \in Plays \ {p} : view'[q] = view[q]
  <2>1. view'[p] = [view[p] EXCEPT !.ref = n] /\ \A q \in Plays \ {p} : view'[q] = view[q]
    BY <1>4
  <2> QED
    BY <1>1, <1>3, <2>1
<1>5. ASSUME NEW s \in {"playing", "stopped"}, view' = [view EXCEPT ![p].status = s]
      PROVE  /\ view'[p].ref = view[p].ref /\ view'[p].status = s
             /\ \A q \in Plays \ {p} : view'[q] = view[q]
  <2>1. view'[p] = [view[p] EXCEPT !.status = s] /\ \A q \in Plays \ {p} : view'[q] = view[q]
    BY <1>5
  <2> QED
    BY <1>2, <1>3, <2>1
<1> QED
  BY <1>4, <1>5

\* Connected and StopRealPlay set more of a view than its status.
LEMMA ViewChanges ==
  ASSUME view \in [Plays -> Views], NEW p \in Plays
  PROVE  /\ \A i \in {"window", "callback"} :
              view' = [view EXCEPT ![p].status = "playing", ![p].info = i] =>
                /\ view'[p].ref = view[p].ref /\ view'[p].status = "playing"
                /\ \A q \in Plays \ {p} : view'[q] = view[q]
         /\ view' = [view EXCEPT ![p].info = "none", ![p].busy = FALSE, ![p].status = "finished"] =>
              /\ view'[p].ref = view[p].ref /\ view'[p].status = "finished"
              /\ \A q \in Plays \ {p} : view'[q] = view[q]
  BY DEF Views

\* The count of a view, and that it exists, change only where a reference is
\* taken or put back, or the view is made or deleted.
Keeps(q) == view'[q].ref = view[q].ref /\ (q \in obj' <=> q \in obj)

LEMMA ClientView ==
  ASSUME TypeOK, NEW u \in Users, StopBegins(u) \/ Call(u), NEW q \in Plays
  PROVE  /\ \/ view'[q].status \in {view[q].status, "ready", "playing"}
            \/ StopRealPlay(u) /\ usr[u].p = q /\ view'[q].status = "finished"
         /\ \/ Keeps(q)
            \/ Put(u) /\ usr[u].p = q
            \/ usr[u].at = "free" /\ usr[u].p = q
<1> USE DEF Keeps
<1>1. view \in [Plays -> Views] /\ obj \subseteq Plays /\ map \subseteq Plays
  BY DEF TypeOK
<1>2. CASE UNCHANGED <<obj, view>>
  BY <1>2
<1>3. CASE Connected(u)
  BY <1>1, <1>3, ViewChanges DEF Connected
<1>4. CASE WindowFails(u)
  BY <1>1, <1>4, ViewChange DEF WindowFails
<1>5. CASE FreeRealPlay(u)
  BY <1>1, <1>5 DEF FreeRealPlay, Delete, Blank, At
<1>6. CASE StopRealPlay(u)
  BY <1>1, <1>6, ViewChanges DEF StopRealPlay
<1>7. CASE Put(u)
  <2>1. usr[u].p \in Plays
    BY <1>1, <1>7 DEF Put, PutRef
  <2> QED
    BY <1>1, <1>7, <2>1, PutRefFact DEF Put, Blank
<1> QED
  BY <1>2, <1>3, <1>4, <1>5, <1>6, <1>7
     DEF Call, StopBegins, Connect, ConnectFails, NotFound, Erase, playVars

LEMMA EventView ==
  ASSUME TypeOK, EvOK, EventThread, NEW q \in Plays
  PROVE  /\ \/ view'[q].status \in {view[q].status, "ready"}
            \/ StopStream /\ ev.p = q /\ view'[q].status = "stopped" /\ view[q].status # "finished"
         /\ \/ Keeps(q)
            \/ /\ GetRealPlayEx /\ q = Head(queue).p /\ q \in obj /\ q \in obj'
               /\ view'[q].ref = view[q].ref + 1
            \/ /\ RefEntry /\ q = ev.p /\ q \in obj /\ q \in obj'
               /\ view'[q].ref = view[q].ref + 1
            \/ ReleaseEvent /\ q = ev.p
<1> USE DEF Keeps
<1>1. /\ view \in [Plays -> Views] /\ obj \subseteq Plays
      /\ \A p \in Plays : view[p].ref \in Int /\ view[p].ref + 1 \in Int
  <2>1. \A p \in Plays : view[p].ref \in Int
    BY ViewFact DEF TypeOK
  <2> QED
    BY <2>1 DEF TypeOK
<1>2. CASE UNCHANGED <<obj, view>>
  BY <1>2
<1>3. CASE GetRealPlayEx
  <2>1. Head(queue).p \in Plays
    BY <1>1, <1>3 DEF GetRealPlayEx
  <2>2. view' = [view EXCEPT ![Head(queue).p].ref = view[Head(queue).p].ref + 1] /\ UNCHANGED obj
    BY <1>3 DEF GetRealPlayEx
  <2>3. Head(queue).p \in obj
    BY <1>3 DEF GetRealPlayEx
  <2> QED
    BY <1>1, <1>3, <2>1, <2>2, <2>3, ViewChange
<1>4. CASE StopStream
  <2>1. ev.p \in Plays /\ UNCHANGED obj
    BY <1>1, <1>4 DEF StopStream
  <2>2. \/ UNCHANGED view
        \/ view[ev.p].status # "finished" /\ view' = [view EXCEPT ![ev.p].status = "stopped"]
    BY <1>4 DEF StopStream
  <2> QED
    BY <1>1, <1>4, <2>1, <2>2, ViewChange
<1>5. CASE RefEntry
  <2>1. ev.p \in Plays /\ ev.p \in obj /\ UNCHANGED obj
    BY <1>1, <1>5 DEF RefEntry
  <2>2. view' = [view EXCEPT ![ev.p].ref = view[ev.p].ref + 1]
    BY <1>5 DEF RefEntry
  <2> QED
    BY <1>1, <1>5, <2>1, <2>2, ViewChange
<1>6. CASE ReleaseEvent
  <2>1. ev.p \in Plays /\ PutRef(ev.p)
    BY <1>1, <1>6 DEF ReleaseEvent, PutRef
  <2> QED
    BY <1>1, <1>6, <2>1, PutRefFact DEF Blank
<1> QED
  BY <1>2, <1>3, <1>4, <1>5, <1>6
     DEF EventThread, EventIgnored, CopyInfo, RemoveEntry, AddEntry, playVars

LEMMA ResumeView ==
  ASSUME TypeOK, ResumeThread, NEW q \in Plays
  PROVE  /\ view'[q].status \in {view[q].status, "ready", "playing"}
         /\ Keeps(q) \/ (ReleaseResumed /\ q = rs.p)
<1> USE DEF Keeps
<1>1. view \in [Plays -> Views] /\ obj \subseteq Plays
  BY DEF TypeOK
<1>2. CASE UNCHANGED <<obj, view>>
  BY <1>2
<1>3. CASE Restarted
  BY <1>1, <1>3, ViewChange DEF Restarted
<1>4. CASE ReleaseResumed
  <2>1. rs.p \in Plays /\ PutRef(rs.p)
    BY <1>1, <1>4 DEF ReleaseResumed, PutRef
  <2> QED
    BY <1>1, <1>4, <2>1, PutRefFact DEF Blank
<1> QED
  BY <1>2, <1>3, <1>4
     DEF ResumeThread, Trigger, TakeEntry, AllTaken, BackToList, RestartRefused, ReStartRealPlay, RestartFails, playVars

LEMMA LogoutView ==
  ASSUME TypeOK, LogoutStep, NEW q \in Plays PROVE view'[q].status \in {view[q].status, "ready"}
  BY DEF LogoutStep, Logout, LogoutSteps, StopAllRealPlay, AllStopped, ClearList, CancelTimer, Delete, Blank,
         playVars, TypeOK

\* A stream that is off comes on by a start or a restart.
LEMMA StreamOn ==
  ASSUME TypeOK, Next, NEW q \in Plays, stream[q] = "off", stream'[q] # "off"
  PROVE  \/ \E u \in Users : Connect(u) /\ usr[u].p = q
         \/ ReStartRealPlay /\ rs.p = q
<1> USE DEF TypeOK
<1>1. CASE ClientStep
  BY <1>1 DEF ClientStep, Begin, Call, StartWindow, StartCallback, New, StopBegins, Connect, Connected,
         ConnectFails, WindowFails, FreeRealPlay, NotFound, StopRealPlay, Erase, Put, playVars
<1>2. CASE MediaStep
  BY <1>2 DEF MediaStep, StreamEnds
<1>3. CASE EventThread
  BY <1>3 DEF EventThread, EventIgnored, GetRealPlayEx, CopyInfo, StopStream, RemoveEntry, AddEntry,
         RefEntry, ReleaseEvent, playVars
<1>4. CASE ResumeThread
  BY <1>4 DEF ResumeThread, Trigger, TakeEntry, AllTaken, BackToList, RestartRefused, ReStartRealPlay,
         Restarted, RestartFails, ReleaseResumed, playVars
<1>5. CASE LogoutStep
  BY <1>5 DEF LogoutStep, Logout, LogoutSteps, StopAllRealPlay, AllStopped, ClearList, CancelTimer, playVars
<1> QED
  BY <1>1, <1>2, <1>3, <1>4, <1>5, NextFact

LEMMA FinishedStep ==
  ASSUME TypeOK, EvOK, UsersOK, UsersOK', FinishedOK, Next PROVE FinishedOK'
<1> SUFFICES ASSUME NEW q \in Plays, q \in sole', view'[q].status = "finished"
             PROVE  /\ stream'[q] = "off"
                    /\ rs'.at = "connect" => rs'.p # q
                    /\ \A v \in Users : usr'[v].p = q => usr'[v].at \in {"erase", "put"}
  <2>1. sole' \subseteq Plays
    <3>1. CASE ClientStep
      BY <3>1, StartFact, CallFact DEF ClientStep, Begin, TypeOK
    <3> QED
      BY <3>1, NextFact, MediaFrame, EventFrame, ResumeFrame, LogoutFrame DEF TypeOK
  <2> QED
    BY <2>1 DEF FinishedOK
<1>1. ASSUME NEW u \in Users, StopRealPlay(u), usr[u].p = q
      PROVE  /\ stream'[q] = "off"
             /\ rs'.at = "connect" => rs'.p # q
             /\ \A v \in Users : usr'[v].p = q => usr'[v].at \in {"erase", "put"}
  <2>1. stream'[q] = "off" /\ Unlocked(q) /\ UNCHANGED rs /\ Go(u, "erase")
    BY <1>1 DEF StopRealPlay, TypeOK
  <2>2. usr'[u].at = "erase" /\ usr'[u].p = q
    BY <1>1, <2>1, GoFact DEF TypeOK
  <2>3. \A v \in Users : usr'[v].p = q => v = u
    BY <2>2 DEF UsersOK, OneClient
  <2> QED
    BY <2>1, <2>2, <2>3 DEF Unlocked
<1>2. CASE view[q].status = "finished" /\ q \in sole
  <2>1. /\ stream[q] = "off"
        /\ rs.at = "connect" => rs.p # q
        /\ \A v \in Users : usr[v].p = q => usr[v].at \in {"erase", "put"}
    BY <1>2 DEF FinishedOK
  <2>2. stream'[q] = "off"
    <3>1. \A u \in Users : Connect(u) => usr[u].p # q
      BY <2>1 DEF Connect, At
    <3>2. ReStartRealPlay => rs.p # q
      BY <1>2 DEF ReStartRealPlay, Restartable
    <3> QED
      BY <2>1, <3>1, <3>2, StreamOn
  <2>3. rs'.at = "connect" => rs'.p # q
    <3>1. CASE ResumeThread
      <4>1. CASE ReStartRealPlay
        <5>1. RsGo("connect") /\ Restartable(rs.p)
          BY <4>1 DEF ReStartRealPlay
        <5>2. rs'.p = rs.p
          BY <5>1, RsGoFact DEF TypeOK
        <5> QED
          BY <1>2, <5>1, <5>2 DEF Restartable
      <4>2. CASE ~ReStartRealPlay
        <5>1. rs'.at # "connect"
          <6>1. CASE \E a \in {"take", "back", "release"} : RsGo(a)
            BY <6>1, RsGoFact DEF TypeOK
          <6>2. CASE TakeEntry
            <7>1. CASE Head(list).obj = None
              BY <6>2, <7>1 DEF TakeEntry, RsAt
            <7>2. CASE Head(list).obj # None
              <8>1. Head(list) \in Entries
                BY <6>2, TailFact DEF TakeEntry, TypeOK
              <8>2. Head(list).obj \in Plays /\ rs' = [rs EXCEPT !.at = "try", !.p = Head(list).obj]
                BY <6>2, <7>2, <8>1, FieldFact DEF TakeEntry
              <8> QED
                BY <8>2, RsSetFact DEF TypeOK
            <7> QED
              BY <7>1, <7>2
          <6>3. CASE BackToList \/ RestartFails
            BY <6>3 DEF BackToList, RestartFails
          <6>4. CASE ReleaseResumed
            BY <6>4, RsSetFact DEF ReleaseResumed, TypeOK
          <6> QED
            BY <3>1, <4>2, <6>1, <6>2, <6>3, <6>4
               DEF ResumeThread, Trigger, AllTaken, RestartRefused, Restarted
        <5> QED
          BY <5>1
      <4> QED
        BY <4>1, <4>2
    <3> QED
      BY <2>1, <3>1, NextFact, ClientFrame, MediaFrame, EventFrame, LogoutFrame
  <2>4. \A v \in Users : usr'[v].p = q => usr'[v].at \in {"erase", "put"}
    <3>1. ASSUME NEW u \in Users, Begin(u), ~StopBegins(u)
          PROVE  \A v \in Users : usr'[v].p = q => usr'[v].at \in {"erase", "put"}
      <4>1. PICK p \in Plays :
              /\ usr'[u].p = p /\ \A v \in Users \ {u} : usr'[v] = usr[v]
              /\ p \in sole' => view'[p].status = "ready"
        BY <3>1, StartFact
      <4> QED
        BY <2>1, <4>1
    <3>2. ASSUME NEW u \in Users, StopBegins(u) \/ Call(u)
          PROVE  \A v \in Users : usr'[v].p = q => usr'[v].at \in {"erase", "put"}
      <4>1. \A v \in Users \ {u} : usr'[v] = usr[v]
        BY <3>2, CallFact
      <4>2. usr'[u].p = q => usr'[u].at \in {"erase", "put"}
        <5> SUFFICES ASSUME usr'[u].p = q PROVE usr'[u].at \in {"erase", "put"}
          OBVIOUS
        <5>1. usr[u].p = q
          BY <3>2, CallFact, LiveAssumption
        <5>2. usr[u].at \in {"erase", "put"}
          BY <2>1, <5>1
        <5>3. Erase(u) \/ Put(u)
          BY <3>2, <5>2
             DEF StopBegins, Call, Connect, Connected, ConnectFails, WindowFails, FreeRealPlay, NotFound, StopRealPlay, At
        <5>4. Go(u, "put") \/ Leave(u)
          BY <5>3 DEF Erase, Put
        <5> QED
          BY <5>4, GoFact, LeaveFact, LiveAssumption DEF TypeOK
      <4> QED
        BY <2>1, <4>1, <4>2
    <3> QED
      BY <2>1, <3>1, <3>2, NextFact, MediaFrame, EventFrame, ResumeFrame, LogoutFrame DEF ClientStep, Begin
  <2> QED
    BY <2>2, <2>3, <2>4
<1>3. \/ \E u \in Users : StopRealPlay(u) /\ usr[u].p = q
      \/ view[q].status = "finished" /\ q \in sole
  <2>1. ASSUME NEW u \in Users, Begin(u), ~StopBegins(u) PROVE view[q].status = "finished" /\ q \in sole
    BY <2>1, StartFact
  <2>2. ASSUME NEW u \in Users, StopBegins(u) \/ Call(u)
        PROVE  \/ StopRealPlay(u) /\ usr[u].p = q
               \/ view[q].status = "finished" /\ q \in sole
    BY <2>2, ClientView, CallFact
  <2>3. CASE MediaStep
    BY <2>3, MediaFrame
  <2>4. CASE EventThread
    BY <2>4, EventView, EventFrame
  <2>5. CASE ResumeThread
    BY <2>5, ResumeView, ResumeFrame
  <2>6. CASE LogoutStep
    BY <2>6, LogoutView, LogoutFrame
  <2> QED
    BY <2>1, <2>2, <2>3, <2>4, <2>5, <2>6, NextFact DEF ClientStep, Begin
<1> QED
  BY <1>1, <1>2, <1>3

-----------------------------------------------------------------------------
(* The references of a view.                                               *)

\* Holders, of a view that one client has at most.
Names(q) == {e \in Entries : e.obj = q}
Puts(us, q) == \E v \in Users : us[v].at = "put" /\ us[v].p = q
Tally(m, l, f, e, r, us, q) ==
  One(q \in m) + Number(l, Names(q)) + Number(f, {q}) + One(e = q) + One(r = q) + One(Puts(us, q))

LEMMA PlacesFact ==
  /\ \A l \in Seq(Entries), q \in Plays :
       Cardinality({i \in DOMAIN l : l[i].obj = q}) = Number(l, Names(q))
  /\ \A f \in Seq(Plays), q \in Plays :
       Cardinality({i \in DOMAIN f : f[i] = q}) = Number(f, {q})
<1>1. ASSUME NEW l \in Seq(Entries), NEW q \in Plays
      PROVE  Cardinality({i \in DOMAIN l : l[i].obj = q}) = Number(l, Names(q))
  <2>1. \A i \in DOMAIN l : l[i] \in Entries
    BY SeqFact
  <2>2. {i \in DOMAIN l : l[i].obj = q} = Places(l, Names(q))
    BY <2>1 DEF Places, Names
  <2> QED
    BY <2>2 DEF Number
<1>2. ASSUME NEW f \in Seq(Plays), NEW q \in Plays
      PROVE  Cardinality({i \in DOMAIN f : f[i] = q}) = Number(f, {q})
  <2>1. {i \in DOMAIN f : f[i] = q} = Places(f, {q})
    BY DEF Places
  <2> QED
    BY <2>1 DEF Number
<1> QED
  BY <1>1, <1>2

LEMMA PuttingFact ==
  ASSUME NEW us, NEW q, \A u, v \in Users : us[u].p = q /\ us[v].p = q => u = v
  PROVE  Cardinality({u \in Users : us[u].at = "put" /\ us[u].p = q}) = One(Puts(us, q))
<1> DEFINE U == {u \in Users : us[u].at = "put" /\ us[u].p = q}
<1>1. CASE Puts(us, q)
  <2>1. PICK u \in Users : U = {u}
    BY <1>1 DEF Puts
  <2> QED
    BY <1>1, <2>1, FS_Singleton DEF One
<1>2. CASE ~Puts(us, q)
  <2>1. U = {}
    BY <1>2 DEF Puts
  <2> QED
    BY <1>2, <2>1, FS_EmptySet DEF One
<1> QED
  BY <1>1, <1>2

LEMMA HoldersFact ==
  ASSUME NEW q \in Plays, TypeOK, OneClient, q \in sole
  PROVE  Holders(q) = Tally(map, list, rs.failed, ev.p, rs.p, usr, q)
<1>1. Listed(q) = Number(list, Names(q)) /\ Retried(q) = Number(rs.failed, {q})
  BY PlacesFact, FieldFact DEF TypeOK, Listed, Retried
<1>2. Cardinality({u \in Users : At(u, "put") /\ usr[u].p = q}) = One(Puts(usr, q))
  <2>1. Cardinality({u \in Users : usr[u].at = "put" /\ usr[u].p = q}) = One(Puts(usr, q))
    BY PuttingFact DEF OneClient
  <2> QED
    BY <2>1 DEF At
<1> QED
  BY <1>1, <1>2 DEF Holders, Tally

LEMMA TallyFact ==
  ASSUME NEW l \in Seq(Entries), NEW f \in Seq(Plays), NEW m, NEW e, NEW r, NEW us, NEW q
  PROVE  /\ Number(l, Names(q)) \in Nat /\ Number(f, {q}) \in Nat
         /\ Tally(m, l, f, e, r, us, q) \in Nat
         /\ e = q => Tally(m, l, f, e, r, us, q) >= 1
<1>1. Number(l, Names(q)) \in Nat /\ Number(f, {q}) \in Nat
  BY NumberFact
<1> QED
  BY <1>1 DEF Tally, One

LEMMA CountsStep ==
  ASSUME TypeOK, TypeOK', EvOK, RsOK, UsersOK, UsersOK', CountsOK, Next PROVE CountsOK'
<1>1. /\ list \in Seq(Entries) /\ rs.failed \in Seq(Plays)
      /\ list' \in Seq(Entries) /\ rs'.failed \in Seq(Plays)
      /\ ev.entry \in Entries /\ usr \in [Users -> Clients]
      /\ obj \subseteq Plays /\ sole' \subseteq Plays
  BY FieldFact DEF TypeOK
<1> SUFFICES ASSUME out' = "in", NEW q \in Plays, q \in sole' PROVE Counted(q)'
  BY <1>1 DEF CountsOK
<1> DEFINE old == Tally(map, list, rs.failed, ev.p, rs.p, usr, q)
           new == Tally(map', list', rs'.failed, ev'.p, rs'.p, usr', q)
<1>2. old \in Nat /\ new \in Nat /\ (ev'.p = q => new >= 1)
  BY <1>1, TallyFact
<1>3. (q \in sole => Holders(q) = old) /\ Holders(q)' = new
  <2>1. Listed(q)' = Number(list', Names(q)) /\ Retried(q)' = Number(rs'.failed, {q})
    BY <1>1, PlacesFact DEF Listed, Retried
  <2>2. Cardinality({u \in Users : At(u, "put") /\ usr[u].p = q})' = One(Puts(usr', q))
    <3>1. Cardinality({u \in Users : usr'[u].at = "put" /\ usr'[u].p = q}) = One(Puts(usr', q))
      BY PuttingFact DEF UsersOK, OneClient
    <3> QED
      BY <3>1 DEF At
  <2>3. Holders(q)' = new
    BY <2>1, <2>2 DEF Holders, Tally
  <2> QED
    BY <2>3, HoldersFact DEF UsersOK
<1> HIDE DEF old, new
\* A view whose count and holders stay, or the holders with what is counted late.
<1>4. ASSUME q \in sole, Counted(q), Keeps(q),
             new + One(Uncounted(q)) <= old + One(Uncounted(q))'
      PROVE  Counted(q)'
  <2>1. Holders(q) = old /\ Holders(q)' = new
    BY <1>3, <1>4
  <2>2. view[q].ref \in Int /\ view'[q].ref = view[q].ref /\ (q \in obj' <=> q \in obj)
    BY <1>4, ViewFact DEF TypeOK, Keeps
  <2>3. One(Uncounted(q))' \in {0, 1} /\ One(Uncounted(q)) \in {0, 1} /\ (One(Uncounted(q))' = 1 => ev'.p = q)
    BY DEF One, Uncounted
  <2>4. CASE q \in obj
    <3>1. view[q].ref + One(Uncounted(q)) >= old
      BY <1>4, <2>1, <2>4 DEF Counted
    <3>2. view'[q].ref + One(Uncounted(q))' >= Holders(q)'
      BY <1>2, <1>4, <2>1, <2>2, <2>3, <3>1
    <3> QED
      BY <2>2, <2>4, <3>2 DEF Counted
  <2>5. CASE q \notin obj
    <3>1. old = One(Uncounted(q))
      BY <1>4, <2>1, <2>5 DEF Counted
    <3>2. Holders(q)' = One(Uncounted(q))'
      BY <1>2, <1>4, <2>1, <2>3, <3>1
    <3> QED
      BY <2>2, <2>5, <3>2 DEF Counted
  <2> QED
    BY <2>4, <2>5
\* A reference put back by one of its holders; the last one deletes the view.
<1>5. ASSUME q \in sole, Counted(q), PutRef(q), new + 1 <= old, One(Uncounted(q))' = One(Uncounted(q))
      PROVE  Counted(q)'
  <2>1. Holders(q) = old /\ Holders(q)' = new
    BY <1>3, <1>5
  <2>2. /\ view[q].ref \in Int /\ q \in obj
        /\ IF view[q].ref = 1 THEN q \notin obj'
           ELSE q \in obj' /\ view'[q].ref = view[q].ref - 1
    BY <1>5, ViewFact, PutRefFact DEF TypeOK
  <2>3. One(Uncounted(q))' \in {0, 1} /\ One(Uncounted(q)) \in {0, 1} /\ (One(Uncounted(q))' = 1 => ev'.p = q)
    BY DEF One, Uncounted
  <2>4. view[q].ref + One(Uncounted(q)) >= old
    BY <1>5, <2>1, <2>2 DEF Counted
  <2>5. CASE view[q].ref = 1
    <3>1. Holders(q)' = One(Uncounted(q))'
      BY <1>2, <1>5, <2>1, <2>3, <2>4, <2>5
    <3> QED
      BY <2>2, <2>5, <3>1 DEF Counted
  <2>6. CASE view[q].ref # 1
    <3>1. view'[q].ref + One(Uncounted(q))' >= Holders(q)'
      BY <1>2, <1>5, <2>1, <2>2, <2>3, <2>4, <2>6
    <3> QED
      BY <2>2, <2>6, <3>1 DEF Counted
  <2> QED
    BY <2>5, <2>6
\* A reference taken for one more holder, or for one counted late.
<1>6. ASSUME q \in sole, Counted(q), q \in obj, q \in obj', view'[q].ref = view[q].ref + 1,
             ~Uncounted(q)', new <= old + 1 - One(Uncounted(q))
      PROVE  Counted(q)'
  <2>1. Holders(q) = old /\ Holders(q)' = new
    BY <1>3, <1>6
  <2>2. One(Uncounted(q))' = 0 /\ One(Uncounted(q)) \in {0, 1} /\ view[q].ref \in Int
    BY <1>6, ViewFact DEF One, TypeOK
  <2>3. view[q].ref + One(Uncounted(q)) >= old
    BY <1>6, <2>1 DEF Counted
  <2>4. view'[q].ref + One(Uncounted(q))' >= Holders(q)'
    BY <1>2, <1>6, <2>1, <2>2, <2>3
  <2> QED
    BY <1>6, <2>4 DEF Counted
<1>6a. Number(list, Names(q)) \in Nat /\ Number(rs.failed, {q}) \in Nat
  BY <1>1, TallyFact
<1>7. out = "in" /\ (q \in sole => Counted(q))
  <2>1. out = "in"
    <3>1. CASE ClientStep \/ MediaStep \/ EventThread \/ ResumeThread
      BY <3>1, ClientFrame, MediaFrame, EventFrame, ResumeFrame
    <3> QED
      BY <3>1, NextFact, LogoutFrame
  <2> QED
    BY <2>1 DEF CountsOK
<1>8. ASSUME NEW u \in Users, Begin(u), ~StopBegins(u) PROVE Counted(q)'
  <2>1. PICK p \in Plays :
          /\ usr[u].at = "idle" /\ usr'[u].at = "lock" /\ usr'[u].p = p
          /\ \A v \in Users \ {u} : usr'[v] = usr[v]
          /\ sole' \subseteq sole \cup {p} /\ UNCHANGED list
          /\ p \in sole' => ~ReferredTo(p) /\ obj' = obj \cup {p} /\ view'[p].ref = 1
          /\ \A r \in Plays \ {p} :
               /\ (r \in map' <=> r \in map) /\ (r \in obj' <=> r \in obj) /\ view'[r] = view[r]
    BY <1>8, StartFact
  <2>2. UNCHANGED <<ev, rs>>
    BY <1>8, ClientFrame DEF ClientStep
  <2>3. CASE q = p
    <3>1. /\ ev'.p # q /\ rs'.p # q /\ ~Puts(usr', q)
          /\ \A i \in DOMAIN list' : list'[i] \notin Names(q)
          /\ \A i \in DOMAIN rs'.failed : rs'.failed[i] \notin {q}
      BY <2>1, <2>2, <2>3 DEF ReferredTo, Puts, Names
    <3>2. Number(list', Names(q)) = 0 /\ Number(rs'.failed, {q}) = 0
      BY <1>1, <3>1, NumberFact
    <3>3. new <= 1
      BY <3>1, <3>2 DEF new, Tally, One
    <3>4. q \in obj' /\ view'[q].ref = 1 /\ ~Uncounted(q)'
      BY <2>1, <2>3, <3>1 DEF Uncounted
    <3>5. One(Uncounted(q))' = 0 /\ Holders(q)' <= 1 /\ Holders(q)' \in Nat
      BY <1>2, <1>3, <3>3, <3>4 DEF One
    <3>6. view'[q].ref + One(Uncounted(q))' >= Holders(q)'
      BY <3>4, <3>5
    <3> QED
      BY <3>4, <3>6 DEF Counted
  <2>4. CASE q # p
    <3>1. q \in sole /\ Keeps(q) /\ (Puts(usr', q) <=> Puts(usr, q)) /\ One(Uncounted(q))' = One(Uncounted(q))
      BY <2>1, <2>2, <2>4 DEF Keeps, Puts, Uncounted
    <3>2. One(q \in map') = One(q \in map) /\ One(Puts(usr', q)) = One(Puts(usr, q))
      BY <2>1, <2>4, <3>1 DEF One
    <3>3. new = old
      BY <2>1, <2>2, <3>2 DEF new, old, Tally
    <3>4. One(Uncounted(q)) \in {0, 1}
      BY DEF One
    <3> QED
      BY <1>2, <1>4, <1>7, <3>1, <3>3, <3>4
  <2> QED
    BY <2>3, <2>4
<1>9. ASSUME NEW u \in Users, StopBegins(u) \/ Call(u) PROVE Counted(q)'
  <2>1. /\ \A v \in Users \ {u} : usr'[v] = usr[v]
        /\ UNCHANGED sole /\ map' \subseteq map
        /\ usr'[u].at = "put" => map' = map \ {usr[u].p}
        /\ usr'[u].p = q => usr[u].p = q
    BY <1>9, CallFact, LiveAssumption
  <2>2. UNCHANGED <<ev, rs>> /\ One(Uncounted(q))' = One(Uncounted(q)) /\ One(Uncounted(q)) \in {0, 1}
    BY <1>9, ClientFrame DEF ClientStep, Begin, Uncounted, One
  <2>3. Number(list', Names(q)) <= Number(list, Names(q)) /\ Number(list', Names(q)) \in Nat
    <3>1. CASE UNCHANGED list
      BY <1>6a, <3>1
    <3>2. CASE StopBegins(u)
      <4>1. list' = Without(list, usr[u].p)
        BY <3>2 DEF StopBegins
      <4> QED
        BY <1>1, <4>1, WithoutFact, NumberFact
    <3> QED
      BY <1>9, <3>1, <3>2
         DEF Call, Connect, Connected, ConnectFails, WindowFails, FreeRealPlay, NotFound, StopRealPlay, Erase, Put
  <2>4. CASE Put(u) /\ usr[u].p = q
    <3>1. Puts(usr, q) /\ PutRef(q) /\ map' = map /\ list' = list /\ usr'[u].at = "idle" /\ usr[u].at = "put"
      BY <1>1, <2>4, LeaveFact DEF Put, Puts, At
    <3>2. ~Puts(usr', q)
      BY <2>1, <2>4, <3>1 DEF Puts, UsersOK, OneClient
    <3>3. new + 1 <= old
      BY <1>2, <1>6a, <2>2, <3>1, <3>2 DEF new, old, Tally, One
    <3> QED
      BY <1>5, <1>7, <2>1, <2>2, <3>1, <3>3
  <2>5. CASE ~(Put(u) /\ usr[u].p = q)
    <3>1. Keeps(q)
      BY <1>9, <2>1, <2>5, ClientView DEF UsersOK
    <3>2. One(q \in map') + One(Puts(usr', q)) <= One(q \in map) + One(Puts(usr, q))
      <4>1. CASE usr'[u].at = "put" /\ usr'[u].p = q
        <5>1. q \notin map' /\ (q \in map \/ Puts(usr, q))
          <6>1. q \notin map' /\ usr[u].p = q
            BY <2>1, <4>1
          <6>2. CASE Erase(u)
            BY <4>1, <6>1, <6>2, LeaveFact, <1>1 DEF Erase
          <6>3. CASE ~Erase(u)
            <7>1. \/ Leave(u)
                  \/ \E a \in {"connect", "view", "free", "erase", "stop"} : Go(u, a)
              BY <1>9, <6>3
                 DEF StopBegins, Call, Connect, Connected, ConnectFails, WindowFails, Failed, FreeRealPlay,
                     NotFound, StopRealPlay, Put
            <7> QED
              BY <1>1, <4>1, <7>1, GoFact, LeaveFact
          <6> QED
            BY <6>1, <6>2, <6>3
        <5> QED
          BY <5>1 DEF One
      <4>2. CASE ~(usr'[u].at = "put" /\ usr'[u].p = q)
        <5>1. (Puts(usr', q) => Puts(usr, q)) /\ (q \in map' => q \in map)
          BY <2>1, <4>2 DEF Puts
        <5> QED
          BY <5>1 DEF One
      <4> QED
        BY <4>1, <4>2
    <3>3. One(ev.p = q) \in {0, 1} /\ One(rs.p = q) \in {0, 1} /\ One(q \in map') \in {0, 1}
          /\ One(Puts(usr', q)) \in {0, 1} /\ One(q \in map) \in {0, 1} /\ One(Puts(usr, q)) \in {0, 1}
      BY DEF One
    <3>4. new <= old
      BY <1>6a, <2>2, <2>3, <3>2, <3>3 DEF new, old, Tally
    <3> QED
      BY <1>2, <1>4, <1>7, <2>1, <2>2, <3>1, <3>4
  <2> QED
    BY <2>4, <2>5
<1>10. CASE MediaStep
  <2>1. /\ UNCHANGED <<obj, map, view, list, ev, rs, usr>> /\ q \in sole
        /\ One(Uncounted(q))' = One(Uncounted(q)) /\ One(Uncounted(q)) \in {0, 1} /\ Keeps(q)
    BY <1>10, MediaFrame DEF Uncounted, Keeps, One
  <2>2. new = old
    BY <2>1 DEF new, old
  <2> QED
    BY <1>2, <1>4, <1>7, <2>1, <2>2
<1>11. CASE EventThread
  <2>1. UNCHANGED <<map, rs, usr>> /\ q \in sole
    BY <1>11, EventFrame
  <2>2. CASE UNCHANGED <<list, obj, view>> /\ ev'.p = ev.p /\ One(Uncounted(q))' = One(Uncounted(q))
    <3>1. Keeps(q) /\ new = old /\ One(Uncounted(q)) \in {0, 1}
      BY <2>1, <2>2 DEF Keeps, new, old, One
    <3> QED
      BY <1>2, <1>4, <1>7, <2>1, <2>2, <3>1
  <2>3. CASE EventIgnored \/ CopyInfo
    <3>1. UNCHANGED <<list, obj, view>>
      BY <2>3 DEF EventIgnored, CopyInfo, playVars
    <3>2. ev'.p = ev.p /\ (ev' = ev \/ (ev.at = "copy" /\ ev'.at = "stop"))
      <4>1. CASE EventIgnored
        BY <4>1 DEF EventIgnored, threadVars
      <4>2. CASE CopyInfo
        <5>1. /\ Entry(view[ev.p].info, ev.p) \in Entries
              /\ ev' = [ev EXCEPT !.at = "stop", !.entry = Entry(view[ev.p].info, ev.p)]
          BY <1>1, <4>2, RecordFact, FieldFact DEF CopyInfo, TypeOK
        <5> QED
          BY <4>2, <5>1, EvCopyFact DEF CopyInfo, EvAt, TypeOK
      <4> QED
        BY <2>3, <4>1, <4>2
    <3>3. One(Uncounted(q))' = One(Uncounted(q))
      BY <3>2 DEF Uncounted
    <3> QED
      BY <2>2, <3>1, <3>2, <3>3
  <2>4. CASE GetRealPlayEx
    <3>1. /\ ev.at = "idle" /\ ev.p = None /\ UNCHANGED list
          /\ Head(queue).p \in Plays /\ Head(queue).p \in obj
      BY <1>1, <2>4 DEF GetRealPlayEx, EvAt, EvOK
    <3>2. ev'.at = "copy" /\ ev'.p = Head(queue).p
      <4>1. queue \in Seq(Messages) /\ queue # <<>>
        BY <2>4 DEF GetRealPlayEx, TypeOK, Messages
      <4>2. Head(queue) \in Messages
        BY <4>1, TailFact
      <4>3. Head(queue).code \in {"resume", "end"}
        BY <4>2 DEF Messages
      <4> QED
        BY <2>4, <3>1, <4>3, EvTakeFact DEF GetRealPlayEx
    <3>3. ~Uncounted(q) /\ ~Uncounted(q)'
      BY <3>1, <3>2 DEF Uncounted
    <3>4. CASE q = ev'.p
      <4>1. q \in obj /\ q \in obj' /\ view'[q].ref = view[q].ref + 1 /\ view[q].ref \in Int
        <5>1. view' = [view EXCEPT ![q].ref = view[q].ref + 1] /\ obj' = obj /\ q \in obj
          BY <2>4, <3>2, <3>4 DEF GetRealPlayEx
        <5>2. view[q].ref \in Int /\ view \in [Plays -> Views]
          BY ViewFact DEF TypeOK
        <5>3. view[q].ref + 1 \in Int
          BY <5>2
        <5> QED
          BY <5>1, <5>2, <5>3, ViewChange
      <4>2. ev.p # q
        BY <3>1, LiveAssumption
      <4>3. new = old + 1
        BY <1>6a, <2>1, <3>1, <3>4, <4>2 DEF new, old, Tally, One
      <4> QED
        BY <1>2, <1>6, <1>7, <2>1, <3>3, <4>1, <4>3 DEF One
    <3>5. CASE q # ev'.p
      <4>1. Keeps(q)
        <5>1. view' = [view EXCEPT ![Head(queue).p].ref = view[Head(queue).p].ref + 1] /\ obj' = obj
          BY <2>4 DEF GetRealPlayEx
        <5> QED
          BY <3>2, <3>5, <5>1 DEF Keeps, TypeOK
      <4>2. ev.p # q
        BY <3>1, LiveAssumption
      <4>3. new = old
        BY <2>1, <3>1, <3>5, <4>2 DEF new, old, Tally, One
      <4> QED
        BY <1>2, <1>4, <1>7, <2>1, <3>3, <4>1, <4>3 DEF One
    <3> QED
      BY <3>4, <3>5
  <2>5. CASE StopStream
    <3>1. EvGo(AfterStop) /\ AfterStop \in {"remove", "release"} /\ ev.at = "stop" /\ UNCHANGED <<list, obj>>
      BY <2>5 DEF StopStream, AfterStop, EvAt
    <3>2. ev'.p = ev.p /\ ev'.at # "ref"
      BY <3>1, EvGoFact DEF TypeOK
    <3>3. Keeps(q) /\ ~Uncounted(q) /\ ~Uncounted(q)'
      <4>1. ~GetRealPlayEx /\ ~RefEntry /\ ~ReleaseEvent
        BY <3>1 DEF GetRealPlayEx, RefEntry, ReleaseEvent, EvAt
      <4> QED
        BY <1>11, <3>1, <3>2, <4>1, EventView DEF Uncounted
    <3>4. new = old
      BY <2>1, <3>1, <3>2 DEF new, old
    <3> QED
      BY <1>2, <1>4, <1>7, <2>1, <3>3, <3>4 DEF One
  <2>6. CASE RemoveEntry
    <3>1. /\ EvGo("add") /\ ev.at = "remove" /\ UNCHANGED <<obj, view>>
          /\ list' = Without(list, ev.entry.h)
      BY <2>6 DEF RemoveEntry, EvAt, playVars
    <3>2. ev'.p = ev.p /\ ev'.at = "add"
      BY <3>1, EvGoFact DEF TypeOK
    <3>3. Keeps(q) /\ ~Uncounted(q) /\ ~Uncounted(q)'
      BY <3>1, <3>2 DEF Keeps, Uncounted
    <3>4. Number(list', Names(q)) <= Number(list, Names(q)) /\ Number(list', Names(q)) \in Nat
      BY <1>1, <3>1, WithoutFact, NumberFact
    <3>5. new <= old
      BY <1>6a, <2>1, <3>2, <3>4 DEF new, old, Tally, One
    <3> QED
      BY <1>2, <1>4, <1>7, <2>1, <3>3, <3>5 DEF One
  <2>7. CASE AddEntry
    <3>1. /\ EvGo("ref") /\ ev.at = "add" /\ UNCHANGED <<obj, view>> /\ list' = Append(list, ev.entry)
      BY <2>7 DEF AddEntry, EvAt, playVars
    <3>2. ev'.p = ev.p /\ ev'.at = "ref"
      BY <3>1, EvGoFact DEF TypeOK
    <3>3. Keeps(q) /\ ~Uncounted(q) /\ (Uncounted(q)' <=> ev.p = q)
      BY <3>1, <3>2 DEF Keeps, Uncounted
    <3>4. Number(list', Names(q)) = Number(list, Names(q)) + One(ev.entry \in Names(q))
      BY <1>1, <3>1, AppendFact
    <3>5. ev.entry \in Names(q) => ev.p = q
      BY LiveAssumption DEF Names, EvOK
    <3>6. new <= old + One(ev.p = q)
      BY <1>6a, <2>1, <3>2, <3>4, <3>5 DEF new, old, Tally, One
    <3> QED
      BY <1>2, <1>4, <1>7, <2>1, <3>3, <3>6 DEF One
  <2>8. CASE RefEntry
    <3>1. EvGo("release") /\ ev.at = "ref" /\ UNCHANGED <<obj, list>>
      BY <2>8 DEF RefEntry, EvAt
    <3>2. ev'.p = ev.p /\ ev'.at = "release"
      BY <3>1, EvGoFact DEF TypeOK
    <3>3. ~Uncounted(q)' /\ (Uncounted(q) <=> ev.p = q) /\ new = old
      BY <2>1, <3>1, <3>2 DEF Uncounted, new, old
    <3>4. CASE ev.p = q
      <4>1. ev.p \in obj /\ ~GetRealPlayEx /\ ~ReleaseEvent
        BY <2>8, <3>1 DEF RefEntry, GetRealPlayEx, ReleaseEvent, EvAt
      <4>2. q \in obj /\ q \in obj' /\ view'[q].ref = view[q].ref + 1 /\ view[q].ref \in Int
        <5>1. view' = [view EXCEPT ![q].ref = view[q].ref + 1]
          BY <2>8, <3>4 DEF RefEntry
        <5>2. view[q].ref \in Int /\ view \in [Plays -> Views]
          BY ViewFact DEF TypeOK
        <5>3. view[q].ref + 1 \in Int
          BY <5>2
        <5> QED
          BY <3>1, <3>4, <4>1, <5>1, <5>2, <5>3, ViewChange
      <4> QED
        BY <1>2, <1>6, <1>7, <2>1, <3>3, <3>4, <4>2 DEF One
    <3>5. CASE ev.p # q
      <4>1. Keeps(q)
        <5>1. view' = [view EXCEPT ![ev.p].ref = view[ev.p].ref + 1]
          BY <2>8 DEF RefEntry
        <5> QED
          BY <3>1, <3>5, <5>1 DEF Keeps, TypeOK
      <4> QED
        BY <1>2, <1>4, <1>7, <2>1, <3>3, <3>5, <4>1 DEF One
    <3> QED
      BY <3>4, <3>5
  <2>9. CASE ReleaseEvent
    <3>1. ev.at = "release" /\ PutRef(ev.p) /\ ev'.p = None /\ ev'.at = "idle" /\ UNCHANGED list
      BY <2>9 DEF ReleaseEvent, EvAt, Idle
    <3>2. ev'.p # q /\ ~Uncounted(q) /\ ~Uncounted(q)'
      BY <3>1, LiveAssumption DEF Uncounted
    <3>3. CASE ev.p = q
      <4>1. new + 1 <= old
        BY <1>6a, <2>1, <3>1, <3>2, <3>3 DEF new, old, Tally, One
      <4> QED
        BY <1>5, <1>7, <2>1, <3>1, <3>2, <3>3, <4>1 DEF One
    <3>4. CASE ev.p # q
      <4>1. new = old
        BY <2>1, <3>1, <3>2, <3>4 DEF new, old, Tally, One
      <4>2. Keeps(q)
        BY <1>11, <3>1, <3>4, EventView DEF GetRealPlayEx, RefEntry, EvAt
      <4> QED
        BY <1>2, <1>4, <1>7, <2>1, <3>2, <4>1, <4>2 DEF One
    <3> QED
      BY <3>3, <3>4
  <2> QED
    BY <1>11, <2>3, <2>4, <2>5, <2>6, <2>7, <2>8, <2>9 DEF EventThread
<1>12. CASE ResumeThread
  <2>1. /\ UNCHANGED <<map, ev, usr>> /\ q \in sole
        /\ One(Uncounted(q))' = One(Uncounted(q)) /\ One(Uncounted(q)) \in {0, 1}
    BY <1>12, ResumeFrame DEF Uncounted, One
  <2>2. CASE ReleaseResumed
    <3>1. rs.at = "release" /\ PutRef(rs.p) /\ UNCHANGED list /\ rs' = [rs EXCEPT !.at = "take", !.p = None]
      BY <2>2 DEF ReleaseResumed, RsAt
    <3>2. rs'.p = None /\ rs'.failed = rs.failed
      BY <3>1, RsSetFact DEF TypeOK
    <3>3. rs'.p # q
      BY <3>2, LiveAssumption
    <3>4. CASE rs.p = q
      <4>1. new + 1 <= old
        BY <1>6a, <2>1, <3>1, <3>2, <3>3, <3>4 DEF new, old, Tally, One
      <4> QED
        BY <1>5, <1>7, <2>1, <3>1, <3>4, <4>1
    <3>5. CASE rs.p # q
      <4>1. new = old
        BY <2>1, <3>1, <3>2, <3>3, <3>5 DEF new, old, Tally, One
      <4>2. Keeps(q)
        BY <1>12, <3>5, ResumeView
      <4> QED
        BY <1>2, <1>4, <1>7, <2>1, <4>1, <4>2
    <3> QED
      BY <3>4, <3>5
  <2>3. ASSUME ~ReleaseResumed,
               Number(list', Names(q)) + Number(rs'.failed, {q}) + One(rs'.p = q)
                 <= Number(list, Names(q)) + Number(rs.failed, {q}) + One(rs.p = q)
        PROVE  Counted(q)'
    <3>1. Keeps(q)
      BY <1>12, <2>3, ResumeView
    <3>2. Number(list', Names(q)) \in Nat /\ Number(rs'.failed, {q}) \in Nat
      BY <1>1, NumberFact
    <3>3. new <= old
      BY <1>6a, <2>1, <2>3, <3>2 DEF new, old, Tally, One
    <3> QED
      BY <1>2, <1>4, <1>7, <2>1, <3>1, <3>3
  <2>4. CASE \E a \in {"take", "back", "release", "connect"} : RsGo(a) /\ UNCHANGED list /\ ~ReleaseResumed
    <3>1. rs'.p = rs.p /\ rs'.failed = rs.failed
      BY <2>4, RsGoFact DEF TypeOK
    <3> QED
      BY <1>6a, <2>3, <2>4, <3>1 DEF One
  <2>5. CASE TakeEntry
    <3>1. /\ list # <<>> /\ list' = Tail(list) /\ rs.p = None /\ rs.at = "take"
          /\ IF Head(list).obj = None THEN UNCHANGED rs
             ELSE rs' = [rs EXCEPT !.at = "try", !.p = Head(list).obj]
      BY <2>5 DEF TakeEntry, RsAt, RsOK
    <3>2. /\ Head(list) \in Entries
          /\ Number(list', Names(q)) + One(Head(list) \in Names(q)) <= Number(list, Names(q))
      BY <1>1, <3>1, TailFact
    <3>3. rs'.failed = rs.failed /\ (rs'.p = q => Head(list).obj = q)
      <4>1. CASE Head(list).obj = None
        BY <3>1, <4>1, LiveAssumption
      <4>2. CASE Head(list).obj # None
        BY <3>1, <3>2, <4>2, RsSetFact, FieldFact DEF TypeOK
      <4> QED
        BY <4>1, <4>2
    <3>4. (rs'.p = q => Head(list) \in Names(q)) /\ rs.p # q
      BY <3>1, <3>2, <3>3, LiveAssumption DEF Names
    <3>5. Number(list', Names(q)) \in Nat /\ ~ReleaseResumed
      BY <1>1, <3>1, NumberFact DEF ReleaseResumed, RsAt
    <3> QED
      BY <1>6a, <2>3, <3>2, <3>3, <3>4, <3>5 DEF One
  <2>6. CASE BackToList
    <3>1. /\ rs.at = "back" /\ rs.p = None /\ rs'.p = None /\ rs'.failed = <<>>
          /\ list' = list \o Again(rs.failed)
      BY <2>6 DEF BackToList, RsAt, RsOK, Again
    <3>2. Number(list', Names(q)) <= Number(list, Names(q)) + Number(rs.failed, {q})
      BY <1>1, <3>1, AgainFact DEF Names
    <3>3. Number(rs'.failed, {q}) = 0
      <4>1. \A i \in DOMAIN rs'.failed : rs'.failed[i] \notin {q}
        BY <3>1
      <4> QED
        BY <1>1, <4>1, NumberFact
    <3>4. Number(list', Names(q)) \in Nat /\ ~ReleaseResumed
      BY <1>1, <3>1, NumberFact DEF ReleaseResumed, RsAt
    <3> QED
      BY <1>6a, <2>3, <3>1, <3>2, <3>3, <3>4, LiveAssumption DEF One
  <2>7. CASE RestartFails
    <3>1. /\ rs.at = "connect" /\ rs'.p = None /\ rs'.failed = Append(rs.failed, rs.p) /\ UNCHANGED list
          /\ rs.p \in Plays
      BY <1>1, <2>7 DEF RestartFails, RsAt
    <3>2. Number(rs'.failed, {q}) = Number(rs.failed, {q}) + One(rs.p \in {q})
      BY <1>1, <3>1, AppendFact
    <3>3. rs'.p # q /\ ~ReleaseResumed
      BY <3>1, LiveAssumption DEF ReleaseResumed, RsAt
    <3> QED
      BY <1>6a, <2>3, <3>1, <3>2, <3>3 DEF One
  <2> QED
    BY <1>12, <2>2, <2>4, <2>5, <2>6, <2>7
       DEF ResumeThread, Trigger, AllTaken, RestartRefused, ReStartRealPlay, Restarted
<1> QED
  BY <1>8, <1>9, <1>10, <1>11, <1>12, NextFact, LogoutFrame DEF ClientStep, Begin

-----------------------------------------------------------------------------
(* The way of a broken view.                                               *)

\* A view is entered as stopped by the event thread alone; else it stays so.
LEMMA StoppedFact ==
  ASSUME TypeOK, EvOK, Next, NEW q \in Plays, q \in sole', q \in map', view'[q].status = "stopped"
  PROVE  \/ q \in sole /\ q \in map /\ view[q].status = "stopped"
         \/ StopStream /\ ev.p = q /\ q \in sole /\ q \in map
<1>1. ASSUME NEW u \in Users, Begin(u), ~StopBegins(u)
      PROVE  q \in sole /\ q \in map /\ view[q].status = "stopped"
  BY <1>1, StartFact
<1>2. ASSUME NEW u \in Users, StopBegins(u) \/ Call(u)
      PROVE  q \in sole /\ q \in map /\ view[q].status = "stopped"
  BY <1>2, ClientView, CallFact
<1>3. CASE MediaStep
  BY <1>3, MediaFrame
<1>4. CASE EventThread
  BY <1>4, EventView, EventFrame
<1>5. CASE ResumeThread
  BY <1>5, ResumeView, ResumeFrame
<1>6. CASE LogoutStep
  BY <1>6, LogoutView, LogoutFrame
<1> QED
  BY <1>1, <1>2, <1>3, <1>4, <1>5, <1>6, NextFact DEF ClientStep, Begin

\* A view stays blind until it is started, or its session logged out.
LEMMA BlindFact ==
  ASSUME TypeOK, Next, out' = "in", NEW q \in Plays, q \in blind, q \notin blind'
  PROVE  \/ \E u \in Users : Begin(u) /\ ~StopBegins(u) /\ (q \in sole' => view'[q].status = "ready")
         \/ Restarted /\ rs.p = q /\ (q \in obj => view'[q].status = "playing")
<1>1. ASSUME NEW u \in Users, Begin(u), ~StopBegins(u)
      PROVE  q \in sole' => view'[q].status = "ready"
  BY <1>1, StartFact
<1>2. CASE \E u \in Users : StopBegins(u) \/ Call(u)
  BY <1>2 DEF StopBegins, Call, Connect, Connected, ConnectFails, WindowFails, FreeRealPlay, NotFound, StopRealPlay, Erase, Put
<1>3. CASE EventThread
  BY <1>3 DEF EventThread, EventIgnored, GetRealPlayEx, CopyInfo, StopStream, RemoveEntry, AddEntry,
         RefEntry, ReleaseEvent
<1>4. CASE ResumeThread /\ ~Restarted
  BY <1>4 DEF ResumeThread, Trigger, TakeEntry, AllTaken, BackToList, RestartRefused, ReStartRealPlay,
         RestartFails, ReleaseResumed
<1>5. CASE Restarted
  <2>1. q = rs.p
    BY <1>5 DEF Restarted
  <2>2. view' = [view EXCEPT ![q].status = "playing"]
    BY <1>5, <2>1 DEF Restarted
  <2> QED
    BY <1>5, <2>1, <2>2, ViewChange DEF TypeOK
<1> QED
  BY <1>1, <1>2, <1>3, <1>4, <1>5, NextFact, MediaFrame, LogoutFrame DEF ClientStep, Begin

\* What a list keeps of its entries.
LEMMA KeptFact ==
  ASSUME list \in Seq(Entries), NEW h, list' = Without(list, h)
  PROVE  \A j \in DOMAIN list : list[j].h = h \/ \E i \in DOMAIN list' : list'[i] = list[j]
<1> DEFINE l == Without(list, h)
<1>1. /\ \A j \in DOMAIN list : list[j].h = h \/ \E i \in DOMAIN l : l[i] = list[j]
      /\ Number(l, {}) <= Number(list, {})
  BY WithoutFact
<1> HIDE DEF l
<1> QED
  BY <1>1 DEF l

LEMMA BackFact ==
  ASSUME list \in Seq(Entries), NEW f \in Seq(Plays), list' = list \o Again(f)
  PROVE  /\ \A j \in DOMAIN list : \E i \in DOMAIN list' : list'[i] = list[j]
         /\ \A j \in DOMAIN f : \E i \in DOMAIN list' : list'[i] = Entry("window", f[j])
<1> DEFINE l == list \o Again(f)
<1>1. /\ \A j \in DOMAIN list : \E i \in DOMAIN l : l[i] = list[j]
      /\ \A j \in DOMAIN f : \E i \in DOMAIN l : l[i] = Entry("window", f[j])
  BY AgainFact
<1> HIDE DEF l
<1> QED
  BY <1>1 DEF l

LEMMA WayStep ==
  ASSUME TypeOK, TypeOK', EvOK, RsOK, ListOK, UsersOK, UsersOK', WayOK, Next PROVE WayOK'
<1>1. /\ list \in Seq(Entries) /\ list' \in Seq(Entries) /\ rs.failed \in Seq(Plays)
      /\ ev.entry \in Entries /\ usr \in [Users -> Clients] /\ view \in [Plays -> Views]
      /\ sole' \subseteq Plays /\ obj \subseteq Plays
  BY FieldFact DEF TypeOK
<1> SUFFICES ASSUME out' = "in", NEW q \in Plays, q \in sole', q \in map', view'[q].status = "stopped",
                    q \notin blind'
             PROVE  Awaited(q)' \/ Stopping(q)'
  BY <1>1 DEF WayOK
<1>2. CASE StopStream /\ ev.p = q /\ view[q].status # "stopped"
  <2>1. ev.code # "end" /\ EvGo(AfterStop) /\ ev.code \in {"resume", "end"}
    BY <1>2, FieldFact DEF StopStream, TypeOK
  <2>2. EvGo("remove")
    BY <2>1 DEF AfterStop
  <2>3. ev'.p = q /\ ev'.at = "remove"
    BY <1>2, <2>2, EvGoFact DEF TypeOK
  <2> QED
    BY <2>3 DEF Awaited
<1>3. CASE q \in sole /\ q \in map /\ view[q].status = "stopped"
  <2>1. out = "in"
    <3>1. CASE ClientStep \/ MediaStep \/ EventThread \/ ResumeThread
      BY <3>1, ClientFrame, MediaFrame, EventFrame, ResumeFrame
    <3> QED
      BY <3>1, NextFact, LogoutFrame
  <2>2. q \notin blind
    <3> SUFFICES ASSUME q \in blind PROVE FALSE
      OBVIOUS
    <3>1. Restarted /\ rs.p = q /\ (q \in obj => view'[q].status = "playing")
      BY BlindFact
    <3> QED
      BY <3>1 DEF Restarted
  <2>3. Awaited(q) \/ Stopping(q)
    BY <1>3, <2>1, <2>2 DEF WayOK
  <2>4. ASSUME NEW u \in Users, Begin(u), ~StopBegins(u) PROVE Awaited(q)' \/ Stopping(q)'
    <3>1. PICK p \in Plays :
            /\ usr[u].at = "idle" /\ usr'[u].at = "lock" /\ usr'[u].p = p
            /\ \A v \in Users \ {u} : usr'[v] = usr[v]
            /\ p \in sole' => view'[p].status = "ready"
            /\ UNCHANGED list
      BY <2>4, StartFact
    <3>2. UNCHANGED <<ev, rs>>
      BY <2>4, ClientFrame DEF ClientStep
    <3>3. Stopping(q) => Stopping(q)'
      BY <3>1 DEF Stopping
    <3>4. Awaited(q) => Awaited(q)'
      BY <3>1, <3>2 DEF Awaited
    <3> QED
      BY <2>3, <3>3, <3>4
  <2>5. ASSUME NEW u \in Users, StopBegins(u) \/ Call(u) PROVE Awaited(q)' \/ Stopping(q)'
    <3>1. \A v \in Users \ {u} : usr'[v] = usr[v]
      BY <2>5, CallFact
    <3>2. UNCHANGED <<ev, rs>>
      BY <2>5, ClientFrame DEF ClientStep, Begin
    <3>3. CASE StopBegins(u) /\ usr[u].p = q
      <4>1. usr'[u].at = "stop" /\ usr'[u].p = q
        BY <1>1, <3>3, GoFact DEF StopBegins
      <4> QED
        BY <4>1 DEF Stopping
    <3>4. CASE ~(StopBegins(u) /\ usr[u].p = q)
      <4>1. Awaited(q) => Awaited(q)'
        <5>1. CASE UNCHANGED list
          BY <3>2, <5>1 DEF Awaited
        <5>2. CASE StopBegins(u)
          <6>1. list' = Without(list, usr[u].p) /\ usr[u].p # q
            BY <3>4, <5>2 DEF StopBegins
          <6>2. \A j \in DOMAIN list :
                  list[j].h = usr[u].p \/ \E i \in DOMAIN list' : list'[i] = list[j]
            BY <1>1, <6>1, KeptFact
          <6>3. \A j \in DOMAIN list : list[j].obj = q => list[j].h # usr[u].p
            BY <6>1, LiveAssumption DEF ListOK
          <6> QED
            BY <3>2, <6>2, <6>3 DEF Awaited
        <5> QED
          BY <2>5, <5>1, <5>2
             DEF Call, Connect, Connected, ConnectFails, WindowFails, FreeRealPlay, NotFound, StopRealPlay, Erase, Put
      <4>2. Stopping(q) => Stopping(q)'
        <5> SUFFICES ASSUME NEW v \in Users, usr[v].at = "stop", usr[v].p = q PROVE Stopping(q)'
          BY DEF Stopping
        <5>1. CASE v # u
          BY <3>1, <5>1 DEF Stopping
        <5>2. CASE v = u
          <6>1. NotFound(u) \/ StopRealPlay(u)
            BY <2>5, <5>2
               DEF StopBegins, Call, Connect, Connected, ConnectFails, WindowFails, FreeRealPlay, Erase, Put, At
          <6>2. ~NotFound(u)
            BY <1>3, <5>2 DEF NotFound
          <6>3. ~StopRealPlay(u)
            <7> SUFFICES ASSUME StopRealPlay(u) PROVE FALSE
              OBVIOUS
            <7>1. view'[q].status = "finished"
              BY <1>1, <5>2, ViewChanges DEF StopRealPlay
            <7> QED
              BY <7>1
          <6> QED
            BY <6>1, <6>2, <6>3
        <5> QED
          BY <5>1, <5>2
      <4> QED
        BY <2>3, <4>1, <4>2
    <3> QED
      BY <3>3, <3>4
  <2>6. CASE MediaStep
    <3>1. (Awaited(q) => Awaited(q)') /\ (Stopping(q) => Stopping(q)')
      BY <2>6, MediaFrame DEF Awaited, Stopping
    <3> QED
      BY <2>3, <3>1
  <2>7. CASE EventThread
    <3>1. UNCHANGED <<rs, usr>> /\ (Stopping(q) => Stopping(q)')
      BY <2>7, EventFrame DEF Stopping
    <3>2. CASE RemoveEntry
      <4>1. EvGo("add") /\ list' = Without(list, ev.entry.h) /\ ev.at = "remove"
        BY <3>2 DEF RemoveEntry, EvAt
      <4>2. ev'.p = ev.p /\ ev'.at = "add"
        BY <4>1, EvGoFact DEF TypeOK
      <4>3. CASE ev.p = q
        BY <4>2, <4>3 DEF Awaited
      <4>4. CASE ev.p # q
        <5>1. \A j \in DOMAIN list :
                list[j].h = ev.entry.h \/ \E i \in DOMAIN list' : list'[i] = list[j]
          BY <1>1, <4>1, KeptFact
        <5>2. \A j \in DOMAIN list : list[j].obj = q => list[j].h # ev.entry.h
          BY <4>4, LiveAssumption DEF ListOK, EvOK
        <5>3. Awaited(q) => Awaited(q)'
          BY <3>1, <4>4, <5>1, <5>2 DEF Awaited
        <5> QED
          BY <2>3, <3>1, <5>3
      <4> QED
        BY <4>3, <4>4
    <3>3. CASE AddEntry
      <4>1. /\ EvGo("ref") /\ list' = Append(list, ev.entry)
            /\ blind' = IF ev.entry.obj = None THEN blind \cup {ev.p} ELSE blind
        BY <3>3 DEF AddEntry
      <4>2. ev.p = q => ev.entry.obj = q
        BY <4>1 DEF EvOK
      <4>3. /\ \A i \in DOMAIN list : i \in DOMAIN list' /\ list'[i] = list[i]
            /\ Len(list) + 1 \in DOMAIN list' /\ list'[Len(list) + 1] = ev.entry
        <5>1. /\ DOMAIN list' = 1..(Len(list) + 1) /\ Len(list) \in Nat /\ DOMAIN list = 1..Len(list)
              /\ \A i \in DOMAIN list' : list'[i] = IF i = Len(list) + 1 THEN ev.entry ELSE list[i]
          BY <1>1, <4>1, AppendFact, SeqFact
        <5> QED
          BY <5>1
      <4>4. Awaited(q) => Awaited(q)'
        BY <3>1, <4>2, <4>3 DEF Awaited
      <4> QED
        BY <2>3, <3>1, <4>4
    <3>4. CASE ~RemoveEntry /\ ~AddEntry
      <4>1. UNCHANGED list
        BY <2>7, <3>4
           DEF EventThread, EventIgnored, GetRealPlayEx, CopyInfo, StopStream, RefEntry, ReleaseEvent, playVars
      <4>2. ev.at \in {"remove", "add"} => UNCHANGED ev
        BY <2>7, <3>4
           DEF EventThread, EventIgnored, GetRealPlayEx, CopyInfo, StopStream, RefEntry, ReleaseEvent, EvAt, threadVars
      <4>3. Awaited(q) => Awaited(q)'
        BY <3>1, <4>1, <4>2 DEF Awaited
      <4> QED
        BY <2>3, <3>1, <4>3
    <3> QED
      BY <3>2, <3>3, <3>4
  <2>8. CASE ResumeThread
    <3>1. UNCHANGED <<ev, usr>> /\ (Stopping(q) => Stopping(q)')
      BY <2>8, ResumeFrame DEF Stopping
    <3>2. CASE Trigger \/ AllTaken
      <4>1. UNCHANGED list /\ rs.at \in {"idle", "take"} /\ \E a \in {"take", "back"} : RsGo(a)
        BY <3>2 DEF Trigger, AllTaken, RsAt
      <4>2. rs'.failed = rs.failed
        BY <4>1, RsGoFact DEF TypeOK
      <4>3. Awaited(q) => Awaited(q)'
        BY <3>1, <4>1, <4>2 DEF Awaited
      <4> QED
        BY <2>3, <3>1, <4>3
    <3>3. CASE TakeEntry
      <4>1. /\ list # <<>> /\ list' = Tail(list) /\ rs.p = None /\ rs.at = "take"
            /\ IF Head(list).obj = None THEN UNCHANGED rs
               ELSE rs' = [rs EXCEPT !.at = "try", !.p = Head(list).obj]
        BY <3>3 DEF TakeEntry, RsAt, RsOK
      <4>2. /\ Head(list) = list[1] /\ Head(list) \in Entries
            /\ \A i \in DOMAIN list : i = 1 \/ (i - 1 \in DOMAIN list' /\ list[i] = list'[i - 1])
        BY <1>1, <4>1, TailFact
      <4>3. Head(list).obj = q => rs'.at = "try" /\ rs'.p = q
        BY <4>1, RsSetFact, LiveAssumption DEF TypeOK
      <4>4. rs'.failed = rs.failed
        <5>1. CASE Head(list).obj = None
          BY <4>1, <5>1
        <5>2. CASE Head(list).obj # None
          <6>1. Head(list).obj \in Plays /\ rs' = [rs EXCEPT !.at = "try", !.p = Head(list).obj]
            BY <4>1, <4>2, <5>2, FieldFact
          <6> QED
            BY <6>1, RsSetFact DEF TypeOK
        <5> QED
          BY <5>1, <5>2
      <4>5. Awaited(q) => Awaited(q)'
        BY <3>1, <4>1, <4>2, <4>3, <4>4 DEF Awaited
      <4> QED
        BY <2>3, <3>1, <4>5
    <3>4. CASE BackToList
      <4>1. rs.at = "back" /\ list' = list \o Again(rs.failed)
        BY <3>4 DEF BackToList, RsAt, Again
      <4>2. /\ \A j \in DOMAIN list : \E i \in DOMAIN list' : list'[i] = list[j]
            /\ \A j \in DOMAIN rs.failed : \E i \in DOMAIN list' : list'[i] = Entry("window", rs.failed[j])
        BY <1>1, <4>1, BackFact
      <4>3. \A r : Entry("window", r).obj = r
        BY DEF Entry
      <4>4. Awaited(q) => Awaited(q)'
        BY <3>1, <4>1, <4>2, <4>3 DEF Awaited
      <4> QED
        BY <2>3, <3>1, <4>4
    <3>5. CASE ReStartRealPlay
      <4>1. UNCHANGED list /\ RsGo("connect")
        BY <3>5 DEF ReStartRealPlay
      <4>2. rs'.at = "connect" /\ rs'.p = rs.p /\ rs'.failed = rs.failed
        BY <4>1, RsGoFact DEF TypeOK
      <4>3. Awaited(q) => Awaited(q)'
        BY <3>1, <4>1, <4>2 DEF Awaited
      <4> QED
        BY <2>3, <3>1, <4>3
    <3>6. CASE RestartRefused \/ Restarted
      <4>1. UNCHANGED list /\ RsGo("release")
        BY <3>6 DEF RestartRefused, Restarted
      <4>2. rs'.failed = rs.failed
        BY <4>1, RsGoFact DEF TypeOK
      <4>3. rs.p # q
        <5>1. CASE RestartRefused
          BY <1>3, <5>1 DEF RestartRefused, Restartable
        <5>2. CASE Restarted
          <6> SUFFICES ASSUME rs.p = q PROVE FALSE
            OBVIOUS
          <6>1. view' = [view EXCEPT ![q].status = "playing"]
            BY <5>2 DEF Restarted
          <6>2. view'[q].status = "playing"
            BY <1>1, <6>1, ViewChange
          <6> QED
            BY <6>2
        <5> QED
          BY <3>6, <5>1, <5>2
      <4>4. Awaited(q) => Awaited(q)'
        BY <3>1, <4>1, <4>2, <4>3 DEF Awaited
      <4> QED
        BY <2>3, <3>1, <4>4
    <3>7. CASE RestartFails
      <4>1. UNCHANGED list /\ rs'.failed = Append(rs.failed, rs.p) /\ rs.p \in Plays
        BY <1>1, <3>7 DEF RestartFails
      <4>2. /\ \A i \in DOMAIN rs.failed : i \in DOMAIN rs'.failed /\ rs'.failed[i] = rs.failed[i]
            /\ Len(rs.failed) + 1 \in DOMAIN rs'.failed /\ rs'.failed[Len(rs.failed) + 1] = rs.p
        <5>1. /\ DOMAIN rs'.failed = 1..(Len(rs.failed) + 1) /\ Len(rs.failed) \in Nat
              /\ DOMAIN rs.failed = 1..Len(rs.failed)
              /\ \A i \in DOMAIN rs'.failed :
                   rs'.failed[i] = IF i = Len(rs.failed) + 1 THEN rs.p ELSE rs.failed[i]
          BY <1>1, <4>1, AppendFact, SeqFact
        <5> QED
          BY <5>1
      <4>3. Awaited(q) => Awaited(q)'
        BY <3>1, <4>1, <4>2 DEF Awaited
      <4> QED
        BY <2>3, <3>1, <4>3
    <3>8. CASE ReleaseResumed
      <4>1. UNCHANGED list /\ rs.at = "release" /\ rs' = [rs EXCEPT !.at = "take", !.p = None]
        BY <3>8 DEF ReleaseResumed, RsAt
      <4>2. rs'.failed = rs.failed
        BY <4>1, RsSetFact DEF TypeOK
      <4>3. Awaited(q) => Awaited(q)'
        BY <3>1, <4>1, <4>2 DEF Awaited
      <4> QED
        BY <2>3, <3>1, <4>3
    <3> QED
      BY <2>8, <3>2, <3>3, <3>4, <3>5, <3>6, <3>7, <3>8 DEF ResumeThread
  <2> QED
    BY <2>4, <2>5, <2>6, <2>7, <2>8, NextFact, LogoutFrame DEF ClientStep, Begin
<1> QED
  BY <1>2, <1>3, StoppedFact
-----------------------------------------------------------------------------
(* The theorems.                                                           *)

LEMMA InitInv == Init => IInv
<1> SUFFICES ASSUME Init PROVE IInv
  OBVIOUS
<1>1. TypeOK
  <2>1. <<>> \in Seq(Entries) /\ <<>> \in Seq(Messages) /\ Len(<<>>) = 0 /\ <<>> \in Seq(Plays)
    BY EmptySeq
  <2>2. rs \in ResumeStates
    BY <2>1, RsNewFact DEF Init
  <2> QED
    BY <2>1, <2>2, RecordFact, LiveAssumption DEF Init, TypeOK, Messages
<1>2. EvOK
  BY DEF Init, EvOK, Idle, Entry
<1>3. RsOK /\ ListOK /\ FinishedOK /\ CountsOK /\ WayOK
  BY DEF Init, RsOK, ListOK, FinishedOK, CountsOK, WayOK
<1>4. UsersOK
  BY DEF Init, UsersOK, OneClient, Client
<1> QED
  BY <1>1, <1>2, <1>3, <1>4 DEF IInv

LEMMA NextInv == IInv /\ [Next]_vars => IInv'
<1> SUFFICES ASSUME IInv, [Next]_vars PROVE IInv'
  OBVIOUS
<1> USE DEF IInv
<1>1. CASE UNCHANGED vars
  <2>1. TypeOK' /\ EvOK' /\ RsOK' /\ ListOK' /\ FinishedOK'
    BY <1>1 DEF TypeOK, EvOK, RsOK, ListOK, FinishedOK, vars, playVars, threadVars
  <2>2. UsersOK'
    BY <1>1 DEF UsersOK, OneClient, vars, playVars, threadVars
  <2>3. CountsOK' /\ WayOK'
    BY <1>1 DEF CountsOK, Counted, Uncounted, Holders, Listed, Retried, At, WayOK, Awaited, Stopping,
                vars, playVars, threadVars
  <2> QED
    BY <2>1, <2>2, <2>3
<1>2. CASE Next
  <2>1. TypeOK'
    BY <1>2, TypeClient, TypeMedia, TypeEvent, TypeResume, TypeLogout, NextFact
       DEF ClientStep, MediaStep, LogoutStep
  <2>2. EvOK' /\ RsOK' /\ ListOK' /\ UsersOK'
    BY <1>2, EvStep, RsStep, ListStep, UsersStep
  <2>3. FinishedOK' /\ CountsOK' /\ WayOK'
    BY <1>2, <2>1, <2>2, FinishedStep, CountsStep, WayStep
  <2> QED
    BY <2>1, <2>2, <2>3
<1> QED
  BY <1>1, <1>2

LEMMA InvCorrect == Spec => []IInv
  BY InitInv, NextInv, PTL DEF Spec

\* Every variable keeps its type.
THEOREM TypeCorrect == Spec => []TypeOK
<1>1. IInv => TypeOK
  BY DEF IInv
<1> QED
  BY <1>1, InvCorrect, PTL

\* Until the session is logged out, a view of a window start has a reference
\* for each of its holders, but one that the event thread is about to count.
THEOREM RefsCorrect == Spec => []RefsEnough
<1>1. IInv => RefsEnough
  BY DEF IInv, CountsOK, Counted, RefsEnough
<1> QED
  BY <1>1, InvCorrect, PTL

\* A deleted view has no holder left but the event thread about to count it.
THEOREM HeldCorrect == Spec => []HeldIsLive
<1>1. IInv => HeldIsLive
  BY DEF IInv, CountsOK, Counted, HeldIsLive
<1> QED
  BY <1>1, InvCorrect, PTL

\* A view its client has stopped delivers nothing, and is not started again.
THEOREM StoppedOffCorrect == Spec => []StoppedIsOff
<1>1. IInv => StoppedIsOff
  BY DEF IInv, FinishedOK, StoppedIsOff
<1> QED
  BY <1>1, InvCorrect, PTL

\* A broken view is on its way back: no interleaving of the clients, the event
\* thread and the resume thread loses it.
THEOREM StoppedListedCorrect == Spec => []StoppedIsListed
<1>1. IInv => StoppedIsListed
  <2> SUFFICES ASSUME IInv, out = "in", NEW p \in sole \cap map, view[p].status = "stopped", p \notin blind
               PROVE  OnItsWay(p) \/ \E u \in Users : At(u, "stop") /\ usr[u].p = p
    BY DEF StoppedIsListed
  <2>1. Awaited(p) \/ Stopping(p)
    BY DEF IInv, WayOK
  <2>2. p \in Plays /\ list \in Seq(Entries) /\ rs.failed \in Seq(Plays)
    BY FieldFact DEF IInv, TypeOK
  <2>3. /\ Listed(p) = Number(list, Names(p)) /\ Number(list, Names(p)) \in Nat
        /\ Retried(p) = Number(rs.failed, {p}) /\ Number(rs.failed, {p}) \in Nat
    BY <2>2, PlacesFact, NumberFact DEF Listed, Retried
  <2>4. (\E i \in DOMAIN list : list[i].obj = p) => Listed(p) > 0
    <3>1. \A i \in DOMAIN list : list[i] \in Entries
      BY <2>2, SeqFact
    <3>2. (\E i \in DOMAIN list : list[i].obj = p) => Number(list, Names(p)) # 0
      BY <2>2, <3>1, NumberFact DEF Names
    <3> QED
      BY <2>3, <3>2
  <2>5. (\E i \in DOMAIN rs.failed : rs.failed[i] = p) => Retried(p) > 0
    <3>1. (\E i \in DOMAIN rs.failed : rs.failed[i] = p) => Number(rs.failed, {p}) # 0
      BY <2>2, NumberFact
    <3> QED
      BY <2>3, <3>1
  <2> QED
    BY <2>1, <2>4, <2>5 DEF Awaited, OnItsWay, Stopping, At
<1> QED
  BY <1>1, InvCorrect, PTL
=============================================================================
