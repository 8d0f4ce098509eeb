------------------------ MODULE DecoderRequests_proof ------------------------
(* Theorems on the requests to decoders, for any number of decoders,       *)
(* threads, packets, handles and calls, and any capacity of the queues.    *)
(* The first four suppose nothing about the numbers that requests get; the *)
(* last three speak of the time in which these are distinct.               *)
EXTENDS DecoderRequests, FiniteSetTheorems, SequenceTheorems, WellFoundedInduction, TLAPS

\* A thread at work has a call, which is its own; a thread at rest has none.
HandsOK ==
  /\ \A t \in Threads :
       IF At(t, "rest") THEN run[t] = Resting
       ELSE run[t].b \in Requests /\ biz[run[t].b].at = "queued"
  /\ \A t, u \in Threads : ~At(t, "rest") /\ run[t].b = run[u].b => t = u

\* A queue holds calls that no thread has, and each of them once.
QueuesOK ==
  \A t \in Threads : \A i \in DOMAIN queue[t] :
    /\ biz[queue[t][i]].at = "queued"
    /\ \A u \in Threads : run[u].b # queue[t][i]
    /\ \A u \in Threads : \A j \in DOMAIN queue[u] : queue[u][j] = queue[t][i] => t = u /\ i = j

\* A call that was accepted is somewhere.
PlacesOK ==
  \A b \in Requests : biz[b].at = "queued" =>
    \E t \in Threads : run[t].b = b \/ \E i \in DOMAIN queue[t] : queue[t][i] = b

\* What the steps between two locks rely on.
DataOK ==
  /\ \A b \in Requests : biz[b].at = "found" => biz[b].t \in Threads
  /\ \A t \in Threads :
       /\ Holding(t) => Mine(t) \in Packets
       /\ Holding(t) /\ ~At(t, "set") => packet[Mine(t)].send \in Requests
       /\ At(t, "post") => run[t].h \in Handles
  /\ \A i \in DOMAIN events : packet[events[i].p].send \in Requests
  /\ ev.at # "quiet" => ev.p \in Packets

IInv == TypeOK /\ HandsOK /\ QueuesOK /\ PlacesOK /\ DataOK /\ NotShared
-----------------------------------------------------------------------------
(* What the operations make of a queue, a list or a number.                *)

LEMMA TailFact ==
  ASSUME NEW S, NEW s \in Seq(S), s # <<>>
  PROVE  /\ Head(s) \in S /\ Head(s) = s[1] /\ 1 \in DOMAIN s
         /\ Tail(s) \in Seq(S) /\ Len(Tail(s)) = Len(s) - 1 /\ Len(s) \in Nat
         /\ \A i \in DOMAIN Tail(s) : i + 1 \in DOMAIN s /\ Tail(s)[i] = s[i + 1] /\ i + 1 # 1
         /\ \A i \in DOMAIN s : i # 1 => i - 1 \in DOMAIN Tail(s) /\ (i - 1) + 1 = i
<1>1. Len(s) \in Nat /\ DOMAIN s = 1..Len(s) /\ Len(s) # 0 /\ \A i \in 1..Len(s) : s[i] \in S
  BY LenProperties, EmptySeq, ElementOfSeq
<1>2. /\ Tail(s) \in Seq(S) /\ Len(Tail(s)) = Len(s) - 1 /\ Head(s) = s[1]
      /\ \A i \in 1..(Len(s) - 1) : Tail(s)[i] = s[i + 1]
  BY <1>1, HeadTailProperties
<1>3. DOMAIN Tail(s) = 1..(Len(s) - 1)
  BY <1>1, <1>2, LenProperties
<1> QED
  BY <1>1, <1>2, <1>3

LEMMA AppendFact ==
  ASSUME NEW S, NEW s \in Seq(S), NEW e \in S
  PROVE  /\ Append(s, e) \in Seq(S) /\ Len(Append(s, e)) = Len(s) + 1 /\ Len(s) \in Nat
         /\ Len(s) + 1 \in DOMAIN Append(s, e) /\ Append(s, e)[Len(s) + 1] = e
         /\ \A i \in DOMAIN s : i \in DOMAIN Append(s, e) /\ Append(s, e)[i] = s[i]
         /\ \A i \in DOMAIN Append(s, e) : i = Len(s) + 1 \/ i \in DOMAIN s
<1>1. /\ Len(s) \in Nat /\ Append(s, e) \in Seq(S) /\ Len(Append(s, e)) = Len(s) + 1
      /\ Append(s, e)[Len(s) + 1] = e /\ \A i \in 1..Len(s) : Append(s, e)[i] = s[i]
      /\ DOMAIN s = 1..Len(s)
  BY AppendProperties, LenProperties
<1>2. DOMAIN Append(s, e) = 1..(Len(s) + 1)
  BY <1>1, LenProperties
<1> QED
  BY <1>1, <1>2

LEMMA RemoveFact ==
  ASSUME NEW S, NEW s \in Seq(S), NEW k \in DOMAIN s
  PROVE  RemoveAt(s, k) \in Seq(S)
<1>1. Len(s) \in Nat /\ DOMAIN s = 1..Len(s) /\ \A i \in 1..Len(s) : s[i] \in S
  BY LenProperties, ElementOfSeq
<1>2. SubSeq(s, 1, k - 1) \in Seq(S)
  BY <1>1, SubSeqProperties
<1>3. SubSeq(s, k + 1, Len(s)) \in Seq(S)
  BY <1>1, SubSeqProperties
<1> QED
  BY <1>2, <1>3, ConcatProperties DEF RemoveAt

LEMMA LeastFact ==
  ASSUME NEW T, T \subseteq Nat, T # {} PROVE \E x \in T : \A y \in T : x <= y
<1> DEFINE R == OpToRel(<, Nat)
<1>1. R = {ss \in Nat \X Nat : ss[1] < ss[2]}
  BY DEF OpToRel
<1>2. IsWellFoundedOn(R, Nat)
  BY NatLessThanWellFounded
<1> HIDE DEF R
<1>3. PICK x \in T : \A y \in T : ~(<<y, x>> \in R)
  BY <1>2, WFMin
<1>4. \A y \in T : x \in Nat /\ y \in Nat /\ ~(y < x)
  BY <1>1, <1>3
<1> QED
  BY <1>3, <1>4

\* A number that some packet at work has leads to a packet at work.
LEMMA FirstFact ==
  ASSUME TypeOK, NEW no, Numbered(no) # {}
  PROVE  First(no) \in DOMAIN work /\ work[First(no)] \in Packets
<1>1. DOMAIN work \subseteq Nat /\ \A i \in DOMAIN work : work[i] \in Packets
  BY LenProperties, ElementOfSeq DEF TypeOK
<1>2. Numbered(no) \subseteq DOMAIN work
  BY DEF Numbered
<1>3. \E i \in Numbered(no) : \A j \in Numbered(no) : i <= j
  BY <1>1, <1>2, LeastFact
<1>4. First(no) \in Numbered(no)
  BY <1>3 DEF First
<1> QED
  BY <1>1, <1>2, <1>4

LEMMA NextNumber == 0 \in Numbers /\ \A n \in Numbers : (n + 1) % Width \in Numbers
<1>1. Width \in Nat /\ Width > 0
  BY DEF Width
<1>2. \A n \in 0..(Width - 1) : (n + 1) % Width \in 0..(Width - 1)
  BY <1>1
<1> QED
  BY <1>1, <1>2 DEF Numbers
-----------------------------------------------------------------------------
(* Every step keeps the types.                                             *)

LEMMA ConstFact ==
  /\ None \notin Decoders /\ N \in Nat /\ H \in Nat /\ Calls \in Nat /\ MaxQueue \in Nat
  /\ MaxEvents \in Nat /\ MaxJoins \in Nat
  /\ Threads \subseteq 0..N /\ Packets \subseteq 0..N /\ Handles \subseteq 0..H
  /\ Requests \subseteq 0..Calls /\ 0 \notin Requests /\ 0 \notin Handles /\ 0 \notin Packets
  /\ 0 \in 0..N /\ 0 \in 0..H /\ 0 \in 0..Calls /\ 0 \in 0..MaxJoins
  /\ 0 \in Numbers
  /\ Packets = Threads
  BY RequestAssumption, NextNumber DEF Threads, Packets, Handles, Requests

LEMMA Initially == Init => IInv
<1> SUFFICES ASSUME Init PROVE IInv
  OBVIOUS
<1>1. \A S : <<>> \in Seq(S)
  BY EmptySeq
<1>2. free \in Seq(Packets) /\ DOMAIN free = Packets /\ \A i \in Packets : free[i] = i
  <2>1. free \in [1..N -> Packets]
    BY DEF Init, Packets
  <2> QED
    BY <2>1, ConstFact, IsASeq DEF Init, Packets
<1>3. TypeOK
  <2>1. Unasked \in Bizs /\ Resting \in Runs
    BY ConstFact DEF Unasked, Bizs, Resting, Runs
  <2>2. /\ biz \in [Requests -> Bizs] /\ run \in [Threads -> Runs]
        /\ packet \in [Packets -> Packs]
    <3>1. [no |-> 0, send |-> 0, recv |-> 0, ready |-> FALSE] \in Packs
      BY ConstFact DEF Packs
    <3> QED
      BY <2>1, <3>1 DEF Init
  <2>3. /\ queue \in [Threads -> Seq(Requests)] /\ \A t \in Threads : Len(queue[t]) <= MaxQueue
        /\ work \in Seq(Packets) /\ events \in Seq(Sends)
        /\ Len(events) <= MaxEvents /\ asked \in [Decoders -> Seq(Requests)]
    BY <1>1, ConstFact DEF Init
  <2> QED
    BY <1>2, <2>2, <2>3, ConstFact DEF Init, TypeOK, Quiet
<1>4. HandsOK /\ QueuesOK /\ PlacesOK /\ DataOK
  BY DEF Init, HandsOK, QueuesOK, PlacesOK, DataOK, Unasked, Resting, At, Holding, Quiet
<1>5. NotShared
  BY <1>2 DEF Init, NotShared, Holding, Resting
<1> QED
  BY <1>3, <1>4, <1>5 DEF IInv

\* The records after an update.
LEMMA BizFact ==
  ASSUME NEW r \in Bizs
  PROVE  /\ r.t \in 0..N /\ r.p \in 0..N /\ r.no \in Numbers
         /\ \A d \in Decoders : \A t \in Threads :
              [r EXCEPT !.at = "found", !.dec = d, !.t = t] \in Bizs
         /\ \A d \in Decoders : [r EXCEPT !.at = "refused", !.dec = d] \in Bizs
         /\ [r EXCEPT !.at = "queued", !.t = 0] \in Bizs
         /\ [r EXCEPT !.at = "refused", !.t = 0] \in Bizs
         /\ \A n \in Numbers : [r EXCEPT !.no = n] \in Bizs
         /\ \A p \in Packets : [r EXCEPT !.p = p] \in Bizs
         /\ \A c \in 0..Calls : [r EXCEPT !.at = "done", !.got = c] \in Bizs
         /\ [r EXCEPT !.left = TRUE] \in Bizs
  BY ConstFact DEF Bizs

LEMMA RunFact ==
  ASSUME NEW r \in Runs
  PROVE  /\ r.b \in 0..Calls /\ r.seen \in Numbers /\ r.h \in 0..H
         /\ \A b \in 0..Calls : \A n \in Numbers :
              [Resting EXCEPT !.at = "number", !.b = b, !.seen = n] \in Runs
         /\ Resting \in Runs
         /\ [r EXCEPT !.at = "get", !.seen = 0] \in Runs
         /\ \A h \in Handles : [r EXCEPT !.at = "post", !.h = h] \in Runs
         /\ \A a \in {"wait", "failed"} : [r EXCEPT !.at = a, !.h = 0] \in Runs
         /\ \A a \in {"set", "find", "woken", "failed"} : [r EXCEPT !.at = a] \in Runs
  BY ConstFact DEF Runs, Resting

LEMMA PackFact ==
  ASSUME NEW r \in Packs
  PROVE  /\ r.recv \in 0..Calls
         /\ \A n \in Numbers : \A b \in 0..Calls : [r EXCEPT !.no = n, !.send = b] \in Packs
         /\ \A b \in 0..Calls : [r EXCEPT !.recv = b] \in Packs
         /\ \A x \in BOOLEAN : [r EXCEPT !.ready = x] \in Packs
  BY DEF Packs

LEMMA GoneType ==
  ASSUME TypeOK, NEW d \in Decoders, Gone(d)
  PROVE  /\ biz' \in [Requests -> Bizs] /\ owner' \in [Threads -> Decoders \cup {None}]
         /\ who' \in [Handles -> Decoders \cup {None}] /\ asked' \in [Decoders -> Seq(Requests)]
         /\ \A b \in Requests : biz'[b].at = biz[b].at /\ biz'[b].p = biz[b].p /\ biz'[b].t = biz[b].t
<1>1. /\ biz' \in [Requests -> Bizs]
      /\ \A b \in Requests : biz'[b].at = biz[b].at /\ biz'[b].p = biz[b].p /\ biz'[b].t = biz[b].t
  <2>1. ASSUME NEW b \in Requests
        PROVE  /\ biz[b] \in Bizs /\ [biz[b] EXCEPT !.left = TRUE] \in Bizs
               /\ [biz[b] EXCEPT !.left = TRUE].at = biz[b].at
               /\ [biz[b] EXCEPT !.left = TRUE].p = biz[b].p
               /\ [biz[b] EXCEPT !.left = TRUE].t = biz[b].t
    <3>1. biz[b] \in Bizs
      BY DEF TypeOK
    <3> QED
      BY <3>1 DEF Bizs
  <2> QED
    BY <2>1 DEF Gone
<1>2. /\ owner' \in [Threads -> Decoders \cup {None}] /\ who' \in [Handles -> Decoders \cup {None}]
  BY DEF TypeOK, Gone
<1>3. asked' \in [Decoders -> Seq(Requests)]
  BY EmptySeq DEF TypeOK, Gone
<1> QED
  BY <1>1, <1>2, <1>3

LEMMA ReportType ==
  ASSUME TypeOK, HandsOK, NEW t \in Threads, ~At(t, "rest"), NEW c \in 0..Calls, Report(t, c)
  PROVE  biz' \in [Requests -> Bizs] /\ run' \in [Threads -> Runs]
<1>1. run[t].b \in Requests /\ biz[run[t].b] \in Bizs /\ run[t] \in Runs
  BY DEF HandsOK, TypeOK
<1>2. [biz[run[t].b] EXCEPT !.at = "done", !.got = c] \in Bizs /\ Resting \in Runs
  BY <1>1, BizFact, RunFact
<1> QED
  BY <1>1, <1>2 DEF Report, TypeOK

LEMMA ReleaseType ==
  ASSUME TypeOK, NEW p \in Packets, ReleaseRDAPacket(p)
  PROVE  free' \in Seq(Packets) /\ work' \in Seq(Packets)
<1>1. free \in Seq(Packets) /\ work \in Seq(Packets)
  BY DEF TypeOK
<1>2. CASE Numbered(packet[p].no) = {}
  BY <1>1, <1>2 DEF ReleaseRDAPacket, poolVars
<1>3. CASE Numbered(packet[p].no) # {}
  <2>1. First(packet[p].no) \in DOMAIN work
    BY <1>3, FirstFact
  <2>2. Append(free, p) \in Seq(Packets) /\ RemoveAt(work, First(packet[p].no)) \in Seq(Packets)
    BY <1>1, <2>1, RemoveFact, AppendFact
  <2> QED
    BY <1>3, <2>2 DEF ReleaseRDAPacket, Freed, Unworked
<1> QED
  BY <1>2, <1>3

LEMMA GotoType ==
  ASSUME TypeOK, NEW t \in Threads,
         NEW a \in {"set", "find", "woken", "failed"}, Goto(t, a)
  PROVE  run' \in [Threads -> Runs]
<1>1. run[t] \in Runs
  BY DEF TypeOK
<1>2. [run[t] EXCEPT !.at = a] \in Runs
  BY <1>1, RunFact
<1> QED
  BY <1>2 DEF TypeOK, Goto

LEMMA TypeStep == IInv /\ [Next]_vars => TypeOK'
<1> SUFFICES ASSUME IInv, [Next]_vars PROVE TypeOK'
  OBVIOUS
<1>0. TypeOK /\ HandsOK /\ DataOK
  BY DEF IInv
<1>a. \A t \in Threads : ~At(t, "rest") => run[t].b \in Requests /\ run[t].b \in 0..Calls
  BY <1>0, ConstFact DEF HandsOK
<1>1. ASSUME NEW b \in Requests, NEW d \in Decoders, FindThread(b, d) PROVE TypeOK'
  <2>1. biz' \in [Requests -> Bizs]
    <3>1. biz[b] \in Bizs /\ d \in Decoders
      BY <1>0 DEF TypeOK
    <3>2. /\ \A t \in Threads : [biz[b] EXCEPT !.at = "found", !.dec = d, !.t = t] \in Bizs
          /\ [biz[b] EXCEPT !.at = "refused", !.dec = d] \in Bizs
      BY <3>1, BizFact
    <3> QED
      <4>1. \/ \E t \in Threads : biz' = [biz EXCEPT ![b].at = "found", ![b].dec = d, ![b].t = t]
            \/ biz' = [biz EXCEPT ![b].at = "refused", ![b].dec = d]
        BY <1>1 DEF FindThread
      <4>2. biz \in [Requests -> Bizs]
        BY <1>0 DEF TypeOK
      <4>3. ASSUME NEW t \in Threads, biz' = [biz EXCEPT ![b].at = "found", ![b].dec = d, ![b].t = t]
            PROVE  biz' \in [Requests -> Bizs]
        BY <3>2, <4>2, <4>3
      <4>4. CASE biz' = [biz EXCEPT ![b].at = "refused", ![b].dec = d]
        BY <3>2, <4>2, <4>4
      <4> QED
        BY <4>1, <4>3, <4>4
  <2> QED
    BY <1>0, <1>1, <2>1 DEF FindThread, TypeOK, busVars, poolVars
<1>2. ASSUME NEW b \in Requests, AddEvent(b) PROVE TypeOK'
  <2>1. biz' \in [Requests -> Bizs] /\ biz[b].t \in Threads
    <3>1. biz[b] \in Bizs /\ biz[b].t \in Threads
      BY <1>0, <1>2 DEF AddEvent, TypeOK, DataOK
    <3>2. [biz[b] EXCEPT !.at = "queued", !.t = 0] \in Bizs /\ [biz[b] EXCEPT !.at = "refused", !.t = 0] \in Bizs
      BY <3>1, BizFact
    <3> QED
      BY <1>0, <1>2, <3>1, <3>2 DEF AddEvent, TypeOK
  <2>2. queue' \in [Threads -> Seq(Requests)] /\ \A t \in Threads : Len(queue'[t]) <= MaxQueue
    <3>1. ASSUME NEW t \in Threads, Fits(t)
          PROVE  /\ Append(queue[t], b) \in Seq(Requests)
                 /\ Len(Append(queue[t], b)) <= MaxQueue
      BY <1>0, <3>1, AppendFact, ConstFact DEF Fits, TypeOK
    <3> QED
      BY <1>0, <1>2, <2>1, <3>1 DEF AddEvent, TypeOK
  <2> QED
    BY <1>0, <1>2, <2>1, <2>2 DEF AddEvent, TypeOK, poolVars
<1>3. ASSUME NEW t \in Threads, Read(t) PROVE TypeOK'
  <2>1. /\ queue[t] \in Seq(Requests) /\ queue[t] # <<>> /\ Len(queue[t]) <= MaxQueue
        /\ Head(queue[t]) \in Requests
    BY <1>0, <1>3, TailFact DEF Read, TypeOK
  <2>2. Tail(queue[t]) \in Seq(Requests) /\ Len(Tail(queue[t])) <= MaxQueue
    BY <2>1, TailFact, ConstFact
  <2>3. queue' \in [Threads -> Seq(Requests)] /\ \A u \in Threads : Len(queue'[u]) <= MaxQueue
    BY <1>0, <1>3, <2>2 DEF Read, TypeOK, Popped
  <2>4. [Resting EXCEPT !.at = "number", !.b = Head(queue[t]), !.seen = count] \in Runs
    <3>1. run[t] \in Runs /\ Head(queue[t]) \in 0..Calls /\ count \in Numbers
      BY <1>0, <2>1, ConstFact DEF TypeOK
    <3> QED
      BY <3>1, RunFact
  <2>5. run' \in [Threads -> Runs]
    BY <1>0, <1>3, <2>4 DEF Read, TypeOK
  <2> QED
    BY <1>0, <1>3, <2>3, <2>5 DEF Read, TypeOK, poolVars
<1>4. ASSUME NEW t \in Threads, Write(t) PROVE TypeOK'
  <2>1. /\ run[t].b \in Requests /\ run[t].seen \in Numbers /\ run[t] \in Runs
        /\ biz[run[t].b] \in Bizs
    <3>1. run[t] \in Runs /\ run[t].b \in Requests
      BY <1>0, <1>a, <1>4 DEF Write, At, TypeOK
    <3> QED
      BY <1>0, <3>1, RunFact DEF TypeOK
  <2>2. count' \in Numbers
    BY <1>4, <2>1, NextNumber DEF Write
  <2>3. biz' \in [Requests -> Bizs]
    <3>1. [biz[run[t].b] EXCEPT !.no = count'] \in Bizs
      BY <2>1, <2>2, BizFact
    <3> QED
      BY <1>0, <1>4, <2>1, <3>1 DEF Write, TypeOK
  <2>4. run' \in [Threads -> Runs]
    <3>1. [run[t] EXCEPT !.at = "get", !.seen = 0] \in Runs
      BY <2>1, RunFact
    <3> QED
      BY <1>0, <1>4, <3>1 DEF Write, TypeOK
  <2> QED
    BY <1>0, <1>4, <2>2, <2>3, <2>4 DEF Write, TypeOK, busVars, poolVars
<1>5. ASSUME NEW t \in Threads, GetRDAPacket(t) PROVE TypeOK'
  <2>1. ~At(t, "rest") /\ run[t].b \in Requests
    BY <1>a, <1>5 DEF GetRDAPacket, At
  <2>2. CASE free = <<>>
    <3>1. Report(t, 0) /\ UNCHANGED <<busVars, poolVars, count, packet, events, who, asked, ev, joins, tired>>
      BY <1>5, <2>2 DEF GetRDAPacket
    <3>2. biz' \in [Requests -> Bizs] /\ run' \in [Threads -> Runs]
      BY <1>0, <2>1, <3>1, ReportType, ConstFact
    <3> QED
      BY <1>0, <3>1, <3>2 DEF TypeOK, busVars, poolVars
  <2>3. CASE free # <<>>
    <3>1. Head(free) \in Packets /\ Tail(free) \in Seq(Packets) /\ Head(free) \in 0..N
      BY <1>0, <2>3, TailFact, ConstFact DEF TypeOK
    <3>2. biz' \in [Requests -> Bizs] /\ run' \in [Threads -> Runs]
      <4>1. biz[run[t].b] \in Bizs
        BY <1>0, <2>1 DEF TypeOK
      <4>2. [biz[run[t].b] EXCEPT !.p = Head(free)] \in Bizs
        BY <3>1, <4>1, BizFact
      <4>3. biz' = [biz EXCEPT ![run[t].b].p = Head(free)] /\ Goto(t, "set")
        BY <1>5, <2>3 DEF GetRDAPacket
      <4> QED
        BY <1>0, <2>1, <4>2, <4>3, GotoType DEF TypeOK
    <3>3. free' \in Seq(Packets) /\ work' \in Seq(Packets)
      <4>1. work \in Seq(Packets) /\ Append(work, Head(free)) \in Seq(Packets)
        BY <1>0, <3>1, AppendFact DEF TypeOK
      <4> QED
        BY <1>5, <2>3, <3>1, <4>1 DEF GetRDAPacket
    <3> QED
      BY <1>0, <1>5, <3>2, <3>3 DEF GetRDAPacket, TypeOK, busVars
  <2> QED
    BY <2>2, <2>3
<1>6. ASSUME NEW t \in Threads, SetPacket(t) PROVE TypeOK'
  <2>1. /\ run[t].b \in Requests /\ run[t].b \in 0..Calls /\ biz[run[t].b].no \in Numbers
        /\ Mine(t) \in Packets
    <3>1. run[t].b \in Requests /\ run[t].b \in 0..Calls /\ Mine(t) \in Packets
      BY <1>0, <1>a, <1>6 DEF SetPacket, At, DataOK, Holding
    <3>2. biz[run[t].b] \in Bizs
      BY <1>0, <3>1 DEF TypeOK
    <3> QED
      BY <3>1, <3>2, BizFact
  <2>2. packet' \in [Packets -> Packs]
    <3>1. packet[Mine(t)] \in Packs
      BY <1>0, <2>1 DEF TypeOK
    <3>2. [packet[Mine(t)] EXCEPT !.no = biz[run[t].b].no, !.send = run[t].b] \in Packs
      BY <2>1, <3>1, PackFact
    <3> QED
      BY <1>0, <1>6, <3>2 DEF SetPacket, TypeOK
  <2> QED
    BY <1>0, <1>6, <2>2, GotoType DEF SetPacket, TypeOK, busVars, poolVars
<1>7. ASSUME NEW t \in Threads, GetConnHandle(t) PROVE TypeOK'
  <2>1. run' \in [Threads -> Runs]
    <3>1. Goto(t, "failed") \/ \E h \in Handles : run' = [run EXCEPT ![t].at = "post", ![t].h = h]
      BY <1>7 DEF GetConnHandle, HandlesOf
    <3>2. run[t] \in Runs
      BY <1>0 DEF TypeOK
    <3>3. \A h \in Handles : [run[t] EXCEPT !.at = "post", !.h = h] \in Runs
      BY <3>2, RunFact
    <3> QED
      BY <1>0, <3>1, <3>3, GotoType DEF TypeOK
  <2> QED
    BY <1>0, <1>7, <2>1 DEF GetConnHandle, TypeOK, busVars, poolVars
<1>8. ASSUME NEW t \in Threads, PostSend(t) PROVE TypeOK'
  <2>1. run' \in [Threads -> Runs]
    <3>1. run[t] \in Runs
      BY <1>0 DEF TypeOK
    <3>2. \A a \in {"wait", "failed"} : [run[t] EXCEPT !.at = a, !.h = 0] \in Runs
      BY <3>1, RunFact
    <3> QED
      BY <1>0, <1>8, <3>2 DEF PostSend, TypeOK
  <2>2. [p |-> Mine(t), h |-> run[t].h] \in Sends
    BY <1>0, <1>8 DEF PostSend, DataOK, Holding, At, Sends
  <2>3. events' \in Seq(Sends) /\ Len(events') <= MaxEvents
    <3> DEFINE e == [p |-> Mine(t), h |-> run[t].h]
    <3>1. events \in Seq(Sends) /\ Len(events) <= MaxEvents
      BY <1>0 DEF TypeOK
    <3>2. events' = events \/ (events' = Append(events, e) /\ Len(events) < MaxEvents)
      BY <1>8 DEF PostSend
    <3> HIDE DEF e
    <3>3. /\ Append(events, e) \in Seq(Sends) /\ Len(events) \in Nat
          /\ Len(Append(events, e)) = Len(events) + 1
      BY <2>2, <3>1, AppendFact DEF e
    <3> QED
      BY <3>1, <3>2, <3>3, ConstFact
  <2> QED
    BY <1>0, <1>8, <2>1, <2>3 DEF PostSend, TypeOK, busVars, poolVars
<1>9. ASSUME NEW t \in Threads, Wake(t) \/ GiveUp(t) PROVE TypeOK'
  <2>1. run' \in [Threads -> Runs]
    BY <1>0, <1>9, GotoType DEF Wake, GiveUp
  <2>2. CASE Wake(t)
    <3>1. packet' \in [Packets -> Packs]
      <4>1. ASSUME NEW p \in Packets PROVE [packet[p] EXCEPT !.ready = FALSE] \in Packs
        BY <1>0, PackFact DEF TypeOK
      <4> QED
        BY <1>0, <2>2, <4>1 DEF Wake, TypeOK
    <3> QED
      BY <1>0, <2>1, <2>2, <3>1 DEF Wake, TypeOK, busVars, poolVars
  <2>3. CASE GiveUp(t)
    <3>1. Mine(t) \in Packets
      BY <1>0, <2>3 DEF GiveUp, DataOK, Holding, At
    <3> QED
      BY <1>0, <2>1, <2>3, <3>1 DEF GiveUp, TypeOK, busVars, poolVars
  <2> QED
    BY <1>9, <2>2, <2>3
<1>10. ASSUME NEW t \in Threads, Decode(t) \/ Fails(t) PROVE TypeOK'
  <2>1. ~At(t, "rest") /\ Mine(t) \in Packets
    BY <1>0, <1>10 DEF Decode, Fails, At, DataOK, Holding
  <2>2. PICK c \in 0..Calls : Report(t, c)
    <3>1. packet[Mine(t)].recv \in 0..Calls /\ 0 \in 0..Calls
      BY <1>0, <2>1, PackFact, ConstFact DEF TypeOK
    <3> QED
      BY <1>10, <3>1 DEF Decode, Fails
  <2>3. biz' \in [Requests -> Bizs] /\ run' \in [Threads -> Runs]
    BY <1>0, <2>1, <2>2, ReportType
  <2>4. free' \in Seq(Packets) /\ work' \in Seq(Packets)
    BY <1>0, <1>10, <2>1, ReleaseType DEF Decode, Fails
  <2> QED
    BY <1>0, <1>10, <2>3, <2>4 DEF Decode, Fails, TypeOK, busVars
<1>11. ASSUME NEW d \in Decoders, Leave(d) PROVE TypeOK'
  BY <1>0, <1>11, GoneType DEF Leave, TypeOK, poolVars
<1>12. ASSUME NEW d \in Decoders, NEW h \in Handles, Register(d, h) PROVE TypeOK'
  <2>1. who' \in [Handles -> Decoders \cup {None}] /\ owner' \in [Threads -> Decoders \cup {None}]
    BY <1>0, <1>12 DEF Register, TypeOK
  <2>2. joins' \in 0..MaxJoins
    BY <1>0, <1>12, ConstFact DEF Register, TypeOK
  <2> QED
    BY <1>0, <1>12, <2>1, <2>2 DEF Register, TypeOK, poolVars
<1>13. CASE ProcSendMsg
  <2>1. /\ events # <<>> /\ Head(events) \in Sends
        /\ packet[Head(events).p].send \in Requests
    BY <1>0, <1>13, TailFact DEF ProcSendMsg, TypeOK, DataOK
  <2>2. events' \in Seq(Sends) /\ Len(events') <= MaxEvents
    BY <1>0, <1>13, <2>1, TailFact, ConstFact DEF ProcSendMsg, TypeOK
  <2> DEFINE d == who[Head(events).h]
  <2>3. d \in Decoders \cup {None}
    BY <1>0, <2>1 DEF TypeOK, Sends
  <2>4. /\ UNCHANGED <<queue, run, count, poolVars, packet, ev, joins, tired>>
        /\ \/ /\ d # None /\ asked' = [asked EXCEPT ![d] = Append(@, packet[Head(events).p].send)]
              /\ UNCHANGED <<biz, owner, who>>
           \/ d # None /\ Gone(d)
           \/ UNCHANGED <<biz, owner, who, asked>>
    BY <1>13 DEF ProcSendMsg
  <2> HIDE DEF d
  <2>5. /\ biz' \in [Requests -> Bizs] /\ owner' \in [Threads -> Decoders \cup {None}]
        /\ who' \in [Handles -> Decoders \cup {None}] /\ asked' \in [Decoders -> Seq(Requests)]
    <3>1. CASE d # None /\ Gone(d)
      BY <1>0, <2>3, <3>1, GoneType
    <3>2. CASE d # None /\ asked' = [asked EXCEPT ![d] = Append(@, packet[Head(events).p].send)]
               /\ UNCHANGED <<biz, owner, who>>
      <4>1. Append(asked[d], packet[Head(events).p].send) \in Seq(Requests)
        BY <1>0, <2>1, <2>3, <3>2, AppendFact DEF TypeOK
      <4> QED
        BY <1>0, <3>2, <4>1 DEF TypeOK
    <3>3. CASE UNCHANGED <<biz, owner, who, asked>>
      BY <1>0, <3>3 DEF TypeOK
    <3> QED
      BY <2>4, <3>1, <3>2, <3>3
  <2> QED
    BY <1>0, <2>2, <2>4, <2>5 DEF TypeOK, poolVars
<1>14. ASSUME NEW d \in Decoders, FindRDAPacket(d) PROVE TypeOK'
  <2> DEFINE b == Head(asked[d])
  <2>1. /\ b \in Requests /\ Tail(asked[d]) \in Seq(Requests) /\ b \in 0..Calls
        /\ [asked EXCEPT ![d] = Tail(@)] \in [Decoders -> Seq(Requests)]
    BY <1>0, <1>14, TailFact, ConstFact DEF FindRDAPacket, TypeOK
  <2>2. UNCHANGED <<queue, run, count, poolVars, packet, events, joins, tired>>
    BY <1>14 DEF FindRDAPacket
  <2>3. CASE Numbered(biz[b].no) # {}
    <3>1. work[First(biz[b].no)] \in Packets
      BY <1>0, <2>3, FirstFact
    <3>2. /\ ev' = [at |-> "found", b |-> b, p |-> work[First(biz[b].no)]]
          /\ asked' = [asked EXCEPT ![d] = Tail(@)] /\ UNCHANGED <<biz, owner, who>>
      BY <1>14, <2>3 DEF FindRDAPacket
    <3> HIDE DEF b
    <3> QED
      BY <1>0, <2>1, <2>2, <3>1, <3>2, ConstFact DEF TypeOK, poolVars
  <2>4. CASE Numbered(biz[b].no) = {}
    <3>1. /\ UNCHANGED ev
          /\ \/ asked' = [asked EXCEPT ![d] = Tail(@)] /\ UNCHANGED <<biz, owner, who>>
             \/ Gone(d)
      BY <1>14, <2>4 DEF FindRDAPacket
    <3> HIDE DEF b
    <3>2. CASE Gone(d)
      BY <1>0, <2>2, <3>1, <3>2, GoneType DEF TypeOK, poolVars
    <3>3. CASE asked' = [asked EXCEPT ![d] = Tail(@)] /\ UNCHANGED <<biz, owner, who>>
      BY <1>0, <2>1, <2>2, <3>1, <3>3 DEF TypeOK, poolVars
    <3> QED
      BY <3>1, <3>2, <3>3
  <2> QED
    BY <2>3, <2>4
<1>15. CASE Copy
  <2>1. packet' \in [Packets -> Packs] /\ ev'.at = "copied"
    <3>1. ASSUME NEW p \in Packets PROVE [packet[p] EXCEPT !.recv = ev.b] \in Packs
      <4>1. packet[p] \in Packs /\ ev.b \in 0..Calls
        BY <1>0 DEF TypeOK
      <4> QED
        BY <4>1, PackFact
    <3> QED
      BY <1>0, <1>15, <3>1 DEF Copy, TypeOK
  <2> QED
    BY <1>0, <1>15, <2>1 DEF Copy, TypeOK, busVars, poolVars
<1>16. CASE SetReadPacketEv
  <2>1. packet' \in [Packets -> Packs]
    <3>1. ASSUME NEW p \in Packets PROVE [packet[p] EXCEPT !.ready = TRUE] \in Packs
      BY <1>0, PackFact DEF TypeOK
    <3> QED
      BY <1>0, <1>16, <3>1 DEF SetReadPacketEv, TypeOK
  <2> QED
    BY <1>0, <1>16, <2>1, ConstFact DEF SetReadPacketEv, TypeOK, busVars, poolVars, Quiet
<1>17. CASE UNCHANGED vars
  BY <1>0, <1>17 DEF vars, TypeOK, busVars, poolVars
<1> QED
  BY <1>1, <1>2, <1>3, <1>4, <1>5, <1>6, <1>7, <1>8, <1>9, <1>10, <1>11, <1>12, <1>13, <1>14,
     <1>15, <1>16, <1>17 DEF Next, Thread
-----------------------------------------------------------------------------
(* Every step keeps a call in one place.                                   *)

CallsOK == HandsOK /\ QueuesOK /\ PlacesOK

\* Most steps move no call.
Kept ==
  /\ queue' = queue
  /\ \A t \in Threads : /\ run'[t].b = run[t].b
                        /\ run'[t] = run[t] \/ (~At(t, "rest") /\ run'[t].at # "rest")
  /\ \A b \in Requests : biz'[b].at = "queued" <=> biz[b].at = "queued"

LEMMA KeptCalls == ASSUME TypeOK, CallsOK, Kept PROVE CallsOK'
<1>1. \A t \in Threads : \A i \in DOMAIN queue[t] : queue[t][i] \in Requests
  BY ElementOfSeq, LenProperties DEF TypeOK
<1>2. HandsOK'
  BY DEF Kept, CallsOK, HandsOK, At
<1>3. QueuesOK'
  BY <1>1 DEF Kept, CallsOK, QueuesOK
<1>4. PlacesOK'
  BY DEF Kept, CallsOK, PlacesOK
<1> QED
  BY <1>2, <1>3, <1>4 DEF CallsOK

\* A step of one thread that keeps its call.
LEMMA StepKeeps ==
  ASSUME TypeOK, NEW t \in Threads, ~At(t, "rest"), NEW r, r.at # "rest", r.b = run[t].b,
         run' = [run EXCEPT ![t] = r], UNCHANGED queue,
         \A b \in Requests : biz'[b].at = "queued" <=> biz[b].at = "queued"
  PROVE  Kept
<1>1. \A u \in Threads : run'[u] = IF u = t THEN r ELSE run[u]
  BY DEF TypeOK
<1> QED
  BY <1>1 DEF Kept

LEMMA GotoKeeps ==
  ASSUME TypeOK, NEW t \in Threads, ~At(t, "rest"), NEW a, a # "rest", Goto(t, a),
         UNCHANGED queue, \A b \in Requests : biz'[b].at = "queued" <=> biz[b].at = "queued"
  PROVE  Kept
<1> DEFINE r == [run[t] EXCEPT !.at = a]
<1>1. r.at = a /\ r.b = run[t].b
  <2>1. run[t] \in Runs
    BY DEF TypeOK
  <2> QED
    BY <2>1 DEF Runs
<1>2. run' = [run EXCEPT ![t] = r]
  BY DEF Goto
<1> HIDE DEF r
<1> QED
  BY <1>1, <1>2, StepKeeps

\* A report ends the call.
LEMMA ReportCalls ==
  ASSUME TypeOK, CallsOK, NEW t \in Threads, ~At(t, "rest"), NEW c, Report(t, c), UNCHANGED queue
  PROVE  /\ CallsOK' /\ run'[t] = Resting /\ \A u \in Threads : u # t => run'[u] = run[u]
         /\ \A b \in Requests : biz'[b].p = biz[b].p /\ biz'[b].t = biz[b].t
         /\ \A b \in Requests : biz'[b].at = "found" => biz[b].at = "found"
<1> DEFINE x == run[t].b
<1>1. x \in Requests /\ x # 0 /\ biz[x].at = "queued"
  BY ConstFact DEF CallsOK, HandsOK
<1>2. /\ run'[t] = Resting /\ Resting.b = 0 /\ Resting.at = "rest"
      /\ \A u \in Threads : u # t => run'[u] = run[u]
  BY DEF Report, TypeOK, Resting
<1>3. /\ \A b \in Requests : b # x => biz'[b] = biz[b]
      /\ biz'[x].at = "done" /\ biz'[x].p = biz[x].p /\ biz'[x].t = biz[x].t
  <2>1. biz[x] \in Bizs
    BY <1>1 DEF TypeOK
  <2>2. biz' = [biz EXCEPT ![x] = [biz[x] EXCEPT !.at = "done", !.got = c]]
    BY DEF Report
  <2>3. /\ [biz[x] EXCEPT !.at = "done", !.got = c].at = "done"
        /\ [biz[x] EXCEPT !.at = "done", !.got = c].p = biz[x].p
        /\ [biz[x] EXCEPT !.at = "done", !.got = c].t = biz[x].t
    BY <2>1 DEF Bizs
  <2> HIDE DEF x
  <2> QED
    BY <1>1, <2>2, <2>3 DEF TypeOK
<1>4. \A u \in Threads : u # t => run[u].b # x
  BY DEF CallsOK, HandsOK
<1>5. \A u \in Threads : \A i \in DOMAIN queue[u] : queue[u][i] # x /\ queue[u][i] \in Requests
  BY ElementOfSeq, LenProperties DEF CallsOK, QueuesOK, TypeOK
<1> HIDE DEF x
<1>6. HandsOK'
  <2>1. \A u \in Threads :
          IF run'[u].at = "rest" THEN run'[u] = Resting
          ELSE run'[u].b \in Requests /\ biz'[run'[u].b].at = "queued"
    BY <1>2, <1>3, <1>4 DEF CallsOK, HandsOK, At
  <2>2. \A u, v \in Threads : run'[u].at # "rest" /\ run'[u].b = run'[v].b => u = v
    <3> TAKE u, v \in Threads
    <3> HAVE run'[u].at # "rest" /\ run'[u].b = run'[v].b
    <3>1. u # t /\ run'[u] = run[u] /\ run[u].b \in Requests
      BY <1>2 DEF CallsOK, HandsOK, At
    <3>2. v # t
      BY <1>2, <3>1, ConstFact
    <3> QED
      BY <1>2, <3>1, <3>2 DEF CallsOK, HandsOK, At
  <2> QED
    BY <2>1, <2>2 DEF HandsOK, At
<1>7. QueuesOK'
  <2> SUFFICES ASSUME NEW u \in Threads, NEW i \in DOMAIN queue[u]
               PROVE  /\ biz'[queue[u][i]].at = "queued"
                      /\ \A v \in Threads : run'[v].b # queue[u][i]
                      /\ \A v \in Threads : \A j \in DOMAIN queue[v] :
                           queue[v][j] = queue[u][i] => u = v /\ i = j
    BY DEF QueuesOK
  <2>1. /\ biz[queue[u][i]].at = "queued" /\ queue[u][i] # x /\ queue[u][i] \in Requests
        /\ \A v \in Threads : run[v].b # queue[u][i]
        /\ \A v \in Threads : \A j \in DOMAIN queue[v] : queue[v][j] = queue[u][i] => u = v /\ i = j
    BY <1>5 DEF CallsOK, QueuesOK
  <2>2. \A v \in Threads : run'[v].b # queue[u][i]
    BY <1>2, <2>1, ConstFact
  <2> QED
    BY <1>3, <2>1, <2>2
<1>8. PlacesOK'
  BY <1>2, <1>3 DEF CallsOK, PlacesOK, x
<1> QED
  BY <1>1, <1>2, <1>3, <1>6, <1>7, <1>8 DEF CallsOK

LEMMA AddCalls == ASSUME TypeOK, CallsOK, DataOK, NEW b \in Requests, AddEvent(b) PROVE CallsOK'
<1> DEFINE s == biz[b].t
<1>1. biz[b].at = "found" /\ s \in Threads /\ UNCHANGED run
  BY DEF AddEvent, DataOK
<1>2. /\ \A t \in Threads : run[t].b # b
      /\ \A t \in Threads : \A i \in DOMAIN queue[t] : queue[t][i] # b /\ queue[t][i] \in Requests
  <2>1. \A t \in Threads : run[t].b # b
    BY <1>1, ConstFact DEF CallsOK, HandsOK, Resting
  <2>2. \A t \in Threads : \A i \in DOMAIN queue[t] : queue[t][i] # b /\ queue[t][i] \in Requests
    BY <1>1, ElementOfSeq, LenProperties DEF CallsOK, QueuesOK, TypeOK
  <2> QED
    BY <2>1, <2>2
<1>3. \A a : biz' = [biz EXCEPT ![b].at = a, ![b].t = 0] =>
        biz'[b].at = a /\ \A c \in Requests : c # b => biz'[c] = biz[c]
  <2> TAKE a
  <2> HAVE biz' = [biz EXCEPT ![b].at = a, ![b].t = 0]
  <2>1. biz[b] \in Bizs
    BY DEF TypeOK
  <2>2. [biz[b] EXCEPT !.at = a, !.t = 0].at = a
    BY <2>1 DEF Bizs
  <2> QED
    BY <2>2 DEF TypeOK
<1>4. CASE ~Fits(s)
  <2>1. UNCHANGED queue /\ biz' = [biz EXCEPT ![b].at = "refused", ![b].t = 0]
    BY <1>4 DEF AddEvent
  <2>2. Kept
    BY <1>1, <1>3, <2>1 DEF Kept
  <2> QED
    BY <2>2, KeptCalls
<1>5. CASE Fits(s)
  <2> DEFINE q == Append(queue[s], b)
             n == Len(queue[s]) + 1
  <2>1. /\ queue' = [queue EXCEPT ![s] = q]
        /\ biz' = [biz EXCEPT ![b].at = "queued", ![b].t = 0]
    BY <1>5 DEF AddEvent
  <2>2. biz'[b].at = "queued" /\ \A c \in Requests : c # b => biz'[c] = biz[c]
    BY <1>3, <2>1
  <2>3. /\ n \in DOMAIN q /\ q[n] = b
        /\ \A i \in DOMAIN queue[s] : i \in DOMAIN q /\ q[i] = queue[s][i]
        /\ \A i \in DOMAIN q : i = n \/ i \in DOMAIN queue[s]
    <3>1. queue[s] \in Seq(Requests)
      BY <1>1 DEF TypeOK
    <3> QED
      BY <3>1, AppendFact
  <2>4. queue'[s] = q /\ \A t \in Threads : t # s => queue'[t] = queue[t]
    BY <1>1, <2>1 DEF TypeOK
  <2> HIDE DEF q, n, s
  <2>5. \A t \in Threads : \A i \in DOMAIN queue'[t] :
          \/ t = s /\ i = n /\ queue'[t][i] = b
          \/ i \in DOMAIN queue[t] /\ queue'[t][i] = queue[t][i]
    BY <2>3, <2>4
  <2>6. HandsOK'
    BY <1>1, <1>2, <2>2 DEF CallsOK, HandsOK, At
  <2>7. QueuesOK'
    BY <1>1, <1>2, <2>2, <2>5 DEF CallsOK, QueuesOK
  <2>8. PlacesOK'
    BY <1>1, <2>2, <2>3, <2>4 DEF CallsOK, PlacesOK
  <2> QED
    BY <2>6, <2>7, <2>8 DEF CallsOK
<1> QED
  BY <1>4, <1>5

LEMMA ReadCalls == ASSUME TypeOK, CallsOK, NEW t \in Threads, Read(t) PROVE CallsOK'
<1> DEFINE x == Head(queue[t])
<1>1. /\ At(t, "rest") /\ queue[t] \in Seq(Requests) /\ queue[t] # <<>> /\ UNCHANGED biz
      /\ queue' = [queue EXCEPT ![t] = Tail(queue[t])]
      /\ run' = [run EXCEPT ![t] = [Resting EXCEPT !.at = "number", !.b = x, !.seen = count]]
  BY DEF Read, TypeOK, Popped
<1>2. /\ x \in Requests /\ x = queue[t][1] /\ 1 \in DOMAIN queue[t]
      /\ \A i \in DOMAIN Tail(queue[t]) :
           i + 1 \in DOMAIN queue[t] /\ i + 1 # 1 /\ Tail(queue[t])[i] = queue[t][i + 1]
      /\ \A i \in DOMAIN queue[t] : i # 1 => i - 1 \in DOMAIN Tail(queue[t]) /\ (i - 1) + 1 = i
      /\ \A i \in DOMAIN Tail(queue[t]) : i \in Nat
  <2>1. \A i \in DOMAIN Tail(queue[t]) : i \in Nat
    BY <1>1, TailFact, LenProperties
  <2> QED
    BY <1>1, <2>1, TailFact
<1>3. /\ queue'[t] = Tail(queue[t]) /\ \A u \in Threads : u # t => queue'[u] = queue[u] /\ run'[u] = run[u]
      /\ run'[t].b = x /\ run'[t].at = "number"
  BY <1>1 DEF TypeOK, Resting
<1> HIDE DEF x
<1>4. /\ biz[x].at = "queued" /\ \A u \in Threads : run[u].b # x
      /\ \A u \in Threads : \A i \in DOMAIN queue[u] : queue[u][i] = x => u = t /\ i = 1
  BY <1>2 DEF CallsOK, QueuesOK
<1>5. \A u \in Threads : \A i \in DOMAIN queue'[u] :
        \E j \in DOMAIN queue[u] :
          queue'[u][i] = queue[u][j] /\ queue[u][j] # x /\ j = IF u = t THEN i + 1 ELSE i
  <2> TAKE u \in Threads
  <2> TAKE i \in DOMAIN queue'[u]
  <2>1. CASE u = t
    <3>1. i + 1 \in DOMAIN queue[t] /\ i + 1 # 1 /\ queue'[t][i] = queue[t][i + 1]
      BY <1>2, <1>3, <2>1
    <3>2. queue[t][i + 1] # x
      BY <1>4, <3>1
    <3> QED
      BY <2>1, <3>1, <3>2
  <2>2. CASE u # t
    BY <1>3, <1>4, <2>2
  <2> QED
    BY <2>1, <2>2
<1>6. HandsOK'
  <2>1. \A u \in Threads :
          IF run'[u].at = "rest" THEN run'[u] = Resting
          ELSE run'[u].b \in Requests /\ biz[run'[u].b].at = "queued"
    BY <1>2, <1>3, <1>4 DEF CallsOK, HandsOK, At
  <2>2. \A u, v \in Threads : run'[u].at # "rest" /\ run'[u].b = run'[v].b => u = v
    BY <1>3, <1>4 DEF CallsOK, HandsOK, At
  <2> QED
    BY <1>1, <2>1, <2>2 DEF HandsOK, At
<1>7. QueuesOK'
  <2> SUFFICES ASSUME NEW u \in Threads, NEW i \in DOMAIN queue'[u]
               PROVE  /\ biz[queue'[u][i]].at = "queued"
                      /\ \A v \in Threads : run'[v].b # queue'[u][i]
                      /\ \A v \in Threads : \A j \in DOMAIN queue'[v] :
                           queue'[v][j] = queue'[u][i] => u = v /\ i = j
    BY <1>1 DEF QueuesOK
  <2>1. PICK k \in DOMAIN queue[u] :
          queue'[u][i] = queue[u][k] /\ queue[u][k] # x /\ k = IF u = t THEN i + 1 ELSE i
    BY <1>5
  <2>2. biz[queue'[u][i]].at = "queued" /\ \A v \in Threads : run[v].b # queue'[u][i]
    BY <2>1 DEF CallsOK, QueuesOK
  <2>3. \A v \in Threads : run'[v].b # queue'[u][i]
    BY <1>3, <2>1, <2>2
  <2>4. ASSUME NEW v \in Threads, NEW j \in DOMAIN queue'[v], queue'[v][j] = queue'[u][i]
        PROVE  u = v /\ i = j
    <3>1. PICK l \in DOMAIN queue[v] :
            queue'[v][j] = queue[v][l] /\ l = IF v = t THEN j + 1 ELSE j
      BY <1>5
    <3>2. u = v /\ k = l
      BY <2>1, <2>4, <3>1 DEF CallsOK, QueuesOK
    <3>3. CASE u = t
      <4>1. i \in Nat /\ j \in Nat /\ i + 1 = j + 1
        BY <1>2, <1>3, <2>1, <3>1, <3>2, <3>3
      <4> QED
        BY <3>2, <4>1
    <3>4. CASE u # t
      BY <2>1, <3>1, <3>2, <3>4
    <3> QED
      BY <3>2, <3>3, <3>4
  <2> QED
    BY <2>2, <2>3, <2>4
<1>8. PlacesOK'
  <2> SUFFICES ASSUME NEW b \in Requests, biz[b].at = "queued"
               PROVE  \E u \in Threads : run'[u].b = b \/ \E i \in DOMAIN queue'[u] : queue'[u][i] = b
    BY <1>1 DEF PlacesOK
  <2>1. PICK u \in Threads : run[u].b = b \/ \E i \in DOMAIN queue[u] : queue[u][i] = b
    BY DEF CallsOK, PlacesOK
  <2>2. CASE run[u].b = b
    <3>1. u # t
      BY <1>1, <2>2, ConstFact DEF CallsOK, HandsOK, Resting
    <3> QED
      BY <1>3, <2>2, <3>1
  <2>3. CASE run[u].b # b
    <3>1. PICK i \in DOMAIN queue[u] : queue[u][i] = b
      BY <2>1, <2>3
    <3>2. CASE u # t
      BY <1>3, <3>1, <3>2
    <3>3. CASE u = t /\ i = 1
      BY <1>2, <1>3, <3>1, <3>3
    <3>4. CASE u = t /\ i # 1
      <4>1. i - 1 \in DOMAIN queue'[t] /\ queue'[t][i - 1] = b
        BY <1>2, <1>3, <3>1, <3>4
      <4> QED
        BY <4>1
    <3> QED
      BY <3>2, <3>3, <3>4
  <2> QED
    BY <2>2, <2>3
<1> QED
  BY <1>6, <1>7, <1>8 DEF CallsOK

\* A step of the client or of the event thread alone.
LEMMA OtherKeeps ==
  ASSUME UNCHANGED <<queue, run>>,
         \A b \in Requests : biz'[b].at = "queued" <=> biz[b].at = "queued"
  PROVE  Kept
  BY DEF Kept

LEMMA CallsStep == IInv /\ [Next]_vars => CallsOK'
<1> SUFFICES ASSUME IInv, [Next]_vars PROVE CallsOK'
  OBVIOUS
<1>0. TypeOK /\ CallsOK /\ DataOK /\ HandsOK
  BY DEF IInv, CallsOK
<1>a. \A t \in Threads : ~At(t, "rest") => run[t].b \in Requests /\ biz[run[t].b].at = "queued"
  BY <1>0 DEF HandsOK
<1>b. \A t \in Threads : \A a : At(t, a) /\ a # "rest" => ~At(t, "rest")
  BY DEF At
<1>1. ASSUME NEW b \in Requests, NEW d \in Decoders, FindThread(b, d) PROVE CallsOK'
  <2>1. biz[b].at = "new" /\ UNCHANGED <<queue, run>>
    BY <1>1 DEF FindThread, busVars
  <2>2. biz'[b].at \in {"found", "refused"} /\ \A c \in Requests : c # b => biz'[c] = biz[c]
    <3>1. biz[b] \in Bizs /\ biz \in [Requests -> Bizs]
      BY <1>0 DEF TypeOK
    <3>2. /\ \A t : [biz[b] EXCEPT !.at = "found", !.dec = d, !.t = t].at = "found"
          /\ [biz[b] EXCEPT !.at = "refused", !.dec = d].at = "refused"
      BY <3>1 DEF Bizs
    <3>3. \/ \E t \in Threads : biz' = [biz EXCEPT ![b].at = "found", ![b].dec = d, ![b].t = t]
          \/ biz' = [biz EXCEPT ![b].at = "refused", ![b].dec = d]
      BY <1>1 DEF FindThread
    <3>4. ASSUME NEW t \in Threads,
                 biz' = [biz EXCEPT ![b].at = "found", ![b].dec = d, ![b].t = t]
          PROVE  biz'[b].at \in {"found", "refused"} /\ \A c \in Requests : c # b => biz'[c] = biz[c]
      BY <3>1, <3>2, <3>4
    <3>5. CASE biz' = [biz EXCEPT ![b].at = "refused", ![b].dec = d]
      BY <3>1, <3>2, <3>5
    <3> QED
      BY <3>3, <3>4, <3>5
  <2> QED
    BY <1>0, <2>1, <2>2, OtherKeeps, KeptCalls
<1>2. ASSUME NEW b \in Requests, AddEvent(b) PROVE CallsOK'
  BY <1>0, <1>2, AddCalls
<1>3. ASSUME NEW t \in Threads, Read(t) PROVE CallsOK'
  BY <1>0, <1>3, ReadCalls
<1>4. ASSUME NEW t \in Threads, Write(t) PROVE CallsOK'
  <2> DEFINE r == [run[t] EXCEPT !.at = "get", !.seen = 0]
  <2>1. ~At(t, "rest") /\ r.at # "rest" /\ r.b = run[t].b
    <3>1. run[t] \in Runs /\ At(t, "number")
      BY <1>0, <1>4 DEF Write, TypeOK
    <3> QED
      BY <3>1 DEF Runs, At
  <2>2. run' = [run EXCEPT ![t] = r] /\ UNCHANGED queue
    BY <1>4 DEF Write, busVars
  <2>3. \A b \in Requests : biz'[b].at = biz[b].at
    <3>1. biz' = [biz EXCEPT ![run[t].b].no = count'] /\ run[t].b \in Requests
      BY <1>4, <1>a, <2>1 DEF Write
    <3>2. [biz[run[t].b] EXCEPT !.no = count'].at = biz[run[t].b].at
      <4>1. biz[run[t].b] \in Bizs
        BY <1>0, <3>1 DEF TypeOK
      <4> QED
        BY <4>1 DEF Bizs
    <3> QED
      BY <1>0, <3>1, <3>2 DEF TypeOK
  <2> HIDE DEF r
  <2> QED
    BY <1>0, <2>1, <2>2, <2>3, StepKeeps, KeptCalls
<1>5. ASSUME NEW t \in Threads, GetRDAPacket(t) PROVE CallsOK'
  <2>1. ~At(t, "rest") /\ UNCHANGED queue
    BY <1>5 DEF GetRDAPacket, At, busVars
  <2>2. CASE free = <<>>
    BY <1>0, <1>5, <2>1, <2>2, ReportCalls DEF GetRDAPacket
  <2>3. CASE free # <<>>
    <3>1. /\ Goto(t, "set") /\ biz' = [biz EXCEPT ![run[t].b].p = Head(free)]
          /\ run[t].b \in Requests
      BY <1>5, <1>a, <2>1, <2>3 DEF GetRDAPacket
    <3>2. [biz[run[t].b] EXCEPT !.p = Head(free)].at = biz[run[t].b].at
      <4>1. biz[run[t].b] \in Bizs
        BY <1>0, <3>1 DEF TypeOK
      <4> QED
        BY <4>1 DEF Bizs
    <3>3. \A b \in Requests : biz'[b].at = biz[b].at
      BY <1>0, <3>1, <3>2 DEF TypeOK
    <3> QED
      BY <1>0, <2>1, <3>1, <3>3, GotoKeeps, KeptCalls
  <2> QED
    BY <2>2, <2>3
<1>6. ASSUME NEW t \in Threads, SetPacket(t) \/ Wake(t) \/ GiveUp(t) PROVE CallsOK'
  <2>1. /\ ~At(t, "rest") /\ UNCHANGED <<queue, biz>>
        /\ \E a \in {"find", "woken", "failed"} : Goto(t, a)
    BY <1>6 DEF SetPacket, Wake, GiveUp, At, busVars
  <2> QED
    BY <1>0, <2>1, GotoKeeps, KeptCalls
<1>7. ASSUME NEW t \in Threads, GetConnHandle(t) PROVE CallsOK'
  <2>1. ~At(t, "rest") /\ UNCHANGED <<queue, biz>> /\ run[t] \in Runs
    BY <1>0, <1>7 DEF GetConnHandle, At, busVars, TypeOK
  <2>2. Goto(t, "failed") \/ \E h \in Handles : run' = [run EXCEPT ![t].at = "post", ![t].h = h]
    BY <1>7 DEF GetConnHandle, HandlesOf
  <2>3. CASE Goto(t, "failed")
    BY <1>0, <2>1, <2>3, GotoKeeps, KeptCalls
  <2>4. ASSUME NEW h \in Handles, run' = [run EXCEPT ![t].at = "post", ![t].h = h]
        PROVE  CallsOK'
    <3> DEFINE r == [run[t] EXCEPT !.at = "post", !.h = h]
    <3>1. r.at # "rest" /\ r.b = run[t].b /\ run' = [run EXCEPT ![t] = r]
      BY <2>1, <2>4 DEF Runs
    <3> HIDE DEF r
    <3> QED
      BY <1>0, <2>1, <3>1, StepKeeps, KeptCalls
  <2> QED
    BY <2>2, <2>3, <2>4
<1>8. ASSUME NEW t \in Threads, PostSend(t) PROVE CallsOK'
  <2>1. ~At(t, "rest") /\ UNCHANGED <<queue, biz>> /\ run[t] \in Runs
    BY <1>0, <1>8 DEF PostSend, At, busVars, TypeOK
  <2>2. \E a \in {"wait", "failed"} : run' = [run EXCEPT ![t].at = a, ![t].h = 0]
    BY <1>8 DEF PostSend
  <2>3. PICK a \in {"wait", "failed"} : run' = [run EXCEPT ![t].at = a, ![t].h = 0]
    BY <2>2
  <2> DEFINE r == [run[t] EXCEPT !.at = a, !.h = 0]
  <2>4. r.at # "rest" /\ r.b = run[t].b /\ run' = [run EXCEPT ![t] = r]
    BY <2>1, <2>3 DEF Runs
  <2> HIDE DEF r
  <2> QED
    BY <1>0, <2>1, <2>4, StepKeeps, KeptCalls
<1>9. ASSUME NEW t \in Threads, Decode(t) \/ Fails(t) PROVE CallsOK'
  <2>1. ~At(t, "rest") /\ UNCHANGED queue /\ \E c : Report(t, c)
    BY <1>9 DEF Decode, Fails, At, busVars
  <2> QED
    BY <1>0, <2>1, ReportCalls
<1>10. ASSUME NEW d \in Decoders, Gone(d), UNCHANGED <<queue, run>> PROVE CallsOK'
  BY <1>0, <1>10, GoneType, OtherKeeps, KeptCalls
<1>11. ASSUME UNCHANGED <<biz, queue, run>> PROVE CallsOK'
  BY <1>0, <1>11, OtherKeeps, KeptCalls
<1>12. ASSUME NEW d \in Decoders, Leave(d) \/ FindRDAPacket(d) \/ \E h \in Handles : Register(d, h)
       PROVE  CallsOK'
  BY <1>10, <1>11, <1>12 DEF Leave, FindRDAPacket, Register
<1>13. CASE ProcSendMsg
  <2>1. Head(events).h \in Handles
    <3>1. Head(events) \in Sends
      BY <1>0, <1>13, TailFact DEF ProcSendMsg, TypeOK
    <3> QED
      BY <3>1 DEF Sends
  <2>2. who[Head(events).h] \in Decoders \cup {None}
    BY <1>0, <2>1 DEF TypeOK
  <2> QED
    BY <1>10, <1>11, <1>13, <2>2 DEF ProcSendMsg
<1>14. CASE Copy \/ SetReadPacketEv \/ UNCHANGED vars
  BY <1>11, <1>14 DEF Copy, SetReadPacketEv, vars, busVars
<1> QED
  BY <1>1, <1>2, <1>3, <1>4, <1>5, <1>6, <1>7, <1>8, <1>9, <1>12, <1>13, <1>14 DEF Next, Thread
-----------------------------------------------------------------------------
(* Every step keeps a packet in one place.                                 *)

Working == {"set", "find", "post", "wait", "woken", "failed"}

\* The packets of the threads but t stay where they are.
StayBut(t) ==
  \A u \in Threads \ {t} :
    run'[u] = run[u] /\ (Holding(u)' <=> Holding(u)) /\ (Holding(u) => Mine(u)' = Mine(u))

\* A step keeps all packets in their places, or a thread takes the first that
\* is free, or a thread gives back the one it has.
Stays ==
  /\ free' = free /\ \A t \in Threads : Holding(t)' => Holding(t) /\ Mine(t)' = Mine(t)
Takes(t) ==
  /\ free # <<>> /\ free' = Tail(free) /\ run'[t].at = "set" /\ Mine(t)' = Head(free)
  /\ ~Holding(t) /\ StayBut(t)
Gives(t) ==
  Holding(t) /\ ~Holding(t)' /\ free' = Append(free, Mine(t)) /\ StayBut(t)

LEMMA HoldingFact ==
  ASSUME TypeOK, HandsOK
  PROVE  /\ \A t \in Threads : Holding(t) <=> run[t].at \in Working
         /\ \A t \in Threads : Holding(t)' <=> run'[t].at \in Working
         /\ \A t \in Threads : Holding(t) => ~At(t, "rest") /\ run[t].b \in Requests
  BY DEF Holding, Working, HandsOK, At

LEMMA ButFact ==
  ASSUME TypeOK, HandsOK, NEW t \in Threads, NEW r, run' = [run EXCEPT ![t] = r],
         \A u \in Threads \ {t} : Holding(u) => biz'[run[u].b].p = biz[run[u].b].p
  PROVE  run'[t] = r /\ StayBut(t)
<1>1. run'[t] = r /\ \A u \in Threads \ {t} : run'[u] = run[u]
  BY DEF TypeOK
<1> QED
  BY <1>1 DEF StayBut, Holding, Mine

\* A thread that keeps its call keeps its packet.
LEMMA ThreadStays ==
  ASSUME TypeOK, HandsOK, NEW t \in Threads, NEW r, run' = [run EXCEPT ![t] = r],
         r.at \in Working => Holding(t) /\ r.b = run[t].b,
         \A b \in Requests : biz'[b].p = biz[b].p, free' = free
  PROVE  Stays
<1>1. run'[t] = r /\ StayBut(t)
  BY ButFact, HoldingFact
<1>2. Holding(t)' => Holding(t) /\ Mine(t)' = Mine(t)
  BY <1>1, HoldingFact DEF Mine
<1> QED
  BY <1>1, <1>2 DEF Stays, StayBut

LEMMA OtherStays ==
  ASSUME TypeOK, HandsOK, UNCHANGED <<run, free>>, \A b \in Requests : biz'[b].p = biz[b].p
  PROVE  Stays
  BY HoldingFact DEF Stays, Holding, Mine

LEMMA MovesStep == IInv /\ [Next]_vars => Stays \/ \E t \in Threads : Takes(t) \/ Gives(t)
<1> SUFFICES ASSUME IInv, [Next]_vars PROVE Stays \/ \E t \in Threads : Takes(t) \/ Gives(t)
  OBVIOUS
<1>0. TypeOK /\ HandsOK /\ DataOK /\ CallsOK
  BY DEF IInv, CallsOK
<1>1. ASSUME NEW b \in Requests, NEW d \in Decoders, FindThread(b, d) PROVE Stays
  <2>1. UNCHANGED <<run, free>>
    BY <1>1 DEF FindThread, poolVars
  <2>2. \A c \in Requests : biz'[c].p = biz[c].p
    <3>1. biz[b] \in Bizs /\ biz \in [Requests -> Bizs]
      BY <1>0 DEF TypeOK
    <3>2. /\ \A t : [biz[b] EXCEPT !.at = "found", !.dec = d, !.t = t].p = biz[b].p
          /\ [biz[b] EXCEPT !.at = "refused", !.dec = d].p = biz[b].p
      BY <3>1 DEF Bizs
    <3>3. \/ \E t \in Threads : biz' = [biz EXCEPT ![b].at = "found", ![b].dec = d, ![b].t = t]
          \/ biz' = [biz EXCEPT ![b].at = "refused", ![b].dec = d]
      BY <1>1 DEF FindThread
    <3>4. ASSUME NEW t \in Threads,
                 biz' = [biz EXCEPT ![b].at = "found", ![b].dec = d, ![b].t = t]
          PROVE  \A c \in Requests : biz'[c].p = biz[c].p
      BY <3>1, <3>2, <3>4
    <3>5. CASE biz' = [biz EXCEPT ![b].at = "refused", ![b].dec = d]
      BY <3>1, <3>2, <3>5
    <3> QED
      BY <3>3, <3>4, <3>5
  <2> QED
    BY <1>0, <2>1, <2>2, OtherStays
<1>2. ASSUME NEW b \in Requests, AddEvent(b) PROVE Stays
  <2>1. UNCHANGED <<run, free>> /\ biz[b] \in Bizs /\ biz \in [Requests -> Bizs]
    BY <1>0, <1>2 DEF AddEvent, poolVars, TypeOK
  <2>2. \A a : [biz[b] EXCEPT !.at = a, !.t = 0].p = biz[b].p
    BY <2>1 DEF Bizs
  <2>3. \/ biz' = [biz EXCEPT ![b] = [biz[b] EXCEPT !.at = "queued", !.t = 0]]
        \/ biz' = [biz EXCEPT ![b] = [biz[b] EXCEPT !.at = "refused", !.t = 0]]
    BY <1>2 DEF AddEvent
  <2>4. \A c \in Requests : biz'[c].p = biz[c].p
    BY <2>1, <2>2, <2>3
  <2> QED
    BY <1>0, <2>1, <2>4, OtherStays
<1>3. ASSUME NEW t \in Threads, Read(t) PROVE Stays
  <2> DEFINE r == [Resting EXCEPT !.at = "number", !.b = Head(queue[t]), !.seen = count]
  <2>1. r.at = "number" /\ run' = [run EXCEPT ![t] = r] /\ UNCHANGED <<biz, free>>
    BY <1>3 DEF Read, Resting, poolVars
  <2>2. r.at \notin Working
    BY <2>1 DEF Working
  <2> HIDE DEF r
  <2> QED
    BY <1>0, <2>1, <2>2, ThreadStays
<1>4. ASSUME NEW t \in Threads, Write(t) PROVE Stays
  <2> DEFINE r == [run[t] EXCEPT !.at = "get", !.seen = 0]
  <2>1. r.at = "get" /\ run' = [run EXCEPT ![t] = r] /\ UNCHANGED free
    <3>1. run[t] \in Runs
      BY <1>0 DEF TypeOK
    <3> QED
      BY <1>4, <3>1 DEF Write, poolVars, Runs
  <2>2. r.at \notin Working
    BY <2>1 DEF Working
  <2>3. \A b \in Requests : biz'[b].p = biz[b].p
    <3>1. biz' = [biz EXCEPT ![run[t].b].no = count'] /\ run[t].b \in Requests
      BY <1>0, <1>4 DEF Write, HandsOK, At
    <3>2. [biz[run[t].b] EXCEPT !.no = count'].p = biz[run[t].b].p
      <4>1. biz[run[t].b] \in Bizs
        BY <1>0, <3>1 DEF TypeOK
      <4> QED
        BY <4>1 DEF Bizs
    <3> QED
      BY <1>0, <3>1, <3>2 DEF TypeOK
  <2> HIDE DEF r
  <2> QED
    BY <1>0, <2>1, <2>2, <2>3, ThreadStays
<1>5. ASSUME NEW t \in Threads, GetRDAPacket(t) PROVE Stays \/ Takes(t)
  <2>1. run[t].at = "get" /\ run[t].b \in Requests /\ ~At(t, "rest") /\ UNCHANGED queue
    BY <1>0, <1>5 DEF GetRDAPacket, HandsOK, At, busVars
  <2>2. CASE free = <<>>
    <3>1. Report(t, 0) /\ UNCHANGED free
      BY <1>5, <2>2 DEF GetRDAPacket, poolVars
    <3>2. \A b \in Requests : biz'[b].p = biz[b].p
      BY <1>0, <2>1, <3>1, ReportCalls
    <3>3. run' = [run EXCEPT ![t] = Resting] /\ Resting.at \notin Working
      BY <3>1 DEF Report, Resting, Working
    <3> QED
      BY <1>0, <3>1, <3>2, <3>3, ThreadStays
  <2>3. CASE free # <<>>
    <3> DEFINE r == [run[t] EXCEPT !.at = "set"]
    <3>1. /\ free' = Tail(free) /\ run' = [run EXCEPT ![t] = r]
          /\ biz' = [biz EXCEPT ![run[t].b].p = Head(free)]
      BY <1>5, <2>3 DEF GetRDAPacket, Goto
    <3>2. r.at = "set" /\ r.b = run[t].b
      <4>1. run[t] \in Runs
        BY <1>0 DEF TypeOK
      <4> QED
        BY <4>1 DEF Runs
    <3>3. biz'[run[t].b].p = Head(free) /\ \A b \in Requests : b # run[t].b => biz'[b] = biz[b]
      <4>1. biz[run[t].b] \in Bizs
        BY <1>0, <2>1 DEF TypeOK
      <4>2. [biz[run[t].b] EXCEPT !.p = Head(free)].p = Head(free)
        BY <4>1 DEF Bizs
      <4> QED
        BY <1>0, <2>1, <3>1, <4>2 DEF TypeOK
    <3> HIDE DEF r
    <3>4. \A u \in Threads \ {t} : Holding(u) => run[u].b \in Requests /\ run[u].b # run[t].b
      BY <1>0, HoldingFact DEF HandsOK
    <3>5. run'[t] = r /\ StayBut(t)
      BY <1>0, <3>1, <3>3, <3>4, ButFact
    <3> QED
      BY <2>1, <2>3, <3>1, <3>2, <3>3, <3>5 DEF Takes, Mine, Holding
  <2> QED
    BY <2>2, <2>3
<1>6. ASSUME NEW t \in Threads, SetPacket(t) \/ Wake(t) \/ GiveUp(t) PROVE Stays
  <2>1. PICK a \in {"find", "woken", "failed"} : Goto(t, a)
    BY <1>6 DEF SetPacket, Wake, GiveUp
  <2> DEFINE r == [run[t] EXCEPT !.at = a]
  <2>2. r.b = run[t].b /\ run' = [run EXCEPT ![t] = r]
    <3>1. run[t] \in Runs
      BY <1>0 DEF TypeOK
    <3> QED
      BY <2>1, <3>1 DEF Runs, Goto
  <2>3. Holding(t) /\ UNCHANGED <<biz, free>>
    BY <1>6 DEF SetPacket, Wake, GiveUp, At, Holding, poolVars
  <2> HIDE DEF r
  <2> QED
    BY <1>0, <2>2, <2>3, ThreadStays
<1>7. ASSUME NEW t \in Threads, GetConnHandle(t) PROVE Stays
  <2>1. Holding(t) /\ UNCHANGED <<biz, free>> /\ run[t] \in Runs
    BY <1>0, <1>7 DEF GetConnHandle, At, Holding, poolVars, TypeOK
  <2>2. Goto(t, "failed") \/ \E h \in Handles : run' = [run EXCEPT ![t].at = "post", ![t].h = h]
    BY <1>7 DEF GetConnHandle, HandlesOf
  <2>3. CASE Goto(t, "failed")
    <3> DEFINE r == [run[t] EXCEPT !.at = "failed"]
    <3>1. r.b = run[t].b /\ run' = [run EXCEPT ![t] = r]
      BY <2>1, <2>3 DEF Runs, Goto
    <3> HIDE DEF r
    <3> QED
      BY <1>0, <2>1, <3>1, ThreadStays
  <2>4. ASSUME NEW h \in Handles, run' = [run EXCEPT ![t].at = "post", ![t].h = h]
        PROVE  Stays
    <3> DEFINE r == [run[t] EXCEPT !.at = "post", !.h = h]
    <3>1. r.b = run[t].b /\ run' = [run EXCEPT ![t] = r]
      BY <2>1, <2>4 DEF Runs
    <3> HIDE DEF r
    <3> QED
      BY <1>0, <2>1, <3>1, ThreadStays
  <2> QED
    BY <2>2, <2>3, <2>4
<1>8. ASSUME NEW t \in Threads, PostSend(t) PROVE Stays
  <2>1. Holding(t) /\ UNCHANGED <<biz, free>> /\ run[t] \in Runs
    BY <1>0, <1>8 DEF PostSend, At, Holding, poolVars, TypeOK
  <2>2. \E a \in {"wait", "failed"} : run' = [run EXCEPT ![t].at = a, ![t].h = 0]
    BY <1>8 DEF PostSend
  <2>3. PICK a \in {"wait", "failed"} : run' = [run EXCEPT ![t].at = a, ![t].h = 0]
    BY <2>2
  <2> DEFINE r == [run[t] EXCEPT !.at = a, !.h = 0]
  <2>4. r.b = run[t].b /\ run' = [run EXCEPT ![t] = r]
    BY <2>1, <2>3 DEF Runs
  <2> HIDE DEF r
  <2> QED
    BY <1>0, <2>1, <2>4, ThreadStays
<1>9. ASSUME NEW t \in Threads, Decode(t) \/ Fails(t) PROVE Stays \/ Gives(t)
  <2>1. PICK c : Report(t, c)
    BY <1>9 DEF Decode, Fails
  <2>2. Holding(t) /\ ~At(t, "rest") /\ UNCHANGED queue /\ ReleaseRDAPacket(Mine(t))
    BY <1>9 DEF Decode, Fails, At, Holding, busVars
  <2>3. /\ run' = [run EXCEPT ![t] = Resting] /\ run'[t] = Resting /\ Resting.at \notin Working
        /\ \A b \in Requests : biz'[b].p = biz[b].p
    BY <1>0, <2>1, <2>2, ReportCalls DEF Report, Resting, Working
  <2>4. ~Holding(t)' /\ StayBut(t)
    BY <1>0, <2>3, ButFact, HoldingFact
  <2>5. free' = free \/ free' = Append(free, Mine(t))
    BY <2>2 DEF ReleaseRDAPacket, poolVars, Freed
  <2>6. CASE free' = free
    BY <1>0, <2>3, <2>6, ThreadStays
  <2> QED
    BY <2>2, <2>4, <2>5, <2>6 DEF Gives
<1>10. ASSUME NEW d \in Decoders, Gone(d), UNCHANGED <<run, free>> PROVE Stays
  BY <1>0, <1>10, GoneType, OtherStays
<1>11. ASSUME UNCHANGED <<biz, run, free>> PROVE Stays
  BY <1>0, <1>11, OtherStays
<1>12. ASSUME NEW d \in Decoders, Leave(d) \/ FindRDAPacket(d) \/ \E h \in Handles : Register(d, h)
       PROVE  Stays
  BY <1>10, <1>11, <1>12 DEF Leave, FindRDAPacket, Register, poolVars
<1>13. CASE ProcSendMsg
  <2>1. Head(events).h \in Handles
    <3>1. Head(events) \in Sends
      BY <1>0, <1>13, TailFact DEF ProcSendMsg, TypeOK
    <3> QED
      BY <3>1 DEF Sends
  <2>2. who[Head(events).h] \in Decoders \cup {None}
    BY <1>0, <2>1 DEF TypeOK
  <2>3. Stays
    BY <1>10, <1>11, <1>13, <2>2 DEF ProcSendMsg, poolVars
  <2> QED
    BY <2>3
<1>14. CASE Copy \/ SetReadPacketEv \/ UNCHANGED vars
  BY <1>11, <1>14 DEF Copy, SetReadPacketEv, vars, poolVars
<1> QED
  BY <1>1, <1>2, <1>3, <1>4, <1>5, <1>6, <1>7, <1>8, <1>9, <1>12, <1>13, <1>14 DEF Next, Thread

LEMMA SharedStep == ASSUME IInv, [Next]_vars PROVE NotShared'
<1>0. TypeOK /\ HandsOK /\ NotShared /\ DataOK /\ free \in Seq(Packets)
  BY DEF IInv, TypeOK
<1>1. CASE Stays
  BY <1>0, <1>1 DEF Stays, NotShared
<1>2. ASSUME NEW t \in Threads, Takes(t) PROVE NotShared'
  <2>1. /\ Head(free) = free[1] /\ 1 \in DOMAIN free
        /\ \A i \in DOMAIN free' : i + 1 \in DOMAIN free /\ i + 1 # 1 /\ free'[i] = free[i + 1]
        /\ \A i \in DOMAIN free' : i \in Nat
    <3>1. free # <<>> /\ free' = Tail(free) /\ Tail(free) \in Seq(Packets)
      BY <1>0, <1>2, TailFact DEF Takes
    <3>2. \A i \in DOMAIN Tail(free) : i \in Nat
      BY <3>1, LenProperties
    <3> QED
      BY <1>0, <3>1, <3>2, TailFact
  <2>2. \A i, j \in DOMAIN free' : i # j => free'[i] # free'[j]
    <3> TAKE i, j \in DOMAIN free'
    <3> HAVE i # j
    <3>1. i + 1 # j + 1
      BY <2>1
    <3> QED
      BY <1>0, <2>1, <3>1 DEF NotShared
  <2>3. \A i \in DOMAIN free' : free'[i] # Head(free)
    BY <1>0, <2>1 DEF NotShared
  <2>4. \A u \in Threads \ {t} : Holding(u)' =>
          Holding(u) /\ Mine(u)' = Mine(u) /\ Mine(u) # Head(free)
            /\ \A i \in DOMAIN free' : free'[i] # Mine(u)
    BY <1>0, <1>2, <2>1 DEF Takes, StayBut, NotShared
  <2>5. Mine(t)' = Head(free)
    BY <1>2 DEF Takes
  <2> QED
    BY <1>0, <2>2, <2>3, <2>4, <2>5 DEF NotShared
<1>3. ASSUME NEW t \in Threads, Gives(t) PROVE NotShared'
  <2> DEFINE n == Len(free) + 1
  <2>1. /\ free'[n] = Mine(t) /\ \A i \in DOMAIN free : free'[i] = free[i]
        /\ \A i \in DOMAIN free' : i = n \/ i \in DOMAIN free
    <3>1. Mine(t) \in Packets /\ free' = Append(free, Mine(t))
      BY <1>0, <1>3 DEF Gives, DataOK
    <3> QED
      BY <1>0, <3>1, AppendFact
  <2> HIDE DEF n
  <2>2. ~Holding(t)' /\ Holding(t) /\ StayBut(t)
    BY <1>3 DEF Gives
  <2>3. \A i, j \in DOMAIN free' : i # j => free'[i] # free'[j]
    BY <1>0, <2>1, <2>2 DEF NotShared
  <2>4. \A u \in Threads \ {t} : Holding(u)' =>
          Holding(u) /\ Mine(u)' = Mine(u) /\ \A i \in DOMAIN free' : free'[i] # Mine(u)
    BY <1>0, <2>1, <2>2 DEF StayBut, NotShared
  <2> QED
    BY <1>0, <2>2, <2>3, <2>4 DEF NotShared
<1> QED
  BY <1>1, <1>2, <1>3, MovesStep
-----------------------------------------------------------------------------
(* Every step keeps what the steps between two locks rely on.              *)

LEMMA FoundStep ==
  ASSUME IInv, [Next]_vars
  PROVE  \A b \in Requests : biz'[b].at = "found" => biz'[b].t \in Threads
<1>0. TypeOK /\ HandsOK /\ CallsOK /\ \A b \in Requests : biz[b].at = "found" => biz[b].t \in Threads
  BY DEF IInv, CallsOK, DataOK
<1> DEFINE Goal == \A b \in Requests : biz'[b].at = "found" => biz'[b].t \in Threads
<1>1. ASSUME NEW b \in Requests, NEW d \in Decoders, FindThread(b, d) PROVE Goal
  <2>1. biz[b] \in Bizs /\ biz \in [Requests -> Bizs]
    BY <1>0 DEF TypeOK
  <2>2. /\ \A t : [biz[b] EXCEPT !.at = "found", !.dec = d, !.t = t].t = t
        /\ [biz[b] EXCEPT !.at = "refused", !.dec = d].at = "refused"
    BY <2>1 DEF Bizs
  <2>3. \/ \E t \in Threads : biz' = [biz EXCEPT ![b].at = "found", ![b].dec = d, ![b].t = t]
        \/ biz' = [biz EXCEPT ![b].at = "refused", ![b].dec = d]
    BY <1>1 DEF FindThread
  <2>4. ASSUME NEW t \in Threads,
               biz' = [biz EXCEPT ![b].at = "found", ![b].dec = d, ![b].t = t]
        PROVE  Goal
    BY <1>0, <2>1, <2>2, <2>4
  <2>5. CASE biz' = [biz EXCEPT ![b].at = "refused", ![b].dec = d]
    BY <1>0, <2>1, <2>2, <2>5
  <2> QED
    BY <2>3, <2>4, <2>5
<1>2. ASSUME NEW b \in Requests, AddEvent(b) PROVE Goal
  <2>1. biz[b] \in Bizs /\ biz \in [Requests -> Bizs]
    BY <1>0 DEF TypeOK
  <2>2. \A a : [biz[b] EXCEPT !.at = a, !.t = 0].at = a
    BY <2>1 DEF Bizs
  <2>3. \/ biz' = [biz EXCEPT ![b] = [biz[b] EXCEPT !.at = "queued", !.t = 0]]
        \/ biz' = [biz EXCEPT ![b] = [biz[b] EXCEPT !.at = "refused", !.t = 0]]
    BY <1>2 DEF AddEvent
  <2> QED
    BY <1>0, <2>1, <2>2, <2>3
<1>3. ASSUME NEW t \in Threads, Write(t) PROVE Goal
  <2>1. biz' = [biz EXCEPT ![run[t].b].no = count'] /\ run[t].b \in Requests
    BY <1>0, <1>3 DEF Write, HandsOK, At
  <2>2. /\ [biz[run[t].b] EXCEPT !.no = count'].at = biz[run[t].b].at
        /\ [biz[run[t].b] EXCEPT !.no = count'].t = biz[run[t].b].t
    <3>1. biz[run[t].b] \in Bizs
      BY <1>0, <2>1 DEF TypeOK
    <3> QED
      BY <3>1 DEF Bizs
  <2> QED
    BY <1>0, <2>1, <2>2 DEF TypeOK
<1>4. ASSUME NEW t \in Threads, GetRDAPacket(t) PROVE Goal
  <2>1. ~At(t, "rest") /\ UNCHANGED queue /\ run[t].b \in Requests
    BY <1>0, <1>4 DEF GetRDAPacket, At, busVars, HandsOK
  <2>2. CASE Report(t, 0)
    BY <1>0, <2>1, <2>2, ReportCalls
  <2>3. CASE biz' = [biz EXCEPT ![run[t].b].p = Head(free)]
    <3>1. /\ [biz[run[t].b] EXCEPT !.p = Head(free)].at = biz[run[t].b].at
          /\ [biz[run[t].b] EXCEPT !.p = Head(free)].t = biz[run[t].b].t
      <4>1. biz[run[t].b] \in Bizs
        BY <1>0, <2>1 DEF TypeOK
      <4> QED
        BY <4>1 DEF Bizs
    <3> QED
      BY <1>0, <2>1, <2>3, <3>1 DEF TypeOK
  <2> QED
    BY <1>4, <2>2, <2>3 DEF GetRDAPacket
<1>5. ASSUME NEW t \in Threads, Decode(t) \/ Fails(t) PROVE Goal
  <2>1. ~At(t, "rest") /\ UNCHANGED queue /\ \E c : Report(t, c)
    BY <1>5 DEF Decode, Fails, At, busVars
  <2> QED
    BY <1>0, <2>1, ReportCalls
<1>6. ASSUME NEW d \in Decoders, Gone(d) PROVE Goal
  BY <1>0, <1>6, GoneType
<1>7. ASSUME UNCHANGED biz PROVE Goal
  BY <1>0, <1>7
<1>8. ASSUME NEW t \in Threads,
             \/ Read(t) \/ SetPacket(t) \/ GetConnHandle(t) \/ PostSend(t) \/ Wake(t) \/ GiveUp(t)
      PROVE  Goal
  BY <1>7, <1>8 DEF Read, SetPacket, GetConnHandle, PostSend, Wake, GiveUp
<1>9. ASSUME NEW d \in Decoders, Leave(d) \/ FindRDAPacket(d) \/ \E h \in Handles : Register(d, h)
      PROVE  Goal
  BY <1>6, <1>7, <1>9 DEF Leave, FindRDAPacket, Register
<1>10. CASE ProcSendMsg
  <2>1. Head(events).h \in Handles
    <3>1. Head(events) \in Sends
      BY <1>0, <1>10, TailFact DEF ProcSendMsg, TypeOK
    <3> QED
      BY <3>1 DEF Sends
  <2>2. who[Head(events).h] \in Decoders \cup {None}
    BY <1>0, <2>1 DEF TypeOK
  <2>3. Goal
    BY <1>6, <1>7, <1>10, <2>2 DEF ProcSendMsg
  <2> QED
    BY <2>3
<1>11. CASE Copy \/ SetReadPacketEv \/ UNCHANGED vars
  BY <1>7, <1>11 DEF Copy, SetReadPacketEv, vars
<1> QED
  BY <1>1, <1>2, <1>3, <1>4, <1>5, <1>8, <1>9, <1>10, <1>11 DEF Next, Thread

\* A packet that holds a request holds one from then on.
LEMMA SendStep ==
  ASSUME IInv, [Next]_vars, NEW p \in Packets, packet[p].send \in Requests
  PROVE  packet'[p].send \in Requests
<1>0. TypeOK /\ HandsOK /\ DataOK /\ packet[p] \in Packs /\ packet \in [Packets -> Packs]
  BY DEF IInv, TypeOK
<1>1. \A r \in Packs :
        /\ \A n, b : [r EXCEPT !.no = n, !.send = b].send = b
        /\ \A b : [r EXCEPT !.recv = b].send = r.send
        /\ \A x : [r EXCEPT !.ready = x].send = r.send
  BY DEF Packs
<1>2. ASSUME NEW t \in Threads, SetPacket(t) PROVE packet'[p].send \in Requests
  <2>1. /\ run[t].b \in Requests
        /\ packet' = [packet EXCEPT ![Mine(t)] = [packet[Mine(t)] EXCEPT !.no = biz[run[t].b].no,
                                                                        !.send = run[t].b]]
    BY <1>0, <1>2 DEF SetPacket, HandsOK, At
  <2> QED
    BY <1>0, <1>1, <2>1
<1>3. ASSUME NEW t \in Threads, Wake(t) PROVE packet'[p].send \in Requests
  <2>1. packet' = [packet EXCEPT ![Mine(t)] = [packet[Mine(t)] EXCEPT !.ready = FALSE]]
    BY <1>3 DEF Wake
  <2> QED
    BY <1>0, <1>1, <2>1
<1>4. CASE Copy
  <2>1. packet' = [packet EXCEPT ![ev.p] = [packet[ev.p] EXCEPT !.recv = ev.b]]
    BY <1>4 DEF Copy
  <2> QED
    BY <1>0, <1>1, <2>1
<1>5. CASE SetReadPacketEv
  <2>1. packet' = [packet EXCEPT ![ev.p] = [packet[ev.p] EXCEPT !.ready = TRUE]]
    BY <1>5 DEF SetReadPacketEv
  <2> QED
    BY <1>0, <1>1, <2>1
<1>6. CASE UNCHANGED packet
  BY <1>6
<1> QED
  BY <1>2, <1>3, <1>4, <1>5, <1>6
  DEF Next, Thread, vars, FindThread, AddEvent, Read, Write, GetRDAPacket, GetConnHandle, PostSend,
      GiveUp, Decode, Fails, ProcSendMsg, FindRDAPacket, Leave, Register

\* A thread changes only itself.
LEMMA ThreadAlone ==
  ASSUME IInv, NEW t \in Threads, Thread(t)
  PROVE  /\ \A u \in Threads \ {t} : run'[u] = run[u]
         /\ At(t, "set") => SetPacket(t)
         /\ run'[t].at = "post" => run'[t].h \in Handles
<1>0. TypeOK /\ run[t] \in Runs /\ run \in [Threads -> Runs]
  BY DEF IInv, TypeOK
<1>1. /\ \A a : [run[t] EXCEPT !.at = a].at = a
      /\ \A a : \A n : [run[t] EXCEPT !.at = a, !.seen = n].at = a
      /\ \A a : \A h : [run[t] EXCEPT !.at = a, !.h = h].at = a
      /\ \A a : \A h : [run[t] EXCEPT !.at = a, !.h = h].h = h
      /\ \A b : \A n : [Resting EXCEPT !.at = "number", !.b = b, !.seen = n].at = "number"
      /\ Resting.at = "rest"
  BY <1>0 DEF Runs, Resting
<1>2. At(t, "set") => SetPacket(t)
  BY DEF Thread, Read, Write, GetRDAPacket, GetConnHandle, PostSend, Wake, GiveUp, Decode, Fails, At
<1>3. CASE Read(t)
  <2>1. run' = [run EXCEPT ![t] = [Resting EXCEPT !.at = "number", !.b = Head(queue[t]), !.seen = count]]
    BY <1>3 DEF Read
  <2> QED
    BY <1>0, <1>1, <1>2, <2>1
<1>4. CASE Write(t)
  <2>1. run' = [run EXCEPT ![t] = [run[t] EXCEPT !.at = "get", !.seen = 0]]
    BY <1>4 DEF Write
  <2> QED
    BY <1>0, <1>1, <1>2, <2>1
<1>5. ASSUME NEW a \in {"set", "find", "woken", "failed"}, Goto(t, a)
      PROVE  /\ \A u \in Threads \ {t} : run'[u] = run[u]
             /\ run'[t].at = "post" => run'[t].h \in Handles
  <2>1. run' = [run EXCEPT ![t] = [run[t] EXCEPT !.at = a]]
    BY <1>5 DEF Goto
  <2> QED
    BY <1>0, <1>1, <2>1
<1>6. ASSUME NEW c, Report(t, c)
      PROVE  /\ \A u \in Threads \ {t} : run'[u] = run[u]
             /\ run'[t].at = "post" => run'[t].h \in Handles
  BY <1>0, <1>1, <1>6 DEF Report
<1>7. CASE GetRDAPacket(t) \/ SetPacket(t) \/ Wake(t) \/ GiveUp(t) \/ Decode(t) \/ Fails(t)
  BY <1>2, <1>5, <1>6, <1>7 DEF GetRDAPacket, SetPacket, Wake, GiveUp, Decode, Fails
<1>8. CASE GetConnHandle(t)
  <2>1. Goto(t, "failed") \/ \E h \in Handles : run' = [run EXCEPT ![t].at = "post", ![t].h = h]
    BY <1>8 DEF GetConnHandle, HandlesOf
  <2>2. ASSUME NEW h \in Handles, run' = [run EXCEPT ![t].at = "post", ![t].h = h]
        PROVE  /\ \A u \in Threads \ {t} : run'[u] = run[u]
               /\ run'[t].h \in Handles
    BY <1>0, <1>1, <2>2
  <2> QED
    BY <1>2, <1>5, <2>1, <2>2
<1>9. CASE PostSend(t)
  <2>1. \E a \in {"wait", "failed"} : run' = [run EXCEPT ![t].at = a, ![t].h = 0]
    BY <1>9 DEF PostSend
  <2>2. PICK a \in {"wait", "failed"} : run' = [run EXCEPT ![t].at = a, ![t].h = 0]
    BY <2>1
  <2> QED
    BY <1>0, <1>1, <1>2, <2>2
<1> QED
  BY <1>3, <1>4, <1>7, <1>8, <1>9 DEF Thread

LEMMA HeldStep ==
  ASSUME IInv, [Next]_vars, NEW t \in Threads
  PROVE  /\ Holding(t)' => Mine(t)' \in Packets
         /\ Holding(t)' /\ run'[t].at # "set" => packet'[Mine(t)'].send \in Requests
         /\ run'[t].at = "post" => run'[t].h \in Handles
<1>0. /\ TypeOK /\ HandsOK /\ DataOK
      /\ Holding(t) => Mine(t) \in Packets
      /\ Holding(t) /\ ~At(t, "set") => packet[Mine(t)].send \in Requests
      /\ At(t, "post") => run[t].h \in Handles
  BY DEF IInv, DataOK
<1>1. Holding(t)' => \/ Holding(t) /\ Mine(t)' = Mine(t)
                     \/ run'[t].at = "set" /\ Mine(t)' = Head(free) /\ free # <<>>
  BY MovesStep DEF Stays, Takes, Gives, StayBut
<1>2. free # <<>> => Head(free) \in Packets
  BY <1>0, TailFact DEF TypeOK
<1>3. (\E u \in Threads : Thread(u)) \/ run' = run
  BY DEF Next, vars, FindThread, AddEvent, ProcSendMsg, Copy, SetReadPacketEv, FindRDAPacket, Leave,
         Register
<1>4. run'[t] = run[t] \/ Thread(t)
  BY <1>3, ThreadAlone
<1>5. run'[t].at = "post" => run'[t].h \in Handles
  BY <1>0, <1>4, ThreadAlone DEF At
<1>6. ASSUME Holding(t)', run'[t].at # "set" PROVE packet'[Mine(t)'].send \in Requests
  <2>1. Holding(t) /\ Mine(t)' = Mine(t) /\ Mine(t) \in Packets
    BY <1>0, <1>1, <1>6
  <2>2. CASE ~At(t, "set")
    BY <1>0, <2>1, <2>2, SendStep
  <2>3. CASE At(t, "set")
    <3>1. SetPacket(t) /\ run[t].b \in Requests
      BY <1>0, <1>4, <1>6, <2>1, <2>3, ThreadAlone, HoldingFact DEF At
    <3>2. packet' = [packet EXCEPT ![Mine(t)].no = biz[run[t].b].no, ![Mine(t)].send = run[t].b]
      BY <3>1 DEF SetPacket
    <3>3. packet[Mine(t)] \in Packs /\ packet \in [Packets -> Packs]
      BY <1>0, <2>1 DEF TypeOK
    <3>4. [packet[Mine(t)] EXCEPT !.no = biz[run[t].b].no, !.send = run[t].b].send = run[t].b
      BY <3>3 DEF Packs
    <3> QED
      BY <2>1, <3>1, <3>2, <3>3, <3>4
  <2> QED
    BY <2>2, <2>3
<1> QED
  BY <1>0, <1>1, <1>2, <1>5, <1>6

LEMMA EventsStep ==
  ASSUME IInv, [Next]_vars
  PROVE  /\ \A i \in DOMAIN events' : packet'[events'[i].p].send \in Requests
         /\ ev'.at # "quiet" => ev'.p \in Packets
<1>0. /\ TypeOK /\ HandsOK /\ DataOK /\ events \in Seq(Sends)
      /\ \A i \in DOMAIN events : events[i].p \in Packets /\ packet[events[i].p].send \in Requests
  <2>1. TypeOK /\ HandsOK /\ DataOK /\ events \in Seq(Sends)
    BY DEF IInv, TypeOK
  <2>2. \A i \in DOMAIN events : events[i] \in Sends
    BY <2>1, ElementOfSeq, LenProperties
  <2>3. \A s \in Sends : s.p \in Packets
    BY DEF Sends
  <2> QED
    BY <2>1, <2>2, <2>3 DEF DataOK
<1>1. \A i \in DOMAIN events' :
        \/ \E j \in DOMAIN events : events'[i] = events[j]
        \/ events'[i].p \in Packets /\ packet[events'[i].p].send \in Requests
  <2>1. ASSUME NEW t \in Threads, PostSend(t), events' # events
        PROVE  \A i \in DOMAIN events' :
                 \/ \E j \in DOMAIN events : events'[i] = events[j]
                 \/ events'[i].p \in Packets /\ packet[events'[i].p].send \in Requests
    <3> DEFINE e == [p |-> Mine(t), h |-> run[t].h]
    <3>1. e.p \in Packets /\ packet[e.p].send \in Requests /\ e \in Sends
      BY <1>0, <2>1 DEF PostSend, DataOK, Holding, At, Sends
    <3>2. events' = Append(events, e)
      BY <2>1 DEF PostSend
    <3> HIDE DEF e
    <3>3. /\ events'[Len(events) + 1] = e /\ \A i \in DOMAIN events : events'[i] = events[i]
          /\ \A i \in DOMAIN events' : i = Len(events) + 1 \/ i \in DOMAIN events
      BY <1>0, <3>1, <3>2, AppendFact
    <3> QED
      BY <3>1, <3>3
  <2>2. CASE ProcSendMsg
    <3>1. events # <<>> /\ events' = Tail(events)
      BY <2>2 DEF ProcSendMsg
    <3>2. \A i \in DOMAIN events' : i + 1 \in DOMAIN events /\ events'[i] = events[i + 1]
      BY <1>0, <3>1, TailFact
    <3> QED
      BY <3>2
  <2>3. CASE events' = events
    BY <2>3
  <2>4. \/ events' = events \/ ProcSendMsg \/ \E t \in Threads : PostSend(t)
    BY DEF Next, Thread, vars, FindThread, AddEvent, Read, Write, GetRDAPacket, SetPacket, GetConnHandle,
           Wake, GiveUp, Decode, Fails, Copy, SetReadPacketEv, FindRDAPacket, Leave, Register
  <2> QED
    BY <2>1, <2>2, <2>3, <2>4
<1>2. \A i \in DOMAIN events' : events'[i].p \in Packets /\ packet[events'[i].p].send \in Requests
  BY <1>0, <1>1
<1>3. \A i \in DOMAIN events' : packet'[events'[i].p].send \in Requests
  BY <1>2, SendStep
<1>4. ev'.at # "quiet" => ev'.p \in Packets
  <2>1. ASSUME NEW d \in Decoders, FindRDAPacket(d), ev' # ev PROVE ev'.p \in Packets
    <3> DEFINE b == Head(asked[d])
    <3>1. Numbered(biz[b].no) # {} /\ ev' = [at |-> "found", b |-> b, p |-> work[First(biz[b].no)]]
      BY <2>1 DEF FindRDAPacket
    <3>2. work[First(biz[b].no)] \in Packets
      BY <1>0, <3>1, FirstFact
    <3> QED
      BY <3>1, <3>2
  <2>2. CASE Copy
    <3>1. ev.at = "found" /\ ev' = [ev EXCEPT !.at = "copied"]
      BY <2>2 DEF Copy
    <3>2. ev.p \in Packets /\ ev'.p = ev.p
      BY <1>0, <3>1 DEF DataOK, TypeOK
    <3> QED
      BY <3>2
  <2>3. CASE SetReadPacketEv
    BY <2>3 DEF SetReadPacketEv, Quiet
  <2>4. CASE ev' = ev
    BY <1>0, <2>4 DEF DataOK
  <2>5. ev' = ev \/ Copy \/ SetReadPacketEv \/ \E d \in Decoders : FindRDAPacket(d)
    BY DEF Next, Thread, vars, FindThread, AddEvent, Read, Write, GetRDAPacket, SetPacket, GetConnHandle,
           PostSend, Wake, GiveUp, Decode, Fails, ProcSendMsg, Leave, Register
  <2> QED
    BY <2>1, <2>2, <2>3, <2>4, <2>5
<1> QED
  BY <1>3, <1>4

LEMMA Inductive == IInv /\ [Next]_vars => IInv'
<1> SUFFICES ASSUME IInv, [Next]_vars PROVE IInv'
  OBVIOUS
<1>1. TypeOK' /\ CallsOK' /\ NotShared'
  BY TypeStep, CallsStep, SharedStep
<1>2. DataOK'
  BY FoundStep, HeldStep, EventsStep DEF DataOK, At
<1> QED
  BY <1>1, <1>2 DEF IInv, CallsOK

\* The requests, the threads, the packets and the queues keep their types: what
\* a thread reads after a lock was given back is still a packet, a handle or a
\* request.
THEOREM TypeCorrect == Spec => []TypeOK
<1>1. IInv => TypeOK
  BY DEF IInv
<1> QED
  BY Initially, Inductive, <1>1, PTL DEF Spec

\* No packet serves two requests, and none that serves one is free, whatever
\* numbers GetTransNo gives out and in whatever order the threads release.
THEOREM PacketsNotShared == Spec => []NotShared
<1>1. IInv => NotShared
  BY DEF IInv
<1> QED
  BY Initially, Inductive, <1>1, PTL DEF Spec

\* The packets in the list, and those of a thread.
Listed == {free[i] : i \in DOMAIN free}
Has(t) == IF Holding(t) THEN {Mine(t)} ELSE {}

LEMMA PoolStep == IInv /\ [Next]_vars => [Pool!Next]_(Pool!vars)
<1> SUFFICES ASSUME IInv, [Next]_vars PROVE Pool!Next
  OBVIOUS
<1>0. /\ TypeOK /\ NotShared /\ free \in Seq(Packets)
      /\ \A t \in Threads : Holding(t) => Mine(t) \in Packets
  BY DEF IInv, TypeOK, DataOK
<1>1. CASE Stays
  <2>1. Listed' = Listed /\ \A t \in Threads : Has(t)' \subseteq Has(t)
    BY <1>1 DEF Stays, Listed, Has
  <2>2. \A t \in Threads : Has(t)' \in SUBSET Packets
    BY <1>0, <2>1 DEF Has
  <2>3. Pool!Lose
    BY <2>1, <2>2 DEF Pool!Lose, Listed, Has
  <2> QED
    BY <2>3 DEF Pool!Next
<1>2. ASSUME NEW t \in Threads, Takes(t) PROVE Pool!Next
  <2>1. /\ Head(free) = free[1] /\ 1 \in DOMAIN free /\ Head(free) \in Packets
        /\ \A i \in DOMAIN free' : i + 1 \in DOMAIN free /\ i + 1 # 1 /\ free'[i] = free[i + 1]
    <3>1. free # <<>> /\ free' = Tail(free) /\ Tail(free) \in Seq(Packets)
      BY <1>0, <1>2, TailFact DEF Takes
    <3>2. \A i \in DOMAIN Tail(free) : i \in Nat
      BY <3>1, LenProperties
    <3> QED
      BY <1>0, <3>1, <3>2, TailFact
  <2>2. \A i \in DOMAIN free' : free'[i] # Head(free) /\ free'[i] \in Listed
    BY <1>0, <2>1 DEF NotShared, Listed
  <2>3. Head(free) \in Listed /\ Listed' \subseteq Listed \ {Head(free)}
    BY <2>1, <2>2 DEF Listed
  <2>4. Holding(t)' /\ Has(t) = {} /\ Has(t)' = {Head(free)}
    BY <1>2 DEF Takes, Holding, Has
  <2>5. \A u \in Threads \ {t} : Has(u)' = Has(u)
    BY <1>2 DEF Takes, StayBut, Has
  <2>6. PICK p \in Packets : p = Head(free)
    BY <2>1
  <2>7. Pool!Take(t, p)
    BY <2>3, <2>4, <2>5, <2>6 DEF Pool!Take, Listed, Has
  <2> QED
    BY <2>7 DEF Pool!Next
<1>3. ASSUME NEW t \in Threads, Gives(t) PROVE Pool!Next
  <2>1. Mine(t) \in Packets /\ free' = Append(free, Mine(t))
    BY <1>0, <1>3 DEF Gives
  <2>2. /\ free'[Len(free) + 1] = Mine(t) /\ \A i \in DOMAIN free : free'[i] = free[i]
        /\ \A i \in DOMAIN free' : i = Len(free) + 1 \/ i \in DOMAIN free
        /\ \A i \in DOMAIN free : i \in DOMAIN free'
        /\ Len(free) + 1 \in DOMAIN free'
    BY <1>0, <2>1, AppendFact
  <2>3. Listed' = Listed \cup {Mine(t)}
    BY <2>2 DEF Listed
  <2>4. Has(t) = {Mine(t)} /\ Has(t)' = {}
    BY <1>3 DEF Gives, Has
  <2>5. \A u \in Threads \ {t} : Has(u)' = Has(u)
    BY <1>3 DEF Gives, StayBut, Has
  <2>6. PICK p \in Packets : p = Mine(t)
    BY <2>1
  <2>7. Pool!Give(t, p)
    BY <2>3, <2>4, <2>5, <2>6 DEF Pool!Give, Listed, Has
  <2> QED
    BY <2>7 DEF Pool!Next
<1> QED
  BY <1>1, <1>2, <1>3, MovesStep

\* The packets are a pool: a packet goes from the free list to one thread and from
\* that thread back, or is lost, whatever packet at work is found under its number.
THEOREM PoolIsKept == Spec => KeepsPool
<1>1. Init => Pool!Init
  <2> SUFFICES ASSUME Init PROVE Pool!Init
    OBVIOUS
  <2>1. {free[i] : i \in DOMAIN free} = Packets
    BY DEF Init
  <2>2. \A t \in Threads : ~Holding(t)
    BY DEF Init, Holding, Resting
  <2> QED
    BY <2>1, <2>2 DEF Pool!Init
<1> QED
  BY <1>1, PoolStep, Initially, Inductive, PTL DEF Spec, KeepsPool, Pool!Spec

LEMMA OnePlace == IInv => Accounted
<1> SUFFICES ASSUME IInv, NEW b \in Requests PROVE Times(b) = IF biz[b].at = "queued" THEN 1 ELSE 0
  BY DEF Accounted
<1>0. TypeOK /\ HandsOK /\ QueuesOK /\ PlacesOK /\ b # 0
  BY ConstFact DEF IInv
<1> DEFINE A == {t \in Threads : run[t].b = b}
           B == {at \in Threads \X (1..MaxQueue) :
                   at[2] \in DOMAIN queue[at[1]] /\ queue[at[1]][at[2]] = b}
<1>1. Times(b) = Cardinality(A) + Cardinality(B)
  BY DEF Times
<1>2. \A t \in Threads : DOMAIN queue[t] \subseteq 1..MaxQueue
  <2> TAKE t \in Threads
  <2>1. queue[t] \in Seq(Requests) /\ Len(queue[t]) <= MaxQueue
    BY <1>0 DEF TypeOK
  <2> QED
    BY <2>1, LenProperties, ConstFact
<1>3. \A t \in Threads : run[t].b = b => ~At(t, "rest") /\ biz[b].at = "queued"
  BY <1>0 DEF HandsOK, Resting
<1>4. \A t \in Threads : \A i \in DOMAIN queue[t] :
        queue[t][i] = b => biz[b].at = "queued" /\ \A u \in Threads : run[u].b # b
  BY <1>0 DEF QueuesOK
<1>5. Cardinality({}) = 0 /\ \A x : Cardinality({x}) = 1
  BY FS_EmptySet, FS_Singleton
<1>6. CASE biz[b].at # "queued"
  <2>1. A = {} /\ B = {}
    BY <1>3, <1>4, <1>6
  <2> HIDE DEF A, B
  <2> QED
    BY <1>1, <1>5, <1>6, <2>1
<1>7. ASSUME biz[b].at = "queued", NEW t \in Threads, run[t].b = b PROVE Times(b) = 1
  <2>1. A = {t}
    BY <1>0, <1>3, <1>7 DEF HandsOK
  <2>2. B = {}
    BY <1>4, <1>7
  <2> HIDE DEF A, B
  <2> QED
    BY <1>1, <1>5, <2>1, <2>2
<1>8. ASSUME biz[b].at = "queued", NEW t \in Threads, NEW i \in DOMAIN queue[t], queue[t][i] = b
      PROVE  Times(b) = 1
  <2>1. A = {}
    BY <1>4, <1>8
  <2>2. \A u \in Threads : \A j \in DOMAIN queue[u] : queue[u][j] = b => u = t /\ j = i
    BY <1>0, <1>8 DEF QueuesOK
  <2>3. <<t, i>> \in B
    BY <1>2, <1>8
  <2>4. \A at \in B : at = <<t, i>>
    BY <2>2
  <2>5. B = {<<t, i>>}
    BY <2>3, <2>4
  <2> HIDE DEF A, B
  <2>6. Cardinality(A) = 0
    BY <1>5, <2>1
  <2>7. Cardinality(B) = 1
    <3> DEFINE at == <<t, i>>
    <3> HIDE DEF at
    <3>1. B = {at}
      BY <2>5 DEF at
    <3> QED
      BY <1>5, <3>1
  <2> QED
    BY <1>1, <2>6, <2>7
<1> QED
  BY <1>0, <1>6, <1>7, <1>8 DEF PlacesOK

\* A call that was accepted is in one queue or in the hands of one thread, once,
\* until it is reported: whatever decoders come and go, and whoever the thread
\* serves by then.
THEOREM NoCallLost == Spec => []Accounted
<1> QED
  BY Initially, Inductive, OnePlace, PTL DEF Spec
-----------------------------------------------------------------------------
(* What holds as long as the numbers are distinct.  A thread is sending    *)
(* from the moment its packet holds its request; a request that has been   *)
(* in a packet counts as sent from then on.                                *)

Sending(t) == run[t].at \in {"find", "post", "wait", "woken", "failed"}

Sent(b) == biz[b].at = "done" \/ \E t \in Threads : Sending(t) /\ run[t].b = b

\* Only a request whose thread is past the number has one, and only one that a
\* thread serves, or has served, has a packet.
NumbersOK ==
  \A b \in Requests :
    /\ biz[b].no = 0 \/ HasNumber(b)
    /\ biz[b].p = 0 \/ biz[b].at = "done" \/ \E t \in Threads : Holding(t) /\ run[t].b = b
    /\ biz[b].at # "new" => biz[b].dec \in Decoders

\* A packet holds the number of the request in it.
SendsOK ==
  /\ \A t \in Threads : Sending(t) => packet[Mine(t)].send = run[t].b
  /\ \A p \in Packets :
       /\ packet[p].send = 0 => packet[p].no = 0
       /\ \A b \in Requests : packet[p].send = b =>
            packet[p].no = biz[b].no /\ biz[b].p = p /\ Sent(b)

\* The packets at work are those in the hands of a thread; all others are free.
WorkOK ==
    /\ \A i, j \in DOMAIN work : i # j => work[i] # work[j]
    /\ \A i \in DOMAIN work : \E t \in Threads : Holding(t) /\ Mine(t) = work[i]
    /\ \A t \in Threads : Holding(t) => \E i \in DOMAIN work : work[i] = Mine(t)
    /\ \A p \in Packets : \/ \E i \in DOMAIN free : free[i] = p
                          \/ \E t \in Threads : Holding(t) /\ Mine(t) = p

\* Where a request is between its thread and its decoder.
Tired(b) == biz[b].p \in tired
Waiting(b) == \E t \in Threads : At(t, "wait") /\ run[t].b = b
Posted(b) == \E i \in DOMAIN events : packet[events[i].p].send = b
Asked(b) == \E d \in Decoders : \E i \in DOMAIN asked[d] : asked[d][i] = b
Found(b) == ev.at # "quiet" /\ ev.b = b
Answered(b) == \E p \in Packets : packet[p].send = b /\ packet[p].ready

\* A request is under way at one place at most, and only while its thread waits;
\* and what has come back into its packet is its own answer.
PlaceOK(b) ==
  /\ Posted(b) \/ Asked(b) \/ Found(b) \/ Answered(b) => Waiting(b)
  /\ Posted(b) => ~Asked(b) /\ ~Found(b) /\ ~Answered(b)
  /\ Asked(b) => ~Found(b) /\ ~Answered(b)
  /\ Found(b) => ~Answered(b)
  /\ \A i, j \in DOMAIN events :
       packet[events[i].p].send = b /\ packet[events[j].p].send = b => i = j
  /\ \A d, e \in Decoders : \A i \in DOMAIN asked[d] : \A j \in DOMAIN asked[e] :
       asked[d][i] = b /\ asked[e][j] = b => d = e /\ i = j
  /\ ev.at = "copied" /\ ev.b = b => packet[biz[b].p].recv = b
  /\ Answered(b) => packet[biz[b].p].recv = b
  /\ \A t \in Threads : At(t, "woken") /\ run[t].b = b => packet[biz[b].p].recv = b

\* All that holds of a request whose packet no caller has given up.
AnswersOK ==
  /\ \A b \in Requests : Tired(b) \/ PlaceOK(b)
  /\ \A d \in Decoders : \A i \in DOMAIN asked[d] : Sent(asked[d][i])
  /\ ev.at # "quiet" => ev.b \in Requests /\ Sent(ev.b) /\ ev.p = biz[ev.b].p
  /\ \A p \in Packets : packet[p].ready => p \in tired \/ packet[p].send \in Requests

\* The request may go to d: what is posted, to be sent or received goes there.
To(d, b) == d = biz[b].dec \/ biz[b].left \/ Tired(b)
RouteOK ==
   /\ \A t \in Threads : At(t, "post") => To(who[run[t].h], run[t].b)
   /\ \A i \in DOMAIN events : To(who[events[i].h], packet[events[i].p].send)
   /\ \A d \in Decoders : \A i \in DOMAIN asked[d] : To(d, asked[d][i])
-----------------------------------------------------------------------------
(* What a step does: request by request, thread by thread, packet by       *)
(* packet.  The proofs below see the steps only through these formulas.    *)

\* The other requests, threads and packets stay as they are.
BizBut(b) == \A c \in Requests \ {b} : biz'[c] = biz[c]
RunBut(t) == \A u \in Threads \ {t} : run'[u] = run[u]
PacketBut(p) == \A q \in Packets \ {p} : packet'[q] = packet[q]

\* A thread goes on with its call.
Goes(t, from, to) ==
  /\ run[t].at = from /\ run'[t].at = to /\ run'[t].b = run[t].b /\ run[t].b \in Requests
  /\ biz[run[t].b].at = "queued" /\ RunBut(t)

SameBiz(b) == biz'[b].at = biz[b].at /\ biz'[b].dec = biz[b].dec /\ biz'[b].left = biz[b].left

ClientWay(b) ==
  /\ biz[b].at \in {"new", "found"} /\ biz'[b].at \in {"found", "queued", "refused"}
  /\ biz'[b].p = biz[b].p /\ biz'[b].no = biz[b].no /\ biz'[b].dec \in Decoders
  /\ BizBut(b) /\ UNCHANGED <<run, poolVars, packet, events, who, asked, ev, tired>>

ReadWay(t) ==
  /\ run[t].at = "rest" /\ run'[t].at = "number" /\ run'[t].b \in Requests
  /\ biz[run'[t].b].at = "queued" /\ \A u \in Threads : run[u].b # run'[t].b
  /\ RunBut(t) /\ UNCHANGED <<biz, poolVars, packet, events, who, asked, ev, tired>>

WriteWay(t) ==
  /\ Goes(t, "number", "get") /\ BizBut(run[t].b) /\ SameBiz(run[t].b)
  /\ biz'[run[t].b].p = biz[run[t].b].p
  /\ UNCHANGED <<poolVars, packet, events, who, asked, ev, tired>>

TakeWay(t) ==
  /\ Goes(t, "get", "set") /\ BizBut(run[t].b) /\ SameBiz(run[t].b)
  /\ biz'[run[t].b].no = biz[run[t].b].no /\ biz'[run[t].b].p = Head(free)
  /\ free # <<>> /\ free' = Tail(free) /\ work' = Append(work, Head(free))
  /\ UNCHANGED <<packet, events, who, asked, ev, tired>>

SetWay(t) ==
  /\ Goes(t, "set", "find") /\ PacketBut(Mine(t))
  /\ packet'[Mine(t)].no = biz[run[t].b].no /\ packet'[Mine(t)].send = run[t].b
  /\ packet'[Mine(t)].recv = packet[Mine(t)].recv /\ packet'[Mine(t)].ready = packet[Mine(t)].ready
  /\ UNCHANGED <<biz, poolVars, events, who, asked, ev, tired>>

ConnWay(t) ==
  /\ \/ Goes(t, "find", "failed")
     \/ Goes(t, "find", "post") /\ who[run'[t].h] = biz[run[t].b].dec
  /\ UNCHANGED <<biz, poolVars, packet, events, who, asked, ev, tired>>

PostWay(t) ==
  /\ \/ Goes(t, "post", "wait") /\ events' = Append(events, [p |-> Mine(t), h |-> run[t].h])
     \/ Goes(t, "post", "failed") /\ UNCHANGED events
  /\ UNCHANGED <<biz, poolVars, packet, who, asked, ev, tired>>

WakeWay(t) ==
  /\ Goes(t, "wait", "woken") /\ PacketBut(Mine(t)) /\ packet[Mine(t)].ready
  /\ packet'[Mine(t)].no = packet[Mine(t)].no /\ packet'[Mine(t)].send = packet[Mine(t)].send
  /\ packet'[Mine(t)].recv = packet[Mine(t)].recv /\ packet'[Mine(t)].ready = FALSE
  /\ UNCHANGED <<biz, poolVars, events, who, asked, ev, tired>>

GiveWay(t) ==
  /\ Goes(t, "wait", "failed") /\ tired' = tired \cup {Mine(t)}
  /\ UNCHANGED <<biz, poolVars, packet, events, who, asked, ev>>

\* The call ends with the answer to c.
EndWay(t, c) ==
  /\ run[t].at \in {"get", "woken", "failed"} /\ run'[t] = Resting /\ RunBut(t)
  /\ run[t].b \in Requests /\ biz[run[t].b].at = "queued" /\ BizBut(run[t].b)
  /\ biz'[run[t].b].at = "done" /\ biz'[run[t].b].got = c
  /\ biz'[run[t].b].p = biz[run[t].b].p /\ biz'[run[t].b].no = biz[run[t].b].no
  /\ biz'[run[t].b].dec = biz[run[t].b].dec /\ biz'[run[t].b].left = biz[run[t].b].left
  /\ c = 0 \/ (run[t].at = "woken" /\ c = packet[Mine(t)].recv)
  /\ IF run[t].at = "get" THEN UNCHANGED poolVars ELSE ReleaseRDAPacket(Mine(t))
  /\ UNCHANGED <<packet, events, who, asked, ev, tired>>

\* What was under way to a decoder is lost, and perhaps the decoder with it.
Less(s, r) == \E k \in {0, 1} : \A i \in DOMAIN r : i + k \in DOMAIN s /\ r[i] = s[i + k]
LossWay ==
  /\ \A b \in Requests :
       /\ biz'[b].at = biz[b].at /\ biz'[b].dec = biz[b].dec /\ biz'[b].p = biz[b].p
       /\ biz'[b].no = biz[b].no /\ biz'[b].got = biz[b].got /\ (biz[b].left => biz'[b].left)
       /\ \A h \in Handles : who[h] = biz[b].dec /\ biz[b].dec \in Decoders /\ UnderWay(b) =>
            who'[h] = who[h] \/ biz'[b].left
  /\ Less(events, events') /\ \A d \in Decoders : Less(asked[d], asked'[d])
  /\ UNCHANGED <<run, poolVars, packet, ev, tired>>

SendWay(d) ==
  /\ ev = Quiet /\ events # <<>> /\ events' = Tail(events) /\ who[Head(events).h] = d
  /\ asked' = [asked EXCEPT ![d] = Append(@, packet[Head(events).p].send)]
  /\ UNCHANGED <<biz, run, poolVars, packet, who, ev, tired>>

FoundWay(d) ==
  LET b == Head(asked[d])
  IN  /\ ev = Quiet /\ asked[d] # <<>> /\ Numbered(biz[b].no) # {}
      /\ ev' = [at |-> "found", b |-> b, p |-> work[First(biz[b].no)]]
      /\ asked' = [asked EXCEPT ![d] = Tail(@)]
      /\ UNCHANGED <<biz, run, poolVars, packet, events, who, tired>>

\* The event thread has an answer in its hands.
AnswerWay ==
  /\ ev.at # "quiet" /\ ev.p \in Packets /\ PacketBut(ev.p)
  /\ packet'[ev.p].no = packet[ev.p].no /\ packet'[ev.p].send = packet[ev.p].send
  /\ \/ /\ ev.at = "found" /\ ev'.at = "copied" /\ ev'.b = ev.b /\ ev'.p = ev.p
        /\ packet'[ev.p].recv = ev.b /\ packet'[ev.p].ready = packet[ev.p].ready
     \/ /\ ev.at = "copied" /\ ev' = Quiet
        /\ packet'[ev.p].recv = packet[ev.p].recv /\ packet'[ev.p].ready = TRUE
  /\ UNCHANGED <<biz, run, poolVars, events, who, asked, tired>>

ThreadWay(t) ==
  \/ ReadWay(t) \/ WriteWay(t) \/ TakeWay(t) \/ SetWay(t) \/ ConnWay(t) \/ PostWay(t) \/ WakeWay(t)
  \/ GiveWay(t) \/ \E c : EndWay(t, c)
EventWay == LossWay \/ AnswerWay \/ \E d \in Decoders : SendWay(d) \/ FoundWay(d)

LEMMA UpdateFact ==
  ASSUME NEW r \in Bizs
  PROVE  /\ \A a, d, t : LET s == [r EXCEPT !.at = a, !.dec = d, !.t = t]
                       IN  s.at = a /\ s.dec = d /\ s.p = r.p /\ s.no = r.no
         /\ \A a, d : LET s == [r EXCEPT !.at = a, !.dec = d]
                    IN  s.at = a /\ s.dec = d /\ s.p = r.p /\ s.no = r.no
         /\ \A a, t : LET s == [r EXCEPT !.at = a, !.t = t]
                    IN  s.at = a /\ s.dec = r.dec /\ s.p = r.p /\ s.no = r.no
         /\ \A a, c : LET s == [r EXCEPT !.at = a, !.got = c]
                    IN  s.at = a /\ s.got = c /\ s.dec = r.dec /\ s.p = r.p /\ s.no = r.no /\ s.left = r.left
         /\ \A n : LET s == [r EXCEPT !.no = n]
                 IN  s.at = r.at /\ s.dec = r.dec /\ s.p = r.p /\ s.left = r.left
         /\ \A p : LET s == [r EXCEPT !.p = p]
                 IN  s.p = p /\ s.at = r.at /\ s.dec = r.dec /\ s.no = r.no /\ s.left = r.left
         /\ LET s == [r EXCEPT !.left = TRUE]
            IN  s.left = TRUE /\ s.at = r.at /\ s.dec = r.dec /\ s.p = r.p /\ s.no = r.no /\ s.got = r.got
  BY DEF Bizs

LEMMA PacketFact ==
  ASSUME NEW r \in Packs
  PROVE  /\ \A n, b : LET s == [r EXCEPT !.no = n, !.send = b]
                    IN  s.no = n /\ s.send = b /\ s.recv = r.recv /\ s.ready = r.ready
         /\ \A b : LET s == [r EXCEPT !.recv = b]
                 IN  s.no = r.no /\ s.send = r.send /\ s.recv = b /\ s.ready = r.ready
         /\ \A x : LET s == [r EXCEPT !.ready = x]
                 IN  s.no = r.no /\ s.send = r.send /\ s.recv = r.recv /\ s.ready = x
  BY DEF Packs

\* A thread that goes on.
LEMMA GoFact ==
  ASSUME TypeOK, HandsOK, NEW t \in Threads, NEW r, run' = [run EXCEPT ![t] = r],
         r.b = run[t].b, run[t].at # "rest"
  PROVE  Goes(t, run[t].at, r.at) /\ run'[t] = r
  BY DEF TypeOK, HandsOK, At, Goes, RunBut

LEMMA MoveFact ==
  ASSUME TypeOK, HandsOK, NEW t \in Threads, NEW a, Goto(t, a), run[t].at # "rest"
  PROVE  Goes(t, run[t].at, a)
<1> DEFINE r == [run[t] EXCEPT !.at = a]
<1>1. run[t] \in Runs
  BY DEF TypeOK
<1>2. r.b = run[t].b /\ r.at = a
  BY <1>1 DEF Runs
<1>3. run' = [run EXCEPT ![t] = r]
  BY DEF Goto
<1> HIDE DEF r
<1> QED
  BY <1>2, <1>3, GoFact

LEMMA ClientWays ==
  ASSUME IInv, NumbersOK, NEW b \in Requests, (\E d \in Decoders : FindThread(b, d)) \/ AddEvent(b)
  PROVE  ClientWay(b)
<1>0. biz[b] \in Bizs /\ biz \in [Requests -> Bizs]
  BY DEF IInv, TypeOK
<1>1. ASSUME NEW d \in Decoders, FindThread(b, d) PROVE ClientWay(b)
  <2>1. PICK r \in {[biz[b] EXCEPT !.at = "found", !.dec = d, !.t = t] : t \in Threads}
                     \cup {[biz[b] EXCEPT !.at = "refused", !.dec = d]} : biz' = [biz EXCEPT ![b] = r]
    <3>1. \/ \E t \in Threads : biz' = [biz EXCEPT ![b].at = "found", ![b].dec = d, ![b].t = t]
          \/ biz' = [biz EXCEPT ![b].at = "refused", ![b].dec = d]
      BY <1>1 DEF FindThread
    <3> QED
      BY <3>1
  <2>2. r.at \in {"found", "refused"} /\ r.dec = d /\ r.p = biz[b].p /\ r.no = biz[b].no
    <3>1. /\ \A t : LET s == [biz[b] EXCEPT !.at = "found", !.dec = d, !.t = t]
                  IN  s.at = "found" /\ s.dec = d /\ s.p = biz[b].p /\ s.no = biz[b].no
          /\ LET s == [biz[b] EXCEPT !.at = "refused", !.dec = d]
             IN  s.at = "refused" /\ s.dec = d /\ s.p = biz[b].p /\ s.no = biz[b].no
      BY <1>0 DEF Bizs
    <3>2. CASE r = [biz[b] EXCEPT !.at = "refused", !.dec = d]
      BY <3>1, <3>2
    <3>3. ASSUME NEW t \in Threads, r = [biz[b] EXCEPT !.at = "found", !.dec = d, !.t = t]
          PROVE  r.at \in {"found", "refused"} /\ r.dec = d /\ r.p = biz[b].p /\ r.no = biz[b].no
      BY <3>1, <3>3
    <3> QED
      BY <2>1, <3>2, <3>3
  <2>3. biz'[b] = r /\ BizBut(b)
    BY <1>0, <2>1 DEF BizBut
  <2> QED
    BY <1>1, <2>2, <2>3 DEF FindThread, ClientWay
<1>2. CASE AddEvent(b)
  <2>1. PICK a \in {"queued", "refused"} : biz' = [biz EXCEPT ![b] = [biz[b] EXCEPT !.at = a, !.t = 0]]
    BY <1>2 DEF AddEvent
  <2> DEFINE r == [biz[b] EXCEPT !.at = a, !.t = 0]
  <2>2. r.at = a /\ r.dec = biz[b].dec /\ r.p = biz[b].p /\ r.no = biz[b].no
    BY <1>0, UpdateFact
  <2>3. biz' = [biz EXCEPT ![b] = r]
    BY <2>1
  <2> HIDE DEF r
  <2>4. biz'[b] = r /\ BizBut(b)
    BY <1>0, <2>3 DEF BizBut
  <2> QED
    BY <1>2, <2>1, <2>2, <2>4 DEF AddEvent, ClientWay, NumbersOK
<1> QED
  BY <1>1, <1>2

LEMMA ThreadWays == ASSUME IInv, NEW t \in Threads, Thread(t) PROVE ThreadWay(t)
<1>0. /\ TypeOK /\ HandsOK /\ DataOK /\ QueuesOK
      /\ run[t] \in Runs /\ biz \in [Requests -> Bizs] /\ packet \in [Packets -> Packs]
  BY DEF IInv, TypeOK
<1>a. ASSUME run[t].at # "rest"
      PROVE  run[t].b \in Requests /\ biz[run[t].b] \in Bizs /\ biz[run[t].b].at = "queued"
  BY <1>0, <1>a DEF HandsOK, At
<1>b. ASSUME Holding(t) PROVE run[t].at # "rest" /\ Mine(t) \in Packets /\ packet[Mine(t)] \in Packs
  BY <1>0, <1>b DEF Holding, DataOK
<1>c. ASSUME NEW c, Report(t, c), run[t].at # "rest"
      PROVE  /\ run'[t] = Resting /\ RunBut(t) /\ BizBut(run[t].b)
             /\ biz'[run[t].b].at = "done" /\ biz'[run[t].b].got = c
             /\ biz'[run[t].b].p = biz[run[t].b].p /\ biz'[run[t].b].no = biz[run[t].b].no
             /\ biz'[run[t].b].dec = biz[run[t].b].dec /\ biz'[run[t].b].left = biz[run[t].b].left
  <2> DEFINE r == [biz[run[t].b] EXCEPT !.at = "done", !.got = c]
  <2>1. biz' = [biz EXCEPT ![run[t].b] = r] /\ run' = [run EXCEPT ![t] = Resting]
    BY <1>c DEF Report
  <2>2. /\ r.at = "done" /\ r.got = c /\ r.dec = biz[run[t].b].dec /\ r.p = biz[run[t].b].p
        /\ r.no = biz[run[t].b].no /\ r.left = biz[run[t].b].left
    BY <1>a, <1>c, UpdateFact
  <2> HIDE DEF r
  <2>3. biz'[run[t].b] = r /\ BizBut(run[t].b)
    BY <1>0, <1>a, <1>c, <2>1 DEF BizBut
  <2>4. run'[t] = Resting /\ RunBut(t)
    BY <1>0, <2>1 DEF RunBut, TypeOK
  <2> QED
    BY <2>2, <2>3, <2>4
<1>1. CASE Read(t)
  <2> DEFINE x == Head(queue[t])
             r == [Resting EXCEPT !.at = "number", !.b = x, !.seen = count]
  <2>1. x \in Requests /\ x = queue[t][1] /\ 1 \in DOMAIN queue[t]
    BY <1>0, <1>1, TailFact DEF Read, TypeOK
  <2>2. biz[x].at = "queued" /\ \A u \in Threads : run[u].b # x
    BY <1>0, <2>1 DEF QueuesOK
  <2>3. r.at = "number" /\ r.b = x /\ run' = [run EXCEPT ![t] = r]
    BY <1>1 DEF Read, Resting
  <2> HIDE DEF r, x
  <2>4. run'[t] = r /\ RunBut(t)
    BY <1>0, <2>3 DEF RunBut, TypeOK
  <2>5. ReadWay(t)
    BY <1>1, <2>1, <2>2, <2>3, <2>4 DEF Read, At, ReadWay
  <2> QED
    BY <2>5 DEF ThreadWay
<1>2. CASE Write(t)
  <2> DEFINE r == [run[t] EXCEPT !.at = "get", !.seen = 0]
             s == [biz[run[t].b] EXCEPT !.no = count']
  <2>1. r.at = "get" /\ r.b = run[t].b /\ run' = [run EXCEPT ![t] = r] /\ run[t].at = "number"
    BY <1>0, <1>2 DEF Write, At, Runs
  <2>2. /\ s.at = biz[run[t].b].at /\ s.dec = biz[run[t].b].dec /\ s.p = biz[run[t].b].p
        /\ s.left = biz[run[t].b].left
    BY <1>a, <2>1, UpdateFact
  <2>3. biz' = [biz EXCEPT ![run[t].b] = s]
    BY <1>2 DEF Write
  <2> HIDE DEF r, s
  <2>4. biz'[run[t].b] = s /\ BizBut(run[t].b)
    BY <1>0, <1>a, <2>1, <2>3 DEF BizBut
  <2>5. Goes(t, "number", "get")
    BY <1>0, <2>1, GoFact
  <2>6. WriteWay(t)
    BY <1>2, <2>2, <2>4, <2>5 DEF Write, WriteWay, SameBiz
  <2> QED
    BY <2>6 DEF ThreadWay
<1>3. CASE GetRDAPacket(t)
  <2>1. run[t].at = "get"
    BY <1>3 DEF GetRDAPacket, At
  <2>2. CASE free = <<>>
    <3>1. Report(t, 0) /\ UNCHANGED poolVars
      BY <1>3, <2>2 DEF GetRDAPacket
    <3>2. EndWay(t, 0)
      BY <1>3, <1>a, <1>c, <2>1, <3>1 DEF GetRDAPacket, EndWay
    <3> QED
      BY <3>2 DEF ThreadWay
  <2>3. CASE free # <<>>
    <3>1. /\ free' = Tail(free) /\ work' = Append(work, Head(free)) /\ Goto(t, "set")
          /\ biz' = [biz EXCEPT ![run[t].b].p = Head(free)]
          /\ UNCHANGED <<packet, events, who, asked, ev, tired>>
      BY <1>3, <2>3 DEF GetRDAPacket
    <3> DEFINE s == [biz[run[t].b] EXCEPT !.p = Head(free)]
    <3>2. /\ s.at = biz[run[t].b].at /\ s.dec = biz[run[t].b].dec /\ s.p = Head(free)
          /\ s.left = biz[run[t].b].left /\ s.no = biz[run[t].b].no
      BY <1>a, <2>1, UpdateFact
    <3>3. biz' = [biz EXCEPT ![run[t].b] = s]
      BY <3>1
    <3> HIDE DEF s
    <3>4. biz'[run[t].b] = s /\ BizBut(run[t].b)
      BY <1>0, <1>a, <2>1, <3>3 DEF BizBut
    <3>5. Goes(t, "get", "set")
      BY <1>0, <2>1, <3>1, MoveFact
    <3>6. TakeWay(t)
      BY <2>3, <3>1, <3>2, <3>4, <3>5 DEF TakeWay, SameBiz
    <3> QED
      BY <3>6 DEF ThreadWay
  <2> QED
    BY <2>2, <2>3
<1>4. CASE SetPacket(t)
  <2> DEFINE s == [packet[Mine(t)] EXCEPT !.no = biz[run[t].b].no, !.send = run[t].b]
  <2>1. Holding(t) /\ run[t].at = "set" /\ Goto(t, "find")
    BY <1>4 DEF SetPacket, At, Holding
  <2>2. /\ s.no = biz[run[t].b].no /\ s.send = run[t].b
        /\ s.recv = packet[Mine(t)].recv /\ s.ready = packet[Mine(t)].ready
    BY <1>b, <2>1, PacketFact
  <2>3. packet' = [packet EXCEPT ![Mine(t)] = s]
    BY <1>4 DEF SetPacket
  <2> HIDE DEF s
  <2>4. packet'[Mine(t)] = s /\ PacketBut(Mine(t))
    BY <1>0, <1>b, <2>1, <2>3 DEF PacketBut
  <2>5. Goes(t, "set", "find")
    BY <1>0, <2>1, MoveFact
  <2>6. SetWay(t)
    BY <1>4, <2>2, <2>4, <2>5 DEF SetPacket, SetWay
  <2> QED
    BY <2>6 DEF ThreadWay
<1>5. CASE GetConnHandle(t)
  <2>1. run[t].at = "find" /\ UNCHANGED <<biz, poolVars, packet, events, who, asked, ev, tired>>
    BY <1>5 DEF GetConnHandle, At
  <2>2. \/ Goto(t, "failed")
        \/ \E h \in Handles : who[h] = biz[run[t].b].dec /\ run' = [run EXCEPT ![t].at = "post", ![t].h = h]
    BY <1>5 DEF GetConnHandle, HandlesOf
  <2>3. CASE Goto(t, "failed")
    BY <1>0, <2>1, <2>3, MoveFact DEF ConnWay, ThreadWay
  <2>4. ASSUME NEW h \in Handles, who[h] = biz[run[t].b].dec, run' = [run EXCEPT ![t].at = "post", ![t].h = h]
        PROVE  ThreadWay(t)
    <3> DEFINE r == [run[t] EXCEPT !.at = "post", !.h = h]
    <3>1. r.at = "post" /\ r.b = run[t].b /\ r.h = h /\ run' = [run EXCEPT ![t] = r]
      BY <1>0, <2>4 DEF Runs
    <3> HIDE DEF r
    <3>2. Goes(t, "find", "post") /\ run'[t] = r
      BY <1>0, <2>1, <3>1, GoFact
    <3> QED
      BY <2>1, <2>4, <3>1, <3>2 DEF ConnWay, ThreadWay
  <2> QED
    BY <2>2, <2>3, <2>4
<1>6. CASE PostSend(t)
  <2>1. PICK a \in {"wait", "failed"} : /\ run' = [run EXCEPT ![t].at = a, ![t].h = 0]
                                        /\ IF a = "wait" THEN events' = Append(events, [p |-> Mine(t), h |-> run[t].h])
                                           ELSE UNCHANGED events
    BY <1>6 DEF PostSend
  <2> DEFINE r == [run[t] EXCEPT !.at = a, !.h = 0]
  <2>2. r.at = a /\ r.b = run[t].b /\ run' = [run EXCEPT ![t] = r] /\ run[t].at = "post"
    BY <1>0, <1>6, <2>1 DEF Runs, PostSend, At
  <2> HIDE DEF r
  <2>3. Goes(t, "post", a)
    BY <1>0, <2>2, GoFact
  <2>4. PostWay(t)
    BY <1>6, <2>1, <2>3 DEF PostSend, PostWay
  <2> QED
    BY <2>4 DEF ThreadWay
<1>7. CASE Wake(t)
  <2> DEFINE s == [packet[Mine(t)] EXCEPT !.ready = FALSE]
  <2>1. Holding(t) /\ run[t].at = "wait" /\ Goto(t, "woken")
    BY <1>7 DEF Wake, At, Holding
  <2>2. /\ s.no = packet[Mine(t)].no /\ s.send = packet[Mine(t)].send
        /\ s.recv = packet[Mine(t)].recv /\ s.ready = FALSE
    BY <1>b, <2>1, PacketFact
  <2>3. packet' = [packet EXCEPT ![Mine(t)] = s]
    BY <1>7 DEF Wake
  <2> HIDE DEF s
  <2>4. packet'[Mine(t)] = s /\ PacketBut(Mine(t))
    BY <1>0, <1>b, <2>1, <2>3 DEF PacketBut
  <2>5. Goes(t, "wait", "woken")
    BY <1>0, <2>1, MoveFact
  <2>6. WakeWay(t)
    BY <1>7, <2>2, <2>4, <2>5 DEF Wake, WakeWay
  <2> QED
    BY <2>6 DEF ThreadWay
<1>8. CASE GiveUp(t)
  <2>1. Goes(t, "wait", "failed")
    BY <1>0, <1>8, MoveFact DEF GiveUp, At
  <2>2. GiveWay(t)
    BY <1>8, <2>1 DEF GiveUp, GiveWay
  <2> QED
    BY <2>2 DEF ThreadWay
<1>9. CASE Decode(t) \/ Fails(t)
  <2>1. PICK c : Report(t, c) /\ (c = 0 \/ (run[t].at = "woken" /\ c = packet[Mine(t)].recv))
    BY <1>9 DEF Decode, Fails, At
  <2>2. /\ run[t].at \in {"woken", "failed"} /\ ReleaseRDAPacket(Mine(t))
        /\ UNCHANGED <<packet, events, who, asked, ev, tired>>
    BY <1>9 DEF Decode, Fails, At
  <2>3. EndWay(t, c)
    BY <1>a, <1>c, <2>1, <2>2 DEF EndWay
  <2> QED
    BY <2>3 DEF ThreadWay
<1> QED
  BY <1>1, <1>2, <1>3, <1>4, <1>5, <1>6, <1>7, <1>8, <1>9 DEF Thread

LEMMA LessFact ==
  ASSUME NEW S, NEW s \in Seq(S)
  PROVE  Less(s, s) /\ Less(s, <<>>) /\ (s # <<>> => Less(s, Tail(s)))
<1>1. \A i \in DOMAIN s : i + 0 = i
  BY LenProperties
<1>2. Less(s, s)
  BY <1>1 DEF Less
<1>3. Less(s, <<>>)
  BY DEF Less
<1>4. s # <<>> => \A i \in DOMAIN Tail(s) : i + 1 \in DOMAIN s /\ Tail(s)[i] = s[i + 1]
  BY TailFact
<1> QED
  BY <1>2, <1>3, <1>4 DEF Less

LEMMA GoneWays ==
  ASSUME TypeOK, NEW d \in Decoders, Gone(d)
  PROVE  /\ \A b \in Requests :
              /\ biz'[b].at = biz[b].at /\ biz'[b].dec = biz[b].dec /\ biz'[b].p = biz[b].p
              /\ biz'[b].no = biz[b].no /\ biz'[b].got = biz[b].got /\ (biz[b].left => biz'[b].left)
              /\ \A h \in Handles : who[h] = biz[b].dec /\ biz[b].dec \in Decoders /\ UnderWay(b) =>
                   who'[h] = who[h] \/ biz'[b].left
         /\ \A e \in Decoders : asked'[e] = asked[e] \/ asked'[e] = <<>>
<1>1. ASSUME NEW b \in Requests
      PROVE  /\ biz'[b].at = biz[b].at /\ biz'[b].dec = biz[b].dec /\ biz'[b].p = biz[b].p
             /\ biz'[b].no = biz[b].no /\ biz'[b].got = biz[b].got /\ (biz[b].left => biz'[b].left)
             /\ \A h \in Handles : who[h] = biz[b].dec /\ biz[b].dec \in Decoders /\ UnderWay(b) =>
                  who'[h] = who[h] \/ biz'[b].left
  <2> DEFINE s == [biz[b] EXCEPT !.left = TRUE]
  <2>1. biz[b] \in Bizs
    BY DEF TypeOK
  <2>2. /\ s.left = TRUE /\ s.at = biz[b].at /\ s.dec = biz[b].dec /\ s.p = biz[b].p
        /\ s.no = biz[b].no /\ s.got = biz[b].got
    BY <2>1, UpdateFact
  <2>3. biz'[b] = IF biz[b].dec = d /\ UnderWay(b) THEN s ELSE biz[b]
    BY DEF Gone
  <2>4. \A h \in Handles : who'[h] = IF who[h] = d THEN None ELSE who[h]
    BY DEF Gone
  <2> HIDE DEF s
  <2>5. CASE biz[b].dec = d /\ UnderWay(b)
    BY <2>2, <2>3, <2>5
  <2>6. CASE ~(biz[b].dec = d /\ UnderWay(b))
    BY <2>3, <2>4, <2>6
  <2> QED
    BY <2>5, <2>6
<1>2. \A e \in Decoders : asked'[e] = asked[e] \/ asked'[e] = <<>>
  BY DEF Gone, TypeOK
<1> QED
  BY <1>1, <1>2

LEMMA EventWays ==
  ASSUME IInv, \/ ProcSendMsg \/ Copy \/ SetReadPacketEv \/ UNCHANGED vars
               \/ \E d \in Decoders : FindRDAPacket(d) \/ Leave(d) \/ \E h \in Handles : Register(d, h)
  PROVE  EventWay
<1>0. /\ TypeOK /\ DataOK /\ events \in Seq(Sends) /\ asked \in [Decoders -> Seq(Requests)]
      /\ packet \in [Packets -> Packs] /\ None \notin Decoders
  BY ConstFact DEF IInv, TypeOK
<1>a. Less(events, events) /\ (events # <<>> => Less(events, Tail(events)))
  BY <1>0, LessFact
<1>b. \A d \in Decoders : /\ Less(asked[d], asked[d]) /\ Less(asked[d], <<>>)
                          /\ (asked[d] # <<>> => Less(asked[d], Tail(asked[d])))
  BY <1>0, LessFact
<1>1. ASSUME NEW d \in Decoders, Gone(d), UNCHANGED <<run, poolVars, packet, ev, tired>>,
             Less(events, events')
      PROVE  EventWay
  <2>1. \A e \in Decoders : Less(asked[e], asked'[e])
    BY <1>0, <1>1, <1>b, GoneWays
  <2> QED
    BY <1>0, <1>1, <2>1, GoneWays DEF EventWay, LossWay
<1>2. ASSUME UNCHANGED <<biz, run, poolVars, packet, ev, tired>>, Less(events, events'),
             \A d \in Decoders : Less(asked[d], asked'[d]),
             \A h \in Handles : who'[h] = who[h] \/ who[h] = None
      PROVE  EventWay
  BY <1>0, <1>2 DEF EventWay, LossWay
<1>3. CASE ProcSendMsg
  <2> DEFINE d == who[Head(events).h]
  <2>1. Head(events).h \in Handles /\ events # <<>>
    <3>1. Head(events) \in Sends /\ events # <<>>
      BY <1>0, <1>3, TailFact DEF ProcSendMsg
    <3> QED
      BY <3>1 DEF Sends
  <2>2. d \in Decoders \cup {None}
    BY <1>0, <2>1 DEF TypeOK
  <2>3. /\ ev = Quiet /\ events' = Tail(events)
        /\ UNCHANGED <<queue, run, count, poolVars, packet, ev, joins, tired>>
    BY <1>3 DEF ProcSendMsg
  <2>4. \/ d # None /\ asked' = [asked EXCEPT ![d] = Append(@, packet[Head(events).p].send)]
             /\ UNCHANGED <<biz, owner, who>>
        \/ d # None /\ Gone(d)
        \/ UNCHANGED <<biz, owner, who, asked>>
    BY <1>3 DEF ProcSendMsg
  <2>5. CASE d # None /\ asked' = [asked EXCEPT ![d] = Append(@, packet[Head(events).p].send)]
             /\ UNCHANGED <<biz, owner, who>>
    BY <2>1, <2>2, <2>3, <2>5 DEF EventWay, SendWay
  <2>6. CASE d # None /\ Gone(d)
    BY <1>1, <1>a, <2>1, <2>2, <2>3, <2>6
  <2>7. CASE UNCHANGED <<biz, owner, who, asked>>
    BY <1>2, <1>a, <1>b, <2>1, <2>3, <2>7
  <2> QED
    BY <2>4, <2>5, <2>6, <2>7
<1>4. ASSUME NEW d \in Decoders, FindRDAPacket(d) PROVE EventWay
  <2> DEFINE b == Head(asked[d])
  <2>1. /\ ev = Quiet /\ asked[d] # <<>>
        /\ UNCHANGED <<queue, run, count, poolVars, packet, events, joins, tired>>
    BY <1>4 DEF FindRDAPacket
  <2>2. CASE Numbered(biz[b].no) # {}
    BY <1>4, <2>1, <2>2 DEF FindRDAPacket, EventWay, FoundWay
  <2>3. CASE Numbered(biz[b].no) = {}
    <3>1. /\ UNCHANGED ev
          /\ \/ asked' = [asked EXCEPT ![d] = Tail(@)] /\ UNCHANGED <<biz, owner, who>>
             \/ Gone(d)
      BY <1>4, <2>3 DEF FindRDAPacket
    <3>2. CASE Gone(d)
      BY <1>1, <1>a, <2>1, <3>1, <3>2
    <3>3. CASE asked' = [asked EXCEPT ![d] = Tail(@)] /\ UNCHANGED <<biz, owner, who>>
      <4>1. \A e \in Decoders : Less(asked[e], asked'[e])
        BY <1>0, <1>b, <2>1, <3>3
      <4> QED
        BY <1>2, <1>a, <2>1, <3>1, <3>3, <4>1
    <3> QED
      BY <3>1, <3>2, <3>3
  <2> QED
    BY <2>2, <2>3
<1>5. ASSUME NEW d \in Decoders, Leave(d) PROVE EventWay
  BY <1>1, <1>5, <1>a DEF Leave
<1>6. ASSUME NEW d \in Decoders, NEW h \in Handles, Register(d, h) PROVE EventWay
  <2>1. \A g \in Handles : who'[g] = who[g] \/ who[g] = None
    BY <1>0, <1>6 DEF Register, TypeOK
  <2> QED
    BY <1>2, <1>6, <1>a, <1>b, <2>1 DEF Register
<1>7. CASE Copy
  <2> DEFINE s == [packet[ev.p] EXCEPT !.recv = ev.b]
  <2>1. ev.at = "found" /\ ev.p \in Packets /\ packet[ev.p] \in Packs
    BY <1>0, <1>7 DEF Copy, DataOK
  <2>2. s.no = packet[ev.p].no /\ s.send = packet[ev.p].send /\ s.recv = ev.b /\ s.ready = packet[ev.p].ready
    BY <2>1, PacketFact
  <2>3. packet' = [packet EXCEPT ![ev.p] = s]
    BY <1>7 DEF Copy
  <2> HIDE DEF s
  <2>4. packet'[ev.p] = s /\ PacketBut(ev.p)
    BY <1>0, <2>1, <2>3 DEF PacketBut
  <2>5. ev'.at = "copied" /\ ev'.b = ev.b /\ ev'.p = ev.p
    BY <1>0, <1>7 DEF Copy, TypeOK
  <2>6. AnswerWay
    BY <1>7, <2>1, <2>2, <2>4, <2>5 DEF Copy, AnswerWay
  <2> QED
    BY <2>6 DEF EventWay
<1>8. CASE SetReadPacketEv
  <2> DEFINE s == [packet[ev.p] EXCEPT !.ready = TRUE]
  <2>1. ev.at = "copied" /\ ev.p \in Packets /\ packet[ev.p] \in Packs
    BY <1>0, <1>8 DEF SetReadPacketEv, DataOK
  <2>2. s.no = packet[ev.p].no /\ s.send = packet[ev.p].send /\ s.recv = packet[ev.p].recv /\ s.ready = TRUE
    BY <2>1, PacketFact
  <2>3. packet' = [packet EXCEPT ![ev.p] = s]
    BY <1>8 DEF SetReadPacketEv
  <2> HIDE DEF s
  <2>4. packet'[ev.p] = s /\ PacketBut(ev.p)
    BY <1>0, <2>1, <2>3 DEF PacketBut
  <2>5. AnswerWay
    BY <1>8, <2>1, <2>2, <2>4 DEF SetReadPacketEv, AnswerWay
  <2> QED
    BY <2>5 DEF EventWay
<1>9. CASE UNCHANGED vars
  BY <1>2, <1>9, <1>a, <1>b DEF vars
<1> QED
  BY <1>3, <1>4, <1>5, <1>6, <1>7, <1>8, <1>9

LEMMA Ways ==
  ASSUME IInv, NumbersOK, [Next]_vars
  PROVE  \/ \E b \in Requests : ClientWay(b)
         \/ \E t \in Threads : ThreadWay(t)
         \/ EventWay
<1>1. \/ \E b \in Requests : AddEvent(b) \/ \E d \in Decoders : FindThread(b, d)
      \/ \E t \in Threads : Thread(t)
      \/ ProcSendMsg \/ Copy \/ SetReadPacketEv \/ UNCHANGED vars
      \/ \E d \in Decoders : FindRDAPacket(d) \/ Leave(d) \/ \E h \in Handles : Register(d, h)
  BY DEF Next
<1> QED
  BY <1>1, ClientWays, ThreadWays, EventWays
-----------------------------------------------------------------------------
(* Numbers: a request that has got one keeps it.                           *)

LEMMA HandsFact ==
  ASSUME TypeOK, HandsOK, NEW t \in Threads, NEW b \in Requests, run[t].b = b
  PROVE  /\ run[t].at # "rest" /\ biz[b].at = "queued"
         /\ \A u \in Threads : run[u].b = b => u = t
  BY ConstFact DEF HandsOK, At, Resting

LEMMA NumberStays ==
  ASSUME IInv, NumbersOK, [Next]_vars, NEW b \in Requests, HasNumber(b)
  PROVE  HasNumber(b)' /\ biz'[b].no = biz[b].no
<1>0. TypeOK /\ HandsOK
  BY DEF IInv
<1>1. \/ biz[b].at = "done" /\ \A t \in Threads : run[t].b # b
      \/ \E t \in Threads : run[t].b = b /\ run[t].at \notin {"number", "rest"} /\ biz[b].at = "queued"
  BY <1>0, HandsFact DEF HasNumber, At
<1>2. \A t \in Threads : run[t].b = b => run[t].at # "number"
  BY <1>0, <1>1, HandsFact
<1>3. ASSUME NEW c \in Requests, ClientWay(c) PROVE HasNumber(b)' /\ biz'[b].no = biz[b].no
  BY <1>1, <1>3 DEF ClientWay, BizBut, HasNumber, At
<1>4. ASSUME NEW t \in Threads, ThreadWay(t) PROVE HasNumber(b)' /\ biz'[b].no = biz[b].no
  <2>1. CASE ReadWay(t)
    <3>1. run[t].b # b
      BY <1>0, <2>1, HandsFact DEF ReadWay
    <3> QED
      BY <1>1, <2>1, <3>1 DEF ReadWay, RunBut, HasNumber, At
  <2>2. CASE WriteWay(t)
    <3>1. run[t].b # b
      BY <1>2, <2>2 DEF WriteWay, Goes
    <3> QED
      BY <1>1, <2>2, <3>1 DEF WriteWay, Goes, RunBut, BizBut, HasNumber, At
  <2>3. CASE TakeWay(t)
    BY <1>1, <2>3 DEF TakeWay, Goes, RunBut, BizBut, SameBiz, HasNumber, At
  <2>4. CASE SetWay(t) \/ ConnWay(t) \/ PostWay(t) \/ WakeWay(t) \/ GiveWay(t)
    <3>1. biz' = biz /\ RunBut(t) /\ run'[t].b = run[t].b /\ run'[t].at # "number"
      BY <2>4 DEF SetWay, ConnWay, PostWay, WakeWay, GiveWay, Goes
    <3> QED
      BY <1>1, <3>1 DEF RunBut, HasNumber, At
  <2>5. ASSUME NEW c, EndWay(t, c) PROVE HasNumber(b)' /\ biz'[b].no = biz[b].no
    BY <1>1, <2>5 DEF EndWay, RunBut, BizBut, HasNumber, At
  <2> QED
    BY <1>4, <2>1, <2>2, <2>3, <2>4, <2>5 DEF ThreadWay
<1>5. CASE EventWay
  <2>1. biz'[b].at = biz[b].at /\ biz'[b].no = biz[b].no /\ run' = run
    BY <1>5 DEF EventWay, LossWay, AnswerWay, SendWay, FoundWay
  <2> QED
    BY <1>1, <2>1 DEF HasNumber, At
<1> QED
  BY <1>3, <1>4, <1>5, Ways

LEMMA LuckStep == ASSUME IInv, NumbersOK, [Next]_vars, Unlucky PROVE Unlucky'
<1>1. PICK b \in Requests :
        HasNumber(b) /\ (biz[b].no = 0 \/ \E c \in Requests \ {b} : biz[c].no = biz[b].no)
  BY DEF Unlucky
<1>2. HasNumber(b)' /\ biz'[b].no = biz[b].no
  BY <1>1, NumberStays
<1>3. ASSUME NEW c \in Requests \ {b}, biz[c].no = biz[b].no, biz[b].no # 0 PROVE biz'[c].no = biz[c].no
  BY <1>3, NumberStays DEF NumbersOK
<1> QED
  BY <1>1, <1>2, <1>3 DEF Unlucky

LEMMA NumbersStep == ASSUME IInv, NumbersOK, [Next]_vars PROVE NumbersOK'
<1>0. TypeOK /\ HandsOK
  BY DEF IInv
<1> DEFINE Good(b) ==
      /\ biz'[b].no = 0 \/ HasNumber(b)'
      /\ biz'[b].p = 0 \/ biz'[b].at = "done" \/ \E t \in Threads : Holding(t)' /\ run'[t].b = b
      /\ biz'[b].at # "new" => biz'[b].dec \in Decoders
<1>1. ASSUME NEW b \in Requests
      PROVE  Good(b)
  <2>0. /\ biz[b].no = 0 \/ HasNumber(b)
        /\ biz[b].p = 0 \/ biz[b].at = "done" \/ \E t \in Threads : Holding(t) /\ run[t].b = b
        /\ biz[b].at # "new" => biz[b].dec \in Decoders
    BY DEF NumbersOK
  <2>a. HasNumber(b) => HasNumber(b)'
    BY NumberStays
  <2>b. \A t \in Threads : Holding(t) /\ run[t].b = b => biz[b].at = "queued"
    BY <1>0, HandsFact
  <2>1. ASSUME NEW c \in Requests, ClientWay(c) PROVE Good(b)
    BY <2>0, <2>a, <2>b, <2>1 DEF ClientWay, BizBut, Holding
  <2>2. ASSUME NEW t \in Threads, ReadWay(t) PROVE Good(b)
    BY <2>0, <2>a, <2>2 DEF ReadWay, RunBut, Holding
  <2>3. ASSUME NEW t \in Threads, WriteWay(t) PROVE Good(b)
    <3>1. run[t].b = b => HasNumber(b)'
      BY <2>3 DEF WriteWay, Goes, HasNumber, At
    <3> QED
      BY <2>0, <2>a, <2>3, <3>1 DEF WriteWay, Goes, RunBut, BizBut, SameBiz, Holding
  <2>4. ASSUME NEW t \in Threads, TakeWay(t) PROVE Good(b)
    <3>1. run[t].b = b => HasNumber(b)' /\ Holding(t)' /\ run'[t].b = b
      BY <2>4 DEF TakeWay, Goes, HasNumber, At, Holding
    <3> QED
      BY <2>0, <2>a, <2>4, <3>1 DEF TakeWay, Goes, RunBut, BizBut, SameBiz, Holding
  <2>5. ASSUME NEW t \in Threads, SetWay(t) \/ ConnWay(t) \/ PostWay(t) \/ WakeWay(t) \/ GiveWay(t)
        PROVE  Good(b)
    <3>1. biz' = biz /\ RunBut(t) /\ run'[t].b = run[t].b /\ Holding(t)'
      BY <2>5 DEF SetWay, ConnWay, PostWay, WakeWay, GiveWay, Goes, Holding
    <3> QED
      BY <2>0, <2>a, <3>1 DEF RunBut, Holding
  <2>6. ASSUME NEW t \in Threads, NEW c, EndWay(t, c) PROVE Good(b)
    BY <2>0, <2>a, <2>6 DEF EndWay, RunBut, BizBut, HasNumber, Holding
  <2>7. CASE EventWay
    <3>1. /\ biz'[b].at = biz[b].at /\ biz'[b].no = biz[b].no /\ biz'[b].p = biz[b].p /\ run' = run
          /\ biz'[b].dec = biz[b].dec
      BY <2>7 DEF EventWay, LossWay, AnswerWay, SendWay, FoundWay
    <3> QED
      BY <2>0, <2>a, <3>1 DEF Holding
  <2> QED
    BY <2>1, <2>2, <2>3, <2>4, <2>5, <2>6, <2>7, Ways DEF ThreadWay
<1> QED
  BY <1>1 DEF NumbersOK
-----------------------------------------------------------------------------
(* Packets: each holds the last request it was given, with its number.     *)

LEMMA MineStays ==
  ASSUME IInv, NumbersOK, [Next]_vars, NEW u \in Threads, Holding(u)'
  PROVE  \/ Holding(u) /\ run'[u].b = run[u].b /\ Mine(u)' = Mine(u)
         \/ TakeWay(u)
<1>0. TypeOK /\ HandsOK
  BY DEF IInv
<1>1. ASSUME NEW c \in Requests, ClientWay(c)
      PROVE  Holding(u) /\ run'[u].b = run[u].b /\ Mine(u)' = Mine(u)
  <2>1. Holding(u) /\ run' = run /\ run[u].b \in Requests /\ biz[run[u].b].at = "queued"
    BY <1>0, <1>1, HoldingFact DEF ClientWay, Holding, HandsOK
  <2> QED
    BY <1>1, <2>1 DEF ClientWay, BizBut, Mine
<1>2. ASSUME NEW t \in Threads, ThreadWay(t)
      PROVE  \/ Holding(u) /\ run'[u].b = run[u].b /\ Mine(u)' = Mine(u)
             \/ TakeWay(u)
  <2>1. CASE u # t
    <3>1. run'[u] = run[u] /\ Holding(u)
      BY <1>2, <2>1 DEF ThreadWay, ReadWay, WriteWay, TakeWay, SetWay, ConnWay, PostWay, WakeWay, GiveWay,
                        EndWay, Goes, RunBut, Holding
    <3>2. run[u].b \in Requests /\ (run[t].b \in Requests => run[t].b # run[u].b)
      BY <1>0, <2>1, <3>1, HoldingFact, HandsFact
    <3>3. biz'[run[u].b].p = biz[run[u].b].p
      BY <1>2, <3>2 DEF ThreadWay, ReadWay, WriteWay, TakeWay, SetWay, ConnWay, PostWay, WakeWay, GiveWay,
                        EndWay, Goes, BizBut
    <3> QED
      BY <3>1, <3>3 DEF Mine
  <2>2. CASE u = t
    <3>1. CASE ReadWay(t) \/ WriteWay(t) \/ \E c : EndWay(t, c)
      BY <2>2, <3>1 DEF ReadWay, WriteWay, EndWay, Goes, Holding, Resting
    <3>2. CASE SetWay(t) \/ ConnWay(t) \/ PostWay(t) \/ WakeWay(t) \/ GiveWay(t)
      <4>1. biz' = biz /\ run'[t].b = run[t].b /\ Holding(t)
        BY <3>2 DEF SetWay, ConnWay, PostWay, WakeWay, GiveWay, Goes, Holding
      <4> QED
        BY <2>2, <4>1 DEF Mine
    <3> QED
      BY <1>2, <2>2, <3>1, <3>2 DEF ThreadWay
  <2> QED
    BY <2>1, <2>2
<1>3. CASE EventWay
  <2>1. run' = run /\ \A b \in Requests : biz'[b].p = biz[b].p
    BY <1>3 DEF EventWay, LossWay, AnswerWay, SendWay, FoundWay
  <2>2. Holding(u) /\ run[u].b \in Requests
    BY <1>0, <2>1, HoldingFact DEF Holding
  <2> QED
    BY <2>1, <2>2 DEF Mine
<1> QED
  BY <1>1, <1>2, <1>3, Ways

LEMMA SentNumber == ASSUME NEW b \in Requests, Sent(b) PROVE HasNumber(b)
  BY DEF Sent, Sending, HasNumber, At

LEMMA SentStays ==
  ASSUME IInv, NumbersOK, [Next]_vars, NEW b \in Requests, Sent(b)
  PROVE  Sent(b)' /\ biz'[b].p = biz[b].p /\ biz'[b].no = biz[b].no
<1>0. TypeOK /\ HandsOK /\ biz'[b].no = biz[b].no
  BY NumberStays, SentNumber DEF IInv
<1>1. \/ biz[b].at = "done" /\ \A t \in Threads : run[t].b # b
      \/ \E t \in Threads : run[t].b = b /\ Sending(t) /\ biz[b].at = "queued"
  BY <1>0, HandsFact DEF Sent
<1>2. \A t \in Threads : run[t].b = b => run[t].at \notin {"rest", "number", "get", "set"}
  BY <1>0, <1>1, HandsFact DEF Sending
<1>3. ASSUME NEW c \in Requests, ClientWay(c) PROVE Sent(b)' /\ biz'[b].p = biz[b].p
  BY <1>1, <1>3 DEF ClientWay, BizBut, Sent, Sending
<1>4. ASSUME NEW t \in Threads, ThreadWay(t) PROVE Sent(b)' /\ biz'[b].p = biz[b].p
  <2>1. CASE ReadWay(t)
    <3>1. run[t].b # b
      BY <1>2, <2>1 DEF ReadWay
    <3> QED
      BY <1>1, <2>1, <3>1 DEF ReadWay, RunBut, Sent, Sending
  <2>2. CASE WriteWay(t) \/ TakeWay(t)
    <3>1. run[t].b # b /\ RunBut(t) /\ BizBut(run[t].b) /\ run[t].b \in Requests
      BY <1>2, <2>2 DEF WriteWay, TakeWay, Goes
    <3> QED
      BY <1>1, <3>1 DEF RunBut, BizBut, Sent, Sending
  <2>3. CASE SetWay(t) \/ ConnWay(t) \/ PostWay(t) \/ WakeWay(t) \/ GiveWay(t)
    <3>1. biz' = biz /\ RunBut(t) /\ run'[t].b = run[t].b /\ Sending(t)'
      BY <2>3 DEF SetWay, ConnWay, PostWay, WakeWay, GiveWay, Goes, Sending
    <3> QED
      BY <1>1, <3>1 DEF RunBut, Sent, Sending
  <2>4. ASSUME NEW c, EndWay(t, c) PROVE Sent(b)' /\ biz'[b].p = biz[b].p
    BY <1>1, <2>4 DEF EndWay, RunBut, BizBut, Sent, Sending
  <2> QED
    BY <1>4, <2>1, <2>2, <2>3, <2>4 DEF ThreadWay
<1>5. CASE EventWay
  <2>1. biz'[b].at = biz[b].at /\ biz'[b].p = biz[b].p /\ run' = run
    BY <1>5 DEF EventWay, LossWay, AnswerWay, SendWay, FoundWay
  <2> QED
    BY <1>0, <1>1, <2>1 DEF Sent, Sending
<1> QED
  BY <1>0, <1>3, <1>4, <1>5, Ways

\* Only SetPacket changes the request and the number of a packet.
LEMMA PacketStays ==
  ASSUME IInv, NumbersOK, [Next]_vars, NEW p \in Packets
  PROVE  \/ packet'[p].send = packet[p].send /\ packet'[p].no = packet[p].no
         \/ \E t \in Threads : SetWay(t) /\ Mine(t) = p
<1>1. ASSUME NEW c \in Requests, ClientWay(c) PROVE packet' = packet
  BY <1>1 DEF ClientWay
<1>2. ASSUME NEW t \in Threads, ThreadWay(t)
      PROVE  \/ packet'[p].send = packet[p].send /\ packet'[p].no = packet[p].no
             \/ SetWay(t) /\ Mine(t) = p
  <2>1. CASE SetWay(t)
    BY <2>1 DEF SetWay, PacketBut
  <2>2. CASE WakeWay(t)
    BY <2>2 DEF WakeWay, PacketBut
  <2>3. CASE \/ ReadWay(t) \/ WriteWay(t) \/ TakeWay(t) \/ ConnWay(t) \/ PostWay(t) \/ GiveWay(t)
             \/ \E c : EndWay(t, c)
    BY <2>3 DEF ReadWay, WriteWay, TakeWay, ConnWay, PostWay, GiveWay, EndWay
  <2> QED
    BY <1>2, <2>1, <2>2, <2>3 DEF ThreadWay
<1>3. CASE EventWay
  BY <1>3 DEF EventWay, LossWay, AnswerWay, SendWay, FoundWay, PacketBut
<1> QED
  BY <1>1, <1>2, <1>3, Ways

\* A thread that sends has sent before, or sets its packet.
LEMMA SendingStays ==
  ASSUME IInv, NumbersOK, [Next]_vars, NEW t \in Threads, Sending(t)'
  PROVE  (Sending(t) /\ run'[t].b = run[t].b /\ Mine(t)' = Mine(t)) \/ SetWay(t)
<1>0. TypeOK /\ HandsOK
  BY DEF IInv
<1>1. \/ Holding(t) /\ run'[t].b = run[t].b /\ Mine(t)' = Mine(t)
      \/ TakeWay(t)
  BY MineStays DEF Holding, Sending
<1>2. ~TakeWay(t)
  BY DEF TakeWay, Goes, Sending
<1>3. CASE Sending(t)
  BY <1>1, <1>2, <1>3
<1>4. CASE ~Sending(t)
  <2>1. run[t].at = "set" /\ run'[t] # run[t]
    BY <1>1, <1>2, <1>4 DEF Holding, Sending
  <2>2. \E u \in Threads : ThreadWay(u)
    BY <2>1, Ways DEF EventWay, LossWay, AnswerWay, SendWay, FoundWay, ClientWay
  <2>3. ThreadWay(t)
    BY <2>1, <2>2 DEF ThreadWay, ReadWay, WriteWay, TakeWay, SetWay, ConnWay, PostWay, WakeWay, GiveWay,
                      EndWay, Goes, RunBut
  <2> QED
    BY <2>1, <2>3 DEF ThreadWay, ReadWay, WriteWay, TakeWay, ConnWay, PostWay, WakeWay, GiveWay, EndWay, Goes
<1> QED
  BY <1>3, <1>4

LEMMA SendsStep == ASSUME IInv, NumbersOK, SendsOK, [Next]_vars PROVE SendsOK'
<1>0. TypeOK /\ HandsOK /\ DataOK /\ NotShared
  BY DEF IInv
<1>1. ASSUME NEW t \in Threads, Sending(t)' PROVE packet'[Mine(t)'].send = run'[t].b
  <2>1. CASE Sending(t) /\ run'[t].b = run[t].b /\ Mine(t)' = Mine(t)
    <3>1. Mine(t) \in Packets /\ Holding(t) /\ packet[Mine(t)].send = run[t].b
      BY <1>0, <2>1 DEF Holding, Sending, DataOK, SendsOK
    <3>2. \A u \in Threads : SetWay(u) => Mine(u) # Mine(t)
      <4> TAKE u \in Threads
      <4> HAVE SetWay(u)
      <4>1. Holding(u) /\ u # t
        BY <2>1 DEF SetWay, Goes, Holding, Sending
      <4> QED
        BY <1>0, <3>1, <4>1 DEF NotShared
    <3> QED
      BY <2>1, <3>1, <3>2, PacketStays
  <2>2. CASE SetWay(t)
    <3>1. Mine(t)' = Mine(t)
      BY <2>2 DEF SetWay, Goes, Mine
    <3> QED
      BY <2>2, <3>1 DEF SetWay, Goes
  <2> QED
    BY <1>1, <2>1, <2>2, SendingStays
<1>2. ASSUME NEW p \in Packets, NEW b \in Requests, packet'[p].send = b
      PROVE  packet'[p].no = biz'[b].no /\ biz'[b].p = p /\ Sent(b)'
  <2>1. CASE packet'[p].send = packet[p].send /\ packet'[p].no = packet[p].no
    <3>1. packet[p].no = biz[b].no /\ biz[b].p = p /\ Sent(b)
      BY <1>2, <2>1 DEF SendsOK
    <3> QED
      BY <2>1, <3>1, SentStays
  <2>2. ASSUME NEW t \in Threads, SetWay(t), Mine(t) = p
        PROVE  packet'[p].no = biz'[b].no /\ biz'[b].p = p /\ Sent(b)'
    <3>1. run[t].b = b /\ packet'[p].no = biz[b].no /\ biz' = biz /\ biz[b].p = p
      BY <1>2, <2>2 DEF SetWay, Mine
    <3>2. run'[t].b = b /\ Sending(t)'
      BY <2>2, <3>1 DEF SetWay, Goes, Sending
    <3> QED
      BY <3>1, <3>2 DEF Sent
  <2> QED
    BY <2>1, <2>2, PacketStays
<1>3. ASSUME NEW p \in Packets, packet'[p].send = 0 PROVE packet'[p].no = 0
  <2>1. \A t \in Threads : SetWay(t) /\ Mine(t) = p => packet'[p].send \in Requests
    BY DEF SetWay, Goes
  <2>2. packet'[p].send = packet[p].send /\ packet'[p].no = packet[p].no
    BY <1>3, <2>1, PacketStays, ConstFact
  <2> QED
    BY <1>3, <2>2 DEF SendsOK
<1> QED
  BY <1>1, <1>2, <1>3 DEF SendsOK
-----------------------------------------------------------------------------
(* The list of packets at work, as long as the numbers are distinct.       *)

LEMMA HoldingStays ==
  ASSUME IInv, NumbersOK, [Next]_vars, NEW u \in Threads, Holding(u)
  PROVE  Holding(u)' \/ \E c : EndWay(u, c)
<1>1. CASE run' = run
  BY <1>1 DEF Holding
<1>2. ASSUME NEW t \in Threads, ThreadWay(t)
      PROVE  Holding(u)' \/ \E c : EndWay(u, c)
  <2>1. CASE u # t
    <3>1. run'[u] = run[u]
      BY <1>2, <2>1 DEF ThreadWay, ReadWay, WriteWay, TakeWay, SetWay, ConnWay, PostWay, WakeWay, GiveWay,
                        EndWay, Goes, RunBut
    <3> QED
      BY <3>1 DEF Holding
  <2>2. CASE u = t
    <3>1. CASE ReadWay(t) \/ WriteWay(t) \/ TakeWay(t)
      BY <2>2, <3>1 DEF ReadWay, WriteWay, TakeWay, Goes, Holding
    <3>2. CASE SetWay(t) \/ ConnWay(t) \/ PostWay(t) \/ WakeWay(t) \/ GiveWay(t)
      BY <2>2, <3>2 DEF SetWay, ConnWay, PostWay, WakeWay, GiveWay, Goes, Holding
    <3> QED
      BY <1>2, <2>2, <3>1, <3>2 DEF ThreadWay
  <2> QED
    BY <2>1, <2>2
<1> QED
  BY <1>1, <1>2, Ways DEF ClientWay, EventWay, LossWay, AnswerWay, SendWay, FoundWay

\* A number leads to the packet of the request that has it.
LEMMA OwnPacket ==
  ASSUME TypeOK, SendsOK, ~Unlucky, NEW b \in Requests, HasNumber(b),
         NEW q \in Packets, packet[q].no = biz[b].no
  PROVE  packet[q].send = b /\ biz[b].p = q
<1>1. packet[q].send \in Requests \cup {0}
  <2>1. packet[q].send \in 0..Calls
    BY DEF TypeOK, Packs
  <2> QED
    BY <2>1, RequestAssumption DEF Requests
<1>2. biz[b].no # 0 /\ \A c \in Requests \ {b} : biz[c].no # biz[b].no
  BY DEF Unlucky
<1>3. packet[q].send # 0
  BY <1>2 DEF SendsOK
<1> DEFINE c == packet[q].send
<1>4. c \in Requests /\ packet[q].no = biz[c].no /\ biz[c].p = q
  BY <1>1, <1>3 DEF SendsOK
<1> QED
  BY <1>2, <1>4

LEMMA OwnPlace ==
  ASSUME IInv, SendsOK, ~Unlucky, NEW b \in Requests, HasNumber(b), Numbered(biz[b].no) # {}
  PROVE  First(biz[b].no) \in DOMAIN work /\ work[First(biz[b].no)] = biz[b].p
<1> DEFINE n == biz[b].no
<1>0. TypeOK /\ DOMAIN work \subseteq Nat /\ \A i \in DOMAIN work : work[i] \in Packets
  <2>1. TypeOK /\ work \in Seq(Packets)
    BY DEF IInv, TypeOK
  <2> QED
    BY <2>1, LenProperties, ElementOfSeq
<1>1. Numbered(n) \subseteq DOMAIN work
  BY DEF Numbered
<1>2. \E i \in Numbered(n) : \A j \in Numbered(n) : i <= j
  BY <1>0, <1>1, LeastFact
<1>3. First(n) \in Numbered(n)
  BY <1>2 DEF First
<1>4. First(n) \in DOMAIN work /\ packet[work[First(n)]].no = n /\ work[First(n)] \in Packets
  BY <1>0, <1>3 DEF Numbered
<1> QED
  BY <1>0, <1>4, OwnPacket

\* A thread that releases its packet takes just this one off the list.
LEMMA OwnRelease ==
  ASSUME IInv, SendsOK, WorkOK, ~Unlucky, NEW t \in Threads, Sending(t), ReleaseRDAPacket(Mine(t))
  PROVE  /\ free' = Append(free, Mine(t))
         /\ \E k \in DOMAIN work : work[k] = Mine(t) /\ work' = RemoveAt(work, k)
<1> DEFINE b == run[t].b
<1>1. b \in Requests /\ Mine(t) \in Packets /\ Mine(t) = biz[b].p /\ packet[Mine(t)].send = b /\ Holding(t)
  BY HoldingFact DEF IInv, DataOK, Sending, Holding, Mine, SendsOK
<1>2. HasNumber(b) /\ packet[Mine(t)].no = biz[b].no
  BY <1>1, SentNumber DEF Sent, SendsOK
<1>3. Numbered(biz[b].no) # {}
  BY <1>1, <1>2 DEF WorkOK, Numbered
<1>4. First(biz[b].no) \in DOMAIN work /\ work[First(biz[b].no)] = Mine(t)
  BY <1>1, <1>2, <1>3, OwnPlace
<1> QED
  BY <1>2, <1>3, <1>4 DEF ReleaseRDAPacket, Freed, Unworked

LEMMA RemovedFact ==
  ASSUME NEW S, NEW s \in Seq(S), NEW k \in DOMAIN s
  PROVE  /\ \A i \in DOMAIN RemoveAt(s, k) :
              \E j \in DOMAIN s : j # k /\ j = (IF i < k THEN i ELSE i + 1) /\ RemoveAt(s, k)[i] = s[j]
         /\ \A j \in DOMAIN s : j # k => \E i \in DOMAIN RemoveAt(s, k) : RemoveAt(s, k)[i] = s[j]
         /\ \A i \in DOMAIN RemoveAt(s, k) : i \in Nat
         /\ k \in Nat
<1> DEFINE a == SubSeq(s, 1, k - 1)
           b == SubSeq(s, k + 1, Len(s))
<1>1. Len(s) \in Nat /\ DOMAIN s = 1..Len(s) /\ k \in 1..Len(s) /\ \A i \in 1..Len(s) : s[i] \in S
  BY LenProperties, ElementOfSeq
<1>2. a \in Seq(S) /\ Len(a) = k - 1 /\ \A i \in 1..(k - 1) : a[i] = s[i]
  BY <1>1, SubSeqProperties
<1>3. b \in Seq(S) /\ Len(b) = Len(s) - k /\ \A i \in 1..(Len(s) - k) : b[i] = s[k + i]
  BY <1>1, SubSeqProperties
<1> HIDE DEF a, b
<1>4. /\ a \o b \in Seq(S) /\ Len(a \o b) = Len(a) + Len(b)
      /\ \A i \in 1..(Len(a) + Len(b)) : (a \o b)[i] = IF i <= Len(a) THEN a[i] ELSE b[i - Len(a)]
  BY <1>2, <1>3, ConcatProperties
<1>5. Len(a \o b) = Len(s) - 1
  BY <1>1, <1>2, <1>3, <1>4
<1>6. ASSUME NEW i \in 1..(Len(s) - 1)
      PROVE  (a \o b)[i] = s[IF i < k THEN i ELSE i + 1]
  <2>1. (a \o b)[i] = IF i <= k - 1 THEN a[i] ELSE b[i - (k - 1)]
    BY <1>1, <1>2, <1>3, <1>4
  <2>2. CASE i < k
    <3>1. i \in 1..(k - 1) /\ i <= k - 1
      BY <1>1, <2>2
    <3> QED
      BY <1>2, <2>1, <2>2, <3>1
  <2>3. CASE ~(i < k)
    <3>1. /\ i - (k - 1) \in 1..(Len(s) - k) /\ ~(i <= k - 1)
          /\ k + (i - (k - 1)) = i + 1
      BY <1>1, <2>3
    <3> QED
      BY <1>3, <2>1, <2>3, <3>1
  <2> QED
    BY <2>2, <2>3
<1>7. RemoveAt(s, k) = a \o b /\ DOMAIN (a \o b) = 1..(Len(s) - 1)
  BY <1>4, <1>5, LenProperties DEF RemoveAt, a, b
<1>8. ASSUME NEW i \in 1..(Len(s) - 1)
      PROVE  \E j \in DOMAIN s : j # k /\ j = (IF i < k THEN i ELSE i + 1) /\ (a \o b)[i] = s[j]
  <2> DEFINE j == IF i < k THEN i ELSE i + 1
  <2>1. j \in DOMAIN s /\ j # k
    BY <1>1
  <2>2. (a \o b)[i] = s[j]
    BY <1>6
  <2> QED
    BY <2>1, <2>2
<1>9. ASSUME NEW j \in 1..Len(s), j # k
      PROVE  \E i \in 1..(Len(s) - 1) : (a \o b)[i] = s[j]
  <2>1. CASE j < k
    <3>1. j \in 1..(Len(s) - 1)
      BY <1>1, <2>1
    <3>2. (a \o b)[j] = s[j]
      BY <1>6, <2>1, <3>1
    <3> QED
      BY <3>1, <3>2
  <2>2. CASE ~(j < k)
    <3>1. j - 1 \in 1..(Len(s) - 1) /\ ~(j - 1 < k) /\ (j - 1) + 1 = j
      BY <1>1, <1>9, <2>2
    <3>2. (a \o b)[j - 1] = s[j]
      BY <1>6, <3>1
    <3> QED
      BY <3>1, <3>2
  <2> QED
    BY <2>1, <2>2
<1>10. \A i \in 1..(Len(s) - 1) : i \in Nat
  OBVIOUS
<1> HIDE DEF a, b
<1> DEFINE r == RemoveAt(s, k)
<1>11. r = a \o b /\ DOMAIN r = 1..(Len(s) - 1)
  BY <1>7
<1> HIDE DEF r
<1>12. \A i \in DOMAIN r :
         \E j \in DOMAIN s : j # k /\ j = (IF i < k THEN i ELSE i + 1) /\ r[i] = s[j]
  BY <1>8, <1>11
<1>13. \A j \in DOMAIN s : j # k => \E i \in DOMAIN r : r[i] = s[j]
  BY <1>1, <1>9, <1>11
<1>14. \A i \in DOMAIN r : i \in Nat
  <2>1. ASSUME NEW i \in DOMAIN r PROVE i \in 1..(Len(s) - 1)
    BY <1>11, <2>1
  <2> QED
    BY <1>10, <2>1
<1>15. k \in Nat
  BY <1>1
<1> QED
  BY <1>12, <1>13, <1>14, <1>15 DEF r

LEMMA WorkStep ==
  ASSUME IInv, NumbersOK, SendsOK, [Next]_vars, ~Unlucky, WorkOK
  PROVE  WorkOK'
<1>0. /\ TypeOK /\ HandsOK /\ NotShared /\ DataOK
      /\ free \in Seq(Packets) /\ work \in Seq(Packets) /\ DOMAIN work \subseteq Nat
  BY LenProperties DEF IInv, TypeOK
<1>1. ASSUME UNCHANGED poolVars, \A t \in Threads : ~TakeWay(t),
             \A t \in Threads : \A c : EndWay(t, c) => run[t].at = "get"
      PROVE  WorkOK'
  <2>1. \A t \in Threads : Holding(t) => Holding(t)'
    BY <1>1, HoldingStays DEF Holding
  <2>2. \A t \in Threads : Holding(t)' => Holding(t) /\ Mine(t)' = Mine(t)
    BY <1>1, MineStays
  <2> QED
    BY <1>1, <2>1, <2>2 DEF WorkOK, poolVars
<1>2. ASSUME NEW t \in Threads, TakeWay(t) PROVE WorkOK'
  <2> DEFINE n == Len(work) + 1
  <2>1. /\ Head(free) \in Packets /\ Head(free) = free[1] /\ 1 \in DOMAIN free
        /\ \A i \in DOMAIN free : i # 1 => \E j \in DOMAIN free' : free'[j] = free[i]
    <3>1. free # <<>> /\ free' = Tail(free)
      BY <1>2 DEF TakeWay
    <3>2. /\ Head(free) \in Packets /\ Head(free) = free[1] /\ 1 \in DOMAIN free
          /\ \A i \in DOMAIN Tail(free) : Tail(free)[i] = free[i + 1]
          /\ \A i \in DOMAIN free : i # 1 => i - 1 \in DOMAIN Tail(free) /\ (i - 1) + 1 = i
      BY <1>0, <3>1, TailFact
    <3>3. ASSUME NEW i \in DOMAIN free, i # 1 PROVE Tail(free)[i - 1] = free[i]
      BY <3>2, <3>3
    <3> QED
      BY <3>1, <3>2, <3>3
  <2>2. /\ n \in DOMAIN work' /\ work'[n] = Head(free)
        /\ \A i \in DOMAIN work : i \in DOMAIN work' /\ work'[i] = work[i]
        /\ \A i \in DOMAIN work' : i = n \/ i \in DOMAIN work
    BY <1>0, <1>2, <2>1, AppendFact DEF TakeWay
  <2> HIDE DEF n
  <2>3. Holding(t)' /\ Mine(t)' = Head(free) /\ ~Holding(t)
    <3>1. Holding(t)' /\ ~Holding(t) /\ run'[t].b = run[t].b
      BY <1>2 DEF TakeWay, Goes, Holding
    <3>2. biz'[run[t].b].p = Head(free)
      BY <1>2 DEF TakeWay
    <3> QED
      BY <3>1, <3>2 DEF Mine
  <2>4. \A u \in Threads \ {t} : (Holding(u)' <=> Holding(u)) /\ (Holding(u)' => Mine(u)' = Mine(u))
    <3> TAKE u \in Threads \ {t}
    <3>1. run'[u] = run[u]
      BY <1>2 DEF TakeWay, Goes, RunBut
    <3>2. ~TakeWay(u)
      BY <1>2, <3>1 DEF TakeWay, Goes
    <3> QED
      BY <3>1, <3>2, MineStays DEF Holding
  <2>5. \A i \in DOMAIN work : work[i] # Head(free)
    BY <1>0, <2>1 DEF WorkOK, NotShared
  <2>6. \A i, j \in DOMAIN work' : i # j => work'[i] # work'[j]
    BY <2>2, <2>5 DEF WorkOK
  <2>7. \A i \in DOMAIN work' : \E u \in Threads : Holding(u)' /\ Mine(u)' = work'[i]
    <3> TAKE i \in DOMAIN work'
    <3>1. CASE i = n
      BY <2>2, <2>3, <3>1
    <3>2. CASE i # n
      <4>1. i \in DOMAIN work /\ work'[i] = work[i]
        BY <2>2, <3>2
      <4>2. PICK u \in Threads : Holding(u) /\ Mine(u) = work[i]
        BY <4>1 DEF WorkOK
      <4> QED
        BY <2>3, <2>4, <4>1, <4>2
    <3> QED
      BY <3>1, <3>2
  <2>8. \A u \in Threads : Holding(u)' => \E i \in DOMAIN work' : work'[i] = Mine(u)'
    <3> TAKE u \in Threads
    <3> HAVE Holding(u)'
    <3>1. CASE u = t
      BY <2>2, <2>3, <3>1
    <3>2. CASE u # t
      <4>1. Holding(u) /\ Mine(u)' = Mine(u)
        BY <2>4, <3>2
      <4>2. PICK i \in DOMAIN work : work[i] = Mine(u)
        BY <4>1 DEF WorkOK
      <4> QED
        BY <2>2, <4>1, <4>2
    <3> QED
      BY <3>1, <3>2
  <2>9. \A p \in Packets : \/ \E i \in DOMAIN free' : free'[i] = p
                           \/ \E u \in Threads : Holding(u)' /\ Mine(u)' = p
    <3> TAKE p \in Packets
    <3>1. CASE p = Head(free)
      BY <2>3, <3>1
    <3>2. CASE p # Head(free)
      <4>1. \/ \E i \in DOMAIN free : free[i] = p
            \/ \E u \in Threads : Holding(u) /\ Mine(u) = p
        BY DEF WorkOK
      <4> QED
        BY <2>1, <2>3, <2>4, <3>2, <4>1
    <3> QED
      BY <3>1, <3>2
  <2> QED
    BY <2>6, <2>7, <2>8, <2>9 DEF WorkOK
<1>3. ASSUME NEW t \in Threads, NEW c, EndWay(t, c), run[t].at # "get" PROVE WorkOK'
  <2>1. Holding(t) /\ Sending(t) /\ ReleaseRDAPacket(Mine(t)) /\ Mine(t) \in Packets
    BY <1>0, <1>3 DEF EndWay, Holding, Sending, DataOK
  <2>2. free' = Append(free, Mine(t))
    BY <2>1, OwnRelease
  <2>3. PICK k \in DOMAIN work : work[k] = Mine(t) /\ work' = RemoveAt(work, k)
    BY <2>1, OwnRelease
  <2>4. /\ \A i \in DOMAIN work' :
             \E j \in DOMAIN work : j # k /\ j = (IF i < k THEN i ELSE i + 1) /\ work'[i] = work[j]
        /\ \A j \in DOMAIN work : j # k => \E i \in DOMAIN work' : work'[i] = work[j]
        /\ \A i \in DOMAIN work' : i \in Nat
        /\ k \in Nat
    BY <1>0, <2>3, RemovedFact
  <2>5. /\ \E i \in DOMAIN free' : free'[i] = Mine(t)
        /\ \A i \in DOMAIN free : i \in DOMAIN free' /\ free'[i] = free[i]
    BY <1>0, <2>1, <2>2, AppendFact
  <2>6. ~Holding(t)' /\ RunBut(t)
    BY <1>3 DEF EndWay, Holding, Resting
  <2>7. \A u \in Threads \ {t} : (Holding(u)' <=> Holding(u)) /\ (Holding(u)' => Mine(u)' = Mine(u))
    <3> TAKE u \in Threads \ {t}
    <3>1. run'[u] = run[u]
      BY <2>6 DEF RunBut
    <3>2. ~TakeWay(u)
      BY <3>1 DEF TakeWay, Goes
    <3> QED
      BY <3>1, <3>2, MineStays DEF Holding
  <2>8. \A i, j \in DOMAIN work' : i # j => work'[i] # work'[j]
    <3> TAKE i, j \in DOMAIN work'
    <3> HAVE i # j
    <3>1. PICK a \in DOMAIN work : a = (IF i < k THEN i ELSE i + 1) /\ work'[i] = work[a]
      BY <2>4
    <3>2. PICK b \in DOMAIN work : b = (IF j < k THEN j ELSE j + 1) /\ work'[j] = work[b]
      BY <2>4
    <3>3. a # b
      BY <2>4, <3>1, <3>2
    <3> QED
      BY <3>1, <3>2, <3>3 DEF WorkOK
  <2>9. \A i \in DOMAIN work' : \E u \in Threads : Holding(u)' /\ Mine(u)' = work'[i]
    <3> TAKE i \in DOMAIN work'
    <3>1. PICK j \in DOMAIN work : j # k /\ work'[i] = work[j]
      BY <2>4
    <3>2. PICK u \in Threads : Holding(u) /\ Mine(u) = work[j]
      BY DEF WorkOK
    <3>3. u # t
      BY <2>3, <3>1, <3>2 DEF WorkOK
    <3> QED
      BY <2>7, <3>1, <3>2, <3>3
  <2>10. \A u \in Threads : Holding(u)' => \E i \in DOMAIN work' : work'[i] = Mine(u)'
    <3> TAKE u \in Threads
    <3> HAVE Holding(u)'
    <3>1. u # t /\ Holding(u) /\ Mine(u)' = Mine(u)
      BY <2>6, <2>7
    <3>2. PICK j \in DOMAIN work : work[j] = Mine(u)
      BY <3>1 DEF WorkOK
    <3>3. j # k
      BY <1>0, <2>1, <2>3, <3>1, <3>2 DEF NotShared
    <3> QED
      BY <2>4, <3>1, <3>2, <3>3
  <2>11. \A p \in Packets : \/ \E i \in DOMAIN free' : free'[i] = p
                            \/ \E u \in Threads : Holding(u)' /\ Mine(u)' = p
    <3> TAKE p \in Packets
    <3>1. \/ \E i \in DOMAIN free : free[i] = p
          \/ \E u \in Threads : Holding(u) /\ Mine(u) = p
      BY DEF WorkOK
    <3> QED
      BY <2>5, <2>7, <3>1
  <2> QED
    BY <2>8, <2>9, <2>10, <2>11 DEF WorkOK
<1>4. CASE \/ \E b \in Requests : ClientWay(b)
           \/ EventWay
  <2>1. UNCHANGED <<run, poolVars>>
    BY <1>4 DEF ClientWay, EventWay, LossWay, AnswerWay, SendWay, FoundWay
  <2>2. \A t \in Threads : run'[t] = run[t]
    BY <2>1
  <2>3. \A t \in Threads : ~TakeWay(t) /\ \A c : ~EndWay(t, c)
    BY <2>2 DEF TakeWay, Goes, EndWay, Resting
  <2> QED
    BY <1>1, <2>1, <2>3
<1>5. ASSUME NEW t \in Threads, ThreadWay(t) PROVE WorkOK'
  <2>1. CASE TakeWay(t)
    BY <1>2, <2>1
  <2>2. CASE \E c : EndWay(t, c) /\ run[t].at # "get"
    BY <1>3, <2>2
  <2>3. CASE ~TakeWay(t) /\ ~\E c : EndWay(t, c) /\ run[t].at # "get"
    <3>1. UNCHANGED poolVars
      BY <1>5, <2>3 DEF ThreadWay, ReadWay, WriteWay, SetWay, ConnWay, PostWay, WakeWay, GiveWay, EndWay
    <3>2. \A u \in Threads \ {t} : run'[u] = run[u]
      BY <1>5 DEF ThreadWay, ReadWay, WriteWay, TakeWay, SetWay, ConnWay, PostWay, WakeWay, GiveWay,
                  EndWay, Goes, RunBut
    <3>3. \A u \in Threads \ {t} : ~TakeWay(u) /\ \A c : ~EndWay(u, c)
      BY <3>2 DEF TakeWay, Goes, EndWay, Resting
    <3> QED
      BY <1>1, <2>3, <3>1, <3>3
  <2> QED
    BY <2>1, <2>2, <2>3
<1> QED
  BY <1>4, <1>5, Ways
-----------------------------------------------------------------------------
(* Where a request is: it waits in one place for its answer.               *)

LEMMA PStays ==
  ASSUME IInv, NumbersOK, [Next]_vars, NEW b \in Requests
  PROVE  biz'[b].p = biz[b].p \/ \E t \in Threads : TakeWay(t) /\ run[t].b = b
<1>1. ASSUME NEW c \in Requests, ClientWay(c) PROVE biz'[b].p = biz[b].p
  BY <1>1 DEF ClientWay, BizBut
<1>2. ASSUME NEW t \in Threads, ThreadWay(t), ~(TakeWay(t) /\ run[t].b = b) PROVE biz'[b].p = biz[b].p
  BY <1>2 DEF ThreadWay, ReadWay, WriteWay, TakeWay, SetWay, ConnWay, PostWay, WakeWay, GiveWay, EndWay, BizBut
<1>3. CASE EventWay
  BY <1>3 DEF EventWay, LossWay, AnswerWay, SendWay, FoundWay
<1> QED
  BY <1>1, <1>2, <1>3, Ways

LEMMA TiredGrows == ASSUME IInv, NumbersOK, [Next]_vars PROVE tired \subseteq tired'
<1>1. \A t \in Threads : ThreadWay(t) => tired \subseteq tired'
  BY DEF ThreadWay, ReadWay, WriteWay, TakeWay, SetWay, ConnWay, PostWay, WakeWay, GiveWay, EndWay
<1>2. EventWay \/ (\E c \in Requests : ClientWay(c)) => tired \subseteq tired'
  BY DEF ClientWay, EventWay, LossWay, AnswerWay, SendWay, FoundWay
<1> QED
  BY <1>1, <1>2, Ways

LEMMA TiredStays ==
  ASSUME IInv, NumbersOK, [Next]_vars, NEW b \in Requests, Tired(b)
  PROVE  Tired(b)' /\ biz'[b].p = biz[b].p
<1>0. TypeOK /\ HandsOK /\ biz[b].p # 0
  BY ConstFact DEF IInv, TypeOK, Tired
<1>1. tired \subseteq tired'
  BY TiredGrows
<1>2. biz[b].at = "done" \/ \E t \in Threads : Holding(t) /\ run[t].b = b
  BY <1>0 DEF NumbersOK
<1>3. \A t \in Threads : TakeWay(t) => run[t].b # b
  <2> TAKE t \in Threads
  <2> HAVE TakeWay(t)
  <2>1. ~Holding(t)
    BY DEF TakeWay, Goes, Holding
  <2> QED
    BY <1>0, <1>2, <2>1, HandsFact
<1> QED
  BY <1>1, <1>3, PStays DEF Tired

\* A request that is under way is not in the hands of a thread that does
\* something else.
LEMMA BusyFact ==
  ASSUME IInv, NEW b \in Requests, PlaceOK(b), NEW t \in Threads, run[t].b = b, run[t].at # "wait"
  PROVE  ~Waiting(b) /\ ~Posted(b) /\ ~Asked(b) /\ ~Found(b) /\ ~Answered(b)
<1>1. ~Waiting(b)
  BY HandsFact DEF IInv, Waiting, At
<1> QED
  BY <1>1 DEF PlaceOK

\* A step that neither sends, answers nor wakes.
LEMMA StillPlace ==
  ASSUME IInv, NEW b \in Requests, PlaceOK(b), Waiting(b) => Waiting(b)',
         \A t \in Threads : run'[t].at = "woken" /\ run'[t].b = b => run[t].at = "woken" /\ run[t].b = b,
         UNCHANGED <<packet, ev>>, Less(events, events'), \A d \in Decoders : Less(asked[d], asked'[d]),
         biz'[b].p = biz[b].p \/ \E t \in Threads : run[t].at = "get" /\ run[t].b = b,
         \A d \in Decoders : \A i \in DOMAIN asked'[d] : i \in Nat,
         \A i \in DOMAIN events' : i \in Nat
  PROVE  PlaceOK(b)'
<1>1. /\ Posted(b)' => Posted(b)
      /\ \A i, j \in DOMAIN events' :
           packet'[events'[i].p].send = b /\ packet'[events'[j].p].send = b => i = j
  <2>1. PICK k \in {0, 1} : \A i \in DOMAIN events' : i + k \in DOMAIN events /\ events'[i] = events[i + k]
    BY DEF Less
  <2>2. Posted(b)' => Posted(b)
    BY <2>1 DEF Posted
  <2>3. ASSUME NEW i \in DOMAIN events', NEW j \in DOMAIN events',
               packet'[events'[i].p].send = b, packet'[events'[j].p].send = b
        PROVE  i = j
    <3>1. i + k = j + k
      BY <2>1, <2>3 DEF PlaceOK
    <3> QED
      BY <3>1
  <2> QED
    BY <2>2, <2>3
<1>2. /\ Asked(b)' => Asked(b)
      /\ \A d, e \in Decoders : \A i \in DOMAIN asked'[d] : \A j \in DOMAIN asked'[e] :
           asked'[d][i] = b /\ asked'[e][j] = b => d = e /\ i = j
  <2>1. \A d \in Decoders : \E k \in {0, 1} :
          \A i \in DOMAIN asked'[d] : i + k \in DOMAIN asked[d] /\ asked'[d][i] = asked[d][i + k]
    BY DEF Less
  <2>2. Asked(b)' => Asked(b)
    BY <2>1 DEF Asked
  <2>3. ASSUME NEW d \in Decoders, NEW e \in Decoders, NEW i \in DOMAIN asked'[d], NEW j \in DOMAIN asked'[e],
               asked'[d][i] = b, asked'[e][j] = b
        PROVE  d = e /\ i = j
    <3>1. PICK k \in {0, 1} :
            \A n \in DOMAIN asked'[d] : n + k \in DOMAIN asked[d] /\ asked'[d][n] = asked[d][n + k]
      BY <2>1
    <3>2. PICK l \in {0, 1} :
            \A n \in DOMAIN asked'[e] : n + l \in DOMAIN asked[e] /\ asked'[e][n] = asked[e][n + l]
      BY <2>1
    <3>3. d = e
      BY <2>3, <3>1, <3>2 DEF PlaceOK
    <3>4. i + k = j + k
      BY <2>3, <3>1, <3>3 DEF PlaceOK
    <3> QED
      BY <3>3, <3>4
  <2> QED
    BY <2>2, <2>3
<1>3. Found(b)' = Found(b) /\ Answered(b)' = Answered(b)
  BY DEF Found, Answered
<1>4. CASE biz'[b].p = biz[b].p
  BY <1>1, <1>2, <1>3, <1>4 DEF PlaceOK, Found, At
<1>5. ASSUME NEW t \in Threads, run[t].at = "get", run[t].b = b PROVE PlaceOK(b)'
  <2>1. ~Posted(b)' /\ ~Asked(b)' /\ ~Found(b)' /\ ~Answered(b)'
    BY <1>1, <1>2, <1>3, <1>5, BusyFact
  <2>2. \A u \in Threads : ~(run[u].b = b /\ run[u].at = "woken")
    BY <1>5, HandsFact DEF IInv
  <2> QED
    BY <1>1, <1>2, <2>1, <2>2 DEF PlaceOK, Found, At
<1> QED
  BY <1>4, <1>5

LEMMA WaitingFact ==
  ASSUME IInv, SendsOK, NEW b \in Requests, NEW t \in Threads, Sending(t), run[t].b = b
  PROVE  /\ Holding(t) /\ Mine(t) = biz[b].p /\ biz[b].p \in Packets /\ packet[biz[b].p].send = b
         /\ \A q \in Packets : packet[q].send = b => q = biz[b].p
         /\ \A u \in Threads : Holding(u) /\ Mine(u) = biz[b].p => u = t
<1>0. DataOK /\ NotShared
  BY DEF IInv
<1>1. Holding(t) /\ Mine(t) = biz[b].p /\ biz[b].p \in Packets
  BY <1>0 DEF Holding, Sending, Mine, DataOK
<1>2. packet[biz[b].p].send = b
  BY <1>1 DEF SendsOK
<1> QED
  BY <1>0, <1>1, <1>2 DEF SendsOK, NotShared

LEMMA WaitingAlone ==
  ASSUME IInv, SendsOK, NEW b \in Requests, Waiting(b)
  PROVE  /\ biz[b].p \in Packets /\ packet[biz[b].p].send = b
         /\ \A q \in Packets : packet[q].send = b => q = biz[b].p
         /\ \A c \in Requests : Waiting(c) /\ biz[c].p = biz[b].p => c = b
<1>1. PICK t \in Threads : At(t, "wait") /\ run[t].b = b
  BY DEF Waiting
<1>2. Sending(t)
  BY <1>1 DEF At, Sending
<1>3. \A c \in Requests : Waiting(c) => packet[biz[c].p].send = c
  BY WaitingFact DEF Waiting, At, Sending
<1> QED
  BY <1>1, <1>2, <1>3, WaitingFact

LEMMA SetPlace ==
  ASSUME IInv, SendsOK, AnswersOK, NEW t \in Threads, SetWay(t), NEW b \in Requests, ~Tired(b)
  PROVE  PlaceOK(b)'
<1> DEFINE p == Mine(t)
<1>0. DataOK /\ NotShared /\ PlaceOK(b)
  BY DEF IInv, AnswersOK
<1>1. /\ run[t].at = "set" /\ run[t].b \in Requests /\ Holding(t) /\ p \in Packets
      /\ run'[t].at = "find" /\ run'[t].b = run[t].b
      /\ biz' = biz /\ events' = events /\ asked' = asked /\ ev' = ev /\ tired' = tired
      /\ \A u \in Threads \ {t} : run'[u] = run[u]
      /\ \A q \in Packets \ {p} : packet'[q] = packet[q]
      /\ packet'[p].send = run[t].b /\ packet'[p].recv = packet[p].recv
      /\ packet'[p].ready = packet[p].ready /\ p = biz[run[t].b].p
  BY <1>0 DEF SetWay, Goes, Holding, DataOK, RunBut, PacketBut, Mine
<1>2. Waiting(b) => Waiting(b)'
  BY <1>1 DEF Waiting, At
<1>3. /\ \A u \in Threads : run'[u].at = "woken" /\ run'[u].b = b => run[u].at = "woken" /\ run[u].b = b
      /\ \A q \in Packets : packet'[q].recv = packet[q].recv /\ packet'[q].ready = packet[q].ready
  BY <1>1
<1>4. /\ \A i \in DOMAIN events : events[i].p \in Packets
      /\ \A u \in Threads : Holding(u) => Mine(u) \in Packets
      /\ \A i \in DOMAIN events : packet[events[i].p].send \in Requests
  <2>1. events \in Seq(Sends)
    BY DEF IInv, TypeOK
  <2>2. \A i \in DOMAIN events : events[i] \in Sends
    BY <2>1, ElementOfSeq, LenProperties
  <2> QED
    BY <1>0, <2>2 DEF Sends, DataOK
<1>a. \A u \in Threads : run[u].at = "woken" /\ run[u].b = b => biz[b].p \in Packets
  BY <1>4 DEF Holding, Mine
<1>b. Waiting(b) => biz[b].p \in Packets
  BY WaitingAlone
<1> HIDE DEF p
<1>5. CASE b # run[t].b
  <2>1. \A i \in DOMAIN events : packet'[events[i].p].send = b => packet[events[i].p].send = b
    BY <1>1, <1>4, <1>5
  <2>2. Posted(b)' => Posted(b)
    BY <1>1, <2>1 DEF Posted
  <2>3. Answered(b)' => Answered(b)
    BY <1>1, <1>5 DEF Answered
  <2>4. Asked(b)' = Asked(b) /\ Found(b)' = Found(b)
    BY <1>1 DEF Asked, Found
  <2>5. Found(b) \/ Answered(b) => packet'[biz[b].p].recv = packet[biz[b].p].recv
    BY <1>0, <1>3, <1>b DEF PlaceOK
  <2> QED
    BY <1>0, <1>1, <1>2, <1>3, <1>a, <2>1, <2>2, <2>3, <2>4, <2>5 DEF PlaceOK, Found, At
<1>6. CASE b = run[t].b
  <2>1. ~Posted(b) /\ ~Asked(b) /\ ~Found(b) /\ ~Answered(b) /\ biz[b].p = p
    BY <1>0, <1>1, <1>6, BusyFact
  <2>2. \A c \in Requests : Waiting(c) => biz[c].p # p
    <3> TAKE c \in Requests
    <3> HAVE Waiting(c)
    <3>1. PICK u \in Threads : At(u, "wait") /\ run[u].b = c
      BY DEF Waiting
    <3>2. Holding(u) /\ u # t /\ Mine(u) = biz[c].p
      BY <1>1, <3>1 DEF At, Holding, Mine
    <3> QED
      BY <1>0, <1>1, <3>2 DEF NotShared, p
  <2>3. \A c \in Requests : packet[p].send = c => PlaceOK(c) /\ ~Waiting(c)
    <3> TAKE c \in Requests
    <3> HAVE packet[p].send = c
    <3>1. biz[c].p = p
      BY <1>1 DEF SendsOK
    <3>2. ~Tired(c)
      BY <2>1, <3>1 DEF Tired
    <3> QED
      BY <2>2, <3>1, <3>2 DEF AnswersOK
  <2>4. ~Posted(b)'
    <3> SUFFICES ASSUME NEW i \in DOMAIN events, packet'[events[i].p].send = b PROVE FALSE
      BY <1>1 DEF Posted
    <3>1. events[i].p = p
      BY <1>1, <1>4, <2>1 DEF Posted
    <3> DEFINE c == packet[p].send
    <3>2. c \in Requests /\ Posted(c)
      BY <1>4, <3>1 DEF Posted
    <3> QED
      BY <2>3, <3>2 DEF PlaceOK
  <2>5. ~Answered(b)'
    <3> SUFFICES ASSUME NEW q \in Packets, packet'[q].send = b, packet'[q].ready PROVE FALSE
      BY DEF Answered
    <3>1. q = p /\ packet[p].ready
      BY <1>1, <2>1 DEF Answered
    <3> DEFINE c == packet[p].send
    <3>2. c \in Requests
      BY <1>1, <2>1, <3>1 DEF AnswersOK, Tired
    <3>3. Answered(c)
      BY <1>1, <3>1 DEF Answered
    <3> QED
      BY <2>3, <3>2, <3>3 DEF PlaceOK
  <2>6. ~Asked(b)' /\ ~Found(b)'
    BY <1>1, <2>1 DEF Asked, Found
  <2>7. \A u \in Threads : ~(run'[u].at = "woken" /\ run'[u].b = b)
    <3>1. \A u \in Threads : run[u].b = b => u = t
      BY <1>1, <1>6, HandsFact DEF IInv
    <3> QED
      BY <1>1, <1>3, <3>1
  <2>8. \A i \in DOMAIN events' : packet'[events'[i].p].send # b
    BY <2>4 DEF Posted
  <2>9. \A d \in Decoders : \A i \in DOMAIN asked'[d] : asked'[d][i] # b
    BY <2>6 DEF Asked
  <2> QED
    BY <2>4, <2>5, <2>6, <2>7, <2>8, <2>9 DEF PlaceOK, Found, At
<1> QED
  BY <1>5, <1>6

LEMMA WakePlace ==
  ASSUME IInv, SendsOK, AnswersOK, NEW t \in Threads, WakeWay(t), NEW b \in Requests, ~Tired(b)
  PROVE  PlaceOK(b)'
<1> DEFINE p == Mine(t)
<1>0. DataOK /\ PlaceOK(b)
  BY DEF IInv, AnswersOK
<1>1. /\ run[t].at = "wait" /\ run[t].b \in Requests /\ Holding(t) /\ p \in Packets /\ Sending(t)
      /\ run'[t].at = "woken" /\ run'[t].b = run[t].b /\ packet[p].ready
      /\ biz' = biz /\ events' = events /\ asked' = asked /\ ev' = ev /\ tired' = tired
      /\ \A u \in Threads \ {t} : run'[u] = run[u]
      /\ \A q \in Packets \ {p} : packet'[q] = packet[q]
      /\ packet'[p].send = packet[p].send /\ packet'[p].recv = packet[p].recv /\ packet'[p].ready = FALSE
  BY <1>0 DEF WakeWay, Goes, Holding, Sending, DataOK, RunBut, PacketBut
<1>2. packet[p].send = run[t].b /\ p = biz[run[t].b].p
  BY <1>1 DEF SendsOK, Mine
<1> HIDE DEF p
<1>3. /\ \A q \in Packets : packet'[q].send = packet[q].send /\ packet'[q].recv = packet[q].recv
      /\ \A i \in DOMAIN events : events[i].p \in Packets
      /\ \A u \in Threads : Holding(u) => Mine(u) \in Packets
  <2>1. events \in Seq(Sends)
    BY DEF IInv, TypeOK
  <2>2. \A i \in DOMAIN events : events[i] \in Sends
    BY <2>1, ElementOfSeq, LenProperties
  <2> QED
    BY <1>0, <1>1, <2>2 DEF Sends, DataOK
<1>4. /\ Posted(b)' = Posted(b) /\ Asked(b)' = Asked(b) /\ Found(b)' = Found(b)
      /\ (Answered(b)' => Answered(b))
  BY <1>1, <1>3 DEF Posted, Asked, Found, Answered
<1>5. /\ \A i, j \in DOMAIN events' :
           packet'[events'[i].p].send = b /\ packet'[events'[j].p].send = b => i = j
      /\ \A d, e \in Decoders : \A i \in DOMAIN asked'[d] : \A j \in DOMAIN asked'[e] :
           asked'[d][i] = b /\ asked'[e][j] = b => d = e /\ i = j
  BY <1>0, <1>1, <1>3 DEF PlaceOK
<1>6. CASE b # run[t].b
  <2>1. Waiting(b) => Waiting(b)'
    BY <1>1, <1>6 DEF Waiting, At
  <2>2. Waiting(b) => biz[b].p \in Packets
    BY WaitingAlone
  <2>3. \A u \in Threads : run'[u].at = "woken" /\ run'[u].b = b =>
          run[u].at = "woken" /\ run[u].b = b /\ biz[b].p \in Packets
    BY <1>1, <1>3, <1>6 DEF Holding, Mine
  <2>4. Found(b) \/ Answered(b) => packet'[biz[b].p].recv = packet[biz[b].p].recv
    BY <1>0, <1>3, <2>2 DEF PlaceOK
  <2> QED
    BY <1>0, <1>1, <1>3, <1>4, <1>5, <2>1, <2>3, <2>4 DEF PlaceOK, Found, At
<1>7. CASE b = run[t].b
  <2>1. Answered(b) /\ packet[p].recv = b
    BY <1>0, <1>1, <1>2, <1>7 DEF Answered, PlaceOK
  <2>2. ~Posted(b) /\ ~Asked(b) /\ ~Found(b)
    BY <1>0, <2>1 DEF PlaceOK
  <2>3. ~Answered(b)'
    BY <1>1, <1>2, <1>3, <1>7, WaitingFact DEF Answered
  <2> QED
    BY <1>1, <1>2, <1>4, <1>5, <1>7, <2>1, <2>2, <2>3 DEF PlaceOK, Found, At
<1> QED
  BY <1>6, <1>7

LEMMA EventFact ==
  ASSUME IInv
  PROVE  /\ events \in Seq(Sends)
         /\ \A i \in DOMAIN events : /\ events[i].p \in Packets /\ events[i].h \in Handles
                                     /\ packet[events[i].p].send \in Requests
<1>1. events \in Seq(Sends)
  BY DEF IInv, TypeOK
<1>2. \A i \in DOMAIN events : events[i] \in Sends
  BY <1>1, ElementOfSeq, LenProperties
<1> QED
  BY <1>1, <1>2 DEF Sends, IInv, DataOK

LEMMA PostPlace ==
  ASSUME IInv, SendsOK, AnswersOK, NEW t \in Threads, PostWay(t), Goes(t, "post", "wait"),
         events' = Append(events, [p |-> Mine(t), h |-> run[t].h]), NEW b \in Requests, ~Tired(b)
  PROVE  PlaceOK(b)'
<1> DEFINE p == Mine(t)
           e == [p |-> p, h |-> run[t].h]
           n == Len(events) + 1
<1>0. DataOK /\ PlaceOK(b)
  BY DEF IInv, AnswersOK
<1>1. /\ run[t].at = "post" /\ run[t].b \in Requests /\ p \in Packets /\ run[t].h \in Handles
      /\ run'[t].at = "wait" /\ run'[t].b = run[t].b /\ packet[p].send = run[t].b
      /\ biz' = biz /\ packet' = packet /\ asked' = asked /\ ev' = ev /\ tired' = tired
      /\ \A u \in Threads \ {t} : run'[u] = run[u]
  BY <1>0 DEF PostWay, Goes, Holding, Sending, DataOK, RunBut, SendsOK, At
<1>2. e \in Sends /\ e.p = p
  BY <1>1 DEF Sends
<1>3. events' = Append(events, e)
  OBVIOUS
<1> HIDE DEF e, p
<1>4. /\ events'[n] = e /\ n \in DOMAIN events'
      /\ \A i \in DOMAIN events : i \in DOMAIN events' /\ events'[i] = events[i]
      /\ \A i \in DOMAIN events' : i = n \/ i \in DOMAIN events
  BY <1>2, <1>3, EventFact, AppendFact
<1> HIDE DEF n
<1>5. /\ Asked(b)' = Asked(b) /\ Found(b)' = Found(b) /\ Answered(b)' = Answered(b)
      /\ (Waiting(b) => Waiting(b)') /\ (b = run[t].b => Waiting(b)')
      /\ \A u \in Threads : run'[u].at = "woken" => run[u].at = "woken" /\ run'[u].b = run[u].b
  BY <1>1 DEF Asked, Found, Answered, Waiting, At
<1>6. \A d, e1 \in Decoders : \A i \in DOMAIN asked'[d] : \A j \in DOMAIN asked'[e1] :
         asked'[d][i] = b /\ asked'[e1][j] = b => d = e1 /\ i = j
  BY <1>0, <1>1 DEF PlaceOK
<1>7. CASE b # run[t].b
  <2>1. \A i \in DOMAIN events' : packet[events'[i].p].send = b => i \in DOMAIN events /\ events'[i] = events[i]
    BY <1>1, <1>2, <1>4, <1>7
  <2>2. Posted(b)' => Posted(b)
    BY <1>1, <2>1 DEF Posted
  <2> QED
    BY <1>0, <1>1, <1>5, <1>6, <2>1, <2>2 DEF PlaceOK, Found, At
<1>8. CASE b = run[t].b
  <2>1. ~Posted(b) /\ ~Asked(b) /\ ~Found(b) /\ ~Answered(b)
    BY <1>0, <1>1, <1>8, BusyFact
  <2>2. \A i \in DOMAIN events' : packet[events'[i].p].send = b => i = n
    BY <1>4, <2>1 DEF Posted
  <2>3. \A u \in Threads : ~(run'[u].at = "woken" /\ run'[u].b = b)
    <3>1. \A u \in Threads : run[u].b = b => u = t
      BY <1>1, <1>8, HandsFact DEF IInv
    <3> QED
      BY <1>1, <1>5, <3>1
  <2> QED
    BY <1>1, <1>5, <1>6, <1>8, <2>1, <2>2, <2>3 DEF PlaceOK, Found, At
<1> QED
  BY <1>7, <1>8

LEMMA SendPlace ==
  ASSUME IInv, SendsOK, AnswersOK, NEW d \in Decoders, SendWay(d), NEW b \in Requests, ~Tired(b)
  PROVE  PlaceOK(b)'
<1> DEFINE x == packet[Head(events).p].send
           n == Len(asked[d]) + 1
<1>0. TypeOK /\ PlaceOK(b)
  BY DEF IInv, AnswersOK
<1>1. /\ events # <<>> /\ events' = Tail(events) /\ asked' = [asked EXCEPT ![d] = Append(@, x)]
      /\ biz' = biz /\ run' = run /\ packet' = packet /\ ev' = ev /\ tired' = tired
  BY DEF SendWay
<1>2. /\ x \in Requests /\ 1 \in DOMAIN events /\ x = packet[events[1].p].send
      /\ \A i \in DOMAIN events' : i + 1 \in DOMAIN events /\ events'[i] = events[i + 1] /\ i + 1 # 1
      /\ \A i \in DOMAIN events' : i \in Nat
  <2>1. /\ Head(events) = events[1] /\ 1 \in DOMAIN events /\ Tail(events) \in Seq(Sends)
        /\ \A i \in DOMAIN Tail(events) :
             i + 1 \in DOMAIN events /\ Tail(events)[i] = events[i + 1] /\ i + 1 # 1
    BY <1>1, EventFact, TailFact
  <2>2. \A i \in DOMAIN Tail(events) : i \in Nat
    BY <2>1, LenProperties
  <2> QED
    BY <1>1, <2>1, <2>2, EventFact
<1>3. /\ asked'[d] = Append(asked[d], x) /\ asked[d] \in Seq(Requests)
      /\ \A e \in Decoders : e # d => asked'[e] = asked[e]
  BY <1>0, <1>1 DEF TypeOK
<1> HIDE DEF x
<1>4. /\ n \in DOMAIN asked'[d] /\ asked'[d][n] = x
      /\ \A i \in DOMAIN asked'[d] : i = n \/ (i \in DOMAIN asked[d] /\ asked'[d][i] = asked[d][i])
  BY <1>2, <1>3, AppendFact
<1> HIDE DEF n
<1>5. /\ Found(b)' = Found(b) /\ Answered(b)' = Answered(b) /\ Waiting(b)' = Waiting(b)
      /\ (Posted(b)' => Posted(b))
  BY <1>1, <1>2 DEF Posted, Found, Answered, Waiting, At
<1>6. \A i, j \in DOMAIN events' :
         packet'[events'[i].p].send = b /\ packet'[events'[j].p].send = b => i = j
  <2> TAKE i, j \in DOMAIN events'
  <2> HAVE packet'[events'[i].p].send = b /\ packet'[events'[j].p].send = b
  <2>1. i + 1 = j + 1
    BY <1>0, <1>1, <1>2 DEF PlaceOK
  <2> QED
    BY <1>2, <2>1
<1>7. CASE b # x
  <2>1. \A e \in Decoders : \A i \in DOMAIN asked'[e] :
          asked'[e][i] = b => i \in DOMAIN asked[e] /\ asked[e][i] = b
    BY <1>3, <1>4, <1>7
  <2>2. Asked(b)' => Asked(b)
    BY <2>1 DEF Asked
  <2>3. \A e, f \in Decoders : \A i \in DOMAIN asked'[e] : \A j \in DOMAIN asked'[f] :
          asked'[e][i] = b /\ asked'[f][j] = b => e = f /\ i = j
    BY <1>0, <2>1 DEF PlaceOK
  <2> QED
    BY <1>0, <1>1, <1>5, <1>6, <2>2, <2>3 DEF PlaceOK, Found, At
<1>8. CASE b = x
  <2>1. Posted(b)
    BY <1>2, <1>8 DEF Posted
  <2>2. ~Asked(b) /\ ~Found(b) /\ ~Answered(b) /\ Waiting(b)
    BY <1>0, <2>1 DEF PlaceOK
  <2>3. ~Posted(b)'
    <3> SUFFICES ASSUME NEW i \in DOMAIN events', packet[events'[i].p].send = b PROVE FALSE
      BY <1>1 DEF Posted
    <3>1. i + 1 = 1
      BY <1>0, <1>2, <1>8 DEF PlaceOK
    <3> QED
      BY <1>2, <3>1
  <2>4. \A e \in Decoders : \A i \in DOMAIN asked'[e] : asked'[e][i] = b => e = d /\ i = n
    BY <1>3, <1>4, <2>2 DEF Asked
  <2> QED
    BY <1>0, <1>1, <1>5, <1>6, <2>2, <2>3, <2>4 DEF PlaceOK, Found, At
<1> QED
  BY <1>7, <1>8

LEMMA FoundPlace ==
  ASSUME IInv, SendsOK, AnswersOK, ~Unlucky, NEW d \in Decoders, FoundWay(d)
  PROVE  /\ ev'.b \in Requests /\ Sent(ev'.b) /\ ev'.p = biz[ev'.b].p /\ ev'.b = asked[d][1]
         /\ \A b \in Requests : Tired(b) \/ PlaceOK(b)'
<1> DEFINE x == Head(asked[d])
<1>0. TypeOK /\ asked[d] \in Seq(Requests)
  BY DEF IInv, TypeOK
<1>1. /\ asked[d] # <<>> /\ asked' = [asked EXCEPT ![d] = Tail(asked[d])] /\ ev = Quiet
      /\ ev' = [at |-> "found", b |-> x, p |-> work[First(biz[x].no)]] /\ Numbered(biz[x].no) # {}
      /\ biz' = biz /\ run' = run /\ packet' = packet /\ events' = events /\ tired' = tired
  BY DEF FoundWay
<1>2. /\ x \in Requests /\ 1 \in DOMAIN asked[d] /\ x = asked[d][1] /\ Tail(asked[d]) \in Seq(Requests)
      /\ \A i \in DOMAIN Tail(asked[d]) :
           i + 1 \in DOMAIN asked[d] /\ Tail(asked[d])[i] = asked[d][i + 1] /\ i + 1 # 1
  BY <1>0, <1>1, TailFact
<1>3. \A i \in DOMAIN Tail(asked[d]) : i \in Nat
  BY <1>2, LenProperties
<1>4. asked'[d] = Tail(asked[d]) /\ \A e \in Decoders : e # d => asked'[e] = asked[e]
  BY <1>0, <1>1 DEF TypeOK
<1>5. /\ \A i \in DOMAIN asked'[d] :
           i \in Nat /\ i + 1 \in DOMAIN asked[d] /\ asked'[d][i] = asked[d][i + 1] /\ i + 1 # 1
  BY <1>2, <1>3, <1>4
<1>6. ev'.at = "found" /\ ev'.b = x /\ ev'.p = work[First(biz[x].no)]
  BY <1>1
<1> HIDE DEF x
<1>7. Sent(x) /\ HasNumber(x)
  BY <1>2, SentNumber DEF AnswersOK
<1>8. ev'.p = biz[x].p
  BY <1>1, <1>2, <1>6, <1>7, OwnPlace
<1>9. ASSUME NEW b \in Requests, ~Tired(b) PROVE PlaceOK(b)'
  <2>0. PlaceOK(b)
    BY <1>9 DEF AnswersOK
  <2>1. /\ Posted(b)' = Posted(b) /\ Answered(b)' = Answered(b) /\ Waiting(b)' = Waiting(b)
        /\ ~Found(b) /\ (Found(b)' <=> b = x)
    BY <1>1, <1>6 DEF Posted, Answered, Waiting, At, Found, Quiet
  <2>2. /\ Asked(b)' => Asked(b)
        /\ \A e, f \in Decoders : \A i \in DOMAIN asked'[e] : \A j \in DOMAIN asked'[f] :
             asked'[e][i] = b /\ asked'[f][j] = b => e = f /\ i = j
    <3>1. \A e \in Decoders : \A i \in DOMAIN asked'[e] : \E j \in DOMAIN asked[e] :
             asked'[e][i] = asked[e][j] /\ j = IF e = d THEN i + 1 ELSE i
      BY <1>4, <1>5
    <3>2. Asked(b)' => Asked(b)
      BY <3>1 DEF Asked
    <3>3. ASSUME NEW e \in Decoders, NEW f \in Decoders, NEW i \in DOMAIN asked'[e], NEW j \in DOMAIN asked'[f],
                 asked'[e][i] = b, asked'[f][j] = b
          PROVE  e = f /\ i = j
      <4>1. PICK k \in DOMAIN asked[e] : asked'[e][i] = asked[e][k] /\ k = IF e = d THEN i + 1 ELSE i
        BY <3>1
      <4>2. PICK l \in DOMAIN asked[f] : asked'[f][j] = asked[f][l] /\ l = IF f = d THEN j + 1 ELSE j
        BY <3>1
      <4>3. e = f /\ k = l
        BY <2>0, <3>3, <4>1, <4>2 DEF PlaceOK
      <4>4. CASE e = d
        <5>1. i + 1 = j + 1 /\ i \in Nat /\ j \in Nat
          BY <1>5, <4>1, <4>2, <4>3, <4>4
        <5> QED
          BY <4>3, <5>1
      <4>5. CASE e # d
        BY <4>1, <4>2, <4>3, <4>5
      <4> QED
        BY <4>4, <4>5
    <3> QED
      BY <3>2, <3>3
  <2>3. CASE b # x
    BY <1>1, <1>6, <2>0, <2>1, <2>2, <2>3 DEF PlaceOK, Found, At
  <2>4. CASE b = x
    <3>1. Asked(b)
      BY <1>2, <2>4 DEF Asked
    <3>2. ~Posted(b) /\ ~Answered(b) /\ Waiting(b)
      BY <2>0, <3>1 DEF PlaceOK
    <3>3. ~Asked(b)'
      <4> SUFFICES ASSUME NEW e \in Decoders, NEW i \in DOMAIN asked'[e], asked'[e][i] = b PROVE FALSE
        BY DEF Asked
      <4>1. CASE e = d
        <5>1. i + 1 \in DOMAIN asked[d] /\ asked[d][i + 1] = b /\ asked[d][1] = b
          BY <1>2, <1>5, <2>4, <4>1
        <5>2. i + 1 = 1
          BY <1>2, <2>0, <5>1 DEF PlaceOK
        <5> QED
          BY <1>5, <4>1, <5>2
      <4>2. CASE e # d
        BY <1>2, <1>4, <2>0, <2>4, <4>2 DEF PlaceOK
      <4> QED
        BY <4>1, <4>2
    <3> QED
      BY <1>1, <1>6, <2>0, <2>1, <2>2, <2>4, <3>2, <3>3 DEF PlaceOK, Found, At
  <2> QED
    BY <2>3, <2>4
<1> QED
  BY <1>2, <1>6, <1>7, <1>8, <1>9

LEMMA AnswerPlace ==
  ASSUME IInv, SendsOK, AnswersOK, AnswerWay, NEW b \in Requests, ~Tired(b)
  PROVE  PlaceOK(b)'
<1> DEFINE x == ev.b
           p == ev.p
<1>0. DataOK /\ PlaceOK(b)
  BY DEF IInv, AnswersOK
<1>1. /\ ev.at # "quiet" /\ p \in Packets /\ x \in Requests /\ p = biz[x].p
      /\ biz' = biz /\ run' = run /\ events' = events /\ asked' = asked /\ tired' = tired
      /\ \A q \in Packets : packet'[q].send = packet[q].send
      /\ \A q \in Packets \ {p} : packet'[q] = packet[q]
  BY DEF AnswerWay, PacketBut, AnswersOK
<1>2. \/ /\ ev.at = "found" /\ ev'.at = "copied" /\ ev'.b = x
         /\ packet'[p].recv = x /\ packet'[p].ready = packet[p].ready
      \/ /\ ev.at = "copied" /\ ev'.at = "quiet"
         /\ packet'[p].recv = packet[p].recv /\ packet'[p].ready = TRUE
  BY DEF AnswerWay, Quiet
<1> HIDE DEF x, p
<1>a. Found(x) /\ (Found(b) <=> b = x)
  BY <1>1 DEF Found, x
<1>3. /\ Posted(b)' = Posted(b) /\ Asked(b)' = Asked(b) /\ Waiting(b)' = Waiting(b)
      /\ (Found(b)' => Found(b))
  BY <1>1, <1>2, <1>a, EventFact DEF Posted, Asked, Waiting, At, Found
<1>4. /\ \A i, j \in DOMAIN events' :
           packet'[events'[i].p].send = b /\ packet'[events'[j].p].send = b => i = j
      /\ \A d, e \in Decoders : \A i \in DOMAIN asked'[d] : \A j \in DOMAIN asked'[e] :
           asked'[d][i] = b /\ asked'[e][j] = b => d = e /\ i = j
  BY <1>0, <1>1, EventFact DEF PlaceOK
<1>5. CASE b = x
  <2>1. Waiting(b) /\ ~Posted(b) /\ ~Asked(b) /\ ~Answered(b)
    BY <1>0, <1>5, <1>a DEF PlaceOK
  <2>2. \A t \in Threads : ~(run[t].at = "woken" /\ run[t].b = b)
    BY <2>1, HandsFact DEF Waiting, At, IInv
  <2>3. CASE ev.at = "found"
    <3>1. Answered(b)' => Answered(b)
      BY <1>1, <1>2, <2>3 DEF Answered
    <3>2. packet'[biz'[b].p].recv = b
      BY <1>1, <1>2, <1>5, <2>3
    <3> QED
      BY <1>1, <1>3, <1>4, <2>1, <2>2, <3>1, <3>2 DEF PlaceOK, At
  <2>4. CASE ev.at = "copied"
    <3>1. packet[biz[b].p].recv = b
      BY <1>0, <1>5, <2>4 DEF PlaceOK, x
    <3>2. packet'[biz'[b].p].recv = b /\ ~Found(b)' /\ ev'.at = "quiet"
      BY <1>1, <1>2, <1>5, <2>4, <3>1 DEF Found
    <3> QED
      BY <1>1, <1>3, <1>4, <2>1, <2>2, <3>2 DEF PlaceOK, At
  <2> QED
    BY <1>2, <2>3, <2>4
<1>6. CASE b # x
  <2>1. ~Found(b) /\ ~Found(b)'
    BY <1>3, <1>6, <1>a
  <2>2. biz[b].p = p => Waiting(x)
    <3> HAVE biz[b].p = p
    <3>1. ~Tired(x)
      BY <1>1 DEF Tired
    <3> QED
      BY <1>1, <1>a, <3>1 DEF AnswersOK, PlaceOK
  <2>3. Answered(b)' => Answered(b)
    <3> SUFFICES ASSUME NEW q \in Packets, packet[q].send = b, packet'[q].ready, ~packet[q].ready PROVE FALSE
      BY <1>1 DEF Answered
    <3>1. q = p /\ biz[b].p = p
      BY <1>1 DEF SendsOK
    <3> QED
      BY <1>1, <1>6, <2>2, <3>1, WaitingAlone
  <2>4. Answered(b) => packet'[biz[b].p].recv = packet[biz[b].p].recv
    <3> HAVE Answered(b)
    <3>1. Waiting(b) /\ biz[b].p \in Packets
      BY <1>0, WaitingAlone DEF PlaceOK
    <3>2. biz[b].p # p
      BY <1>1, <1>6, <2>2, <3>1, WaitingAlone
    <3> QED
      BY <1>1, <3>1, <3>2
  <2>5. ASSUME NEW t \in Threads, run[t].at = "woken", run[t].b = b
        PROVE  packet'[biz[b].p].recv = packet[biz[b].p].recv
    <3>1. Sending(t)
      BY <2>5 DEF Sending
    <3>2. biz[b].p \in Packets /\ packet[biz[b].p].send = b
      BY <2>5, <3>1, WaitingFact
    <3>3. biz[b].p # p
      BY <1>1, <1>6, <2>2, <3>2, WaitingAlone
    <3> QED
      BY <1>1, <3>2, <3>3
  <2>6. ~(ev'.at = "copied" /\ ev'.b = b)
    BY <2>1 DEF Found
  <2> QED
    BY <1>0, <1>1, <1>3, <1>4, <2>1, <2>3, <2>4, <2>5, <2>6 DEF PlaceOK, At
<1> QED
  BY <1>5, <1>6

LEMMA PlaceStep ==
  ASSUME IInv, NumbersOK, SendsOK, AnswersOK, [Next]_vars, ~Unlucky, NEW b \in Requests, ~Tired(b)'
  PROVE  PlaceOK(b)'
<1>0. TypeOK /\ HandsOK /\ TypeOK'
  BY TypeStep DEF IInv
<1>1. ~Tired(b) /\ PlaceOK(b)
  BY TiredStays DEF AnswersOK
<1>2. /\ \A d \in Decoders : \A i \in DOMAIN asked'[d] : i \in Nat
      /\ \A i \in DOMAIN events' : i \in Nat
      /\ events \in Seq(Sends) /\ \A d \in Decoders : asked[d] \in Seq(Requests)
  <2>1. /\ events' \in Seq(Sends) /\ \A d \in Decoders : asked'[d] \in Seq(Requests)
        /\ events \in Seq(Sends) /\ \A d \in Decoders : asked[d] \in Seq(Requests)
    BY <1>0 DEF TypeOK
  <2> QED
    BY <2>1, LenProperties
<1>3. /\ Less(events, events) /\ \A d \in Decoders : Less(asked[d], asked[d])
  BY <1>2, LessFact
<1>4. ASSUME UNCHANGED <<packet, ev, events, asked>>, Waiting(b) => Waiting(b)',
             \A t \in Threads : run'[t].at = "woken" /\ run'[t].b = b => run[t].at = "woken" /\ run[t].b = b
      PROVE  PlaceOK(b)'
  <2>1. biz'[b].p = biz[b].p \/ \E t \in Threads : run[t].at = "get" /\ run[t].b = b
    BY PStays DEF TakeWay, Goes
  <2> QED
    BY <1>1, <1>2, <1>3, <1>4, <2>1, StillPlace
<1>5. ASSUME NEW c \in Requests, ClientWay(c) PROVE PlaceOK(b)'
  BY <1>4, <1>5 DEF ClientWay, Waiting, At
<1>6. ASSUME NEW t \in Threads, UNCHANGED <<packet, ev, events, asked>>, RunBut(t), run'[t].at # "woken",
             run[t].at # "wait" \/ run[t].b # b
      PROVE  PlaceOK(b)'
  <2>1. Waiting(b) => Waiting(b)'
    BY <1>6 DEF Waiting, At, RunBut
  <2>2. \A u \in Threads : run'[u].at = "woken" /\ run'[u].b = b => run[u].at = "woken" /\ run[u].b = b
    BY <1>6 DEF RunBut
  <2> QED
    BY <1>4, <1>6, <2>1, <2>2
<1>7. ASSUME NEW t \in Threads,
             \/ ReadWay(t) \/ WriteWay(t) \/ TakeWay(t) \/ ConnWay(t) \/ \E c : EndWay(t, c)
      PROVE  PlaceOK(b)'
  <2>1. /\ UNCHANGED <<packet, ev, events, asked>> /\ RunBut(t) /\ run'[t].at # "woken" /\ run[t].at # "wait"
    BY <1>7 DEF ReadWay, WriteWay, TakeWay, ConnWay, EndWay, Goes, Resting
  <2> QED
    BY <1>6, <2>1
<1>8. ASSUME NEW t \in Threads, PostWay(t) PROVE PlaceOK(b)'
  <2>1. CASE Goes(t, "post", "wait") /\ events' = Append(events, [p |-> Mine(t), h |-> run[t].h])
    BY <1>1, <1>8, <2>1, PostPlace
  <2>2. CASE Goes(t, "post", "failed") /\ UNCHANGED events
    <3>1. UNCHANGED <<packet, ev, events, asked>> /\ RunBut(t) /\ run'[t].at # "woken" /\ run[t].at # "wait"
      BY <1>8, <2>2 DEF PostWay, Goes
    <3> QED
      BY <1>6, <3>1
  <2> QED
    BY <1>8, <2>1, <2>2 DEF PostWay
<1>9. ASSUME NEW t \in Threads, GiveWay(t) PROVE PlaceOK(b)'
  <2>1. UNCHANGED <<packet, ev, events, asked>> /\ RunBut(t) /\ run'[t].at # "woken"
    BY <1>9 DEF GiveWay, Goes
  <2>2. run[t].b # b
    BY <1>9 DEF GiveWay, Tired, Mine
  <2> QED
    BY <1>6, <2>1, <2>2
<1>10. ASSUME NEW t \in Threads, SetWay(t) \/ WakeWay(t) PROVE PlaceOK(b)'
  BY <1>1, <1>10, SetPlace, WakePlace
<1>11. CASE LossWay
  <2>1. /\ UNCHANGED <<run, packet, ev>> /\ Less(events, events') /\ \A d \in Decoders : Less(asked[d], asked'[d])
        /\ biz'[b].p = biz[b].p
    BY <1>11 DEF LossWay
  <2>2. /\ Waiting(b) => Waiting(b)'
        /\ \A t \in Threads : run'[t].at = "woken" /\ run'[t].b = b => run[t].at = "woken" /\ run[t].b = b
    BY <2>1 DEF Waiting, At
  <2> QED
    BY <1>1, <1>2, <2>1, <2>2, StillPlace
<1>12. CASE AnswerWay
  BY <1>1, <1>12, AnswerPlace
<1>13. ASSUME NEW d \in Decoders, SendWay(d) \/ FoundWay(d) PROVE PlaceOK(b)'
  BY <1>1, <1>13, SendPlace, FoundPlace
<1> QED
  BY <1>5, <1>7, <1>8, <1>9, <1>10, <1>11, <1>12, <1>13, Ways DEF ThreadWay, EventWay

\* What a decoder has received was under way to it, or has just been sent.
LEMMA AskedWay ==
  ASSUME IInv, NumbersOK, [Next]_vars, NEW d \in Decoders, NEW i \in DOMAIN asked'[d]
  PROVE  \/ \E j \in DOMAIN asked[d] : asked'[d][i] = asked[d][j]
         \/ /\ SendWay(d) /\ 1 \in DOMAIN events /\ d = who[events[1].h]
            /\ asked'[d][i] = packet[events[1].p].send
<1>0. TypeOK /\ asked[d] \in Seq(Requests) /\ asked \in [Decoders -> Seq(Requests)]
  BY DEF IInv, TypeOK
<1>1. CASE asked' = asked
  BY <1>1
<1>2. CASE LossWay
  BY <1>2 DEF LossWay, Less
<1>3. ASSUME NEW e \in Decoders, SendWay(e)
      PROVE  \/ \E j \in DOMAIN asked[d] : asked'[d][i] = asked[d][j]
             \/ /\ SendWay(d) /\ 1 \in DOMAIN events /\ d = who[events[1].h]
                /\ asked'[d][i] = packet[events[1].p].send
  <2> DEFINE x == packet[Head(events).p].send
  <2>1. /\ Head(events) = events[1] /\ 1 \in DOMAIN events
    BY <1>3, EventFact, TailFact DEF SendWay
  <2>2. x \in Requests /\ x = packet[events[1].p].send /\ e = who[events[1].h]
    BY <1>3, <2>1, EventFact DEF SendWay
  <2>3. asked' = [asked EXCEPT ![e] = Append(@, x)]
    BY <1>3 DEF SendWay
  <2> HIDE DEF x
  <2>4. CASE e = d
    <3>1. asked'[d] = Append(asked[d], x)
      BY <1>0, <2>3, <2>4
    <3>2. i = Len(asked[d]) + 1 \/ i \in DOMAIN asked[d]
      BY <1>0, <2>2, <3>1, AppendFact
    <3>3. /\ i = Len(asked[d]) + 1 => asked'[d][i] = x
          /\ i \in DOMAIN asked[d] => asked'[d][i] = asked[d][i]
      BY <1>0, <2>2, <3>1, AppendFact
    <3> QED
      BY <1>3, <2>1, <2>2, <2>4, <3>2, <3>3
  <2>5. CASE e # d
    BY <1>0, <2>3, <2>5
  <2> QED
    BY <2>4, <2>5
<1>4. ASSUME NEW e \in Decoders, FoundWay(e)
      PROVE  \E j \in DOMAIN asked[d] : asked'[d][i] = asked[d][j]
  <2>1. asked[e] # <<>> /\ asked' = [asked EXCEPT ![e] = Tail(asked[e])]
    BY <1>4 DEF FoundWay
  <2>2. CASE e = d
    <3>1. asked'[d] = Tail(asked[d]) /\ asked[d] # <<>>
      BY <1>0, <2>1, <2>2
    <3> QED
      BY <1>0, <3>1, TailFact
  <2>3. CASE e # d
    BY <1>0, <2>1, <2>3
  <2> QED
    BY <2>2, <2>3
<1>5. \/ asked' = asked \/ LossWay \/ \E e \in Decoders : SendWay(e) \/ FoundWay(e)
  BY Ways DEF ClientWay, ThreadWay, ReadWay, WriteWay, TakeWay, SetWay, ConnWay, PostWay, WakeWay, GiveWay,
              EndWay, EventWay, AnswerWay
<1> QED
  BY <1>1, <1>2, <1>3, <1>4, <1>5

LEMMA AnswersStep ==
  ASSUME IInv, NumbersOK, SendsOK, AnswersOK, [Next]_vars, ~Unlucky
  PROVE  AnswersOK'
<1>0. TypeOK /\ HandsOK /\ DataOK /\ \A d \in Decoders : asked[d] \in Seq(Requests)
  BY DEF IInv, TypeOK
<1>1. ASSUME NEW d \in Decoders, NEW i \in DOMAIN asked'[d], NEW x, x = asked'[d][i] PROVE Sent(x)'
  <2>1. CASE \E j \in DOMAIN asked[d] : x = asked[d][j]
    <3>1. x \in Requests /\ Sent(x)
      BY <1>0, <2>1, ElementOfSeq, LenProperties DEF AnswersOK
    <3> QED
      BY <3>1, SentStays
  <2>2. CASE 1 \in DOMAIN events /\ x = packet[events[1].p].send
    <3>1. x \in Requests /\ Sent(x)
      BY <2>2, EventFact DEF SendsOK
    <3> QED
      BY <3>1, SentStays
  <2> QED
    BY <1>1, <2>1, <2>2, AskedWay
<1>2. ASSUME ev'.at # "quiet", NEW x, x = ev'.b
      PROVE  x \in Requests /\ Sent(x)' /\ ev'.p = biz'[x].p
  <2>1. CASE ev.at # "quiet" /\ ev'.b = ev.b /\ ev'.p = ev.p
    <3>1. x \in Requests /\ Sent(x) /\ ev'.p = biz[x].p
      BY <1>2, <2>1 DEF AnswersOK
    <3> QED
      BY <3>1, SentStays
  <2>2. ASSUME NEW d \in Decoders, FoundWay(d) PROVE x \in Requests /\ Sent(x)' /\ ev'.p = biz'[x].p
    <3>1. x \in Requests /\ Sent(x) /\ ev'.p = biz[x].p
      BY <1>2, <2>2, FoundPlace
    <3> QED
      BY <3>1, SentStays
  <2>3. \/ ev' = ev \/ AnswerWay \/ \E d \in Decoders : FoundWay(d)
    BY Ways DEF ClientWay, ThreadWay, ReadWay, WriteWay, TakeWay, SetWay, ConnWay, PostWay, WakeWay, GiveWay,
                EndWay, EventWay, LossWay, SendWay
  <2>4. AnswerWay => ev.at # "quiet" /\ ev'.b = ev.b /\ ev'.p = ev.p
    BY <1>2 DEF AnswerWay, Quiet
  <2> QED
    BY <1>2, <2>1, <2>2, <2>3, <2>4
<1>3. ASSUME NEW p \in Packets, packet'[p].ready, p \notin tired' PROVE packet'[p].send \in Requests
  <2>1. p \notin tired
    BY <1>3, TiredGrows
  <2>2. CASE packet[p].ready
    BY <2>1, <2>2, SendStep DEF AnswersOK
  <2>3. CASE ~packet[p].ready
    <3>1. AnswerWay /\ p = ev.p
      <4>1. \A t \in Threads : ~ThreadWay(t)
        BY <1>3, <2>3 DEF ThreadWay, ReadWay, WriteWay, TakeWay, SetWay, ConnWay, PostWay, WakeWay, GiveWay,
                          EndWay, PacketBut
      <4>2. EventWay
        BY <1>3, <2>3, <4>1, Ways DEF ClientWay
      <4> QED
        BY <1>3, <2>3, <4>2 DEF EventWay, LossWay, AnswerWay, SendWay, FoundWay, PacketBut
    <3>2. ev.b \in Requests /\ p = biz[ev.b].p /\ Found(ev.b)
      BY <3>1 DEF AnswerWay, AnswersOK, Found
    <3>3. PlaceOK(ev.b)
      BY <2>1, <3>2 DEF AnswersOK, Tired
    <3>4. Waiting(ev.b)
      BY <3>2, <3>3 DEF PlaceOK
    <3>5. packet[p].send \in Requests
      BY <3>2, <3>4, WaitingAlone
    <3> QED
      BY <3>5, SendStep
  <2> QED
    BY <2>2, <2>3
<1>4. \A b \in Requests : Tired(b)' \/ PlaceOK(b)'
  BY PlaceStep
<1>5. \A d \in Decoders : \A i \in DOMAIN asked'[d] : Sent(asked[d][i])'
  BY <1>1 DEF Sent
<1>6. (ev.at # "quiet" => ev.b \in Requests /\ Sent(ev.b) /\ ev.p = biz[ev.b].p)'
  BY <1>2 DEF Sent
<1> QED
  BY <1>3, <1>4, <1>5, <1>6 DEF AnswersOK
-----------------------------------------------------------------------------
(* Decoders: what is under way goes to the decoder that it is for.         *)

LEMMA SentFact ==
  ASSUME IInv, NumbersOK, NEW b \in Requests, Sent(b)
  PROVE  biz[b].at \in {"done", "queued"} /\ biz[b].dec \in Decoders
  BY HandsFact DEF IInv, Sent, NumbersOK

\* A request that may reach d may go on doing so.
LEMMA ToStays ==
  ASSUME IInv, NumbersOK, [Next]_vars, NEW b \in Requests, Sent(b)
  PROVE  /\ biz'[b].dec = biz[b].dec /\ (biz[b].left => biz'[b].left)
         /\ Tired(b) => biz'[b].p \in tired'
<1>0. biz[b].at \notin {"new", "found"}
  BY SentFact
<1>1. ASSUME NEW c \in Requests, ClientWay(c) PROVE biz'[b].dec = biz[b].dec /\ biz'[b].left = biz[b].left
  BY <1>0, <1>1 DEF ClientWay, BizBut
<1>2. ASSUME NEW t \in Threads, ThreadWay(t) PROVE biz'[b].dec = biz[b].dec /\ biz'[b].left = biz[b].left
  BY <1>2 DEF ThreadWay, ReadWay, WriteWay, TakeWay, SetWay, ConnWay, PostWay, WakeWay, GiveWay, EndWay,
              BizBut, SameBiz
<1>3. EventWay => biz'[b].dec = biz[b].dec /\ (biz[b].left => biz'[b].left)
  BY DEF EventWay, LossWay, AnswerWay, SendWay, FoundWay
<1>4. Tired(b) => biz'[b].p \in tired'
  BY TiredStays DEF Tired
<1> QED
  BY <1>1, <1>2, <1>3, <1>4, Ways

\* and so it may through a handle, as long as a thread waits for it.
LEMMA HandleStays ==
  ASSUME IInv, NumbersOK, [Next]_vars, NEW b \in Requests, Sent(b), NEW h \in Handles,
         Tired(b) \/ biz[b].at = "queued", To(who[h], b)
  PROVE  who'[h] = biz'[b].dec \/ biz'[b].left \/ biz'[b].p \in tired'
<1>1. CASE who' = who
  BY <1>1, ToStays DEF To
<1>2. CASE LossWay
  <2>1. CASE biz[b].left \/ Tired(b)
    BY <2>1, ToStays
  <2>2. CASE who[h] = biz[b].dec /\ biz[b].at = "queued"
    <3>1. who'[h] = who[h] \/ biz'[b].left
      BY <1>2, <2>2, SentFact DEF LossWay, UnderWay
    <3> QED
      BY <2>2, <3>1, ToStays
  <2> QED
    BY <2>1, <2>2 DEF To
<1>3. who' = who \/ LossWay
  BY Ways DEF ClientWay, ThreadWay, ReadWay, WriteWay, TakeWay, SetWay, ConnWay, PostWay, WakeWay, GiveWay,
              EndWay, EventWay, AnswerWay, SendWay, FoundWay
<1> QED
  BY <1>1, <1>2, <1>3

\* What is to be sent was so before, or has just been posted.
LEMMA EventsWay ==
  ASSUME IInv, NumbersOK, [Next]_vars, NEW i \in DOMAIN events'
  PROVE  \/ \E j \in DOMAIN events : events'[i] = events[j]
         \/ \E t \in Threads : PostWay(t) /\ events'[i] = [p |-> Mine(t), h |-> run[t].h]
<1>1. CASE events' = events
  BY <1>1
<1>2. CASE LossWay
  BY <1>2 DEF LossWay, Less
<1>3. CASE events # <<>> /\ events' = Tail(events)
  BY <1>3, EventFact, TailFact
<1>4. ASSUME NEW t \in Threads, PostWay(t), NEW e, e = [p |-> Mine(t), h |-> run[t].h],
             events' = Append(events, e)
      PROVE  events'[i] = e \/ \E j \in DOMAIN events : events'[i] = events[j]
  <2>1. Mine(t) \in Packets /\ run[t].h \in Handles
    BY <1>4 DEF PostWay, Goes, IInv, DataOK, Holding, At
  <2>2. e \in Sends
    BY <1>4, <2>1 DEF Sends
  <2>3. /\ i = Len(events) + 1 \/ i \in DOMAIN events
        /\ i = Len(events) + 1 => events'[i] = e
        /\ i \in DOMAIN events => events'[i] = events[i]
    BY <1>4, <2>2, EventFact, AppendFact
  <2> QED
    BY <2>3
<1>5. \/ events' = events \/ LossWay \/ (events # <<>> /\ events' = Tail(events))
      \/ \E t \in Threads : PostWay(t) /\ events' = Append(events, [p |-> Mine(t), h |-> run[t].h])
  BY Ways DEF ClientWay, ThreadWay, ReadWay, WriteWay, TakeWay, SetWay, ConnWay, PostWay, WakeWay, GiveWay,
              EndWay, EventWay, AnswerWay, SendWay, FoundWay
<1> QED
  BY <1>1, <1>2, <1>3, <1>4, <1>5

\* A packet is not given to another request while its own is to be sent,
\* unless a caller has stopped waiting for it.
LEMMA PostedStays ==
  ASSUME IInv, NumbersOK, SendsOK, AnswersOK, [Next]_vars, NEW j \in DOMAIN events
  PROVE  \/ packet'[events[j].p].send = packet[events[j].p].send
         \/ biz'[packet'[events[j].p].send].p \in tired'
<1> DEFINE q == events[j].p
           b == packet[q].send
<1>1. q \in Packets /\ b \in Requests
  BY EventFact
<1>2. biz[b].p = q
  BY <1>1 DEF SendsOK
<1>3. ASSUME NEW t \in Threads, SetWay(t), Mine(t) = q PROVE biz'[packet'[q].send].p \in tired'
  <2>1. Holding(t) /\ run[t].at = "set"
    BY <1>3 DEF SetWay, Goes, Holding
  <2>2. ~Waiting(b)
    BY <1>1, <1>2, <1>3, <2>1, WaitingFact DEF Waiting, At, Sending
  <2>3. Posted(b)
    BY DEF Posted
  <2>4. q \in tired
    BY <1>1, <1>2, <2>2, <2>3 DEF AnswersOK, PlaceOK, Tired
  <2>5. packet'[q].send = run[t].b /\ biz' = biz /\ biz[run[t].b].p = q /\ tired' = tired
    BY <1>3 DEF SetWay, Mine
  <2> QED
    BY <2>4, <2>5
<1>4. packet'[q].send = b \/ \E t \in Threads : SetWay(t) /\ Mine(t) = q
  BY <1>1, PacketStays
<1> QED
  BY <1>3, <1>4

LEMMA RouteStep ==
  ASSUME IInv, NumbersOK, SendsOK, AnswersOK, RouteOK, [Next]_vars
  PROVE  RouteOK'
<1>0. TypeOK /\ HandsOK /\ DataOK /\ \A d \in Decoders : asked[d] \in Seq(Requests)
  BY DEF IInv, TypeOK
<1>1. ASSUME NEW t \in Threads, run'[t].at = "post"
      PROVE  To(who[run[t].h], run[t].b)'
  <2>1. CASE run'[t] = run[t]
    <3>1. /\ run[t].h \in Handles /\ run[t].b \in Requests /\ biz[run[t].b].at = "queued"
          /\ Sent(run[t].b) /\ To(who[run[t].h], run[t].b)
      BY <1>0, <1>1, <2>1 DEF DataOK, HandsOK, At, Sent, Sending, RouteOK
    <3> QED
      BY <2>1, <3>1, HandleStays DEF To, Tired
  <2>2. CASE ConnWay(t)
    BY <1>1, <2>2 DEF ConnWay, Goes, To
  <2>3. run'[t] = run[t] \/ ConnWay(t)
    <3>1. ASSUME NEW u \in Threads, u # t, ThreadWay(u) PROVE run'[t] = run[t]
      BY <3>1 DEF ThreadWay, ReadWay, WriteWay, TakeWay, SetWay, ConnWay, PostWay, WakeWay, GiveWay, EndWay,
                  Goes, RunBut
    <3>2. ThreadWay(t) => ConnWay(t)
      BY <1>1 DEF ThreadWay, ReadWay, WriteWay, TakeWay, SetWay, PostWay, WakeWay, GiveWay, EndWay, Goes,
                  Resting
    <3>3. (\E c \in Requests : ClientWay(c)) \/ EventWay => run' = run
      BY DEF ClientWay, EventWay, LossWay, AnswerWay, SendWay, FoundWay
    <3> QED
      BY <3>1, <3>2, <3>3, Ways
  <2> QED
    BY <2>1, <2>2, <2>3
<1>2. ASSUME NEW i \in DOMAIN events', NEW e, e = events'[i]
      PROVE  To(who[e.h], packet[e.p].send)'
  <2>1. ASSUME NEW j \in DOMAIN events, e = events[j] PROVE To(who[e.h], packet[e.p].send)'
    <3> DEFINE b == packet[e.p].send
    <3>1. e.h \in Handles /\ e.p \in Packets /\ b \in Requests /\ Sent(b) /\ To(who[e.h], b)
      BY <2>1, EventFact DEF SendsOK, RouteOK
    <3>2. Tired(b) \/ biz[b].at = "queued"
      <4>1. Posted(b)
        BY <2>1 DEF Posted
      <4>2. Tired(b) \/ Waiting(b)
        BY <3>1, <4>1 DEF AnswersOK, PlaceOK
      <4> QED
        BY <1>0, <3>1, <4>2, HandsFact DEF Waiting
    <3>3. who'[e.h] = biz'[b].dec \/ biz'[b].left \/ biz'[b].p \in tired'
      BY <3>1, <3>2, HandleStays
    <3>4. packet'[e.p].send = b \/ biz'[packet'[e.p].send].p \in tired'
      BY <2>1, PostedStays
    <3> QED
      BY <3>3, <3>4 DEF To, Tired
  <2>2. ASSUME NEW t \in Threads, PostWay(t), e = [p |-> Mine(t), h |-> run[t].h]
        PROVE  To(who[e.h], packet[e.p].send)'
    <3>1. run[t].at = "post" /\ who' = who /\ biz' = biz /\ tired' = tired /\ packet' = packet
      BY <2>2 DEF PostWay, Goes
    <3>2. packet[Mine(t)].send = run[t].b /\ To(who[run[t].h], run[t].b)
      BY <3>1 DEF SendsOK, Sending, RouteOK, At
    <3>3. e.p = Mine(t) /\ e.h = run[t].h
      BY <2>2
    <3> QED
      BY <3>1, <3>2, <3>3 DEF To, Tired
  <2> QED
    BY <1>2, <2>1, <2>2, EventsWay
<1>3. ASSUME NEW d \in Decoders, NEW i \in DOMAIN asked'[d], NEW b, b = asked'[d][i]
      PROVE  d = biz'[b].dec \/ biz'[b].left \/ biz'[b].p \in tired'
  <2>1. b \in Requests /\ Sent(b) /\ To(d, b)
    <3>1. CASE \E j \in DOMAIN asked[d] : b = asked[d][j]
      BY <1>0, <3>1, ElementOfSeq, LenProperties DEF AnswersOK, RouteOK
    <3>2. CASE 1 \in DOMAIN events /\ d = who[events[1].h] /\ b = packet[events[1].p].send
      BY <3>2, EventFact DEF SendsOK, RouteOK
    <3> QED
      BY <1>3, <3>1, <3>2, AskedWay
  <2> QED
    BY <2>1, ToStays DEF To
<1>4. (\A t \in Threads : At(t, "post") => To(who[run[t].h], run[t].b))'
  BY <1>1 DEF At
<1>5. (\A i \in DOMAIN events : To(who[events[i].h], packet[events[i].p].send))'
  BY <1>2 DEF To, Tired
<1>6. (\A d \in Decoders : \A i \in DOMAIN asked[d] : To(d, asked[d][i]))'
  BY <1>3 DEF To, Tired
<1> QED
  BY <1>4, <1>5, <1>6 DEF RouteOK
-----------------------------------------------------------------------------
(* The three promises that rest on distinct numbers.                       *)

GotOK == \A b \in Requests : biz[b].at = "done" /\ biz[b].got \notin {0, b} => Tired(b)

LEMMA GotStep ==
  ASSUME IInv, NumbersOK, SendsOK, AnswersOK, GotOK, [Next]_vars
  PROVE  GotOK'
<1> SUFFICES ASSUME NEW b \in Requests, biz'[b].at = "done", biz'[b].got \notin {0, b}
             PROVE  biz'[b].p \in tired'
  BY DEF GotOK, Tired
<1>1. CASE biz[b].at = "done" /\ biz'[b].got = biz[b].got
  BY <1>1, TiredStays DEF GotOK, Tired
<1>2. ASSUME NEW t \in Threads, NEW c, EndWay(t, c), run[t].b = b PROVE biz'[b].p \in tired'
  <2>1. biz'[b].got = c /\ run[t].at = "woken" /\ c = packet[Mine(t)].recv /\ biz'[b].p = biz[b].p
    BY <1>2 DEF EndWay
  <2>2. c = packet[biz[b].p].recv /\ c # b
    BY <1>2, <2>1 DEF Mine
  <2>3. ~PlaceOK(b)
    BY <1>2, <2>1, <2>2 DEF PlaceOK, At
  <2>4. Tired(b)
    BY <2>3 DEF AnswersOK
  <2> QED
    BY <2>4, TiredStays DEF Tired
<1>3. ASSUME NEW c \in Requests, ClientWay(c) PROVE biz[b].at = "done" /\ biz'[b].got = biz[b].got
  BY <1>3 DEF ClientWay, BizBut
<1>4. ASSUME NEW t \in Threads, ThreadWay(t)
      PROVE  \/ biz[b].at = "done" /\ biz'[b].got = biz[b].got
             \/ run[t].b = b /\ \E c : EndWay(t, c)
  <2>1. CASE WriteWay(t) \/ TakeWay(t)
    BY <2>1 DEF WriteWay, TakeWay, BizBut, SameBiz, Goes
  <2>2. CASE ReadWay(t) \/ SetWay(t) \/ ConnWay(t) \/ PostWay(t) \/ WakeWay(t) \/ GiveWay(t)
    BY <2>2 DEF ReadWay, SetWay, ConnWay, PostWay, WakeWay, GiveWay
  <2>3. ASSUME NEW c, EndWay(t, c), run[t].b # b PROVE biz[b].at = "done" /\ biz'[b].got = biz[b].got
    BY <2>3 DEF EndWay, BizBut
  <2> QED
    BY <1>4, <2>1, <2>2, <2>3 DEF ThreadWay
<1>5. EventWay => biz[b].at = "done" /\ biz'[b].got = biz[b].got
  BY DEF EventWay, LossWay, AnswerWay, SendWay, FoundWay
<1> QED
  BY <1>1, <1>2, <1>3, <1>4, <1>5, Ways

JInv == /\ IInv /\ NumbersOK /\ SendsOK
        /\ ~Unlucky => WorkOK /\ AnswersOK /\ RouteOK /\ GotOK

LEMMA LuckyInitially == Init => JInv
<1> SUFFICES ASSUME Init PROVE JInv
  OBVIOUS
<1>1. IInv
  BY Initially
<1>2. /\ \A b \in Requests : biz[b].at = "new" /\ biz[b].no = 0 /\ biz[b].p = 0
      /\ \A t \in Threads : run[t].at = "rest"
      /\ \A p \in Packets : packet[p].no = 0 /\ packet[p].send = 0 /\ packet[p].ready = FALSE
      /\ DOMAIN work = {} /\ DOMAIN events = {} /\ \A d \in Decoders : DOMAIN asked[d] = {}
      /\ ev.at = "quiet" /\ DOMAIN free = Packets /\ \A p \in Packets : free[p] = p
  BY DEF Init, Unasked, Resting, Quiet
<1>3. 0 \notin Requests
  BY ConstFact
<1>4. NumbersOK
  BY <1>2 DEF NumbersOK
<1>5. SendsOK
  BY <1>2, <1>3 DEF SendsOK, Sending
<1>6. WorkOK
  BY <1>2 DEF WorkOK, Holding
<1>7. \A b \in Requests : PlaceOK(b)
  BY <1>2 DEF PlaceOK, Posted, Asked, Found, Answered, At
<1>8. AnswersOK
  BY <1>2, <1>7 DEF AnswersOK
<1>9. RouteOK /\ GotOK
  BY <1>2 DEF RouteOK, GotOK, At
<1> QED
  BY <1>1, <1>4, <1>5, <1>6, <1>8, <1>9 DEF JInv

LEMMA LuckyStep == JInv /\ [Next]_vars => JInv'
<1> SUFFICES ASSUME JInv, [Next]_vars PROVE JInv'
  OBVIOUS
<1>1. IInv /\ NumbersOK /\ SendsOK /\ IInv'
  BY Inductive DEF JInv
<1>2. NumbersOK' /\ SendsOK'
  BY <1>1, NumbersStep, SendsStep
<1>3. ASSUME ~Unlucky' PROVE (WorkOK /\ AnswersOK /\ RouteOK /\ GotOK)'
  <2>1. ~Unlucky
    BY <1>1, <1>3, LuckStep
  <2>2. WorkOK /\ AnswersOK /\ RouteOK /\ GotOK
    BY <2>1 DEF JInv
  <2>3. WorkOK' /\ AnswersOK'
    BY <1>1, <2>1, <2>2, WorkStep, AnswersStep
  <2>4. RouteOK' /\ GotOK'
    BY <1>1, <2>2, RouteStep, GotStep
  <2> QED
    BY <2>3, <2>4
<1> QED
  BY <1>1, <1>2, <1>3 DEF JInv

LEMMA Lucky == Spec => []JInv
<1> QED
  BY LuckyInitially, LuckyStep, PTL DEF Spec

LEMMA KeptFact == ASSUME JInv PROVE PacketsKept
<1> SUFFICES ASSUME ~Unlucky, NEW p \in Packets, NEW used \in BOOLEAN,
                    used = \E t \in Threads : Holding(t) /\ Mine(t) = p
             PROVE  /\ Cardinality({i \in DOMAIN work : work[i] = p}) = IF used THEN 1 ELSE 0
                    /\ (\E i \in DOMAIN free : free[i] = p) <=> used = FALSE
  BY DEF PacketsKept
<1>1. WorkOK /\ NotShared
  BY DEF JInv, IInv
<1>2. CASE used
  <2>1. PICK t \in Threads : Holding(t) /\ Mine(t) = p
    BY <1>2
  <2>2. PICK k \in DOMAIN work : work[k] = p
    BY <1>1, <2>1 DEF WorkOK
  <2>3. {i \in DOMAIN work : work[i] = p} = {k}
    BY <1>1, <2>2 DEF WorkOK
  <2>4. Cardinality({k}) = 1
    BY FS_Singleton
  <2>5. \A i \in DOMAIN free : free[i] # p
    BY <1>1, <2>1 DEF NotShared
  <2> QED
    BY <1>2, <2>3, <2>4, <2>5
<1>3. CASE ~used
  <2>1. {i \in DOMAIN work : work[i] = p} = {}
    BY <1>1, <1>3 DEF WorkOK
  <2>2. Cardinality({}) = 0
    BY FS_EmptySet
  <2>3. \E i \in DOMAIN free : free[i] = p
    BY <1>1, <1>3 DEF WorkOK
  <2> QED
    BY <1>3, <2>1, <2>2, <2>3
<1> QED
  BY <1>2, <1>3

\* For any number of threads and packets: as long as the numbers are distinct,
\* the list of packets at work holds exactly the packets that serve a request,
\* each once, and every other one is free.
THEOREM PacketsCorrect == Spec => []PacketsKept
<1>1. JInv => PacketsKept
  BY KeptFact
<1> QED
  BY <1>1, Lucky, PTL

\* As long as the numbers are distinct, a request that succeeds has got its own
\* answer, unless an earlier caller has stopped waiting for the same packet.
THEOREM OwnAnswerCorrect == Spec => []OwnAnswer
<1>1. JInv => OwnAnswer
  BY DEF JInv, OwnAnswer, GotOK, Tired
<1> QED
  BY <1>1, Lucky, PTL

\* As long as the numbers are distinct, a request reaches no decoder but its own,
\* unless that one left while the request was under way, or a caller has stopped
\* waiting for its packet.
THEOREM DeliveredCorrect == Spec => []Delivered
<1>1. JInv => Delivered
  BY DEF JInv, Delivered, RouteOK, To, Tired
<1> QED
  BY <1>1, Lucky, PTL
=============================================================================
