------------------------- MODULE DecoderConns_proof -------------------------
(* Theorems on the connections of remote decoders, for any number of       *)
(* handles, decoders and clients, and any capacity of the queue.           *)
EXTENDS DecoderConns, SequenceTheorems, FiniteSetTheorems, TLAPS

\* Events of a handle name one.
EventsOK ==
  /\ \A i \in DOMAIN queue : queue[i].type # "check" => queue[i].h # 0
  /\ ev.at # "idle" => ev.h # 0

\* A handle has one place: the pool, the accept thread, the list of
\* connections, or the event thread's hands.
Closed(h) == ~need[h] /\ sock[h] = "none" /\ dec[h] = None
OnePlace ==
  /\ \A i, j \in DOMAIN pool : i # j => pool[i] # pool[j]
  /\ \A i \in DOMAIN pool : Closed(pool[i]) /\ pool[i] # acc
  /\ acc # 0 => sock[acc] = "none" /\ dec[acc] = None
  /\ ev.at \in {"close", "back"} =>
       /\ ~need[ev.h] /\ dec[ev.h] = None /\ ev.h # acc
       /\ \A i \in DOMAIN pool : pool[i] # ev.h
  /\ ev.at = "back" => sock[ev.h] = "none"

\* UNREGISTER is the last message of a connection.
UnregisterLast(s) == \A i \in DOMAIN s : s[i] = "unregister" => i = Len(s)

\* What is read belongs to the connection of the handle: it is still the one
\* the messages came from.
ReadingOK ==
  /\ \A h \in Handles : UnregisterLast(inbox[h])
  /\ UnregisterLast(ev.left)
  /\ ev.at \in {"drop", "release", "close", "back"} => ev.left = <<>>
  /\ ev.at = "msg" /\ ev.left # <<>> =>
       /\ ev.from = who[ev.h] /\ ev.h # acc
       /\ \A i \in DOMAIN pool : pool[i] # ev.h

\* A decoder is linked to the handle of its own connection.
OwnHandle == \A h \in Handles : dec[h] # None => who[h] = dec[h]

\* A heartbeat check is for no handle, and the handle that UNREGISTER has
\* disconnected twice is counted no more.
NoHandleOK ==
  /\ \A i \in DOMAIN queue : queue[i].type = "check" => queue[i].h = 0
  /\ ev.again => ev.h \in lost

IInv ==
  /\ TypeOK /\ EventsOK /\ OnePlace /\ Linked /\ ReadingOK /\ OwnHandle
  /\ NoHandleOK /\ RefsBalanced /\ Watched
-----------------------------------------------------------------------------
(* What the operations make of a sequence.                                 *)

LEMMA SeqFact ==
  ASSUME NEW S, NEW s \in Seq(S)
  PROVE  /\ Len(s) \in Nat /\ DOMAIN s = 1..Len(s)
         /\ \A i \in DOMAIN s : s[i] \in S
  BY LenProperties, ElementOfSeq

LEMMA AppendFact ==
  ASSUME NEW S, NEW s \in Seq(S), NEW e \in S
  PROVE  /\ Append(s, e) \in Seq(S) /\ Len(Append(s, e)) = Len(s) + 1
         /\ DOMAIN Append(s, e) = 1..(Len(s) + 1)
         /\ \A i \in DOMAIN Append(s, e) :
              Append(s, e)[i] = IF i = Len(s) + 1 THEN e ELSE s[i]
         /\ \A i \in DOMAIN Append(s, e) : i = Len(s) + 1 \/ i \in DOMAIN s
  BY AppendProperties, LenProperties

LEMMA TailFact ==
  ASSUME NEW S, NEW s \in Seq(S), s # <<>>
  PROVE  /\ Head(s) = s[1] /\ 1 \in DOMAIN s /\ Head(s) \in S
         /\ Tail(s) \in Seq(S) /\ Len(Tail(s)) = Len(s) - 1 /\ Len(s) - 1 \in Nat
         /\ DOMAIN Tail(s) = 1..(Len(s) - 1)
         /\ \A i \in DOMAIN Tail(s) : Tail(s)[i] = s[i + 1] /\ i + 1 \in DOMAIN s
<1>1. Len(s) \in Nat /\ DOMAIN s = 1..Len(s) /\ Len(s) # 0
  BY LenProperties, EmptySeq
<1> QED
  BY <1>1, HeadTailProperties, LenProperties

LEMMA WithoutFact ==
  ASSUME NEW S, NEW s \in Seq(S), NEW k \in DOMAIN s
  PROVE  /\ Without(s, k) \in Seq(S)
         /\ DOMAIN Without(s, k) = 1..(Len(s) - 1)
         /\ \A i \in DOMAIN Without(s, k) :
              LET j == IF i < k THEN i ELSE i + 1
              IN  Without(s, k)[i] = s[j] /\ j \in DOMAIN s
<1> DEFINE a == SubSeq(s, 1, k - 1)
           b == SubSeq(s, k + 1, Len(s))
<1>1. Len(s) \in Nat /\ k \in 1..Len(s) /\ DOMAIN s = 1..Len(s) /\ \A i \in DOMAIN s : s[i] \in S
  BY SeqFact
<1>2. /\ a \in Seq(S) /\ Len(a) = k - 1
      /\ \A i \in 1..(k - 1) : a[i] = s[i]
  BY <1>1, SubSeqProperties
<1>3. /\ b \in Seq(S) /\ Len(b) = Len(s) - k
      /\ \A i \in 1..(Len(s) - k) : b[i] = s[k + i]
  BY <1>1, SubSeqProperties
<1> HIDE DEF a, b
<1>4. /\ a \o b \in Seq(S) /\ Len(a \o b) = Len(s) - 1
      /\ \A i \in 1..(Len(s) - 1) : (a \o b)[i] = IF i <= k - 1 THEN a[i] ELSE b[i - (k - 1)]
  <2>1. /\ a \o b \in Seq(S) /\ Len(a \o b) = Len(a) + Len(b)
        /\ \A i \in 1..(Len(a) + Len(b)) :
             (a \o b)[i] = IF i <= Len(a) THEN a[i] ELSE b[i - Len(a)]
    BY <1>2, <1>3, ConcatProperties
  <2>2. Len(a) + Len(b) = Len(s) - 1
    BY <1>1, <1>2, <1>3
  <2> QED
    BY <1>2, <2>1, <2>2
<1>5. DOMAIN (a \o b) = 1..(Len(s) - 1)
  BY <1>4, LenProperties
<1>6. \A i \in 1..(Len(s) - 1) :
        LET j == IF i < k THEN i ELSE i + 1
        IN  (a \o b)[i] = s[j] /\ j \in DOMAIN s
  <2> TAKE i \in 1..(Len(s) - 1)
  <2>1. CASE i < k
    <3>1. i \in 1..(k - 1) /\ i <= k - 1 /\ i \in 1..Len(s)
      BY <1>1, <2>1
    <3> QED
      BY <1>1, <1>2, <1>4, <2>1, <3>1
  <2>2. CASE ~(i < k)
    <3>1. /\ i - (k - 1) \in 1..(Len(s) - k) /\ ~(i <= k - 1) /\ i + 1 \in 1..Len(s)
          /\ k + (i - (k - 1)) = i + 1
      BY <1>1, <2>2
    <3>2. (a \o b)[i] = b[i - (k - 1)]
      BY <1>4, <3>1
    <3> QED
      BY <1>1, <1>3, <2>2, <3>1, <3>2
  <2> QED
    BY <2>1, <2>2
<1>7. Without(s, k) = a \o b
  BY DEF Without, a, b
<1> QED
  BY <1>4, <1>5, <1>6, <1>7
-----------------------------------------------------------------------------
(* Every step keeps the types.                                             *)

LEMMA AddEventType ==
  ASSUME TypeOK, EventsOK, NEW h \in Handles, NEW t \in {"recv", "send", "timeout"},
         AddEvent(t, h)
  PROVE  /\ refs' \in [Handles -> Nat] /\ lost' \subseteq Handles
         /\ queue' \in Seq(Events) /\ Len(queue') <= MaxEvents
         /\ \A i \in DOMAIN queue' : queue'[i].type # "check" => queue'[i].h # 0
<1>1. /\ queue \in Seq(Events) /\ Event(t, h) \in Events
      /\ Event(t, h).h = h /\ h # 0 /\ Len(queue) \in Nat /\ Len(queue) <= MaxEvents
  BY ConnAssumption, LenProperties DEF TypeOK, Events, Event, Handles
<1>2. refs' \in [Handles -> Nat] /\ lost' \subseteq Handles
  <2>1. refs \in [Handles -> Nat] /\ lost \subseteq Handles /\ refs[h] + 1 \in Nat
    BY DEF TypeOK
  <2>2. refs' = refs \/ refs' = [refs EXCEPT ![h] = refs[h] + 1]
    BY DEF AddEvent
  <2>3. lost' = lost \/ lost' = lost \cup {h}
    BY DEF AddEvent
  <2> QED
    BY <2>1, <2>2, <2>3
<1>3. CASE queue' = Append(queue, Event(t, h)) /\ Room(queue)
  BY <1>1, <1>2, <1>3, AppendFact, ConnAssumption DEF Room, EventsOK
<1>4. CASE queue' = queue
  BY <1>1, <1>2, <1>4 DEF EventsOK
<1> QED
  BY <1>3, <1>4 DEF AddEvent

\* The event that is handled leaves the queue.
LEMMA HandlingFact ==
  ASSUME TypeOK, EventsOK, NEW t, NEW rest, Handling(t, rest)
  PROVE  /\ Tail(queue) \in Seq(Events) /\ Len(Tail(queue)) = Len(queue) - 1
         /\ Len(queue) \in Nat /\ Len(Tail(queue)) \in Nat
         /\ Len(Tail(queue)) <= MaxEvents
         /\ \A i \in DOMAIN Tail(queue) : Tail(queue)[i].type # "check" => Tail(queue)[i].h # 0
         /\ Next1 \in Events /\ Next1.type = t
         /\ t # "check" => Next1.h \in Handles
<1>1. queue \in Seq(Events) /\ queue # <<>> /\ Next1.type = t
  BY DEF Handling, TypeOK
<1>2. Len(queue) \in Nat /\ Len(queue) <= MaxEvents
  BY <1>1, LenProperties DEF TypeOK
<1>3. Next1 = queue[1] /\ 1 \in DOMAIN queue /\ Next1 \in Events
  BY <1>1, TailFact DEF Next1
<1>4. t # "check" => Next1.h \in Handles
  BY <1>1, <1>3, ConnAssumption DEF EventsOK, Events, Handles
<1>5. \A i \in DOMAIN Tail(queue) : Tail(queue)[i].type # "check" => Tail(queue)[i].h # 0
  BY <1>1, TailFact DEF EventsOK
<1> QED
  BY <1>1, <1>2, <1>3, <1>4, <1>5, TailFact, ConnAssumption

LEMMA TypeOutside ==
  ASSUME TypeOK, EventsOK,
         \/ AcceptThread \/ HeartbeatTick
         \/ \E h \in Handles : HandleRecv(h) \/ HandleTimeout(h)
         \/ \E c \in Clients : SendRequest(c) \/ \E d \in Decoders : Lookup(c, d)
         \/ \E h \in Handles : \/ \E m \in Sent : Deliver(h, m)
                               \/ \E how \in {"broken", "silent"} : Fail(h, how)
  PROVE  TypeOK' /\ EventsOK'
<1> USE DEF TypeOK, handleVars, socketVars, decVars
<1>1. CASE Take
  <2>1. Head(pool) \in Handles /\ Tail(pool) \in Seq(Handles)
    BY <1>1, TailFact DEF Take
  <2> QED
    BY <1>1, <2>1 DEF Take, EventsOK, Handles
<1>2. ASSUME NEW d \in Decoders, Attach(d) PROVE TypeOK' /\ EventsOK'
  <2>1. <<>> \in Seq(Messages) /\ 0 \in 0..N /\ acc \in Handles
    BY <1>2, ConnAssumption DEF Attach, Handles
  <2> QED
    BY <1>2, <2>1 DEF Attach, EventsOK
<1>3. CASE HeartbeatTick
  <2>1. /\ queue \in Seq(Events) /\ Event("check", 0) \in Events
        /\ Event("check", 0).type = "check" /\ Len(queue) \in Nat
    BY ConnAssumption, LenProperties DEF Events, Event
  <2>2. /\ queue' \in Seq(Events) /\ Len(queue') <= MaxEvents
        /\ \A i \in DOMAIN queue' : queue'[i].type # "check" => queue'[i].h # 0
    BY <1>3, <2>1, AppendFact, ConnAssumption DEF HeartbeatTick, Room, EventsOK
  <2> QED
    BY <1>3, <2>2 DEF HeartbeatTick, EventsOK
<1>4. ASSUME NEW h \in Handles, HandleRecv(h) PROVE TypeOK' /\ EventsOK'
  BY <1>4, AddEventType DEF HandleRecv, EventsOK
<1>5. ASSUME NEW h \in Handles, HandleTimeout(h) PROVE TypeOK' /\ EventsOK'
  BY <1>5, AddEventType DEF HandleTimeout, EventsOK
<1>6. ASSUME NEW c \in Clients, SendRequest(c) PROVE TypeOK' /\ EventsOK'
  <2>1. client[c] \in Handles /\ 0 \in 0..N
    BY <1>6, ConnAssumption DEF SendRequest, Handles
  <2> QED
    BY <1>6, <2>1, AddEventType DEF SendRequest, EventsOK
<1>7. ASSUME NEW c \in Clients, NEW d \in Decoders, Lookup(c, d) PROVE TypeOK' /\ EventsOK'
  BY <1>7 DEF Lookup, EventsOK
<1>8. ASSUME NEW h \in Handles, NEW m \in Sent, Deliver(h, m) PROVE TypeOK' /\ EventsOK'
  <2>1. m \in Messages /\ Append(inbox[h], m) \in Seq(Messages)
    BY ConnAssumption, AppendFact DEF Messages
  <2> QED
    BY <1>8, <2>1 DEF Deliver, EventsOK
<1>9. ASSUME NEW h \in Handles, NEW how \in {"broken", "silent"}, Fail(h, how)
      PROVE TypeOK' /\ EventsOK'
  BY <1>9 DEF Fail, EventsOK
<1> QED
  BY <1>1, <1>2, <1>3, <1>4, <1>5, <1>6, <1>7, <1>8, <1>9 DEF AcceptThread

LEMMA TypeEvents ==
  ASSUME TypeOK, EventsOK,
         ProcMsg \/ RecvFails \/ ProcSendMsg \/ ProcConnTimeOut
  PROVE  TypeOK' /\ EventsOK'
<1> USE DEF TypeOK, handleVars, socketVars, decVars, Idle, On
<1>1. <<>> \in Seq(Messages) /\ \A h \in Handles : h \in 0..N /\ h # 0
  BY ConnAssumption DEF Handles
<1>2. CASE ProcMsg
  <2>1. Handling("recv", Tail(queue)) /\ Next1.h \in Handles
    BY <1>2, HandlingFact DEF ProcMsg
  <2> QED
    BY <1>1, <1>2, <2>1, HandlingFact DEF ProcMsg, EventsOK, Handling
<1>3. CASE RecvFails
  <2>1. Handling("recv", Tail(queue)) /\ Next1.h \in Handles
    BY <1>3, HandlingFact DEF RecvFails
  <2> QED
    BY <1>1, <1>3, <2>1, HandlingFact DEF RecvFails, EventsOK, Handling
<1>4. CASE ProcSendMsg
  <2>1. PICK type \in {"send", "beat"} : Handling(type, Tail(queue)) /\ Next1.h \in Handles
    BY <1>4, HandlingFact DEF ProcSendMsg
  <2>2. sock' = sock \/ sock' = [sock EXCEPT ![Next1.h] = "none"]
    BY <1>4 DEF ProcSendMsg, Send
  <2>3. sock' \in [Handles -> {"none", "open", "broken", "silent"}]
    BY <2>1, <2>2
  <2>4. \E place \in {"release", "drop"} : ev' = [Idle EXCEPT !.at = place, !.h = Next1.h]
    BY <1>4 DEF ProcSendMsg
  <2>5. /\ queue' = Tail(queue)
        /\ UNCHANGED <<pool, handleVars, read, who, inbox, decVars, acc, client, lost>>
    BY <1>4 DEF ProcSendMsg, Handling
  <2> QED
    BY <1>1, <2>1, <2>3, <2>4, <2>5, HandlingFact DEF EventsOK
<1>5. CASE ProcConnTimeOut
  <2>1. Handling("timeout", Tail(queue)) /\ Next1.h \in Handles
    BY <1>5, HandlingFact DEF ProcConnTimeOut
  <2> QED
    BY <1>1, <1>5, <2>1, HandlingFact DEF ProcConnTimeOut, EventsOK, Handling
<1> QED
  BY <1>2, <1>3, <1>4, <1>5

LEMMA TypeCheck ==
  ASSUME TypeOK, EventsOK, Linked, CheckHeartBeat
  PROVE  TypeOK' /\ EventsOK'
<1> DEFINE room == MaxEvents - Len(Tail(queue))
           fit == IF Len(work) < room THEN Len(work) ELSE room
           tried == IF fit < Len(work) THEN fit + 1 ELSE fit
           seen == {work[i] : i \in 1..tried}
           new == [i \in 1..fit |-> Event(Due(work[i]), conn[work[i]])]
<1>1. /\ Handling("check", Tail(queue) \o new)
      /\ beats' = [d \in Decoders |-> IF d \in seen THEN Beat(d) ELSE beats[d]]
      /\ refs' = Held(seen)
      /\ lost' = lost \cup {conn[work[i]] : i \in (fit + 1)..tried}
      /\ UNCHANGED <<pool, need, dec, timer, socketVars, work, conn, ev, acc, client>>
  BY DEF CheckHeartBeat
<1>2. Tail(queue) \in Seq(Events) /\ Len(Tail(queue)) \in Nat /\ Len(Tail(queue)) <= MaxEvents
  BY <1>1, HandlingFact
<1>3. /\ Len(work) \in Nat /\ DOMAIN work = 1..Len(work)
      /\ \A i \in DOMAIN work : work[i] \in Decoders
  BY SeqFact DEF TypeOK
<1>4. /\ fit \in Nat /\ fit <= Len(work) /\ Len(Tail(queue)) + fit <= MaxEvents
      /\ tried \in Nat /\ tried <= Len(work)
  BY <1>2, <1>3, ConnAssumption
<1> HIDE DEF fit, tried
<1>5. \A i \in 1..tried : i \in DOMAIN work /\ work[i] \in Decoders /\ conn[work[i]] \in Handles
  <2>1. \A i \in DOMAIN work : conn[work[i]] # 0 /\ conn[work[i]] \in 0..N
    BY <1>3 DEF Linked, Working, TypeOK
  <2> QED
    BY <1>3, <1>4, <2>1, ConnAssumption DEF Handles
<1>6. ASSUME NEW i \in 1..fit
      PROVE  /\ i \in 1..tried /\ new[i] \in Events
             /\ new[i].h # 0
  <2>1. i \in 1..tried
    BY <1>4 DEF tried
  <2>2. conn[work[i]] \in Handles /\ Due(work[i]) \in {"timeout", "beat"}
    BY <1>5, <2>1 DEF Due
  <2> QED
    BY <2>1, <2>2, ConnAssumption DEF Events, Event, Handles
<1>7. new \in Seq(Events) /\ Len(new) = fit
  BY <1>4, <1>6, IsASeq
<1> HIDE DEF new
<1>8. /\ queue' \in Seq(Events) /\ Len(queue') = Len(Tail(queue)) + fit
      /\ \A i \in 1..(Len(Tail(queue)) + fit) :
           queue'[i] = IF i <= Len(Tail(queue)) THEN Tail(queue)[i] ELSE new[i - Len(Tail(queue))]
  BY <1>1, <1>2, <1>7, ConcatProperties DEF Handling
<1>9. \A i \in DOMAIN queue' : queue'[i].type # "check" => queue'[i].h # 0
  <2> TAKE i \in DOMAIN queue'
  <2>1. i \in 1..(Len(Tail(queue)) + fit)
    BY <1>8, LenProperties
  <2>2. CASE i <= Len(Tail(queue))
    <3>1. i \in DOMAIN Tail(queue) /\ queue'[i] = Tail(queue)[i]
      BY <1>2, <1>8, <2>1, <2>2, LenProperties
    <3> QED
      BY <1>1, <3>1, HandlingFact
  <2>3. CASE ~(i <= Len(Tail(queue)))
    <3>1. i - Len(Tail(queue)) \in 1..fit
      BY <1>2, <1>4, <2>1, <2>3
    <3> QED
      BY <1>6, <1>8, <2>1, <2>3, <3>1
  <2> QED
    BY <2>2, <2>3
<1>10. refs' \in [Handles -> Nat] /\ beats' \in [Decoders -> Nat]
  BY <1>1 DEF Held, Beat, TypeOK
<1>11. lost' \subseteq Handles
  <2>1. \A i \in (fit + 1)..tried : i \in 1..tried
    BY <1>4
  <2> QED
    BY <1>1, <1>5, <2>1 DEF TypeOK
<1> QED
  BY <1>1, <1>4, <1>8, <1>9, <1>10, <1>11
  DEF TypeOK, EventsOK, Handling, socketVars

LEMMA TypeMessages ==
  ASSUME TypeOK, EventsOK,
         \/ AllRead \/ Unregister \/ HeartBeat \/ Answered
         \/ \E d \in Decoders : RegisterFails(d) \/ Register(d)
  PROVE  TypeOK' /\ EventsOK'
<1> USE DEF TypeOK, EventsOK, handleVars, socketVars, decVars
<1>1. ev.left # <<>> => Tail(ev.left) \in Seq(Messages)
  BY TailFact
<1>2. ev.at # "idle" => ev.h \in Handles
  BY ConnAssumption DEF Handles
<1>3. \A d : Cleared(d) \in [Decoders -> Nat]
  BY DEF Cleared
<1>4. ASSUME NEW ok \in BOOLEAN, Send(ev.h, ok)
      PROVE  sock' \in [Handles -> {"none", "open", "broken", "silent"}]
  BY <1>4 DEF Send
<1>5. CASE AllRead
  BY <1>5 DEF AllRead
<1>6. CASE Unregister
  BY <1>1, <1>2, <1>6 DEF Unregister, Reading
<1>7. CASE HeartBeat
  <2>1. /\ sock' \in [Handles -> {"none", "open", "broken", "silent"}]
        /\ \E ok \in BOOLEAN : Done(ok)
    BY <1>4, <1>7 DEF HeartBeat
  <2>2. beats' \in [Decoders -> Nat]
    <3>1. PICK d \in Decoders : beats' = Cleared(d)
      BY <1>7 DEF HeartBeat
    <3> QED
      BY <1>3, <3>1
  <2> QED
    BY <1>1, <1>2, <1>7, <2>1, <2>2 DEF HeartBeat, Reading, Done
<1>8. CASE Answered
  BY <1>1, <1>2, <1>3, <1>8 DEF Answered, Reading, Done
<1>9. ASSUME NEW d \in Decoders, RegisterFails(d) PROVE TypeOK' /\ EventsOK'
  <2>1. sock' \in [Handles -> {"none", "open", "broken", "silent"}]
    BY <1>4, <1>9 DEF RegisterFails
  <2> QED
    BY <1>1, <1>2, <1>9, <2>1 DEF RegisterFails, Reading, Done
<1>10. ASSUME NEW d \in Decoders, Register(d) PROVE TypeOK' /\ EventsOK'
  <2>1. sock' \in [Handles -> {"none", "open", "broken", "silent"}]
    BY <1>4, <1>10 DEF Register
  <2>2. ev.h \in Handles /\ ev.h \in 0..N
    BY <1>2, <1>10 DEF Register, Reading
  <2>3. Append(work, d) \in Seq(Decoders) /\ timer' \in [Handles -> BOOLEAN]
    BY <1>10, AppendFact DEF Register, CancelTimeOut
  <2>4. work' = work \/ work' = Append(work, d)
    BY <1>10 DEF Register
  <2>5. /\ conn' \in [Decoders -> 0..N] /\ beats' \in [Decoders -> Nat]
        /\ dec' \in [Handles -> Decoders \cup {None}]
    <3>1. CASE need[ev.h]
      <4>1. /\ beats' = [beats EXCEPT ![d] = 0] /\ conn' = [conn EXCEPT ![d] = ev.h]
            /\ dec' = [dec EXCEPT ![ev.h] = d]
        BY <1>10, <3>1 DEF Register
      <4> QED
        BY <2>2, <4>1
    <3>2. CASE ~need[ev.h]
      BY <1>10, <3>2 DEF Register
    <3> QED
      BY <3>1, <3>2
  <2>6. /\ ev' = [ev EXCEPT !.left = Tail(ev.left), !.ok = need[ev.h]] /\ ev.left # <<>>
        /\ UNCHANGED <<pool, need, refs, read, who, inbox, queue, acc, client, lost>>
    BY <1>10 DEF Register, Done, Reading
  <2> QED
    BY <1>1, <1>2, <2>1, <2>2, <2>3, <2>4, <2>5, <2>6
<1> QED
  BY <1>5, <1>6, <1>7, <1>8, <1>9, <1>10

LEMMA TypeRelease ==
  ASSUME TypeOK, EventsOK, Linked,
         Disconnect \/ ReleaseIgnored \/ ReleaseRef \/ Remove \/ PutBack
  PROVE  TypeOK' /\ EventsOK'
<1> USE DEF TypeOK, EventsOK, handleVars, socketVars, decVars
<1>1. ev.at # "idle" => ev.h \in Handles
  BY ConnAssumption DEF Handles
<1>2. 0 \in 0..N /\ <<>> \in Seq(Messages)
  BY ConnAssumption
<1>3. CASE Disconnect
  <2>1. work' \in Seq(Decoders)
    <3>1. CASE dec[ev.h] # None
      <4>1. \E i \in DOMAIN work : work[i] = dec[ev.h]
        BY <1>1, <1>3, <3>1 DEF Disconnect, Linked, Working
      <4> DEFINE k == CHOOSE i \in DOMAIN work : work[i] = dec[ev.h]
      <4>2. k \in DOMAIN work
        BY <4>1
      <4>3. work' = Without(work, k)
        BY <1>3, <3>1 DEF Disconnect
      <4> QED
        BY <4>2, <4>3, WithoutFact
    <3> QED
      BY <1>3, <3>1 DEF Disconnect
  <2>2. conn' \in [Decoders -> 0..N] /\ beats' \in [Decoders -> Nat]
    <3>1. CASE dec[ev.h] # None
      <4>1. conn' = [conn EXCEPT ![dec[ev.h]] = 0] /\ beats' = [beats EXCEPT ![dec[ev.h]] = 0]
        BY <1>3, <3>1 DEF Disconnect
      <4> QED
        BY <1>2, <4>1
    <3> QED
      BY <1>3, <3>1 DEF Disconnect
  <2>3. need' \in [Handles -> BOOLEAN] /\ dec' \in [Handles -> Decoders \cup {None}]
    BY <1>1, <1>3 DEF Disconnect
  <2> QED
    BY <1>1, <1>3, <2>1, <2>2, <2>3 DEF Disconnect
<1>4. CASE ReleaseIgnored
  BY <1>1, <1>2, <1>4 DEF ReleaseIgnored, Return, Idle
<1>5. CASE ReleaseRef
  <2>1. Left(ev.h) \in Nat /\ refs' \in [Handles -> Nat]
    BY <1>1, <1>5 DEF ReleaseRef, Left
  <2>2. \/ ev' = [ev EXCEPT !.at = "close"]
        \/ ev' = [ev EXCEPT !.at = "msg", !.again = FALSE]
        \/ ev' = Idle
    BY <1>5 DEF ReleaseRef, Return
  <2>3. ev.h \in Handles
    BY <1>1, <1>5 DEF ReleaseRef
  <2>4. UNCHANGED <<pool, need, dec, timer, socketVars, decVars, queue, acc, client, lost>>
    BY <1>5 DEF ReleaseRef
  <2>5. /\ ev' \in [at : {"idle", "msg", "drop", "release", "close", "back"}, h : 0..N,
                   from : Decoders \cup {None}, left : Seq(Messages), ok : BOOLEAN, again : BOOLEAN]
        /\ ev'.at # "idle" => ev'.h # 0
    <3>1. CASE ev' = [ev EXCEPT !.at = "close"]
      BY <1>5, <2>3, <3>1 DEF ReleaseRef
    <3>2. CASE ev' = [ev EXCEPT !.at = "msg", !.again = FALSE]
      BY <1>5, <2>3, <3>2 DEF ReleaseRef
    <3>3. CASE ev' = Idle
      BY <1>2, <3>3 DEF Idle
    <3> QED
      BY <2>2, <3>1, <3>2, <3>3
  <2> QED
    BY <2>1, <2>4, <2>5
<1>6. CASE Remove
  BY <1>1, <1>2, <1>6 DEF Remove
<1>7. CASE PutBack
  <2>1. pool' \in Seq(Handles)
    BY <1>1, <1>7, AppendFact DEF PutBack
  <2> QED
    BY <1>1, <1>2, <1>7, <2>1 DEF PutBack, Return, Idle
<1> QED
  BY <1>3, <1>4, <1>5, <1>6, <1>7

LEMMA TypeStep ==
  ASSUME TypeOK, EventsOK, Linked, Next
  PROVE  TypeOK' /\ EventsOK'
BY TypeOutside, TypeEvents, TypeCheck, TypeMessages, TypeRelease DEF Next, EventThread
-----------------------------------------------------------------------------
(* A handle has one place.                                                 *)

\* Nobody opens a closed socket but the accept thread, links a handle but
\* REGISTER, or takes one but the accept thread.
LEMMA PlaceKept ==
  ASSUME TypeOK, EventsOK, OnePlace, UNCHANGED <<pool, acc>>,
         \A h \in Handles : ~need[h] => ~need'[h],
         \A h \in Handles : sock[h] = "none" => sock'[h] = "none",
         \A h \in Handles : dec'[h] # None => dec[h] # None \/ (sock[h] # "none" /\ need[h]),
         ev'.at \in {"close", "back"} => ev'.at = ev.at /\ ev'.h = ev.h
  PROVE  OnePlace'
<1>1. \A i \in DOMAIN pool : pool[i] \in Handles
  BY SeqFact DEF TypeOK
<1>2. acc # 0 => acc \in Handles
  BY ConnAssumption DEF TypeOK, Handles
<1>3. ev.at # "idle" => ev.h \in Handles
  BY ConnAssumption DEF TypeOK, EventsOK, Handles
<1>4. \A h \in Handles : sock[h] = "none" /\ dec[h] = None => dec'[h] = None
  OBVIOUS
<1>5. \A h \in Handles : ~need[h] /\ dec[h] = None => dec'[h] = None
  OBVIOUS
<1> QED
  BY <1>1, <1>2, <1>3, <1>4, <1>5 DEF OnePlace, Closed

LEMMA PlaceStep ==
  ASSUME TypeOK, EventsOK, OnePlace, Linked, Next
  PROVE  OnePlace'
<1> USE DEF handleVars, socketVars, decVars
<1>1. ev.at # "idle" => ev.h \in Handles
  BY ConnAssumption DEF TypeOK, EventsOK, Handles
<1>2. /\ Len(pool) \in Nat /\ DOMAIN pool = 1..Len(pool)
      /\ \A i \in DOMAIN pool : pool[i] \in Handles /\ pool[i] # 0
  <2>1. pool \in Seq(Handles) /\ \A h \in Handles : h # 0
    BY ConnAssumption DEF TypeOK, Handles
  <2> QED
    BY <2>1, SeqFact
<1>22. /\ need \in [Handles -> BOOLEAN] /\ dec \in [Handles -> Decoders \cup {None}]
       /\ sock \in [Handles -> {"none", "open", "broken", "silent"}] /\ acc \in 0..N
  BY DEF TypeOK
<1>3. CASE Take
  <2>1. /\ acc = 0 /\ acc' = Head(pool) /\ pool' = Tail(pool)
        /\ need' = [need EXCEPT ![Head(pool)] = TRUE]
        /\ UNCHANGED <<sock, dec, ev>>
    BY <1>3 DEF Take
  <2>2. /\ Head(pool) = pool[1] /\ 1 \in DOMAIN pool
        /\ \A i \in DOMAIN pool' : pool'[i] = pool[i + 1] /\ i + 1 \in DOMAIN pool
    BY <1>3, TailFact DEF Take, TypeOK
  <2>3. \A i \in DOMAIN pool' : i \in Nat /\ i + 1 # 1
    BY <1>2, <1>3, TailFact DEF Take
  <2>4. ASSUME NEW i \in DOMAIN pool'
        PROVE  /\ ~need'[pool'[i]] /\ sock'[pool'[i]] = "none" /\ dec'[pool'[i]] = None
               /\ pool'[i] # acc'
    <3>1. pool'[i] = pool[i + 1] /\ pool[i + 1] # pool[1] /\ pool[i + 1] \in Handles
      BY <1>2, <2>2, <2>3 DEF OnePlace
    <3> QED
      BY <1>22, <2>1, <2>2, <3>1 DEF OnePlace, Closed
  <2>5. \A i, j \in DOMAIN pool' : i # j => pool'[i] # pool'[j]
    BY <2>2, <2>3 DEF OnePlace
  <2>6. acc' # 0 => sock'[acc'] = "none" /\ dec'[acc'] = None
    BY <2>1, <2>2 DEF OnePlace, Closed
  <2>7. ev'.at \in {"close", "back"} =>
          /\ ~need'[ev'.h] /\ dec'[ev'.h] = None /\ ev'.h # acc'
          /\ \A i \in DOMAIN pool' : pool'[i] # ev'.h
    BY <1>1, <1>2, <1>22, <2>1, <2>2 DEF OnePlace
  <2> QED
    BY <2>1, <2>4, <2>5, <2>6, <2>7 DEF OnePlace, Closed
<1>4. ASSUME NEW d \in Decoders, Attach(d) PROVE OnePlace'
  <2>1. /\ acc # 0 /\ acc' = 0 /\ acc \in Handles /\ sock' = [sock EXCEPT ![acc] = "open"]
        /\ UNCHANGED <<pool, need, dec, ev>>
    BY <1>4, <1>22, ConnAssumption DEF Attach, Handles
  <2>2. \A i \in DOMAIN pool : sock'[pool[i]] = sock[pool[i]]
    BY <1>2, <1>22, <2>1 DEF OnePlace
  <2> QED
    BY <1>1, <1>2, <1>22, <2>1, <2>2 DEF OnePlace, Closed
<1>5. CASE ReleaseRef
  <2>1. CASE ev' = [ev EXCEPT !.at = "close"] /\ ~need[ev.h]
    <3>1. dec[ev.h] = None
      BY <1>1, <1>5, <2>1 DEF ReleaseRef, Linked
    <3>2. \A i \in DOMAIN pool : pool[i] # ev.h
      BY <1>5 DEF ReleaseRef, OnePlace, Closed
    <3>3. ev.h # acc
      BY <1>1, <1>5, <1>22, ConnAssumption DEF ReleaseRef, OnePlace, Handles
    <3>4. UNCHANGED <<pool, need, dec, sock, acc>> /\ ev'.h = ev.h /\ ev'.at = "close"
      BY <1>5, <2>1 DEF ReleaseRef
    <3> QED
      BY <3>1, <3>2, <3>3, <3>4, <2>1 DEF OnePlace, Closed
  <2>2. CASE Return
    <3>1. UNCHANGED <<pool, need, dec, sock, acc>> /\ ev'.at \notin {"close", "back"}
      BY <1>5, <2>2 DEF ReleaseRef, Return, Idle
    <3> QED
      BY <3>1, PlaceKept
  <2> QED
    BY <1>5, <2>1, <2>2 DEF ReleaseRef, Unused
<1>6. CASE Remove
  <2>1. /\ ev.at = "close" /\ ev'.h = ev.h /\ dec' = [dec EXCEPT ![ev.h] = None]
        /\ sock' = [sock EXCEPT ![ev.h] = "none"] /\ UNCHANGED <<pool, need, acc>> /\ acc = 0
        /\ ev'.at = "back"
    BY <1>6 DEF Remove
  <2> QED
    BY <1>1, <1>2, <1>22, <2>1 DEF OnePlace, Closed
<1>7. CASE PutBack
  <2>1. /\ pool' = Append(pool, ev.h) /\ ev.at = "back" /\ ev.h \in Handles
        /\ UNCHANGED <<need, dec, sock, acc>> /\ ev'.at \notin {"close", "back"}
    BY <1>1, <1>7 DEF PutBack, Return, Idle
  <2>2. /\ DOMAIN pool' = 1..(Len(pool) + 1)
        /\ \A i \in DOMAIN pool' : pool'[i] = IF i = Len(pool) + 1 THEN ev.h ELSE pool[i]
        /\ \A i \in DOMAIN pool' : i = Len(pool) + 1 \/ i \in DOMAIN pool
    BY <2>1, AppendFact DEF TypeOK
  <2>3. Closed(ev.h) /\ ev.h # acc /\ \A i \in DOMAIN pool : pool[i] # ev.h
    BY <2>1 DEF OnePlace, Closed
  <2> QED
    BY <1>2, <2>1, <2>2, <2>3 DEF OnePlace, Closed
<1>8. ASSUME NEW d \in Decoders, Register(d) PROVE OnePlace'
  BY <1>1, <1>22, <1>8, PlaceKept DEF Register, Reading, Done, Send
<1>9. ASSUME NEW d \in Decoders, RegisterFails(d) PROVE OnePlace'
  BY <1>1, <1>22, <1>9, PlaceKept DEF RegisterFails, Reading, Done, Send
<1>10. CASE HeartBeat
  <2>1. sock' = sock \/ sock' = [sock EXCEPT ![ev.h] = "none"]
    BY <1>10 DEF HeartBeat, Send
  <2>2. ev'.at = "msg" /\ UNCHANGED <<pool, acc, need, dec>>
    BY <1>10 DEF HeartBeat, Reading, Done, TypeOK
  <2> QED
    BY <1>1, <1>10, <1>22, <2>1, <2>2, PlaceKept DEF HeartBeat, Reading
<1>11. CASE Unregister \/ Answered \/ AllRead
  <2>1. ev'.at \in {"msg", "drop", "release"} /\ UNCHANGED <<pool, acc, need, dec, sock>>
    BY <1>11 DEF Unregister, Answered, AllRead, Reading, Done, TypeOK
  <2> QED
    BY <2>1, PlaceKept
<1>12. CASE Disconnect
  BY <1>1, <1>22, <1>12, PlaceKept DEF Disconnect
<1>13. CASE ReleaseIgnored
  BY <1>22, <1>13, PlaceKept DEF ReleaseIgnored, Return, Idle
<1>14. CASE ProcMsg \/ RecvFails \/ ProcConnTimeOut
  BY <1>22, <1>14, PlaceKept DEF ProcMsg, RecvFails, ProcConnTimeOut, On, Idle
<1>15. CASE ProcSendMsg
  <2>1. PICK type \in {"send", "beat"} : Handling(type, Tail(queue)) /\ Next1.h \in Handles
    BY <1>15, HandlingFact DEF ProcSendMsg
  <2>2. sock' = sock \/ sock' = [sock EXCEPT ![Next1.h] = "none"]
    BY <1>15 DEF ProcSendMsg, Send
  <2>3. UNCHANGED <<pool, acc, need, dec>> /\ ev'.at \notin {"close", "back"}
    BY <1>15 DEF ProcSendMsg, On, Idle
  <2> QED
    BY <1>22, <2>1, <2>2, <2>3, PlaceKept
<1>16. CASE CheckHeartBeat
  BY <1>22, <1>16, PlaceKept DEF CheckHeartBeat
<1>17. CASE HeartbeatTick
  BY <1>22, <1>17, PlaceKept DEF HeartbeatTick
<1>18. ASSUME NEW h \in Handles, HandleRecv(h) \/ HandleTimeout(h) PROVE OnePlace'
  BY <1>22, <1>18, PlaceKept DEF HandleRecv, HandleTimeout
<1>19. ASSUME NEW c \in Clients, SendRequest(c) \/ \E d \in Decoders : Lookup(c, d)
       PROVE  OnePlace'
  BY <1>22, <1>19, PlaceKept DEF SendRequest, Lookup
<1>20. ASSUME NEW h \in Handles, NEW m \in Sent, Deliver(h, m) PROVE OnePlace'
  BY <1>22, <1>20, PlaceKept DEF Deliver
<1>21. ASSUME NEW h \in Handles, NEW how \in {"broken", "silent"}, Fail(h, how) PROVE OnePlace'
  BY <1>22, <1>21, PlaceKept DEF Fail
<1> QED
  BY <1>3, <1>4, <1>5, <1>6, <1>7, <1>8, <1>9, <1>10, <1>11, <1>12, <1>13, <1>14, <1>15,
     <1>16, <1>17, <1>18, <1>19, <1>20, <1>21 DEF Next, EventThread, AcceptThread
-----------------------------------------------------------------------------
(* A decoder and its connection point at each other.                       *)

\* Who does not touch a linked handle leaves the links alone.
LEMMA LinkKept ==
  ASSUME Linked, OwnHandle, UNCHANGED <<work, conn, dec>>,
         \A h \in Handles : dec[h] # None =>
           /\ need[h] => need'[h]
           /\ timer'[h] => timer[h]
           /\ who'[h] = who[h]
  PROVE  Linked' /\ OwnHandle'
BY DEF Linked, OwnHandle, Working

\* REGISTER of a decoder that is not at work.
LEMMA LinkRegister ==
  ASSUME TypeOK, EventsOK, Linked, OwnHandle, ReadingOK,
         NEW d \in Decoders, Register(d)
  PROVE  Linked' /\ OwnHandle'
<1>1. /\ ev.at = "msg" /\ ev.left # <<>> /\ d = ev.from /\ d \notin Working
      /\ UNCHANGED <<need, who>> /\ timer' = [timer EXCEPT ![ev.h] = FALSE]
  BY DEF Register, Reading, CancelTimeOut
<1>2. /\ ev.h \in Handles /\ d = who[ev.h] /\ d # None
      /\ timer \in [Handles -> BOOLEAN] /\ dec \in [Handles -> Decoders \cup {None}]
      /\ conn \in [Decoders -> 0..N] /\ work \in Seq(Decoders) /\ ev.h # 0
  BY <1>1, ConnAssumption DEF TypeOK, EventsOK, Handles, ReadingOK
<1>3. dec[ev.h] = None
  BY <1>1, <1>2 DEF Linked, OwnHandle
<1>4. CASE need[ev.h]
  <2>1. /\ work' = Append(work, d) /\ conn' = [conn EXCEPT ![d] = ev.h]
        /\ dec' = [dec EXCEPT ![ev.h] = d]
    BY <1>4 DEF Register
  <2>2. /\ Len(work) \in Nat /\ DOMAIN work = 1..Len(work)
        /\ DOMAIN work' = 1..(Len(work) + 1)
        /\ \A i \in DOMAIN work' : work'[i] = IF i = Len(work) + 1 THEN d ELSE work[i]
        /\ \A i \in DOMAIN work' : i = Len(work) + 1 \/ i \in DOMAIN work
    BY <1>2, <2>1, AppendFact, SeqFact
  <2>3. \A i \in DOMAIN work : work[i] # d
    BY <1>1 DEF Working
  <2>4. \A i, j \in DOMAIN work' : i # j => work'[i] # work'[j]
    BY <2>2, <2>3 DEF Linked
  <2>5. Working' = Working \cup {d}
    BY <2>2 DEF Working
  <2>6. \A h \in Handles : dec'[h] # None =>
          need'[h] /\ ~timer'[h] /\ dec'[h] \in Working' /\ conn'[dec'[h]] = h
    <3> TAKE h \in Handles
    <3>1. CASE h = ev.h
      BY <1>1, <1>2, <1>4, <2>1, <2>5, <3>1
    <3>2. CASE h # ev.h
      BY <1>1, <1>2, <2>1, <2>5, <3>2 DEF Linked
    <3> QED
      BY <3>1, <3>2
  <2>7. \A e \in Working' : conn'[e] # 0 /\ dec'[conn'[e]] = e
    <3> TAKE e \in Working'
    <3>1. CASE e = d
      BY <1>2, <2>1, <3>1
    <3>2. CASE e # d
      <4>1. e \in Working /\ e \in Decoders /\ conn[e] # 0 /\ dec[conn[e]] = e /\ conn[e] \in Handles
        <5>1. e \in Working /\ e \in Decoders
          <6>1. e \in Working
            BY <2>5, <3>2
          <6>2. \E i \in DOMAIN work : work[i] = e
            BY <6>1 DEF Working
          <6> QED
            BY <1>2, <6>1, <6>2, SeqFact
        <5>2. conn[e] \in 0..N /\ conn[e] # 0 /\ dec[conn[e]] = e
          BY <1>2, <5>1 DEF Linked
        <5> QED
          BY <5>1, <5>2, ConnAssumption DEF Handles
      <4>2. conn[e] # ev.h
        BY <1>2, <1>3, <4>1, ConnAssumption
      <4> QED
        BY <1>2, <2>1, <3>2, <4>1, <4>2
    <3> QED
      BY <3>1, <3>2
  <2>8. OwnHandle'
    BY <1>1, <1>2, <2>1 DEF OwnHandle
  <2> QED
    BY <2>4, <2>6, <2>7, <2>8 DEF Linked
<1>5. CASE ~need[ev.h]
  <2>1. UNCHANGED <<work, conn, dec>>
    BY <1>5 DEF Register, decVars
  <2> QED
    BY <1>1, <1>2, <2>1, LinkKept
<1> QED
  BY <1>4, <1>5

LEMMA LinkDisconnect ==
  ASSUME TypeOK, EventsOK, Linked, OwnHandle, Disconnect
  PROVE  Linked' /\ OwnHandle'
<1>1. /\ need' = [need EXCEPT ![ev.h] = FALSE] /\ dec' = [dec EXCEPT ![ev.h] = None]
      /\ UNCHANGED <<timer, who>> /\ ev.h \in Handles
      /\ need \in [Handles -> BOOLEAN] /\ dec \in [Handles -> Decoders \cup {None}]
      /\ conn \in [Decoders -> 0..N] /\ work \in Seq(Decoders)
  BY ConnAssumption DEF Disconnect, TypeOK, EventsOK, Handles, socketVars
<1>2. CASE dec[ev.h] # None
  <2> DEFINE d == dec[ev.h]
             k == CHOOSE i \in DOMAIN work : work[i] = d
  <2>1. d \in Decoders /\ d \in Working /\ conn[d] = ev.h
    BY <1>1, <1>2 DEF Linked
  <2>2. k \in DOMAIN work /\ work[k] = d
    BY <2>1 DEF Working
  <2>3. work' = Without(work, k) /\ conn' = [conn EXCEPT ![d] = 0]
    BY <1>2 DEF Disconnect
  <2> HIDE DEF k
  <2>4. /\ \A i \in DOMAIN work : i \in Nat
        /\ DOMAIN work' = 1..(Len(work) - 1)
        /\ \A i \in DOMAIN work' :
             LET j == IF i < k THEN i ELSE i + 1
             IN  work'[i] = work[j] /\ j \in DOMAIN work
    <3>1. \A i \in DOMAIN work : i \in Nat
      BY <1>1, SeqFact
    <3> QED
      BY <1>1, <2>2, <2>3, <3>1, WithoutFact
  <2>5. \A i, j \in DOMAIN work' : i # j => work'[i] # work'[j]
    <3> TAKE i, j \in DOMAIN work'
    <3> DEFINE a == IF i < k THEN i ELSE i + 1
               b == IF j < k THEN j ELSE j + 1
    <3>1. i \in Nat /\ j \in Nat /\ k \in Nat
      BY <1>1, <2>2, <2>4, SeqFact
    <3>2. i # j => a # b
      BY <3>1
    <3>3. a \in DOMAIN work /\ b \in DOMAIN work /\ work'[i] = work[a] /\ work'[j] = work[b]
      BY <2>4
    <3> QED
      BY <3>2, <3>3 DEF Linked
  <2>6. ASSUME NEW i \in DOMAIN work'
        PROVE  work'[i] \in Working /\ work'[i] # d
    <3> DEFINE a == IF i < k THEN i ELSE i + 1
    <3>1. a \in DOMAIN work /\ work'[i] = work[a]
      BY <2>4
    <3>2. i \in Nat /\ k \in Nat
      BY <1>1, <2>2, <2>4, SeqFact
    <3>3. a # k
      BY <3>2
    <3> QED
      BY <2>2, <3>1, <3>3 DEF Linked, Working
  <2>7. ASSUME NEW e \in Working, e # d
        PROVE  e \in Working'
    <3>1. PICK a \in DOMAIN work : work[a] = e
      BY DEF Working
    <3>2. a # k /\ a \in 1..Len(work) /\ k \in 1..Len(work) /\ Len(work) \in Nat
      BY <1>1, <2>2, <2>7, <3>1, SeqFact
    <3> DEFINE i == IF a < k THEN a ELSE a - 1
    <3>3. i \in 1..(Len(work) - 1) /\ (IF i < k THEN i ELSE i + 1) = a
      BY <3>2
    <3>4. work'[i] = e
      BY <2>4, <3>1, <3>3
    <3> QED
      BY <2>4, <3>3, <3>4 DEF Working
  <2>8. \A e : e \in Working' <=> e \in Working /\ e # d
    BY <2>6, <2>7 DEF Working
  <2>9. \A h \in Handles : dec'[h] # None =>
          need'[h] /\ ~timer'[h] /\ dec'[h] \in Working' /\ conn'[dec'[h]] = h
    <3> TAKE h \in Handles
    <3> HAVE dec'[h] # None
    <3>1. h # ev.h /\ dec'[h] = dec[h] /\ dec[h] # d
      BY <1>1, <2>1 DEF Linked
    <3> QED
      BY <1>1, <2>1, <2>3, <2>8, <3>1 DEF Linked
  <2>10. \A e \in Working' : conn'[e] # 0 /\ dec'[conn'[e]] = e
    <3> TAKE e \in Working'
    <3>1. e \in Working /\ e # d /\ conn[e] # 0 /\ dec[conn[e]] = e
      BY <2>8 DEF Linked
    <3>2. e \in Decoders /\ conn[e] \in Handles /\ conn[e] # ev.h
      BY <1>1, <3>1, SeqFact, ConnAssumption DEF Working, Handles
    <3> QED
      BY <1>1, <2>3, <3>1, <3>2
  <2>11. OwnHandle'
    BY <1>1 DEF OwnHandle
  <2> QED
    BY <2>5, <2>9, <2>10, <2>11 DEF Linked
<1>3. CASE dec[ev.h] = None
  <2>1. UNCHANGED <<work, conn, dec>>
    BY <1>1, <1>3 DEF Disconnect, decVars
  <2> QED
    BY <1>1, <1>3, <2>1, LinkKept
<1> QED
  BY <1>2, <1>3

LEMMA LinkStep ==
  ASSUME TypeOK, EventsOK, OnePlace, Linked, OwnHandle, ReadingOK, Next
  PROVE  Linked' /\ OwnHandle'
<1> USE DEF handleVars, socketVars, decVars
<1>1. /\ ev.at # "idle" => ev.h \in Handles
      /\ need \in [Handles -> BOOLEAN] /\ dec \in [Handles -> Decoders \cup {None}]
      /\ timer \in [Handles -> BOOLEAN] /\ who \in [Handles -> Decoders \cup {None}]
      /\ acc # 0 => acc \in Handles
  BY ConnAssumption DEF TypeOK, EventsOK, Handles
<1>2. CASE Take
  BY <1>1, <1>2, LinkKept DEF Take
<1>3. ASSUME NEW d \in Decoders, Attach(d) PROVE Linked' /\ OwnHandle'
  <2>1. /\ acc \in Handles /\ dec[acc] = None /\ UNCHANGED <<need, dec, work, conn>>
        /\ timer' = [timer EXCEPT ![acc] = TRUE] /\ who' = [who EXCEPT ![acc] = d]
    BY <1>1, <1>3 DEF Attach, OnePlace
  <2> QED
    BY <1>1, <2>1, LinkKept
<1>4. CASE HeartbeatTick
  BY <1>4, LinkKept DEF HeartbeatTick
<1>5. ASSUME NEW h \in Handles, HandleRecv(h) PROVE Linked' /\ OwnHandle'
  BY <1>5, LinkKept DEF HandleRecv
<1>6. ASSUME NEW h \in Handles, HandleTimeout(h) PROVE Linked' /\ OwnHandle'
  BY <1>1, <1>6, LinkKept DEF HandleTimeout
<1>7. ASSUME NEW c \in Clients, SendRequest(c) \/ \E d \in Decoders : Lookup(c, d)
      PROVE  Linked' /\ OwnHandle'
  BY <1>7, LinkKept DEF SendRequest, Lookup
<1>8. ASSUME NEW h \in Handles,
             \/ \E m \in Sent : Deliver(h, m)
             \/ \E how \in {"broken", "silent"} : Fail(h, how)
      PROVE  Linked' /\ OwnHandle'
  BY <1>8, LinkKept DEF Deliver, Fail
<1>9. CASE ProcMsg \/ RecvFails \/ ProcSendMsg \/ ProcConnTimeOut
  <2>1. UNCHANGED <<work, conn, dec, need, timer, who>>
    BY <1>9 DEF ProcMsg, RecvFails, ProcSendMsg, ProcConnTimeOut
  <2> QED
    BY <2>1, LinkKept
<1>10. CASE CheckHeartBeat
  BY <1>10, LinkKept DEF CheckHeartBeat
<1>11. CASE AllRead \/ Unregister \/ HeartBeat \/ Answered \/ \E d \in Decoders : RegisterFails(d)
  <2>1. UNCHANGED <<work, conn, dec, need, timer, who>>
    BY <1>11 DEF AllRead, Unregister, HeartBeat, Answered, RegisterFails
  <2> QED
    BY <2>1, LinkKept
<1>12. CASE ReleaseIgnored \/ ReleaseRef \/ PutBack
  <2>1. UNCHANGED <<work, conn, dec, need, timer, who>>
    BY <1>12 DEF ReleaseIgnored, ReleaseRef, PutBack
  <2> QED
    BY <2>1, LinkKept
<1>13. CASE Remove
  <2>1. /\ ev.h \in Handles /\ dec[ev.h] = None
        /\ dec' = [dec EXCEPT ![ev.h] = None] /\ who' = [who EXCEPT ![ev.h] = None]
        /\ UNCHANGED <<work, conn, need, timer>>
    BY <1>1, <1>13 DEF Remove, OnePlace
  <2>2. dec' = dec
    BY <1>1, <2>1
  <2> QED
    BY <1>1, <2>1, <2>2, LinkKept
<1> QED
  BY <1>2, <1>3, <1>4, <1>5, <1>6, <1>7, <1>8, <1>9, <1>10, <1>11, <1>12, <1>13,
     LinkRegister, LinkDisconnect DEF Next, EventThread, AcceptThread
-----------------------------------------------------------------------------
(* What is read belongs to the connection of the handle.                   *)

\* Who does not touch the messages that are being read, or their handle.
LEMMA ReadKept ==
  ASSUME ReadingOK, UNCHANGED inbox,
         UnregisterLast(ev'.left),
         ev'.at \in {"drop", "release", "close", "back"} => ev'.left = <<>>,
         ev'.at = "msg" /\ ev'.left # <<>> =>
           /\ ev'.from = who'[ev'.h] /\ ev'.h # acc'
           /\ \A i \in DOMAIN pool' : pool'[i] # ev'.h
  PROVE  ReadingOK'
BY DEF ReadingOK, UnregisterLast

\* The event thread reads on, or stops reading.
LEMMA ReadOn ==
  ASSUME TypeOK, ReadingOK, UNCHANGED <<inbox, who, acc, pool>>,
         ev.at = "msg", ev'.at = "msg", ev.left # <<>>, ev'.left = Tail(ev.left),
         UNCHANGED <<ev.h, ev.from>>
  PROVE  ReadingOK'
<1>1. /\ ev.left \in Seq(Messages)
      /\ Len(Tail(ev.left)) = Len(ev.left) - 1
      /\ \A i \in DOMAIN Tail(ev.left) :
           Tail(ev.left)[i] = ev.left[i + 1] /\ i + 1 \in DOMAIN ev.left /\ i \in Nat
      /\ Len(ev.left) \in Nat
  <2>1. ev.left \in Seq(Messages)
    BY DEF TypeOK
  <2> QED
    BY <2>1, TailFact, SeqFact
<1>2. UnregisterLast(ev'.left)
  BY <1>1 DEF UnregisterLast, ReadingOK
<1>3. ev'.from = who'[ev'.h] /\ ev'.h # acc' /\ \A i \in DOMAIN pool' : pool'[i] # ev'.h
  BY DEF ReadingOK
<1> QED
  BY <1>2, <1>3, ReadKept

\* Nothing is left to read.
LEMMA ReadNone ==
  ASSUME ReadingOK, UNCHANGED inbox, ev'.left = <<>>
  PROVE  ReadingOK'
BY ReadKept DEF UnregisterLast

LEMMA ReadStep ==
  ASSUME TypeOK, EventsOK, OnePlace, ReadingOK, Next
  PROVE  ReadingOK'
<1> USE DEF handleVars, socketVars, decVars
<1>1. /\ ev.at # "idle" => ev.h \in Handles
      /\ inbox \in [Handles -> Seq(Messages)] /\ who \in [Handles -> Decoders \cup {None}]
      /\ acc # 0 => acc \in Handles
      /\ ev.left \in Seq(Messages)
  BY ConnAssumption DEF TypeOK, EventsOK, Handles
<1>2. CASE Take
  <2>1. /\ Head(pool) = pool[1] /\ 1 \in DOMAIN pool
        /\ \A i \in DOMAIN pool' : pool'[i] = pool[i + 1] /\ i + 1 \in DOMAIN pool
    BY <1>2, TailFact DEF Take, TypeOK
  <2>2. acc' = Head(pool) /\ UNCHANGED <<inbox, who, ev>>
    BY <1>2 DEF Take
  <2> QED
    BY <2>1, <2>2, ReadKept DEF ReadingOK
<1>3. ASSUME NEW d \in Decoders, Attach(d) PROVE ReadingOK'
  <2>1. /\ acc \in Handles /\ acc # 0 /\ acc' = 0 /\ UNCHANGED <<pool, ev>>
        /\ who' = [who EXCEPT ![acc] = d] /\ inbox' = [inbox EXCEPT ![acc] = <<>>]
    BY <1>1, <1>3 DEF Attach
  <2>2. \A h \in Handles : UnregisterLast(inbox'[h])
    BY <1>1, <2>1 DEF ReadingOK, UnregisterLast
  <2>3. ev.at = "msg" /\ ev.left # <<>> =>
          ev.from = who'[ev.h] /\ ev.h # acc' /\ \A i \in DOMAIN pool : pool[i] # ev.h
    BY <1>1, <2>1, ConnAssumption DEF ReadingOK, Handles
  <2> QED
    BY <2>1, <2>2, <2>3 DEF ReadingOK, UnregisterLast
<1>4. CASE \/ HeartbeatTick \/ CheckHeartBeat
           \/ \E h \in Handles : \/ HandleRecv(h) \/ HandleTimeout(h)
                                 \/ \E how \in {"broken", "silent"} : Fail(h, how)
           \/ \E c \in Clients : SendRequest(c) \/ \E d \in Decoders : Lookup(c, d)
  <2>1. UNCHANGED <<inbox, who, acc, pool, ev>>
    BY <1>4 DEF HeartbeatTick, CheckHeartBeat, HandleRecv, HandleTimeout, Fail, SendRequest, Lookup
  <2> QED
    BY <2>1, ReadKept DEF ReadingOK
<1>5. ASSUME NEW h \in Handles, NEW m \in Sent, Deliver(h, m) PROVE ReadingOK'
  <2>1. /\ inbox' = [inbox EXCEPT ![h] = Append(inbox[h], m)] /\ UNCHANGED <<who, acc, pool, ev>>
        /\ \A i \in DOMAIN inbox[h] : inbox[h][i] # "unregister"
    BY <1>5 DEF Deliver
  <2>2. m \in Messages /\ inbox[h] \in Seq(Messages)
    BY <1>1, ConnAssumption DEF Messages
  <2>3. UnregisterLast(Append(inbox[h], m))
    BY <2>1, <2>2, AppendFact DEF UnregisterLast
  <2>4. \A x \in Handles : UnregisterLast(inbox'[x])
    BY <1>1, <2>1, <2>3 DEF ReadingOK
  <2> QED
    BY <2>1, <2>4 DEF ReadingOK, UnregisterLast
<1>6. CASE ProcMsg
  <2> DEFINE h == Next1.h
  <2>1. /\ h \in Handles /\ sock[h] # "none"
        /\ inbox' = [inbox EXCEPT ![h] = <<>>] /\ UNCHANGED <<who, acc, pool>>
        /\ ev'.at = "msg" /\ ev'.h = h /\ ev'.from = who[h] /\ ev'.left = inbox[h]
    BY <1>6, HandlingFact DEF ProcMsg, Idle
  <2>2. h # acc /\ \A i \in DOMAIN pool : pool[i] # h
    BY <2>1, ConnAssumption DEF OnePlace, Closed, Handles
  <2>3. UnregisterLast(ev'.left) /\ \A x \in Handles : UnregisterLast(inbox'[x])
    BY <1>1, <2>1 DEF ReadingOK, UnregisterLast
  <2> QED
    BY <2>1, <2>2, <2>3 DEF ReadingOK, UnregisterLast
<1>7. CASE RecvFails \/ ProcSendMsg \/ ProcConnTimeOut
  <2>1. UNCHANGED inbox /\ ev'.left = <<>>
    BY <1>7 DEF RecvFails, ProcSendMsg, ProcConnTimeOut, On, Idle
  <2> QED
    BY <2>1, ReadNone
<1>8. CASE HeartBeat \/ Answered \/ \E d \in Decoders : RegisterFails(d) \/ Register(d)
  <2>1. ASSUME NEW ok, Done(ok) PROVE ev'.at = ev.at /\ ev'.left = Tail(ev.left)
                                       /\ ev'.h = ev.h /\ ev'.from = ev.from
    BY <2>1 DEF Done, TypeOK
  <2>2. ev.at = "msg" /\ ev.left # <<>> /\ UNCHANGED <<inbox, who, acc, pool>>
    BY <1>8 DEF HeartBeat, Answered, RegisterFails, Register, Reading
  <2>3. ev'.at = ev.at /\ ev'.left = Tail(ev.left) /\ ev'.h = ev.h /\ ev'.from = ev.from
    <3>1. CASE HeartBeat
      BY <2>1, <3>1 DEF HeartBeat
    <3>2. CASE Answered
      BY <2>1, <3>2 DEF Answered
    <3>3. ASSUME NEW d \in Decoders, RegisterFails(d) PROVE Done(FALSE)
      BY <3>3 DEF RegisterFails
    <3>4. ASSUME NEW d \in Decoders, Register(d) PROVE Done(need[ev.h])
      BY <3>4 DEF Register
    <3> QED
      BY <1>8, <2>1, <3>1, <3>2, <3>3, <3>4
  <2> QED
    BY <2>2, <2>3, ReadOn
<1>9. CASE Unregister
  <2>1. /\ ev.left # <<>> /\ Head(ev.left) = "unregister" /\ UNCHANGED inbox
        /\ ev'.left = Tail(ev.left)
    BY <1>9 DEF Unregister, Reading, TypeOK
  <2>2. Len(ev.left) = 1
    BY <1>1, <2>1, TailFact DEF ReadingOK, UnregisterLast
  <2>3. ev'.left = <<>>
    BY <1>1, <2>1, <2>2, TailFact, EmptySeq
  <2> QED
    BY <2>1, <2>3, ReadNone
<1>10. CASE AllRead \/ Disconnect \/ ReleaseIgnored \/ ReleaseRef \/ PutBack
  <2>1. UNCHANGED inbox
    BY <1>10 DEF AllRead, Disconnect, ReleaseIgnored, ReleaseRef, PutBack
  <2>2. ev.left = <<>>
    BY <1>10 DEF AllRead, Disconnect, ReleaseIgnored, ReleaseRef, PutBack, ReadingOK
  <2>3. ev'.left = ev.left \/ ev'.left = <<>>
    <3>1. Return => ev'.left = ev.left \/ ev'.left = <<>>
      BY DEF Return, Idle, TypeOK
    <3>2. CASE AllRead \/ Disconnect
      BY <3>2 DEF AllRead, Disconnect, TypeOK
    <3>3. CASE ReleaseIgnored \/ PutBack
      BY <3>1, <3>3 DEF ReleaseIgnored, PutBack
    <3>4. CASE ReleaseRef
      BY <3>1, <3>4 DEF ReleaseRef, TypeOK
    <3> QED
      BY <1>10, <3>2, <3>3, <3>4
  <2> QED
    BY <2>1, <2>2, <2>3, ReadNone
<1>11. CASE Remove
  <2>1. /\ inbox' = [inbox EXCEPT ![ev.h] = <<>>] /\ ev'.left = <<>>
    BY <1>11 DEF Remove, ReadingOK
  <2> QED
    BY <1>1, <2>1 DEF ReadingOK, UnregisterLast
<1> QED
  BY <1>2, <1>3, <1>4, <1>5, <1>6, <1>7, <1>8, <1>9, <1>10, <1>11
  DEF Next, EventThread, AcceptThread
-----------------------------------------------------------------------------
(* The references are the events.                                          *)

\* The events of a handle, by their places in a queue.
EventsOf(q, h) == {i \in DOMAIN q : q[i].h = h}

LEMMA EventsFinite ==
  ASSUME NEW q \in Seq(Events), NEW h
  PROVE  /\ EventsOf(q, h) \subseteq Nat /\ IsFiniteSet(EventsOf(q, h))
         /\ Cardinality(EventsOf(q, h)) \in Nat
<1>1. IsFiniteSet(DOMAIN q)
  BY LenProperties, FS_Interval
<1>2. EventsOf(q, h) \subseteq DOMAIN q /\ DOMAIN q \subseteq Nat
  BY LenProperties DEF EventsOf
<1> QED
  BY <1>1, <1>2, FS_Subset, FS_CardinalityType

LEMMA CountAppend ==
  ASSUME NEW q \in Seq(Events), NEW e \in Events, NEW h
  PROVE  Cardinality(EventsOf(Append(q, e), h)) =
           IF e.h = h THEN Cardinality(EventsOf(q, h)) + 1 ELSE Cardinality(EventsOf(q, h))
<1> DEFINE n == Len(q) + 1
<1>1. /\ DOMAIN Append(q, e) = 1..n /\ Len(q) \in Nat /\ DOMAIN q = 1..Len(q)
      /\ \A i \in 1..n : Append(q, e)[i] = IF i = n THEN e ELSE q[i]
  BY AppendFact, SeqFact
<1>2. n \notin EventsOf(q, h)
  BY <1>1 DEF EventsOf
<1>3. CASE e.h = h
  <2>1. EventsOf(Append(q, e), h) = EventsOf(q, h) \cup {n}
    BY <1>1, <1>3 DEF EventsOf
  <2> HIDE DEF n
  <2>2. Cardinality(EventsOf(q, h) \cup {n}) = Cardinality(EventsOf(q, h)) + 1
    BY <1>2, EventsFinite, FS_AddElement
  <2> QED
    BY <1>3, <2>1, <2>2
<1>4. CASE e.h # h
  <2>1. EventsOf(Append(q, e), h) = EventsOf(q, h)
    BY <1>1, <1>4 DEF EventsOf
  <2> QED
    BY <1>4, <2>1
<1> QED
  BY <1>3, <1>4

\* The places of some events, when others are put before them.
Shifted(T, n) == {n + i : i \in T}

LEMMA CountShifted ==
  ASSUME NEW T, T \subseteq Nat, IsFiniteSet(T), NEW n \in Nat
  PROVE  IsFiniteSet(Shifted(T, n)) /\ Cardinality(Shifted(T, n)) = Cardinality(T)
<1> DEFINE f == [i \in T |-> n + i]
<1>1. \A i, j \in T : f[i] = f[j] => i = j
  OBVIOUS
<1>2. f \in [T -> Shifted(T, n)] /\ \A x \in Shifted(T, n) : \E i \in T : f[i] = x
  BY DEF Shifted
<1>3. f \in Bijection(T, Shifted(T, n))
  BY <1>1, <1>2 DEF Bijection, Injection, Surjection, IsInjective
<1>4. ExistsBijection(T, Shifted(T, n))
  BY <1>3 DEF ExistsBijection
<1> QED
  BY <1>4, FS_Bijection

LEMMA CountTail ==
  ASSUME NEW q \in Seq(Events), q # <<>>, NEW h
  PROVE  Cardinality(EventsOf(q, h)) =
           IF Head(q).h = h THEN Cardinality(EventsOf(Tail(q), h)) + 1
                            ELSE Cardinality(EventsOf(Tail(q), h))
<1>1. /\ Head(q) = q[1] /\ 1 \in DOMAIN q /\ Tail(q) \in Seq(Events)
      /\ Len(q) \in Nat /\ DOMAIN q = 1..Len(q) /\ DOMAIN Tail(q) = 1..(Len(q) - 1)
      /\ \A i \in DOMAIN Tail(q) : Tail(q)[i] = q[i + 1] /\ i + 1 \in DOMAIN q
  BY TailFact, SeqFact
<1>2. EventsOf(q, h) \ {1} = Shifted(EventsOf(Tail(q), h), 1)
  <2>1. ASSUME NEW i \in EventsOf(q, h), i # 1
        PROVE  i \in Shifted(EventsOf(Tail(q), h), 1)
    <3>1. i - 1 \in DOMAIN Tail(q) /\ i = 1 + (i - 1) /\ (i - 1) + 1 = i
      BY <1>1, <2>1 DEF EventsOf
    <3>2. Tail(q)[i - 1] = q[i]
      BY <1>1, <3>1
    <3>3. i - 1 \in EventsOf(Tail(q), h)
      BY <3>1, <3>2 DEF EventsOf
    <3> QED
      BY <3>1, <3>3 DEF Shifted
  <2>2. ASSUME NEW i \in EventsOf(Tail(q), h)
        PROVE  1 + i \in EventsOf(q, h) /\ 1 + i # 1
    <3>1. i \in DOMAIN Tail(q) /\ Tail(q)[i].h = h /\ i \in Nat /\ i # 0 /\ 1 + i = i + 1
      BY <1>1 DEF EventsOf
    <3> QED
      BY <1>1, <3>1 DEF EventsOf
  <2> QED
    BY <2>1, <2>2 DEF Shifted
<1>3. Cardinality(EventsOf(q, h) \ {1}) = Cardinality(EventsOf(Tail(q), h))
  <2>1. EventsOf(Tail(q), h) \subseteq Nat /\ IsFiniteSet(EventsOf(Tail(q), h))
    BY <1>1, EventsFinite
  <2>2. Cardinality(Shifted(EventsOf(Tail(q), h), 1)) = Cardinality(EventsOf(Tail(q), h))
    BY <2>1, CountShifted
  <2> QED
    BY <1>2, <2>2
<1>4. 1 \in EventsOf(q, h) <=> Head(q).h = h
  BY <1>1 DEF EventsOf
<1>5. Cardinality(EventsOf(q, h) \ {1}) =
        IF 1 \in EventsOf(q, h) THEN Cardinality(EventsOf(q, h)) - 1
                                ELSE Cardinality(EventsOf(q, h))
  BY EventsFinite, FS_RemoveElement
<1>6. Cardinality(EventsOf(q, h)) \in Nat
  BY EventsFinite
<1> QED
  BY <1>3, <1>4, <1>5, <1>6

LEMMA CountConcat ==
  ASSUME NEW q \in Seq(Events), NEW r \in Seq(Events), NEW h
  PROVE  Cardinality(EventsOf(q \o r, h)) =
           Cardinality(EventsOf(q, h)) + Cardinality(EventsOf(r, h))
<1> DEFINE A == EventsOf(q, h)
           B == EventsOf(r, h)
           C == Shifted(B, Len(q))
<1>1. /\ Len(q) \in Nat /\ DOMAIN q = 1..Len(q) /\ Len(r) \in Nat /\ DOMAIN r = 1..Len(r)
      /\ q \o r \in Seq(Events) /\ Len(q \o r) = Len(q) + Len(r)
      /\ DOMAIN (q \o r) = 1..(Len(q) + Len(r))
      /\ \A i \in 1..(Len(q) + Len(r)) :
           (q \o r)[i] = IF i <= Len(q) THEN q[i] ELSE r[i - Len(q)]
  BY SeqFact, ConcatProperties, LenProperties
<1>2. EventsOf(q \o r, h) = A \cup C
  <2>1. ASSUME NEW i \in EventsOf(q \o r, h) PROVE i \in A \cup C
    <3>1. i \in 1..(Len(q) + Len(r)) /\ (q \o r)[i].h = h
      BY <1>1 DEF EventsOf
    <3>2. CASE i <= Len(q)
      BY <1>1, <3>1, <3>2 DEF EventsOf
    <3>3. CASE ~(i <= Len(q))
      <4>1. i - Len(q) \in 1..Len(r) /\ i = Len(q) + (i - Len(q))
        BY <1>1, <3>1, <3>3
      <4>2. i - Len(q) \in B
        BY <1>1, <3>1, <3>3, <4>1 DEF EventsOf
      <4> QED
        BY <4>1, <4>2 DEF Shifted
    <3> QED
      BY <3>2, <3>3
  <2>2. ASSUME NEW i \in A PROVE i \in EventsOf(q \o r, h)
    <3>1. i \in 1..Len(q) /\ q[i].h = h
      BY <1>1 DEF EventsOf
    <3>2. i \in 1..(Len(q) + Len(r)) /\ i <= Len(q)
      BY <1>1, <3>1
    <3> QED
      BY <1>1, <3>1, <3>2 DEF EventsOf
  <2>3. ASSUME NEW i \in B PROVE Len(q) + i \in EventsOf(q \o r, h)
    <3>1. i \in 1..Len(r) /\ r[i].h = h
      BY <1>1 DEF EventsOf
    <3>2. /\ Len(q) + i \in 1..(Len(q) + Len(r)) /\ ~(Len(q) + i <= Len(q))
          /\ (Len(q) + i) - Len(q) = i
      BY <1>1, <3>1
    <3> QED
      BY <1>1, <3>1, <3>2 DEF EventsOf
  <2> QED
    BY <2>1, <2>2, <2>3 DEF Shifted
<1>3. A \cap C = {}
  BY <1>1 DEF EventsOf, Shifted
<1>4. IsFiniteSet(A) /\ IsFiniteSet(B) /\ B \subseteq Nat
  BY EventsFinite
<1>5. IsFiniteSet(C) /\ Cardinality(C) = Cardinality(B)
  BY <1>1, <1>4, CountShifted
<1>6. Cardinality(A) \in Nat /\ Cardinality(B) \in Nat
  BY <1>4, FS_CardinalityType
<1> HIDE DEF A, B, C
<1>7. Cardinality(A \cup C) = Cardinality(A) + Cardinality(C) - Cardinality(A \cap C)
  BY <1>4, <1>5, FS_Union
<1>8. Cardinality(A \cup C) = Cardinality(A) + Cardinality(B)
  <2>1. Cardinality(A \cap C) = 0
    BY <1>3, FS_EmptySet
  <2> QED
    BY <1>5, <1>6, <1>7, <2>1
<1> QED
  BY <1>2, <1>8 DEF A, B

\* The reference of the event that is being handled.
Handled(h) == IF ev.h = h /\ ev.at \in {"msg", "drop", "release"} THEN 1 ELSE 0

LEMMA Balance ==
  RefsBalanced <=>
    \A h \in Handles \ lost : refs[h] = Cardinality(EventsOf(queue, h)) + Handled(h)
BY DEF RefsBalanced, Pending, EventsOf, Handled

\* Nothing is queued, handled or given back.
LEMMA BalanceKept ==
  ASSUME RefsBalanced, NoHandleOK, UNCHANGED <<refs, queue>>, lost \subseteq lost',
         \A h \in Handles \ lost' : Handled(h)' = Handled(h),
         ev'.again => ev'.h \in lost'
  PROVE  RefsBalanced' /\ NoHandleOK'
<1>1. \A h \in Handles \ lost : refs[h] = Cardinality(EventsOf(queue, h)) + Handled(h)
  BY Balance
<1>2. \A h \in Handles \ lost' : refs'[h] = Cardinality(EventsOf(queue', h)) + Handled(h)'
  BY <1>1
<1>3. RefsBalanced'
  <2>1. \A h \in Handles \ lost' :
          refs'[h] = Cardinality({i \in DOMAIN queue' : queue'[i].h = h}) + Handled(h)'
    BY <1>2 DEF EventsOf
  <2> QED
    BY <2>1 DEF RefsBalanced, Pending, Handled
<1> QED
  BY <1>3 DEF NoHandleOK

\* An event is queued for a handle, with a reference.
LEMMA BalanceAdd ==
  ASSUME TypeOK, RefsBalanced, NoHandleOK, UNCHANGED ev,
         NEW h \in Handles, NEW t \in {"recv", "send", "timeout"}, AddEvent(t, h)
  PROVE  RefsBalanced' /\ NoHandleOK'
<1>1. /\ queue \in Seq(Events) /\ Event(t, h) \in Events /\ refs \in [Handles -> Nat]
      /\ Event(t, h).h = h /\ Event(t, h).type # "check"
  BY DEF TypeOK, Events, Event, Handles
<1>2. \A x \in Handles \ lost : refs[x] = Cardinality(EventsOf(queue, x)) + Handled(x)
  BY Balance
<1>3. CASE ~need[h] \/ ~Room(queue)
  <2>1. queue' = queue /\ lost \subseteq lost'
    BY <1>3 DEF AddEvent
  <2>2. \A x \in Handles \ lost' : refs'[x] = refs[x]
    BY <1>1, <1>3 DEF AddEvent
  <2>3. \A x \in Handles \ lost' :
          refs'[x] = Cardinality({i \in DOMAIN queue' : queue'[i].h = x}) + Handled(x)'
    BY <1>2, <2>1, <2>2 DEF EventsOf, Handled
  <2>4. RefsBalanced'
    BY <2>3 DEF RefsBalanced, Pending, Handled
  <2> QED
    BY <2>1, <2>4 DEF NoHandleOK
<1>4. CASE need[h] /\ Room(queue)
  <2>1. queue' = Append(queue, Event(t, h)) /\ lost' = lost /\ refs' = [refs EXCEPT ![h] = refs[h] + 1]
    BY <1>4 DEF AddEvent
  <2>2. ASSUME NEW x \in Handles \ lost
        PROVE  refs'[x] = Cardinality({i \in DOMAIN queue' : queue'[i].h = x}) + Handled(x)'
    <3>1. Cardinality(EventsOf(queue, x)) \in Nat
      BY <1>1, EventsFinite
    <3>2. Cardinality(EventsOf(queue', x)) =
            IF x = h THEN Cardinality(EventsOf(queue, x)) + 1 ELSE Cardinality(EventsOf(queue, x))
      BY <1>1, <2>1, CountAppend
    <3>3. Handled(x)' = Handled(x) /\ Handled(x) \in {0, 1}
      BY DEF Handled
    <3>4. refs'[x] = Cardinality(EventsOf(queue', x)) + Handled(x)'
      BY <1>1, <1>2, <2>1, <3>1, <3>2, <3>3
    <3> QED
      BY <3>4 DEF EventsOf
  <2>3. RefsBalanced'
    BY <2>1, <2>2 DEF RefsBalanced, Pending, Handled
  <2>4. \A i \in DOMAIN queue' : queue'[i] = Event(t, h) \/ (i \in DOMAIN queue /\ queue'[i] = queue[i])
    BY <1>1, <2>1, AppendFact
  <2> QED
    BY <1>1, <2>1, <2>3, <2>4 DEF NoHandleOK
<1> QED
  BY <1>3, <1>4

\* The heartbeat check refers to no handle.
LEMMA BalanceTick ==
  ASSUME TypeOK, RefsBalanced, NoHandleOK, HeartbeatTick
  PROVE  RefsBalanced' /\ NoHandleOK'
<1>1. /\ queue \in Seq(Events) /\ Event("check", 0) \in Events /\ Event("check", 0).h = 0
      /\ queue' = Append(queue, Event("check", 0)) /\ UNCHANGED <<refs, ev, lost>>
  BY ConnAssumption DEF HeartbeatTick, TypeOK, Events, Event, handleVars
<1>2. ASSUME NEW x \in Handles \ lost
      PROVE  refs'[x] = Cardinality({i \in DOMAIN queue' : queue'[i].h = x}) + Handled(x)'
  <2>1. x # 0
    BY ConnAssumption DEF Handles
  <2>2. Cardinality(EventsOf(queue', x)) = Cardinality(EventsOf(queue, x))
    BY <1>1, <2>1, CountAppend
  <2>3. Handled(x)' = Handled(x)
    BY <1>1 DEF Handled
  <2>4. refs[x] = Cardinality(EventsOf(queue, x)) + Handled(x)
    BY Balance
  <2> QED
    BY <1>1, <2>2, <2>3, <2>4 DEF EventsOf
<1>3. \A i \in DOMAIN queue' : queue'[i] = Event("check", 0) \/ (i \in DOMAIN queue /\ queue'[i] = queue[i])
  BY <1>1, AppendFact
<1> QED
  BY <1>1, <1>2, <1>3 DEF NoHandleOK, RefsBalanced, Pending, Handled

\* An event is taken from the queue to be handled.
LEMMA BalanceTaken ==
  ASSUME TypeOK, EventsOK, RefsBalanced, NoHandleOK, UNCHANGED <<refs, lost>>,
         NEW t, Handling(t, Tail(queue)), t # "check",
         ev'.h = Next1.h, ev'.at \in {"msg", "drop", "release"}, ~ev'.again
  PROVE  RefsBalanced' /\ NoHandleOK'
<1>1. /\ queue \in Seq(Events) /\ queue # <<>> /\ queue' = Tail(queue) /\ ev.at = "idle"
      /\ Next1 = Head(queue)
  BY DEF Handling, TypeOK, Next1
<1>2. ASSUME NEW x \in Handles \ lost
      PROVE  refs'[x] = Cardinality({i \in DOMAIN queue' : queue'[i].h = x}) + Handled(x)'
  <2>1. Cardinality(EventsOf(queue, x)) =
           IF Next1.h = x THEN Cardinality(EventsOf(queue', x)) + 1
                          ELSE Cardinality(EventsOf(queue', x))
    BY <1>1, CountTail
  <2>2. Cardinality(EventsOf(queue', x)) \in Nat
    BY <1>1, EventsFinite, TailFact
  <2>3. Handled(x) = 0 /\ Handled(x)' = IF Next1.h = x THEN 1 ELSE 0
    BY <1>1 DEF Handled
  <2>4. refs[x] = Cardinality(EventsOf(queue, x)) + Handled(x)
    BY Balance
  <2>5. refs'[x] = Cardinality(EventsOf(queue', x)) + Handled(x)'
    BY <2>1, <2>2, <2>3, <2>4
  <2> QED
    BY <2>5 DEF EventsOf
<1>3. \A i \in DOMAIN queue' : \E j \in DOMAIN queue : queue'[i] = queue[j]
  BY <1>1, TailFact
<1> QED
  BY <1>2, <1>3 DEF NoHandleOK, RefsBalanced, Pending, Handled

\* A reference is given back: an event of UNREGISTER gives back two, and
\* counts no more.
LEMMA BalanceRelease ==
  ASSUME TypeOK, EventsOK, RefsBalanced, NoHandleOK, ReleaseRef
  PROVE  RefsBalanced' /\ NoHandleOK'
<1>1. /\ ev.at = "release" /\ ev.h \in Handles /\ refs' = [refs EXCEPT ![ev.h] = Left(ev.h)]
      /\ refs \in [Handles -> Nat] /\ queue \in Seq(Events) /\ UNCHANGED <<queue, lost>>
  BY ConnAssumption DEF ReleaseRef, TypeOK, EventsOK, Handles
<1>2. \/ ev' = [ev EXCEPT !.at = "close"]
      \/ ev.again /\ ev' = [ev EXCEPT !.at = "msg", !.again = FALSE]
      \/ ev' = Idle
  BY DEF ReleaseRef, Return
<1>3. /\ ev'.h = ev.h \/ ev'.h = 0
      /\ ev'.at \in {"msg", "drop", "release"} => ev.again /\ ev'.h = ev.h
      /\ ev'.again => ev.again /\ ev'.h = ev.h
  <2>1. CASE ev' = [ev EXCEPT !.at = "close"]
    BY <2>1 DEF TypeOK
  <2>2. CASE ev.again /\ ev' = [ev EXCEPT !.at = "msg", !.again = FALSE]
    BY <2>2 DEF TypeOK
  <2>3. CASE ev' = Idle
    BY <2>3 DEF Idle
  <2> QED
    BY <1>2, <2>1, <2>2, <2>3
<1>4. ASSUME NEW x \in Handles \ lost
      PROVE  refs'[x] = Cardinality({i \in DOMAIN queue' : queue'[i].h = x}) + Handled(x)'
  <2>1. Handled(x)' = 0
    BY <1>3 DEF Handled, NoHandleOK
  <2>2. Handled(x) = IF ev.h = x THEN 1 ELSE 0
    BY <1>1 DEF Handled
  <2>3. refs[x] = Cardinality(EventsOf(queue, x)) + Handled(x)
    BY Balance
  <2>4. Cardinality(EventsOf(queue, x)) \in Nat
    BY <1>1, EventsFinite
  <2>5. refs'[x] = Cardinality(EventsOf(queue, x))
    <3>1. CASE ev.h = x
      BY <1>1, <2>2, <2>3, <2>4, <3>1 DEF Left
    <3>2. CASE ev.h # x
      BY <1>1, <2>2, <2>3, <2>4, <3>2
    <3> QED
      BY <3>1, <3>2
  <2> QED
    BY <1>1, <2>1, <2>4, <2>5 DEF EventsOf
<1> QED
  BY <1>1, <1>3, <1>4 DEF NoHandleOK, RefsBalanced, Pending, Handled

\* The heartbeat check queues one event, with one reference, for each handle
\* of a decoder at work, up to the first that finds the queue full.
LEMMA BalanceCheck ==
  ASSUME TypeOK, EventsOK, Linked, RefsBalanced, NoHandleOK, CheckHeartBeat
  PROVE  RefsBalanced' /\ NoHandleOK'
<1> DEFINE room == MaxEvents - Len(Tail(queue))
           fit == IF Len(work) < room THEN Len(work) ELSE room
           tried == IF fit < Len(work) THEN fit + 1 ELSE fit
           seen == {work[i] : i \in 1..tried}
           new == [i \in 1..fit |-> Event(Due(work[i]), conn[work[i]])]
<1>1. /\ Handling("check", Tail(queue) \o new)
      /\ refs' = Held(seen)
      /\ lost' = lost \cup {conn[work[i]] : i \in (fit + 1)..tried}
      /\ UNCHANGED ev
  BY DEF CheckHeartBeat
<1>2. /\ queue \in Seq(Events) /\ queue # <<>> /\ Tail(queue) \in Seq(Events)
      /\ Len(Tail(queue)) \in Nat /\ Len(Tail(queue)) <= MaxEvents
      /\ queue' = Tail(queue) \o new /\ ev.at = "idle"
      /\ Head(queue) = queue[1] /\ 1 \in DOMAIN queue /\ Head(queue).type = "check"
  BY <1>1, HandlingFact, TailFact DEF Handling, TypeOK, Next1
<1>3. /\ Len(work) \in Nat /\ DOMAIN work = 1..Len(work)
      /\ \A i \in DOMAIN work : work[i] \in Decoders
      /\ refs \in [Handles -> Nat] /\ conn \in [Decoders -> 0..N]
  BY SeqFact DEF TypeOK
<1>4. /\ fit \in Nat /\ fit <= Len(work) /\ tried \in Nat /\ tried <= Len(work)
      /\ tried = fit \/ tried = fit + 1
  BY <1>2, <1>3, ConnAssumption
<1> HIDE DEF fit, tried
<1>5. \A i \in DOMAIN work : conn[work[i]] \in Handles /\ dec[conn[work[i]]] = work[i]
  <2>1. \A i \in DOMAIN work : conn[work[i]] # 0 /\ conn[work[i]] \in 0..N /\ dec[conn[work[i]]] = work[i]
    BY <1>3 DEF Linked, Working
  <2> QED
    BY <2>1, ConnAssumption DEF Handles
<1>6. \A i \in 1..tried : i \in DOMAIN work
  BY <1>3, <1>4
<1>7. \A i \in 1..fit : i \in 1..tried
  BY <1>4
<1>8. \A i, j \in DOMAIN work : conn[work[i]] = conn[work[j]] => i = j
  BY <1>5 DEF Linked
<1>9. \A i \in 1..fit :
        new[i] \in Events /\ new[i].h = conn[work[i]] /\ new[i].type \in {"timeout", "beat"}
  BY <1>5, <1>6, <1>7, ConnAssumption DEF Events, Event, Due, Handles
<1>10. new \in Seq(Events) /\ Len(new) = fit /\ DOMAIN new = 1..fit
  BY <1>4, <1>9, IsASeq
<1> HIDE DEF new
<1>11. ASSUME NEW x \in Handles \ lost'
       PROVE  refs'[x] = Cardinality({i \in DOMAIN queue' : queue'[i].h = x}) + Handled(x)'
  <2>1. x # 0 /\ x \notin lost /\ Head(queue).h = 0
    BY <1>1, <1>2, ConnAssumption DEF Handles, NoHandleOK
  <2>2. /\ Cardinality(EventsOf(queue, x)) = Cardinality(EventsOf(Tail(queue), x))
        /\ Cardinality(EventsOf(Tail(queue), x)) \in Nat
    BY <1>2, <2>1, CountTail, EventsFinite
  <2>3. Cardinality(EventsOf(queue', x)) =
          Cardinality(EventsOf(Tail(queue), x)) + Cardinality(EventsOf(new, x))
    BY <1>2, <1>10, CountConcat
  <2>4. refs[x] = Cardinality(EventsOf(queue, x)) + Handled(x)
    BY <2>1, Balance
  <2>5. Handled(x) = 0 /\ Handled(x)' = 0
    BY <1>1, <1>2 DEF Handled
  <2>6. refs'[x] = refs[x] + Cardinality(EventsOf(new, x))
    <3>1. ASSUME NEW i \in 1..fit, conn[work[i]] = x
          PROVE  refs'[x] = refs[x] + 1 /\ EventsOf(new, x) = {i}
      <4>1. work[i] \in seen
        BY <1>7
      <4>2. \A j \in 1..fit : conn[work[j]] = x => j = i
        BY <1>6, <1>7, <1>8, <3>1
      <4>3. EventsOf(new, x) = {i}
        BY <1>9, <1>10, <3>1, <4>2 DEF EventsOf
      <4> QED
        BY <1>1, <1>3, <3>1, <4>1, <4>3 DEF Held
    <3>2. ASSUME \A i \in 1..fit : conn[work[i]] # x
          PROVE  refs'[x] = refs[x] /\ EventsOf(new, x) = {}
      <4>1. EventsOf(new, x) = {}
        BY <1>9, <1>10, <3>2 DEF EventsOf
      <4>2. \A i \in 1..tried : conn[work[i]] # x
        <5> TAKE i \in 1..tried
        <5>1. i \in 1..fit \/ i \in (fit + 1)..tried
          BY <1>4
        <5> QED
          BY <1>1, <3>2, <5>1
      <4> QED
        BY <1>1, <4>1, <4>2 DEF Held
    <3>3. refs[x] \in Nat /\ Cardinality({}) = 0 /\ \A i : Cardinality({i}) = 1
      BY <1>3, FS_Singleton, FS_EmptySet
    <3>4. CASE \E i \in 1..fit : conn[work[i]] = x
      <4>1. PICK i \in 1..fit : conn[work[i]] = x
        BY <3>4
      <4> QED
        BY <3>1, <3>3, <4>1
    <3>5. CASE \A i \in 1..fit : conn[work[i]] # x
      <4>1. refs'[x] = refs[x] /\ EventsOf(new, x) = {}
        BY <3>2, <3>5
      <4> QED
        BY <3>3, <4>1
    <3> QED
      BY <3>4, <3>5
  <2>7. refs'[x] = Cardinality(EventsOf(queue', x)) + Handled(x)'
    <3>1. Cardinality(EventsOf(new, x)) \in Nat
      BY <1>10, EventsFinite
    <3> QED
      BY <2>2, <2>3, <2>4, <2>5, <2>6, <3>1
  <2> QED
    BY <2>7 DEF EventsOf
<1>12. \A i \in DOMAIN queue' : queue'[i].type = "check" => queue'[i].h = 0
  <2>1. /\ Len(queue') = Len(Tail(queue)) + fit /\ DOMAIN queue' = 1..(Len(Tail(queue)) + fit)
        /\ \A i \in 1..(Len(Tail(queue)) + fit) :
             queue'[i] = IF i <= Len(Tail(queue)) THEN Tail(queue)[i] ELSE new[i - Len(Tail(queue))]
    BY <1>2, <1>10, ConcatProperties, LenProperties
  <2> TAKE i \in DOMAIN queue'
  <2>2. CASE i <= Len(Tail(queue))
    <3>1. i \in DOMAIN Tail(queue) /\ queue'[i] = Tail(queue)[i]
      BY <1>2, <2>1, <2>2, LenProperties
    <3>2. \E j \in DOMAIN queue : queue'[i] = queue[j]
      BY <1>2, <3>1, TailFact
    <3> QED
      BY <3>2 DEF NoHandleOK
  <2>3. CASE ~(i <= Len(Tail(queue)))
    <3>1. i - Len(Tail(queue)) \in 1..fit
      BY <1>2, <1>4, <2>1, <2>3
    <3> QED
      BY <1>9, <2>1, <2>3, <3>1
  <2> QED
    BY <2>2, <2>3
<1> QED
  BY <1>1, <1>11, <1>12 DEF NoHandleOK, RefsBalanced, Pending, Handled

LEMMA BalanceStep ==
  ASSUME TypeOK, EventsOK, Linked, RefsBalanced, NoHandleOK, Next
  PROVE  RefsBalanced' /\ NoHandleOK'
<1> USE DEF handleVars, socketVars, decVars
<1>1. ev.at # "idle" => ev.h \in Handles
  BY ConnAssumption DEF TypeOK, EventsOK, Handles
<1>2. CASE \/ AcceptThread
           \/ \E c \in Clients, d \in Decoders : Lookup(c, d)
           \/ \E h \in Handles : \/ \E m \in Sent : Deliver(h, m)
                                 \/ \E how \in {"broken", "silent"} : Fail(h, how)
  <2>1. UNCHANGED <<refs, queue, lost, ev>>
    BY <1>2 DEF AcceptThread, Take, Attach, Lookup, Deliver, Fail
  <2> QED
    BY <2>1, BalanceKept DEF Handled, NoHandleOK
<1>3. ASSUME NEW h \in Handles, HandleRecv(h) \/ HandleTimeout(h)
      PROVE  RefsBalanced' /\ NoHandleOK'
  BY <1>3, BalanceAdd DEF HandleRecv, HandleTimeout
<1>4. ASSUME NEW c \in Clients, SendRequest(c)
      PROVE  RefsBalanced' /\ NoHandleOK'
  <2>1. client[c] \in Handles
    BY <1>4, ConnAssumption DEF SendRequest, TypeOK, Handles
  <2> QED
    BY <1>4, <2>1, BalanceAdd DEF SendRequest
<1>5. CASE ProcMsg \/ RecvFails \/ ProcSendMsg \/ ProcConnTimeOut
  <2>1. /\ UNCHANGED <<refs, lost>>
        /\ \E t \in {"recv", "send", "beat", "timeout"} : Handling(t, Tail(queue))
        /\ ev'.h = Next1.h /\ ev'.at \in {"msg", "drop", "release"} /\ ~ev'.again
    BY <1>5 DEF ProcMsg, RecvFails, ProcSendMsg, ProcConnTimeOut, On, Idle
  <2> QED
    BY <2>1, BalanceTaken
<1>6. CASE AllRead \/ HeartBeat \/ Answered \/ \E d \in Decoders : RegisterFails(d) \/ Register(d)
  <2>1. /\ UNCHANGED <<refs, queue, lost>>
        /\ ev.at = "msg" /\ ev'.at \in {"msg", "drop", "release"} /\ ev'.h = ev.h /\ ev'.again = ev.again
    BY <1>6 DEF AllRead, HeartBeat, Answered, RegisterFails, Register, Reading, Done, TypeOK
  <2> QED
    BY <2>1, BalanceKept DEF Handled, NoHandleOK
<1>7. CASE Unregister
  <2>1. UNCHANGED <<refs, queue>> /\ lost' = lost \cup {ev.h} /\ ev'.h = ev.h
    BY <1>7 DEF Unregister, TypeOK
  <2> QED
    BY <2>1, BalanceKept DEF Handled
<1>8. CASE Disconnect
  <2>1. /\ UNCHANGED <<refs, queue, lost>>
        /\ ev.at = "drop" /\ ev'.at = "release" /\ ev'.h = ev.h /\ ev'.again = ev.again
    BY <1>8 DEF Disconnect, TypeOK
  <2> QED
    BY <2>1, BalanceKept DEF Handled, NoHandleOK
<1>9. CASE ReleaseIgnored \/ PutBack
  <2>1. /\ ev.at \in {"release", "back"} /\ Return /\ UNCHANGED <<refs, queue>>
        /\ lost \subseteq lost'
        /\ ev.at = "release" => ev.h \in lost'
    BY <1>9 DEF ReleaseIgnored, PutBack
  <2>2. /\ ~ev'.again /\ ev'.h \in {ev.h, 0}
        /\ ev.again \/ ev'.h = 0
    BY <2>1 DEF Return, Idle, TypeOK
  <2>3. \A h \in Handles : h # 0
    BY ConnAssumption DEF Handles
  <2>4. ASSUME NEW h \in Handles \ lost' PROVE Handled(h)' = Handled(h)
    <3>1. CASE ev.h = h
      BY <2>1, <2>2, <2>3, <3>1 DEF Handled, NoHandleOK
    <3>2. CASE ev.h # h
      BY <2>2, <2>3, <3>2 DEF Handled
    <3> QED
      BY <3>1, <3>2
  <2> QED
    BY <2>1, <2>2, <2>4, BalanceKept
<1>10. CASE Remove
  <2>1. /\ UNCHANGED <<refs, queue, lost>>
        /\ ev.at = "close" /\ ev'.at = "back" /\ ev'.h = ev.h /\ ev'.again = ev.again
    BY <1>10 DEF Remove, TypeOK
  <2> QED
    BY <2>1, BalanceKept DEF Handled, NoHandleOK
<1> QED
  BY <1>2, <1>3, <1>4, <1>5, <1>6, <1>7, <1>8, <1>9, <1>10, BalanceTick, BalanceCheck,
     BalanceRelease DEF Next, EventThread
-----------------------------------------------------------------------------
(* A connection in use is watched.                                         *)

LEMMA EndingAppend ==
  ASSUME TypeOK, NEW h, Ending(h), NEW e \in Events, queue' = Append(queue, e), UNCHANGED ev
  PROVE  Ending(h)'
<1>1. queue \in Seq(Events) /\ Len(queue) \in Nat /\ DOMAIN queue = 1..Len(queue)
  BY SeqFact DEF TypeOK
<1>2. \A i \in DOMAIN queue : i \in DOMAIN queue' /\ queue'[i] = queue[i]
  BY <1>1, AppendFact
<1> QED
  BY <1>2 DEF Ending, Event

\* A timeout that is handled ends the connection.
LEMMA EndingTaken ==
  ASSUME TypeOK, EventsOK, NEW h, Ending(h), NEW t, NEW rest, Handling(t, rest),
         t # "timeout" \/ (ev'.at = "drop" /\ ev'.h = Next1.h),
         \A i \in DOMAIN Tail(queue) : i \in DOMAIN rest /\ rest[i] = Tail(queue)[i]
  PROVE  Ending(h)'
<1>1. /\ queue \in Seq(Events) /\ queue # <<>> /\ queue' = rest /\ ev.at = "idle"
      /\ Next1.type = t
  BY DEF Handling, TypeOK
<1>2. PICK i \in DOMAIN queue : queue[i] = Event("timeout", h)
  BY <1>1 DEF Ending
<1>3. /\ Len(queue) \in Nat /\ DOMAIN queue = 1..Len(queue) /\ Next1 = queue[1]
      /\ DOMAIN Tail(queue) = 1..(Len(queue) - 1)
      /\ \A j \in DOMAIN Tail(queue) : Tail(queue)[j] = queue[j + 1]
  BY <1>1, SeqFact, TailFact DEF Next1
<1>4. CASE i = 1
  <2>1. t = "timeout" /\ h = Next1.h
    BY <1>1, <1>2, <1>3, <1>4 DEF Event
  <2> QED
    BY <2>1 DEF Ending
<1>5. CASE i # 1
  <2>1. i - 1 \in DOMAIN Tail(queue) /\ Tail(queue)[i - 1] = queue[i]
    BY <1>2, <1>3, <1>5
  <2>2. i - 1 \in DOMAIN queue' /\ queue'[i - 1] = Event("timeout", h)
    BY <1>1, <1>2, <2>1
  <2> QED
    BY <2>2 DEF Ending, Event
<1> QED
  BY <1>4, <1>5

\* Nothing that watches a connection ends, without its timeout being queued.
LEMMA WatchKept ==
  ASSUME Watched, lost \subseteq lost',
         \A h \in Handles \ lost' : need'[h] /\ acc' # h =>
           /\ need[h] /\ acc # h
           /\ timer[h] => timer'[h]
           /\ dec'[h] = dec[h]
           /\ Ending(h) => Ending(h)',
         \A d \in Decoders : beats[d] <= Retries => beats'[d] <= Retries,
         \A h \in Handles : dec[h] # None => dec[h] \in Decoders
  PROVE  Watched'
<1> SUFFICES ASSUME NEW h \in Handles \ lost', need'[h], acc' # h
             PROVE  timer'[h] \/ (dec'[h] # None /\ beats'[dec'[h]] <= Retries) \/ Ending(h)'
  BY DEF Watched, Ending, Event
<1>1. /\ h \in Handles \ lost /\ need[h] /\ acc # h /\ dec'[h] = dec[h]
      /\ timer[h] => timer'[h]
      /\ Ending(h) => Ending(h)'
  OBVIOUS
<1>2. timer[h] \/ (dec[h] # None /\ beats[dec[h]] <= Retries) \/ Ending(h)
  BY <1>1 DEF Watched
<1>3. CASE dec[h] # None /\ beats[dec[h]] <= Retries
  BY <1>1, <1>3
<1> QED
  BY <1>1, <1>2, <1>3

LEMMA WatchAdd ==
  ASSUME TypeOK, EventsOK, Watched, NEW h \in Handles, NEW t \in {"recv", "send", "timeout"},
         AddEvent(t, h), UNCHANGED <<need, dec, beats, ev, acc>>,
         \A g \in Handles \ {h} : timer'[g] = timer[g],
         t = "timeout" \/ timer' = timer
  PROVE  Watched'
<1>1. Event(t, h) \in Events /\ queue \in Seq(Events)
  BY ConnAssumption DEF TypeOK, Events, Event, Handles
<1>2. lost \subseteq lost' /\ (queue' = queue \/ queue' = Append(queue, Event(t, h)))
  BY DEF AddEvent
<1>3. \A g : Ending(g) => Ending(g)'
  <2> SUFFICES ASSUME NEW g, Ending(g) PROVE Ending(g)'
    OBVIOUS
  <2>1. CASE queue' = queue
    BY <2>1 DEF Ending, Event
  <2>2. CASE queue' = Append(queue, Event(t, h))
    BY <1>1, <2>2, EndingAppend
  <2> QED
    BY <1>2, <2>1, <2>2
<1>4. ASSUME t = "timeout", need[h], h \notin lost' PROVE Ending(h)'
  <2>1. queue' = Append(queue, Event(t, h))
    BY <1>4 DEF AddEvent
  <2>2. Len(queue) + 1 \in DOMAIN queue' /\ queue'[Len(queue) + 1] = Event(t, h)
    BY <1>1, <2>1, AppendFact, SeqFact
  <2> QED
    BY <1>4, <2>2 DEF Ending, Event
<1> SUFFICES ASSUME NEW g \in Handles \ lost', need'[g], acc' # g
             PROVE  timer'[g] \/ (dec'[g] # None /\ beats'[dec'[g]] <= Retries) \/ Ending(g)'
  BY DEF Watched, Ending, Event
<1>5. timer[g] \/ (dec[g] # None /\ beats[dec[g]] <= Retries) \/ Ending(g)
  BY <1>2 DEF Watched
<1>6. CASE t = "timeout" /\ g = h
  BY <1>4, <1>6
<1>7. CASE ~(t = "timeout" /\ g = h)
  BY <1>3, <1>5, <1>7
<1> QED
  BY <1>6, <1>7

\* A decoder whose count passes the limit has its timeout queued, or is lost.
LEMMA WatchCheck ==
  ASSUME TypeOK, EventsOK, Linked, Watched, CheckHeartBeat
  PROVE  Watched'
<1> DEFINE room == MaxEvents - Len(Tail(queue))
           fit == IF Len(work) < room THEN Len(work) ELSE room
           tried == IF fit < Len(work) THEN fit + 1 ELSE fit
           seen == {work[i] : i \in 1..tried}
           new == [i \in 1..fit |-> Event(Due(work[i]), conn[work[i]])]
<1>1. /\ Handling("check", Tail(queue) \o new)
      /\ beats' = [d \in Decoders |-> IF d \in seen THEN Beat(d) ELSE beats[d]]
      /\ lost' = lost \cup {conn[work[i]] : i \in (fit + 1)..tried}
      /\ UNCHANGED <<need, dec, timer, ev, acc>>
  BY DEF CheckHeartBeat
<1>2. /\ Tail(queue) \in Seq(Events) /\ Len(Tail(queue)) \in Nat /\ Len(Tail(queue)) <= MaxEvents
      /\ DOMAIN Tail(queue) = 1..Len(Tail(queue))
  BY <1>1, HandlingFact, SeqFact
<1>3. /\ Len(work) \in Nat /\ DOMAIN work = 1..Len(work)
      /\ \A i \in DOMAIN work : work[i] \in Decoders
      /\ conn \in [Decoders -> 0..N]
  BY SeqFact DEF TypeOK
<1>4. /\ fit \in Nat /\ fit <= Len(work) /\ tried \in Nat /\ tried <= Len(work)
      /\ tried = fit \/ tried = fit + 1
  BY <1>2, <1>3, ConnAssumption
<1> HIDE DEF fit, tried
<1>5. \A i \in 1..tried : i \in 1..fit \/ i \in (fit + 1)..tried
  BY <1>4
<1>6. \A i \in 1..fit : i \in DOMAIN work /\ conn[work[i]] \in 0..N
  BY <1>3, <1>4
<1>7. new \in Seq(Events) /\ Len(new) = fit /\ \A i \in 1..fit : new[i] = Event(Due(work[i]), conn[work[i]])
  <2>1. \A i \in 1..fit : new[i] \in Events
    BY <1>6, ConnAssumption DEF Events, Event, Due
  <2> QED
    BY <1>4, <2>1, IsASeq
<1> HIDE DEF new
<1>8. /\ DOMAIN queue' = 1..(Len(Tail(queue)) + fit)
      /\ \A i \in 1..(Len(Tail(queue)) + fit) :
           queue'[i] = IF i <= Len(Tail(queue)) THEN Tail(queue)[i] ELSE new[i - Len(Tail(queue))]
  <2>1. queue' = Tail(queue) \o new
    BY <1>1 DEF Handling
  <2> QED
    BY <1>2, <1>7, <2>1, ConcatProperties, LenProperties
<1>9. \A h : Ending(h) => Ending(h)'
  <2>1. queue' = Tail(queue) \o new
    BY <1>1 DEF Handling
  <2>2. \A i \in DOMAIN Tail(queue) :
          i \in DOMAIN queue' /\ queue'[i] = Tail(queue)[i]
    BY <1>2, <1>4, <1>8
  <2> QED
    BY <1>1, <2>1, <2>2, EndingTaken
<1>10. ASSUME NEW i \in 1..fit, Beat(work[i]) > Retries PROVE Ending(conn[work[i]])'
  <2>1. new[i] = Event("timeout", conn[work[i]])
    BY <1>7, <1>10 DEF Due
  <2>2. /\ Len(Tail(queue)) + i \in 1..(Len(Tail(queue)) + fit)
        /\ ~(Len(Tail(queue)) + i <= Len(Tail(queue)))
        /\ Len(Tail(queue)) + i - Len(Tail(queue)) = i
    BY <1>2, <1>4
  <2>3. /\ Len(Tail(queue)) + i \in DOMAIN queue'
        /\ queue'[Len(Tail(queue)) + i] = Event("timeout", conn[work[i]])
    BY <1>8, <2>1, <2>2
  <2>4. conn'[work[i]] = conn[work[i]] /\ work' = work
    BY DEF CheckHeartBeat
  <2> QED
    BY <2>3, <2>4 DEF Ending, Event
<1> SUFFICES ASSUME NEW h \in Handles \ lost', need'[h], acc' # h
             PROVE  timer'[h] \/ (dec'[h] # None /\ beats'[dec'[h]] <= Retries) \/ Ending(h)'
  BY DEF Watched, Ending, Event
<1>11. timer[h] \/ (dec[h] # None /\ beats[dec[h]] <= Retries) \/ Ending(h)
  BY <1>1 DEF Watched
<1>12. CASE dec[h] # None /\ beats[dec[h]] <= Retries
  <2> DEFINE d == dec[h]
  <2>1. d \in Decoders /\ conn[d] = h
    BY <1>12 DEF TypeOK, Linked
  <2>2. CASE d \in seen
    <3>1. PICK i \in 1..tried : d = work[i]
      BY <2>2
    <3>2. i \in 1..fit
      <4>1. i \in (fit + 1)..tried => h \in lost'
        BY <1>1, <2>1, <3>1
      <4> QED
        BY <1>5, <4>1
    <3>3. CASE Beat(d) > Retries
      <4>1. Ending(conn[work[i]])'
        BY <1>10, <3>1, <3>2, <3>3
      <4>2. conn'[work'[i]] = conn[work[i]] /\ conn[work[i]] = h
        BY <2>1, <3>1 DEF CheckHeartBeat
      <4> QED
        BY <4>1, <4>2 DEF Ending, Event
    <3>4. CASE ~(Beat(d) > Retries)
      <4>1. beats'[d] = Beat(d) /\ Beat(d) \in Nat /\ Retries \in Nat
        BY <1>1, <2>1, <2>2, ConnAssumption DEF Beat, TypeOK
      <4> QED
        BY <1>1, <1>12, <3>4, <4>1
    <3> QED
      BY <3>3, <3>4
  <2>3. CASE d \notin seen
    <3>1. beats'[d] = beats[d]
      BY <1>1, <2>1, <2>3
    <3> QED
      BY <1>1, <1>12, <3>1
  <2> QED
    BY <2>2, <2>3
<1> QED
  BY <1>1, <1>9, <1>11, <1>12

LEMMA WatchStep ==
  ASSUME TypeOK, EventsOK, OnePlace, Linked, Watched, Next
  PROVE  Watched'
<1> USE DEF handleVars, socketVars, decVars
<1>1. /\ ev.at # "idle" => ev.h \in Handles
      /\ need \in [Handles -> BOOLEAN] /\ dec \in [Handles -> Decoders \cup {None}]
      /\ timer \in [Handles -> BOOLEAN] /\ beats \in [Decoders -> Nat]
      /\ acc # 0 => acc \in Handles
      /\ \A h \in Handles : h # 0
      /\ Retries \in Nat /\ 0 <= Retries
  BY ConnAssumption DEF TypeOK, EventsOK, Handles
<1>2. ASSUME UNCHANGED <<queue, ev>> PROVE \A h : Ending(h) => Ending(h)'
  BY <1>2 DEF Ending, Event
<1>3. CASE Take
  <2>1. /\ acc' = Head(pool) /\ need' = [need EXCEPT ![acc'] = TRUE] /\ acc = 0
        /\ UNCHANGED <<dec, timer, beats, queue, ev, lost>>
    BY <1>3 DEF Take
  <2> QED
    BY <1>1, <1>2, <2>1, WatchKept
<1>4. ASSUME NEW d \in Decoders, Attach(d) PROVE Watched'
  <2>1. /\ acc \in Handles /\ acc' = 0 /\ UNCHANGED <<need, dec, beats, queue, ev, lost>>
        /\ timer' = [timer EXCEPT ![acc] = TRUE]
    BY <1>1, <1>4 DEF Attach
  <2>2. \A h : Ending(h) => Ending(h)'
    BY <1>2, <2>1
  <2> SUFFICES ASSUME NEW h \in Handles \ lost', need'[h], acc' # h
               PROVE  timer'[h] \/ (dec'[h] # None /\ beats'[dec'[h]] <= Retries) \/ Ending(h)'
    BY DEF Watched, Ending, Event
  <2>3. CASE h = acc
    BY <1>1, <2>1, <2>3
  <2>4. CASE h # acc
    BY <1>1, <2>1, <2>2, <2>4 DEF Watched
  <2> QED
    BY <2>3, <2>4
<1>5. CASE HeartbeatTick
  <2>1. queue' = Append(queue, Event("check", 0)) /\ Event("check", 0) \in Events
        /\ UNCHANGED <<need, dec, timer, beats, ev, acc, lost>>
    BY <1>5, ConnAssumption DEF HeartbeatTick, Event, Events
  <2>2. \A h : Ending(h) => Ending(h)'
    BY <2>1, EndingAppend
  <2> QED
    BY <1>1, <2>1, <2>2, WatchKept
<1>6. ASSUME NEW h \in Handles, HandleRecv(h) PROVE Watched'
  BY <1>6, WatchAdd DEF HandleRecv
<1>7. ASSUME NEW h \in Handles, HandleTimeout(h) PROVE Watched'
  <2>1. /\ AddEvent("timeout", h) /\ UNCHANGED <<need, dec, beats, ev, acc>>
        /\ timer' = [timer EXCEPT ![h] = FALSE]
    BY <1>7 DEF HandleTimeout
  <2>2. \A g \in Handles \ {h} : timer'[g] = timer[g]
    BY <1>1, <2>1
  <2> QED
    BY <2>1, <2>2, WatchAdd
<1>8. ASSUME NEW c \in Clients, SendRequest(c) PROVE Watched'
  <2>1. client[c] \in Handles
    BY <1>8, ConnAssumption DEF SendRequest, TypeOK, Handles
  <2> QED
    BY <1>8, <2>1, WatchAdd DEF SendRequest
<1>9. CASE \/ \E c \in Clients, d \in Decoders : Lookup(c, d)
           \/ \E h \in Handles : \/ \E m \in Sent : Deliver(h, m)
                                 \/ \E how \in {"broken", "silent"} : Fail(h, how)
  <2>1. UNCHANGED <<need, dec, timer, beats, queue, ev, acc, lost>>
    BY <1>9 DEF Lookup, Deliver, Fail
  <2> QED
    BY <1>1, <1>2, <2>1, WatchKept
<1>10. CASE ProcMsg \/ RecvFails \/ ProcSendMsg \/ ProcConnTimeOut
  <2>1. /\ UNCHANGED <<need, dec, timer, beats, acc, lost>>
        /\ \E t \in {"recv", "send", "beat", "timeout"} :
             /\ Handling(t, Tail(queue))
             /\ t # "timeout" \/ (ev'.at = "drop" /\ ev'.h = Next1.h)
    BY <1>10 DEF ProcMsg, RecvFails, ProcSendMsg, ProcConnTimeOut, On, Idle
  <2>2. \A h : Ending(h) => Ending(h)'
    BY <2>1, EndingTaken
  <2> QED
    BY <1>1, <2>1, <2>2, WatchKept
<1>11. CASE AllRead \/ Unregister \/ \E d \in Decoders : RegisterFails(d)
  <2>1. /\ UNCHANGED <<need, dec, timer, beats, queue, acc>> /\ lost \subseteq lost'
        /\ ev.at = "msg"
    BY <1>11 DEF AllRead, Unregister, RegisterFails, Reading
  <2>2. \A h : Ending(h) => Ending(h)'
    BY <2>1 DEF Ending, Event
  <2> QED
    BY <1>1, <2>1, <2>2, WatchKept
<1>12. CASE HeartBeat \/ Answered
  <2>1. UNCHANGED <<need, dec, timer, queue, acc, lost>> /\ ev.at = "msg"
    BY <1>12 DEF HeartBeat, Answered, Reading
  <2>2. \A h : Ending(h) => Ending(h)'
    BY <2>1 DEF Ending, Event
  <2>3. \A d \in Decoders : beats'[d] = 0 \/ beats'[d] = beats[d]
    BY <1>12 DEF HeartBeat, Answered, Cleared
  <2> QED
    BY <1>1, <2>1, <2>2, <2>3, WatchKept
<1>13. ASSUME NEW d \in Decoders, Register(d) PROVE Watched'
  <2>1. /\ ev.at = "msg" /\ UNCHANGED <<need, queue, acc, lost>> /\ ev.h \in Handles
        /\ timer' = [timer EXCEPT ![ev.h] = FALSE]
    BY <1>1, <1>13 DEF Register, Reading, CancelTimeOut
  <2>2. \A h : Ending(h) => Ending(h)'
    BY <2>1 DEF Ending, Event
  <2> SUFFICES ASSUME NEW h \in Handles \ lost', need'[h], acc' # h
               PROVE  timer'[h] \/ (dec'[h] # None /\ beats'[dec'[h]] <= Retries) \/ Ending(h)'
    BY DEF Watched, Ending, Event
  <2>3. CASE h = ev.h
    <3>1. dec' = [dec EXCEPT ![h] = d] /\ beats' = [beats EXCEPT ![d] = 0]
      BY <1>13, <2>1, <2>3 DEF Register
    <3>2. d # None
      BY ConnAssumption
    <3> QED
      BY <1>1, <3>1, <3>2
  <2>4. CASE h # ev.h
    <3>1. timer'[h] = timer[h] /\ dec'[h] = dec[h]
      BY <1>1, <1>13, <2>1, <2>4 DEF Register
    <3>2. \A e \in Decoders : beats'[e] = 0 \/ beats'[e] = beats[e]
      BY <1>1, <1>13 DEF Register
    <3>3. timer[h] \/ (dec[h] # None /\ beats[dec[h]] <= Retries) \/ Ending(h)
      BY <2>1 DEF Watched
    <3>4. CASE dec[h] # None /\ beats[dec[h]] <= Retries
      BY <1>1, <3>1, <3>2, <3>4
    <3> QED
      BY <2>2, <3>1, <3>3, <3>4
  <2> QED
    BY <2>3, <2>4
<1>14. CASE Disconnect
  <2>1. /\ ev.at = "drop" /\ ev.h \in Handles /\ UNCHANGED <<timer, queue, acc, lost>>
        /\ need' = [need EXCEPT ![ev.h] = FALSE] /\ dec' = [dec EXCEPT ![ev.h] = None]
        /\ ev'.h = ev.h
    BY <1>1, <1>14 DEF Disconnect, TypeOK
  <2>2. \A h \in Handles \ {ev.h} : Ending(h) => Ending(h)'
    BY <2>1 DEF Ending, Event
  <2>3. \A e \in Decoders : beats'[e] = 0 \/ beats'[e] = beats[e]
    BY <1>1, <1>14 DEF Disconnect
  <2> QED
    BY <1>1, <2>1, <2>2, <2>3, WatchKept
<1>15. CASE ReleaseIgnored \/ ReleaseRef \/ PutBack \/ Remove
  <2>1. /\ ev.at \in {"release", "back", "close"} /\ UNCHANGED <<need, timer, beats, queue, acc>>
        /\ lost \subseteq lost'
        /\ dec' = dec \/ (dec' = [dec EXCEPT ![ev.h] = None] /\ ~need[ev.h])
    BY <1>15 DEF ReleaseIgnored, ReleaseRef, PutBack, Remove, OnePlace
  <2>2. \A h : Ending(h) => Ending(h)'
    BY <2>1 DEF Ending, Event
  <2> QED
    BY <1>1, <2>1, <2>2, WatchKept
<1> QED
  BY <1>3, <1>4, <1>5, <1>6, <1>7, <1>8, <1>9, <1>10, <1>11, <1>12, <1>13, <1>14, <1>15,
     WatchCheck DEF Next, EventThread, AcceptThread
-----------------------------------------------------------------------------
(* The inductive invariant.                                                *)

LEMMA Initially == Init => IInv
<1> SUFFICES ASSUME Init PROVE IInv
  OBVIOUS
<1>1. pool \in Seq(Handles) /\ DOMAIN pool = 1..N /\ \A i \in 1..N : pool[i] = i
  BY ConnAssumption, IsASeq DEF Init, Handles
<1>2. /\ <<>> \in Seq(Decoders) /\ <<>> \in Seq(Events) /\ <<>> \in Seq(Messages)
      /\ DOMAIN work = {} /\ DOMAIN queue = {} /\ Len(queue) = 0 /\ DOMAIN ev.left = {}
      /\ \A h \in Handles : DOMAIN inbox[h] = {}
  BY EmptySeq DEF Init, Idle
<1>3. TypeOK
  BY <1>1, <1>2, ConnAssumption DEF Init, TypeOK, Idle, Handles
<1>4. EventsOK /\ OnePlace
  BY <1>1, <1>2, ConnAssumption DEF Init, EventsOK, OnePlace, Closed, Idle, Handles
<1>5. Linked /\ ReadingOK /\ OwnHandle
  BY <1>2 DEF Init, Linked, Working, ReadingOK, UnregisterLast, OwnHandle, Idle
<1>6. NoHandleOK /\ RefsBalanced
  <2>1. \A h \in Handles : refs[h] = 0 /\ Pending(h) = 0
    BY <1>2, FS_EmptySet DEF Init, Pending
  <2> QED
    BY <1>2, <2>1 DEF Init, NoHandleOK, RefsBalanced, Idle
<1>7. Watched
  BY DEF Init, Watched
<1> QED
  BY <1>3, <1>4, <1>5, <1>6, <1>7 DEF IInv

LEMMA Inductive == IInv /\ [Next]_vars => IInv'
<1> SUFFICES ASSUME IInv, [Next]_vars PROVE IInv'
  OBVIOUS
<1>1. CASE Next
  BY <1>1, TypeStep, PlaceStep, LinkStep, ReadStep, BalanceStep, WatchStep DEF IInv
<1>2. CASE UNCHANGED vars
  <2>1. Watched'
    BY <1>2 DEF vars, handleVars, decVars, IInv, Watched, Ending, Event
  <2>2. TypeOK' /\ EventsOK' /\ OnePlace'
    BY <1>2 DEF vars, handleVars, socketVars, decVars, IInv, TypeOK, EventsOK, OnePlace, Closed
  <2>3. Linked' /\ ReadingOK' /\ OwnHandle' /\ NoHandleOK' /\ RefsBalanced'
    BY <1>2 DEF vars, handleVars, socketVars, decVars, IInv, Linked, Working, ReadingOK,
       UnregisterLast, OwnHandle, NoHandleOK, RefsBalanced, Pending
  <2> QED
    BY <2>1, <2>2, <2>3 DEF IInv
<1> QED
  BY <1>1, <1>2

LEMMA Always == Spec => []IInv
  BY Initially, Inductive, PTL DEF Spec

\* The variables have their types, and the queue never exceeds its capacity,
\* whatever clients, decoders and timers do.
THEOREM TypeCorrect == Spec => []TypeOK
<1>1. IInv => TypeOK
  BY DEF IInv
<1> QED
  BY <1>1, Always, PTL

\* A handle is never twice in the pool, nor there while it is in use, its
\* socket open or a decoder linked to it, in spite of the releases that
\* UNREGISTER, stale timers and stale requests cause.
THEOREM PoolIsClosed == Spec => []PooledIsClosed
<1>1. IInv => PooledIsClosed
  BY DEF IInv, OnePlace, Closed, PooledIsClosed
<1> QED
  BY <1>1, Always, PTL

\* A decoder at work and its connection always point at each other, and no
\* connect timer runs for a decoder that has registered.
THEOREM AlwaysLinked == Spec => []Linked
<1>1. IInv => Linked
  BY DEF IInv
<1> QED
  BY <1>1, Always, PTL

\* The references to a handle are exactly the events that will give one back,
\* queued or being handled, whatever is queued, dropped from a full queue,
\* checked or released, unless an event was dropped, its release ignored, or the
\* decoder has unregistered.
THEOREM RefsAreEvents == Spec => []RefsBalanced
<1>1. IInv => RefsBalanced
  BY DEF IInv
<1> QED
  BY <1>1, Always, PTL

\* No connection in use is ever without something that ends it if its peer falls
\* silent: its connect timer, the count of its heartbeats, or its timeout in the queue.
\* That holds for connections that no event was dropped for and nobody unregistered.
THEOREM AlwaysWatched == Spec => []Watched
<1>1. IInv => Watched
  BY DEF IInv
<1> QED
  BY <1>1, Always, PTL
=============================================================================
