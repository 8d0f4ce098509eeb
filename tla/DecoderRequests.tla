--------------------------- MODULE DecoderRequests ---------------------------
(***************************************************************************)
(* Requests to remote decoders (IVS_SDKTVWall), from the call of a client  *)
(* to the report of its outcome.  Three layers meet:                       *)
(*   - CControlBus gives every decoder that registers one of its threads,  *)
(*     and a call puts its business into the queue of that thread;         *)
(*   - the thread takes a number and a packet, has the event thread send   *)
(*     the packet, and waits for the packet's event (SendReqMsg);          *)
(*   - the event thread finds the packet of an answer by its number, copies *)
(*     the answer into it and sets the event.                              *)
(* There are as many packets as threads.  A request always fits a packet's *)
(* buffer, so that EncodeMsg does not fail.  How a connection handle comes *)
(* back to the pool is the subject of DecoderConns: here a handle is free  *)
(* for another decoder as soon as its own has left, which may be while     *)
(* events still refer to it.                                               *)
(***************************************************************************)
EXTENDS Naturals, Sequences, FiniteSets, SequencesExt

CONSTANTS
  Decoders,  \* remote decoders
  None,      \* not a decoder
  N,         \* number of threads, and of packets: THREAD_MAX_COUNT
  H,         \* number of connection handles, MAX_RD_NUM
  Calls,     \* bound: number of calls of clients
  MaxJoins,  \* bound: registrations of decoders
  MaxQueue,  \* capacity of a thread's queue
  MaxEvents  \* capacity of the event thread's queue, MAX_RDMGR_EVENT_NUM

ASSUME RequestAssumption ==
  /\ None \notin Decoders
  /\ N \in Nat /\ H \in Nat /\ Calls \in Nat /\ MaxJoins \in Nat
  /\ MaxQueue \in Nat /\ MaxEvents \in Nat

Threads == 1..N
Packets == 1..N
Handles == 1..H
Requests == 1..Calls  \* CBusiness objects; 0 is none
Width == 65536        \* of a number
Numbers == 0..(Width - 1)

VARIABLES
  biz,     \* the requests: got is the one whose answer was reported, and
           \* left (history) that its decoder has left meanwhile
  owner,   \* m_szDecoderID of a thread; None: m_bIdle
  queue,   \* m_objEventSyncQueue of a thread
  run,     \* what a thread does; seen and h are kept while it needs them
  count,   \* m_usTransNo
  free,    \* m_listFreeRDAPacket
  work,    \* m_listWorkRDAPacket
  packet,  \* m_usPacketNo, m_pSendBuff, m_pRecvBuff, m_pReadEvent
  events,  \* m_pDecoderMgrEventQ: packets to send
  who,     \* the decoder at the other end of a handle, registered
  asked,   \* the requests a decoder has received and not answered
  ev,      \* the event thread: an answer and the packet found for it
  joins,   \* registrations so far
  tired    \* history: packets whose caller stopped waiting

busVars == <<owner, queue>>
poolVars == <<free, work>>
vars == <<biz, busVars, run, count, poolVars, packet, events, who, asked, ev, joins, tired>>

Unasked == [at |-> "new", dec |-> None, t |-> 0, p |-> 0, no |-> 0, got |-> 0, left |-> FALSE]
Resting == [at |-> "rest", b |-> 0, seen |-> 0, h |-> 0]
Quiet == [at |-> "quiet", b |-> 0, p |-> 0]

Init ==
  /\ biz = [b \in Requests |-> Unasked] /\ owner = [t \in Threads |-> None]
  /\ queue = [t \in Threads |-> <<>>] /\ run = [t \in Threads |-> Resting] /\ count = 0
  /\ free = [i \in Packets |-> i] /\ work = <<>>
  /\ packet = [p \in Packets |-> [no |-> 0, send |-> 0, recv |-> 0, ready |-> FALSE]]
  /\ events = <<>> /\ who = [h \in Handles |-> None] /\ asked = [d \in Decoders |-> <<>>]
  /\ ev = Quiet /\ joins = 0 /\ tired = {}

-----------------------------------------------------------------------------
(* A client: IniBusiness, StartBusiness and StopBusiness.                  *)

\* AddBuesinessEvent: FindThread, under the lock of the threads,
FindThread(b, d) ==
  /\ biz[b].at = "new" /\ \A c \in Requests : c < b => biz[c].at \notin {"new", "found"}
  /\ IF \E t \in Threads : owner[t] = d
     THEN \E t \in Threads :
            owner[t] = d /\ biz' = [biz EXCEPT ![b].at = "found", ![b].dec = d, ![b].t = t]
     ELSE biz' = [biz EXCEPT ![b].at = "refused", ![b].dec = d]
  /\ UNCHANGED <<busVars, run, count, poolVars, packet, events, who, asked, ev, joins, tired>>

Fits(t) == Len(queue[t]) < MaxQueue

\* and the queue of that thread, whoever it serves by now.
AddEvent(b) ==
  /\ biz[b].at = "found"
  /\ IF Fits(biz[b].t)
     THEN /\ queue' = [queue EXCEPT ![biz[b].t] = Append(@, b)]
          /\ biz' = [biz EXCEPT ![b].at = "queued", ![b].t = 0]
     ELSE biz' = [biz EXCEPT ![b].at = "refused", ![b].t = 0] /\ UNCHANGED queue
  /\ UNCHANGED <<owner, run, count, poolVars, packet, events, who, asked, ev, joins, tired>>

-----------------------------------------------------------------------------
(* The threads of the bus.                                                 *)

At(t, at) == run[t].at = at
Goto(t, at) == run' = [run EXCEPT ![t].at = at]
Mine(t) == biz[run[t].b].p

Peeked(t) == queue[t]  \* (bug)
Popped(t) == Tail(queue[t])

\* ProcEventThread takes a business. GetTransNo increments a counter that all
\* threads share, without a lock: it reads,
Read(t) ==
  /\ At(t, "rest") /\ queue[t] # <<>>
  /\ queue' = [queue EXCEPT ![t] = Popped(t)]
  /\ run' = [run EXCEPT ![t] = [Resting EXCEPT !.at = "number", !.b = Head(queue[t]),
                                               !.seen = count]]
  /\ UNCHANGED <<biz, owner, count, poolVars, packet, events, who, asked, ev, joins, tired>>

\* and writes, 16 bits wide.
Write(t) ==
  /\ At(t, "number") /\ run' = [run EXCEPT ![t].at = "get", ![t].seen = 0]
  /\ count' = (run[t].seen + 1) % Width
  /\ biz' = [biz EXCEPT ![run[t].b].no = count']
  /\ UNCHANGED <<busVars, poolVars, packet, events, who, asked, ev, joins, tired>>

\* NotifyCallBack: with the answer to request c, or a failure (0).
Report(t, c) ==
  /\ biz' = [biz EXCEPT ![run[t].b].at = "done", ![run[t].b].got = c]
  /\ run' = [run EXCEPT ![t] = Resting]

GetRDAPacket(t) ==
  /\ At(t, "get")
  /\ IF free = <<>>
     THEN Report(t, 0) /\ UNCHANGED poolVars
     ELSE /\ free' = Tail(free) /\ work' = Append(work, Head(free))
          /\ biz' = [biz EXCEPT ![run[t].b].p = Head(free)] /\ Goto(t, "set")
  /\ UNCHANGED <<busVars, count, packet, events, who, asked, ev, joins, tired>>

\* EncodeMsg, and the packet gets the number. Its event is left as it is.
SetPacket(t) ==
  /\ At(t, "set") /\ Goto(t, "find")
  /\ packet' = [packet EXCEPT ![Mine(t)].no = biz[run[t].b].no, ![Mine(t)].send = run[t].b]
  /\ UNCHANGED <<biz, busVars, count, poolVars, events, who, asked, ev, joins, tired>>

AnyDecoder(d) == {h \in Handles : who[h] # None}  \* (bug)
HandlesOf(d) == {h \in Handles : who[h] = d}

\* SendRDAPacket: GetConnHandle looks up the handle of the decoder;
GetConnHandle(t) ==
  /\ At(t, "find")
  /\ LET hs == HandlesOf(biz[run[t].b].dec)
     IN  IF hs = {} THEN Goto(t, "failed")
         ELSE \E h \in hs : run' = [run EXCEPT ![t].at = "post", ![t].h = h]
  /\ UNCHANGED <<biz, busVars, count, poolVars, packet, events, who, asked, ev, joins, tired>>

\* AddRef fails if the handle is not in use any more; it may be another's.
PostSend(t) ==
  /\ At(t, "post")
  /\ IF who[run[t].h] # None /\ Len(events) < MaxEvents
     THEN /\ events' = Append(events, [p |-> Mine(t), h |-> run[t].h])
          /\ run' = [run EXCEPT ![t].at = "wait", ![t].h = 0]
     ELSE run' = [run EXCEPT ![t].at = "failed", ![t].h = 0] /\ UNCHANGED events
  /\ UNCHANGED <<biz, busVars, count, poolVars, packet, who, asked, ev, joins, tired>>

\* WaitReadPacketEv resets the event,
Wake(t) ==
  /\ At(t, "wait") /\ packet[Mine(t)].ready /\ Goto(t, "woken")
  /\ packet' = [packet EXCEPT ![Mine(t)].ready = FALSE]
  /\ UNCHANGED <<biz, busVars, count, poolVars, events, who, asked, ev, joins, tired>>

\* or times out after 5 s.
GiveUp(t) ==
  /\ At(t, "wait") /\ ~packet[Mine(t)].ready /\ Goto(t, "failed")
  /\ tired' = tired \cup {Mine(t)}
  /\ UNCHANGED <<biz, busVars, count, poolVars, packet, events, who, asked, ev, joins>>

\* The first packet at work that has the number no, if there is one.
AllAtWork(no) == DOMAIN work  \* (bug)
Numbered(no) == {i \in DOMAIN work : packet[work[i]].no = no}

First(no) == CHOOSE i \in Numbered(no) : \A j \in Numbered(no) : i <= j

FreesTheFound(p) == Append(free, work[First(packet[p].no)])  \* (bug)
Freed(p) == Append(free, p)

KeptAtWork(p) == work  \* (bug)
Unworked(p) == RemoveAt(work, First(packet[p].no))

\* The packet is put back; the packet at work is found by its number.
ReleaseRDAPacket(p) ==
  IF Numbered(packet[p].no) = {} THEN UNCHANGED poolVars
  ELSE free' = Freed(p) /\ work' = Unworked(p)

\* The end of SendReqMsg: the answer is decoded, which fails unless it answers
\* a request of the same type; the packet is released, and the client told.
Decode(t) ==
  /\ At(t, "woken") /\ ReleaseRDAPacket(Mine(t))
  /\ \/ Report(t, packet[Mine(t)].recv)
     \/ packet[Mine(t)].recv # run[t].b /\ Report(t, 0)
  /\ UNCHANGED <<busVars, count, packet, events, who, asked, ev, joins, tired>>

Fails(t) ==
  /\ At(t, "failed") /\ ReleaseRDAPacket(Mine(t)) /\ Report(t, 0)
  /\ UNCHANGED <<busVars, count, packet, events, who, asked, ev, joins, tired>>

-----------------------------------------------------------------------------
(* The event thread.                                                       *)

\* UNREGISTER or a lost connection: the thread of the decoder becomes idle with
\* what is in its queue, and the handle is given up.
UnderWay(b) == biz[b].at \in {"found", "queued"}
Gone(d) ==
  /\ owner' = [t \in Threads |-> IF owner[t] = d THEN None ELSE owner[t]]
  /\ who' = [h \in Handles |-> IF who[h] = d THEN None ELSE who[h]]
  /\ asked' = [asked EXCEPT ![d] = <<>>]
  /\ biz' = [b \in Requests |-> IF biz[b].dec = d /\ UnderWay(b)
                                THEN [biz[b] EXCEPT !.left = TRUE] ELSE biz[b]]

Online == {who[h] : h \in Handles} \ {None}

Leave(d) ==
  /\ ev = Quiet /\ d \in Online /\ Gone(d)
  /\ UNCHANGED <<queue, run, count, poolVars, packet, events, ev, joins, tired>>

\* A decoder registers: GetIdleThread takes the first thread that is idle.
Unowned == {t \in Threads : owner[t] = None}
Register(d, h) ==
  /\ ev = Quiet /\ d \notin Online /\ who[h] = None /\ joins < MaxJoins /\ joins' = joins + 1
  /\ who' = [who EXCEPT ![h] = d]
  /\ owner' = [t \in Threads |->
                 IF t \in Unowned /\ \A u \in Unowned : t <= u THEN d ELSE owner[t]]
  /\ UNCHANGED <<biz, queue, run, count, poolVars, packet, events, asked, ev, tired>>

\* ProcSendMsg sends what the packet holds by now. It fails when no decoder is
\* registered on the handle, and a decoder it cannot reach is disconnected.
ProcSendMsg ==
  /\ ev = Quiet /\ events # <<>> /\ events' = Tail(events)
  /\ LET d == who[Head(events).h]
     IN  \/ /\ d # None
            /\ asked' = [asked EXCEPT ![d] = Append(@, packet[Head(events).p].send)]
            /\ UNCHANGED <<biz, owner, who>>
         \/ d # None /\ Gone(d)
         \/ d = None /\ UNCHANGED <<biz, owner, who, asked>>
  /\ UNCHANGED <<queue, run, count, poolVars, packet, ev, joins, tired>>

\* ProcSyncRspMsg: a decoder has answered. FindRDAPacket looks the packet up, and
\* gives back its lock. An answer without one counts as a failure, for which
\* the decoder is disconnected if it was the last message read.
FindRDAPacket(d) ==
  /\ ev = Quiet /\ asked[d] # <<>>
  /\ LET b == Head(asked[d])
     IN  IF Numbered(biz[b].no) # {}
         THEN /\ ev' = [at |-> "found", b |-> b, p |-> work[First(biz[b].no)]]
              /\ asked' = [asked EXCEPT ![d] = Tail(@)] /\ UNCHANGED <<biz, owner, who>>
         ELSE /\ UNCHANGED ev
              /\ \/ asked' = [asked EXCEPT ![d] = Tail(@)] /\ UNCHANGED <<biz, owner, who>>
                 \/ Gone(d)
  /\ UNCHANGED <<queue, run, count, poolVars, packet, events, joins, tired>>

\* Then the answer is copied into the packet,
Copy ==
  /\ ev.at = "found" /\ ev' = [ev EXCEPT !.at = "copied"]
  /\ packet' = [packet EXCEPT ![ev.p].recv = ev.b]
  /\ UNCHANGED <<biz, busVars, run, count, poolVars, events, who, asked, joins, tired>>

\* and the event of the packet is set.
SetReadPacketEv ==
  /\ ev.at = "copied" /\ ev' = Quiet
  /\ packet' = [packet EXCEPT ![ev.p].ready = TRUE]
  /\ UNCHANGED <<biz, busVars, run, count, poolVars, events, who, asked, joins, tired>>

-----------------------------------------------------------------------------
Thread(t) ==
  \/ Read(t) \/ Write(t) \/ GetRDAPacket(t) \/ SetPacket(t) \/ GetConnHandle(t) \/ PostSend(t)
  \/ Wake(t) \/ GiveUp(t) \/ Decode(t) \/ Fails(t)

Next ==
  \/ \E b \in Requests : AddEvent(b) \/ \E d \in Decoders : FindThread(b, d)
  \/ \E t \in Threads : Thread(t)
  \/ ProcSendMsg \/ Copy \/ SetReadPacketEv
  \/ \E d \in Decoders : \/ FindRDAPacket(d) \/ Leave(d)
                         \/ \E h \in Handles : Register(d, h)

Spec == Init /\ [][Next]_vars

-----------------------------------------------------------------------------
Bizs == [at : {"new", "found", "queued", "refused", "done"}, dec : Decoders \cup {None},
         t : 0..N, p : 0..N, no : Numbers, got : 0..Calls, left : BOOLEAN]
Runs == [at : {"rest", "number", "get", "set", "find", "post", "wait", "woken", "failed"},
         b : 0..Calls, seen : Numbers, h : 0..H]
Packs == [no : Numbers, send : 0..Calls, recv : 0..Calls, ready : BOOLEAN]
Sends == [p : Packets, h : Handles]

\* Every variable keeps its type.
TypeOK ==
  /\ biz \in [Requests -> Bizs] /\ owner \in [Threads -> Decoders \cup {None}]
  /\ queue \in [Threads -> Seq(Requests)] /\ \A t \in Threads : Len(queue[t]) <= MaxQueue
  /\ run \in [Threads -> Runs] /\ count \in Numbers
  /\ free \in Seq(Packets) /\ work \in Seq(Packets) /\ packet \in [Packets -> Packs]
  /\ events \in Seq(Sends) /\ Len(events) <= MaxEvents
  /\ who \in [Handles -> Decoders \cup {None}]
  /\ asked \in [Decoders -> Seq(Requests)]
  /\ ev \in [at : {"quiet", "found", "copied"}, b : 0..Calls, p : 0..N]
  /\ joins \in 0..MaxJoins /\ tired \subseteq Packets

Holding(t) == run[t].at \in {"set", "find", "post", "wait", "woken", "failed"}
HasNumber(b) == biz[b].at = "done" \/ \E t \in Threads : run[t].b = b /\ ~At(t, "number")
\* Two requests have got one number, or one has got the number of an unused packet.
Unlucky ==
  \E b \in Requests : HasNumber(b) /\ (biz[b].no = 0 \/ \E c \in Requests \ {b} : biz[c].no = biz[b].no)

\* Whatever numbers the requests get, and whoever releases first: no packet
\* serves two requests, and none that serves one is free.
NotShared ==
  /\ \A i, j \in DOMAIN free : i # j => free[i] # free[j]
  /\ \A t \in Threads : Holding(t) =>
       /\ \A i \in DOMAIN free : free[i] # Mine(t)
       /\ \A u \in Threads \ {t} : Holding(u) => Mine(t) # Mine(u)

\* The packets are a pool: though a packet at work is found by a number that may
\* be another's, a thread gives back the one it took, or none.
Pool == INSTANCE ResourcePool WITH
  Items <- Packets, Users <- Threads, free <- {free[i] : i \in DOMAIN free},
  held <- [t \in Threads |-> IF Holding(t) THEN {Mine(t)} ELSE {}]
KeepsPool == Pool!Spec

\* As long as the numbers are distinct, the list of packets at work holds
\* exactly the packets that serve a request, and every other one is free.
PacketsKept ==
  Unlucky \/ \A p \in Packets :
    LET used == \E t \in Threads : Holding(t) /\ Mine(t) = p
    IN  /\ Cardinality({i \in DOMAIN work : work[i] = p}) = IF used THEN 1 ELSE 0
        /\ (\E i \in DOMAIN free : free[i] = p) <=> ~used

\* As long as the numbers are distinct, a request that succeeds has got its own
\* answer: unless an earlier caller has stopped waiting for the same packet.
OwnAnswer ==
  Unlucky \/ \A b \in Requests : biz[b].at = "done" /\ biz[b].got \notin {0, b} => biz[b].p \in tired

\* As long as the numbers are distinct, a request reaches no decoder but its own:
\* unless that one left while the request was under way, or a caller has stopped
\* waiting for its packet.
Delivered ==
  Unlucky \/ \A d \in Decoders : \A i \in DOMAIN asked[d] :
    LET b == asked[d][i] IN biz[b].dec = d \/ biz[b].left \/ biz[b].p \in tired

\* A call that was accepted is in one queue or in the hands of one thread, once,
\* until it is reported, whether its decoder stays or its thread gets another.
Times(b) ==
  Cardinality({t \in Threads : run[t].b = b})
    + Cardinality({at \in Threads \X (1..MaxQueue) :
                     at[2] \in DOMAIN queue[at[1]] /\ queue[at[1]][at[2]] = b})
Accounted == \A b \in Requests : Times(b) = IF biz[b].at = "queued" THEN 1 ELSE 0
=============================================================================
