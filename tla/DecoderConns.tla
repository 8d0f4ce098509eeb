---------------------------- MODULE DecoderConns ----------------------------
(***************************************************************************)
(* The connections of remote decoders (IVS_SDKTVWall): the pool of         *)
(* connection handles, their reference counts, and the queue of events     *)
(* that refer to them.  Five kinds of threads meet here:                   *)
(*   - the accept thread takes a handle from the pool for a connection;    *)
(*   - the select thread queues an event when a socket becomes readable;   *)
(*   - the timer thread queues connect timeouts and heartbeat checks;      *)
(*   - clients (SendRDAPacket) queue requests to a decoder;                *)
(*   - the event thread handles one event after the other, and returns     *)
(*     handles to the pool.                                                *)
(* A reference is taken for each event (AddRef) and given back when it has *)
(* been handled (ReleaseRef); an event that finds the queue full is        *)
(* dropped, and its reference stays: the handle never returns to the pool. *)
(* A decoder registers under one name, its own, and is the decoder object  *)
(* as well: with one object per name in the work list, of which there are  *)
(* as many as handles, the list of free objects never runs empty.  A       *)
(* heartbeat may carry the name of any decoder.                            *)
(***************************************************************************)
EXTENDS Naturals, Sequences, FiniteSets

CONSTANTS
  N,         \* number of connection handles, MAX_RD_NUM
  Decoders,  \* remote decoders
  Clients,   \* threads that send requests
  None,      \* not a decoder
  Retries,   \* MAX_HEARTBEAT_RETRY_COUNT
  MaxEvents, \* capacity of the queue, MAX_RDMGR_EVENT_NUM
  Sent,      \* bound: the messages decoders send
  MaxInbox,  \* bound: messages of a connection not yet received
  MaxRefs    \* bound: references to a handle that clients and heartbeats take

ASSUME ConnAssumption ==
  /\ None \notin Decoders
  /\ Sent \subseteq {"register", "unregister", "beat", "answer"}
  /\ N \in Nat /\ Retries \in Nat /\ MaxInbox \in Nat /\ MaxRefs \in Nat
  /\ MaxEvents \in Nat \ {0}

VARIABLES
  pool,    \* m_ListDecoderConnHandle
  need,    \* m_bNeedUse of a handle
  refs,    \* m_ulReference
  dec,     \* m_pRemoteDecoder
  timer,   \* its connect timer is registered
  sock,    \* its socket: "none", "open", "broken", or "silent": the peer has
           \* stopped without closing the connection
  read,    \* the select thread looks for data (EPOLLIN in m_ulEvents)
  who,     \* the decoder at the other end
  inbox,   \* what it has sent
  work,    \* m_WorkListRemoteDecoder
  conn,    \* m_pDecoderConnHandle of a decoder
  beats,   \* m_ulHeartBeatCount
  queue,   \* m_pDecoderMgrEventQ
  ev,      \* the event thread
  acc,     \* the handle being accepted: the list of connections is locked
  client,  \* the handle a client has looked up
  lost     \* history: handles with a reference that no event will give back,
           \* and those that UNREGISTER has disconnected twice

handleVars == <<need, refs, dec, timer>>
socketVars == <<sock, read, who, inbox>>
decVars == <<work, conn, beats>>
vars == <<pool, handleVars, socketVars, decVars, queue, ev, acc, client, lost>>

Handles == 1..N  \* 0 is no handle
Messages == {"register", "unregister", "beat", "answer"}
Events == [type : {"recv", "send", "timeout", "beat", "check"}, h : 0..N]
Idle == [at |-> "idle", h |-> 0, from |-> None, left |-> <<>>,
         ok |-> TRUE, again |-> FALSE]

Init ==
  /\ pool = [i \in Handles |-> i]
  /\ need = [h \in Handles |-> FALSE] /\ refs = [h \in Handles |-> 0]
  /\ dec = [h \in Handles |-> None] /\ timer = [h \in Handles |-> FALSE]
  /\ sock = [h \in Handles |-> "none"] /\ read = [h \in Handles |-> FALSE]
  /\ who = [h \in Handles |-> None] /\ inbox = [h \in Handles |-> <<>>]
  /\ work = <<>> /\ conn = [d \in Decoders |-> 0] /\ beats = [d \in Decoders |-> 0]
  /\ queue = <<>> /\ ev = Idle /\ acc = 0 /\ client = [c \in Clients |-> 0]
  /\ lost = {}

Working == {work[i] : i \in DOMAIN work}
Event(type, h) == [type |-> type, h |-> h]

\* AddRef and pushBackEv: an event is queued for a handle that is in use.
Room(q) == Len(q) < MaxEvents
AddEvent(type, h) ==
  IF need[h]
  THEN /\ refs' = [refs EXCEPT ![h] = @ + 1]
       /\ IF Room(queue) THEN queue' = Append(queue, Event(type, h)) /\ UNCHANGED lost
                         ELSE lost' = lost \cup {h} /\ UNCHANGED queue
  ELSE UNCHANGED <<refs, queue, lost>>

-----------------------------------------------------------------------------
(* The accept thread: readEvent, under the lock of the list.               *)

\* GetConnHandle of the pool. (A connection is closed when the pool is empty.)
Take ==
  /\ acc = 0 /\ pool # <<>>
  /\ acc' = Head(pool) /\ pool' = Tail(pool)
  /\ need' = [need EXCEPT ![Head(pool)] = TRUE]
  /\ UNCHANGED <<refs, dec, timer, socketVars, decVars, queue, ev, client, lost>>

\* SetTimeOut cancels a timer left from an earlier connection; the handle is
\* initialised and added to the list.
Attach(d) ==
  /\ acc # 0
  /\ timer' = [timer EXCEPT ![acc] = TRUE]
  /\ sock' = [sock EXCEPT ![acc] = "open"] /\ read' = [read EXCEPT ![acc] = TRUE]
  /\ who' = [who EXCEPT ![acc] = d] /\ inbox' = [inbox EXCEPT ![acc] = <<>>]
  /\ acc' = 0
  /\ UNCHANGED <<pool, need, refs, dec, decVars, queue, ev, client, lost>>

-----------------------------------------------------------------------------
(* The select thread and the timer thread.                                 *)

Readable(h) ==
  read[h] /\ (sock[h] = "broken" \/ (sock[h] # "none" /\ inbox[h] # <<>>))

\* checkSelectResult stops looking for data before it calls handle_recv.
HandleRecv(h) ==
  /\ acc = 0 /\ Readable(h)
  /\ read' = [read EXCEPT ![h] = FALSE]
  /\ AddEvent("recv", h)
  /\ UNCHANGED <<pool, need, dec, timer, sock, who, inbox, decVars, ev, acc, client>>

HandleTimeout(h) ==
  /\ timer[h] /\ timer' = [timer EXCEPT ![h] = FALSE]
  /\ AddEvent("timeout", h)
  /\ UNCHANGED <<pool, need, dec, socketVars, decVars, ev, acc, client>>

\* The heartbeat timer. It waits for the last check, and for the bound on
\* references.
HeartbeatTick ==
  /\ Room(queue)
  /\ \A i \in DOMAIN queue : queue[i].type # "check"
  /\ \A h \in Handles : dec[h] # None => h \in lost \/ refs[h] < MaxRefs
  /\ queue' = Append(queue, Event("check", 0))
  /\ UNCHANGED <<pool, handleVars, socketVars, decVars, ev, acc, client, lost>>

-----------------------------------------------------------------------------
(* Clients: SendRDAPacket.                                                 *)

\* GetConnHandle of the array of decoders, under its lock.
Lookup(c, d) ==
  /\ client[c] = 0 /\ d \in Working
  /\ conn[d] # 0 /\ need[conn[d]] /\ refs[conn[d]] < MaxRefs
  /\ client' = [client EXCEPT ![c] = conn[d]]
  /\ UNCHANGED <<pool, handleVars, socketVars, decVars, queue, ev, acc, lost>>

\* The handle may have been released, and taken again, since.
SendRequest(c) ==
  /\ client[c] # 0 /\ client' = [client EXCEPT ![c] = 0]
  /\ AddEvent("send", client[c])
  /\ UNCHANGED <<pool, need, dec, timer, socketVars, decVars, ev, acc>>

-----------------------------------------------------------------------------
(* The event thread: ProcEventThread.  While it handles an event,          *)
(* ev.left holds the messages it has received from the decoder ev.from and *)
(* not yet looked at, ev.ok the result of the last one, and ev.again says  *)
(* that it returns to them after a disconnection.                          *)

Next1 == Head(queue)
Handling(type, rest) ==
  ev.at = "idle" /\ queue # <<>> /\ Next1.type = type /\ queue' = rest
On(h, place) == ev' = [Idle EXCEPT !.at = place, !.h = h]

\* ProcMsg: what has arrived is received at once.
ProcMsg ==
  LET h == Next1.h IN
  /\ Handling("recv", Tail(queue)) /\ sock[h] # "none" /\ inbox[h] # <<>>
  /\ inbox' = [inbox EXCEPT ![h] = <<>>] /\ read' = [read EXCEPT ![h] = TRUE]
  /\ ev' = [Idle EXCEPT !.at = "msg", !.h = h, !.from = who[h], !.left = inbox[h]]
  /\ UNCHANGED <<pool, handleVars, sock, who, decVars, acc, client, lost>>

\* The socket is closed, or the connection was lost.
RecvFails ==
  /\ Handling("recv", Tail(queue)) /\ (sock[Next1.h] # "none" => inbox[Next1.h] = <<>>)
  /\ On(Next1.h, "drop")
  /\ UNCHANGED <<pool, handleVars, socketVars, decVars, acc, client, lost>>

\* CTcpConnHandle::send closes the socket when it fails.
Send(h, ok) ==
  IF ok THEN sock[h] # "none" /\ UNCHANGED sock
        ELSE sock[h] \in {"none", "broken"} /\ sock' = [sock EXCEPT ![h] = "none"]

\* ProcSendMsg, and SendHeartBeatMsg, which differ in the message only.
ProcSendMsg ==
  \E type \in {"send", "beat"}, ok \in BOOLEAN :
    LET h == Next1.h IN
    /\ Handling(type, Tail(queue))
    /\ IF dec[h] = None THEN ~ok /\ UNCHANGED sock ELSE Send(h, ok)
    /\ On(h, IF ok THEN "release" ELSE "drop")
    /\ UNCHANGED <<pool, handleVars, read, who, inbox, decVars, acc, client, lost>>

ProcConnTimeOut ==
  /\ Handling("timeout", Tail(queue)) /\ On(Next1.h, "drop")
  /\ UNCHANGED <<pool, handleVars, socketVars, decVars, acc, client, lost>>

Beat(d) == beats[d] + 1

DueLate(d) == IF beats[d] > Retries THEN "timeout" ELSE "beat"  \* (bug)
Due(d) == IF Beat(d) > Retries THEN "timeout" ELSE "beat"

HeldNot(seen) == refs  \* (bug)
Held(seen) ==
  [h \in Handles |-> IF \E d \in seen : conn[d] = h THEN refs[h] + 1 ELSE refs[h]]

\* CheckHeartBeat: one event for each decoder at work, in their order, until
\* the queue is full. (AddRef cannot fail: the handle of a working decoder is
\* in use, see Linked.)
CheckHeartBeat ==
  LET room == MaxEvents - Len(Tail(queue))
      fit == IF Len(work) < room THEN Len(work) ELSE room
      tried == IF fit < Len(work) THEN fit + 1 ELSE fit
      seen == {work[i] : i \in 1..tried}
  IN
  /\ Handling("check", Tail(queue) \o [i \in 1..fit |-> Event(Due(work[i]), conn[work[i]])])
  /\ beats' = [d \in Decoders |-> IF d \in seen THEN Beat(d) ELSE beats[d]]
  /\ refs' = Held(seen)
  /\ lost' = lost \cup {conn[work[i]] : i \in (fit + 1)..tried}
  /\ UNCHANGED <<pool, need, dec, timer, socketVars, work, conn, ev, acc, client>>

\* The messages of one recv: the result of the last decides what follows.
Reading(m) == ev.at = "msg" /\ ev.left # <<>> /\ Head(ev.left) = m
Done(ok) == ev' = [ev EXCEPT !.left = Tail(@), !.ok = ok]

AllRead ==
  /\ ev.at = "msg" /\ ev.left = <<>>
  /\ ev' = [ev EXCEPT !.at = IF ev.ok THEN "release" ELSE "drop"]
  /\ UNCHANGED <<pool, handleVars, socketVars, decVars, queue, acc, client, lost>>

\* ProcRegisterMsg. The name is taken already, or the response cannot be sent:
RegisterFails(d) ==
  /\ Reading("register") /\ d = ev.from
  /\ IF d \in Working THEN UNCHANGED sock ELSE Send(ev.h, FALSE)
  /\ Done(FALSE)
  /\ UNCHANGED <<pool, handleVars, read, who, inbox, decVars, queue, acc, client, lost>>

TimerStays(h) == timer  \* (bug)
CancelTimeOut(h) == [timer EXCEPT ![h] = FALSE]

\* The response was sent; the connect timer is cancelled, and the decoder
\* goes to work unless the handle has been given up meanwhile.
Register(d) ==
  /\ Reading("register") /\ d = ev.from /\ d \notin Working
  /\ Send(ev.h, TRUE)
  /\ timer' = CancelTimeOut(ev.h)
  /\ Done(need[ev.h])
  /\ IF need[ev.h]
     THEN /\ work' = Append(work, d) /\ beats' = [beats EXCEPT ![d] = 0]
          /\ conn' = [conn EXCEPT ![d] = ev.h] /\ dec' = [dec EXCEPT ![ev.h] = d]
     ELSE UNCHANGED <<decVars, dec>>
  /\ UNCHANGED <<pool, need, refs, read, who, inbox, queue, acc, client, lost>>

\* ProcUnRegisterMsg disconnects, and has its caller disconnect once more.
Unregister ==
  /\ Reading("unregister")
  /\ ev' = [ev EXCEPT !.at = "drop", !.left = Tail(@), !.ok = FALSE, !.again = TRUE]
  /\ lost' = lost \cup {ev.h}
  /\ UNCHANGED <<pool, handleVars, socketVars, decVars, queue, acc, client>>

Cleared(d) == [e \in Decoders |-> IF e = d /\ e \in Working THEN 0 ELSE beats[e]]

\* An answer to our heartbeat, or the decoder's own, which is answered. What counts is
\* the name in the message, whichever decoder has sent it.
HeartBeat ==
  /\ Reading("beat") /\ \E d \in Decoders : beats' = Cleared(d)
  /\ \/ Done(TRUE) /\ UNCHANGED sock
     \/ \E ok \in BOOLEAN : Send(ev.h, ok) /\ Done(ok)
  /\ UNCHANGED <<pool, handleVars, read, who, inbox, work, conn, queue, acc, client, lost>>

\* ProcSyncRspMsg. An answer that comes too late finds no packet, and fails.
Answered ==
  /\ Reading("answer") /\ beats' = Cleared(dec[ev.h])
  /\ \E found \in BOOLEAN : Done(found)
  /\ UNCHANGED <<pool, handleVars, socketVars, work, conn, queue, acc, client, lost>>

Without(s, i) == SubSeq(s, 1, i - 1) \o SubSeq(s, i + 1, Len(s))

\* RemoteDecoderDisConnect, up to the release of the handle.
Disconnect ==
  /\ ev.at = "drop" /\ ev' = [ev EXCEPT !.at = "release"]
  /\ need' = [need EXCEPT ![ev.h] = FALSE]
  /\ dec' = [dec EXCEPT ![ev.h] = None]
  /\ IF dec[ev.h] = None THEN UNCHANGED decVars
     ELSE /\ work' = Without(work, CHOOSE i \in DOMAIN work : work[i] = dec[ev.h])
          /\ conn' = [conn EXCEPT ![dec[ev.h]] = 0] /\ beats' = [beats EXCEPT ![dec[ev.h]] = 0]
  /\ UNCHANGED <<pool, refs, timer, socketVars, queue, acc, client, lost>>

\* Back to the messages that are left, or to the queue.
Return == ev' = IF ev.again THEN [ev EXCEPT !.at = "msg", !.again = FALSE] ELSE Idle

\* ReleaseRef: nothing is given back when the socket is closed.
ReleaseIgnored ==
  /\ ev.at = "release" /\ sock[ev.h] = "none" /\ Return
  /\ lost' = lost \cup {ev.h}
  /\ UNCHANGED <<pool, handleVars, socketVars, decVars, queue, acc, client>>

Left(h) == IF refs[h] = 0 THEN 0 ELSE refs[h] - 1
UnusedAnyway(h) == Left(h) = 0  \* (bug)
UnusedBefore(h) == refs[h] = 0 /\ ~need[h]  \* (bug)
Unused(h) == Left(h) = 0 /\ ~need[h]

ReleaseRef ==
  /\ ev.at = "release" /\ sock[ev.h] # "none"
  /\ refs' = [refs EXCEPT ![ev.h] = Left(ev.h)]
  /\ IF Unused(ev.h) THEN ev' = [ev EXCEPT !.at = "close"] ELSE Return
  /\ UNCHANGED <<pool, need, dec, timer, socketVars, decVars, queue, acc, client, lost>>

\* ReleaseConnHandle: removeTcpClient, under the lock of the list,
Remove ==
  /\ ev.at = "close" /\ acc = 0 /\ ev' = [ev EXCEPT !.at = "back"]
  /\ dec' = [dec EXCEPT ![ev.h] = None]
  /\ sock' = [sock EXCEPT ![ev.h] = "none"] /\ inbox' = [inbox EXCEPT ![ev.h] = <<>>]
  /\ read' = [read EXCEPT ![ev.h] = FALSE] /\ who' = [who EXCEPT ![ev.h] = None]
  /\ UNCHANGED <<pool, need, refs, timer, decVars, queue, acc, client, lost>>

\* and the handle is put at the end of the pool.
PutBack ==
  /\ ev.at = "back" /\ Return
  /\ pool' = Append(pool, ev.h)
  /\ UNCHANGED <<handleVars, socketVars, decVars, queue, acc, client, lost>>

-----------------------------------------------------------------------------
(* The remote decoders.                                                    *)

\* A decoder sends nothing after UNREGISTER.
Deliver(h, m) ==
  /\ sock[h] = "open" /\ Len(inbox[h]) < MaxInbox
  /\ \A i \in DOMAIN inbox[h] : inbox[h][i] # "unregister"
  /\ inbox' = [inbox EXCEPT ![h] = Append(@, m)]
  /\ UNCHANGED <<pool, handleVars, sock, read, who, decVars, queue, ev, acc, client, lost>>

Fail(h, how) ==
  /\ sock[h] = "open" /\ sock' = [sock EXCEPT ![h] = how]
  /\ UNCHANGED <<pool, handleVars, read, who, inbox, decVars, queue, ev, acc, client, lost>>

-----------------------------------------------------------------------------
EventThread ==
  \/ ProcMsg \/ RecvFails \/ ProcSendMsg \/ ProcConnTimeOut \/ CheckHeartBeat
  \/ AllRead \/ (\E d \in Decoders : RegisterFails(d) \/ Register(d))
  \/ Unregister \/ HeartBeat \/ Answered
  \/ Disconnect \/ ReleaseIgnored \/ ReleaseRef \/ Remove \/ PutBack

AcceptThread == Take \/ \E d \in Decoders : Attach(d)

Next ==
  \/ EventThread \/ AcceptThread \/ HeartbeatTick
  \/ \E h \in Handles : HandleRecv(h) \/ HandleTimeout(h)
  \/ \E c \in Clients : SendRequest(c) \/ \E d \in Decoders : Lookup(c, d)
  \/ \E h \in Handles : \/ \E m \in Sent : Deliver(h, m)
                        \/ \E how \in {"broken", "silent"} : Fail(h, how)

Spec == Init /\ [][Next]_vars

\* The threads run, and the timers tick; nothing obliges decoders or clients.
\* (The tick waits for the bound on references, which passes.)
FairSpec ==
  /\ Spec
  /\ WF_vars(EventThread) /\ WF_vars(\E d \in Decoders : Attach(d)) /\ SF_vars(HeartbeatTick)
  /\ \A h \in Handles : WF_vars(HandleRecv(h)) /\ WF_vars(HandleTimeout(h))

-----------------------------------------------------------------------------
\* Every variable keeps its type.
TypeOK ==
  /\ pool \in Seq(Handles) /\ need \in [Handles -> BOOLEAN] /\ refs \in [Handles -> Nat]
  /\ dec \in [Handles -> Decoders \cup {None}] /\ timer \in [Handles -> BOOLEAN]
  /\ sock \in [Handles -> {"none", "open", "broken", "silent"}]
  /\ read \in [Handles -> BOOLEAN] /\ who \in [Handles -> Decoders \cup {None}]
  /\ inbox \in [Handles -> Seq(Messages)]
  /\ work \in Seq(Decoders) /\ conn \in [Decoders -> 0..N] /\ beats \in [Decoders -> Nat]
  /\ queue \in Seq(Events) /\ Len(queue) <= MaxEvents /\ acc \in 0..N /\ client \in [Clients -> 0..N]
  /\ ev \in [at : {"idle", "msg", "drop", "release", "close", "back"}, h : 0..N,
             from : Decoders \cup {None}, left : Seq(Messages), ok : BOOLEAN, again : BOOLEAN]
  /\ lost \subseteq Handles

\* A handle in the pool is there once and is at rest: not in use, its socket
\* closed, and no decoder linked to it.
PooledIsClosed ==
  /\ \A i, j \in DOMAIN pool : i # j => pool[i] # pool[j]
  /\ \A i \in DOMAIN pool :
       ~need[pool[i]] /\ sock[pool[i]] = "none" /\ dec[pool[i]] = None

\* A decoder at work and its connection point at each other, and no timer
\* waits any more to take the connection for one that never registered.
Linked ==
  /\ \A i, j \in DOMAIN work : i # j => work[i] # work[j]
  /\ \A h \in Handles : dec[h] # None =>
       need[h] /\ ~timer[h] /\ dec[h] \in Working /\ conn[dec[h]] = h
  /\ \A d \in Working : conn[d] # 0 /\ dec[conn[d]] = d

\* Until a decoder unregisters, the references to a handle are the events that
\* will each give one back, the one being handled included.
Pending(h) == Cardinality({i \in DOMAIN queue : queue[i].h = h})
RefsBalanced ==
  \A h \in Handles \ lost :
    refs[h] = Pending(h) + IF ev.h = h /\ ev.at \in {"msg", "drop", "release"} THEN 1 ELSE 0

\* Whatever its peer does, a connection in use is watched, unless its handle is lost: its
\* connect timer runs, or it belongs to a decoder at work whose count of heartbeats
\* without an answer has not passed the limit, or else its timeout is queued or it is
\* being disconnected. One that nothing watched would stay for ever if the peer fell
\* silent. (The count can be cleared over any connection, see HeartBeat.)
Ending(h) ==
  \/ \E i \in DOMAIN queue : queue[i] = Event("timeout", h)
  \/ ev.h = h /\ ev.at = "drop"
Watched ==
  \A h \in Handles \ lost : need[h] /\ acc # h =>
    \/ timer[h]
    \/ dec[h] # None /\ beats[dec[h]] <= Retries
    \/ Ending(h)

\* A handle that is given up returns to the pool.
HandlesComeBack ==
  \A h \in Handles :
    ~need[h] ~> need[h] \/ h \in lost \/ \E i \in DOMAIN pool : pool[i] = h

=============================================================================
