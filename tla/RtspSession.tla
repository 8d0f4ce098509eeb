---------------------------- MODULE RtspSession ----------------------------
(***************************************************************************)
(* One CRtspSession of the RTSP client library (IVS_SDK/rtsp_client), from *)
(* its creation to its deletion, with everything that touches it:          *)
(*   - API threads, in RTSP_CLIENT_Send*Msg and RTSP_CLIENT_FreeHandle;    *)
(*   - the reactor thread that runs the session's handle_input;            *)
(*   - the manager's one-second timer and the sweep of the reactor loop,   *)
(*     which delete freed sessions;                                        *)
(*   - the RTSP server and the TCP connection.                             *)
(* Two locks order the first two: m_SessionMutex (owner) is held by an API *)
(* thread for a whole call, the wait for the answer included; m_Mutex is   *)
(* held by handle_input (rx is not idle) and by a call that timed out.     *)
(***************************************************************************)
EXTENDS Naturals, Sequences, FiniteSets

CONSTANTS
  Callers,      \* API threads
  NoCaller,     \* m_SessionMutex is free
  Modes,        \* values of m_bblocked to consider
  Codes,        \* answers the server gives: "ok", "refused", "continue"
  MaxCSeq,      \* bound: requests created on the session
  MaxAnnounce,  \* bound: ANNOUNCE requests the server pushes
  MaxContinue   \* bound: requests the server answers with 100 Continue first

ASSUME ConstAssumption ==
  /\ NoCaller \notin Callers
  /\ Modes \subseteq BOOLEAN
  /\ Codes \subseteq {"ok", "refused", "continue"}
  /\ MaxCSeq \in Nat
  /\ MaxAnnounce \in Nat
  /\ MaxContinue \in Nat

VARIABLES
  \* the object
  blocked,    \* m_bblocked: the calls on this handle wait for their answer
  status,     \* m_enSessionStatus
  msg,        \* m_pRtspMsg: the request that is waiting for its answer
  cseq,       \* m_unCSeq
  sem,        \* m_pRtspSemaphore: its count
  recvFlag,   \* m_bRecvRetFlag
  retCode,    \* m_iRetCode
  recvTimer,  \* m_lTimerId is not -1
  dataTimer,  \* m_lDataTimer is not -1
  connFail,   \* m_bConnectFail
  \* its place in the two lists
  inList,     \* it is in CRtspSessionManager::m_RtspSessionList
  regs,       \* how many times it is in CRtspReactorManager::m_FreeSessionList
  delFlag,    \* m_bDelete
  alive,      \* it has not been deleted
  \* the connection and the server
  link,       \* "none": no handle; "up"; "broken": the server has closed its end
  toServer, toClient,
  srv,        \* the state the server keeps for the session
  announced,  \* ANNOUNCE requests pushed so far
  \* the threads
  call,       \* per API thread: where it is, in which operation, for which CSeq
  owner,      \* m_SessionMutex
  rx,         \* what handle_input is doing; it holds m_Mutex unless idle
  \* history: nothing above depends on these
  last,       \* the last call that finished, and what it returned
  granted,    \* CSeqs the server has answered with 200
  continued,  \* requests the server has answered with 100 Continue
  late,       \* calls that gave up waiting
  setups,     \* times the client has tried to connect the session
  drops,      \* times handle_input has seen the connection close
  strays      \* times the semaphore was released and nobody was waiting for it

object  == <<blocked, status, msg, cseq, sem, recvFlag, retCode, connFail>>
timers  == <<recvTimer, dataTimer>>
life    == <<inList, regs, delFlag, alive>>
wire    == <<link, toServer, toClient>>
server  == <<srv, announced, granted, continued>>
threads == <<call, owner, last>>
history == <<late, setups, drops, strays>>
vars == <<object, timers, life, wire, server, threads, rx, history>>

Methods  == {"SETUP", "PLAY", "PAUSE", "OPTIONS", "TEARDOWN"}
Statuses == {"INIT", "READY", "PLAYING", "ABNORMAL", "DELETE"}
Returns  == {"none", "OK", "FAIL", "TIMEOUT", "DISCONNECT", "SENDFAIL", "STATUS"}
Places   == {"idle", "found", "locked", "send", "dropping", "timer", "wait",
             "woken", "late"}

NoMsg  == [method |-> "none", n |-> 0]
RxIdle == [at |-> "idle", n |-> 0, code |-> "none"]
Idle   == [at |-> "idle", op |-> "none", n |-> 0]

\* What decodeMessage makes of an answer to m. CRtspMessage returns the index
\* of the status in its table, which is RET_OK for 200 and, at index 0, for
\* 100. OPTIONS goes on to a Content-Length, which a 100 Continue lacks; SETUP
\* over TCP needs no further field.
Decode(m, code) ==
  IF code = "ok" \/ (code = "continue" /\ m # "OPTIONS") THEN "OK" ELSE "FAIL"

Init ==
  /\ blocked \in Modes
  /\ status = "INIT" /\ msg = NoMsg /\ cseq = 0 /\ sem = 0
  /\ recvFlag = FALSE /\ retCode = "OK"
  /\ recvTimer = FALSE /\ dataTimer = FALSE /\ connFail = FALSE
  /\ inList = TRUE /\ regs = 0 /\ delFlag = FALSE /\ alive = TRUE
  /\ link = "none" /\ toServer = <<>> /\ toClient = <<>>
  /\ srv = "INIT" /\ announced = 0 /\ granted = {} /\ continued = {}
  /\ call = [c \in Callers |-> Idle] /\ owner = NoCaller
  /\ last = [op |-> "none", n |-> 0, r |-> "none"]
  /\ rx = RxIdle
  /\ late = 0 /\ setups = 0 /\ drops = 0 /\ strays = 0

-----------------------------------------------------------------------------
(* Helpers of the session.                                                 *)

\* (bug) disconnectPeer without KillRtpTimer.
DisconnectKeepsDataTimer ==
  /\ link' = "none" /\ toServer' = <<>> /\ toClient' = <<>>
  /\ recvTimer' = FALSE /\ UNCHANGED dataTimer

\* disconnectPeer: both timers are cancelled even when the handle is invalid.
Disconnect ==
  /\ link' = "none" /\ toServer' = <<>> /\ toClient' = <<>>
  /\ recvTimer' = FALSE /\ dataTimer' = FALSE

\* The call of c returns r and releases m_SessionMutex.
Finish(c, r) ==
  /\ call' = [call EXCEPT ![c] = Idle]
  /\ last' = [op |-> call[c].op, n |-> call[c].n, r |-> r]
  /\ owner' = NoCaller

Goto(c, place) ==
  /\ call' = [call EXCEPT ![c].at = place]
  /\ UNCHANGED <<owner, last>>

\* (bug) The call that timed out does not lock m_Mutex.
MutexIgnored == TRUE

\* handle_input is not running: its thread holds neither m_Mutex nor the
\* reactor's token, which remove_handler takes.
MutexFree == rx = RxIdle
TokenFree == rx = RxIdle

-----------------------------------------------------------------------------
(* The API threads.                                                        *)

\* findSession, under the list lock; the session's own lock comes later. The
\* client, as the SDK does, frees a handle when it has no other call on it and
\* does not use it again.
Find(c, m) ==
  /\ call[c].at = "idle"
  /\ inList
  /\ m \in Methods =>
       cseq + Cardinality({d \in Callers : call[d].at \in {"found", "locked"}}) < MaxCSeq
  /\ m = "FREE" => \A d \in Callers : call[d].at = "idle"
  /\ last.op # "FREE" /\ \A d \in Callers : call[d].op # "FREE"
  /\ call' = [call EXCEPT ![c] = [at |-> "found", op |-> m, n |-> 0]]
  /\ UNCHANGED <<object, timers, life, wire, server, owner, last, rx, history>>

Lock(c) ==
  /\ call[c].at = "found"
  /\ ~(call[c].op = "FREE" /\ connFail)
  /\ owner = NoCaller
  /\ owner' = c
  /\ call' = [call EXCEPT ![c].at = "locked"]
  /\ UNCHANGED <<object, timers, life, wire, server, last, rx, history>>

\* RTSP_CLIENT_FreeHandle of a session whose connect has failed: the caller
\* deletes it at once, without its lock.
FreeUnconnected(c) ==
  /\ call[c].at = "found" /\ call[c].op = "FREE" /\ connFail
  /\ inList' = FALSE /\ alive' = FALSE
  /\ call' = [call EXCEPT ![c] = Idle]
  /\ last' = [op |-> "FREE", n |-> 0, r |-> "OK"]
  /\ UNCHANGED <<object, timers, regs, delFlag, wire, server, owner, rx, history>>

Free(c) ==
  /\ call[c].at = "locked" /\ call[c].op = "FREE"
  /\ status' = "ABNORMAL"
  /\ Finish(c, "OK")
  /\ UNCHANGED <<blocked, msg, cseq, sem, recvFlag, retCode, connFail,
                 timers, life, wire, server, rx, history>>

\* The state checks at the head of each call, when they end it.
Decline(c) ==
  /\ call[c].at = "locked"
  /\ \/ call[c].op = "SETUP" /\ status # "INIT" /\ Finish(c, "STATUS")
     \/ call[c].op = "PLAY" /\ status = "INIT" /\ Finish(c, "STATUS")
     \/ call[c].op = "PAUSE" /\ status = "READY" /\ Finish(c, "OK")
     \/ /\ call[c].op = "PAUSE" /\ status \notin {"READY", "PLAYING"}
        /\ Finish(c, "STATUS")
     \/ call[c].op = "TEARDOWN" /\ status = "INIT" /\ Finish(c, "OK")
  /\ UNCHANGED <<object, timers, life, wire, server, rx, history>>

\* OPTIONS is sent in every state, without a connection as well.
MayStart(m) ==
  \/ m = "SETUP" /\ status = "INIT"
  \/ m \in {"PLAY", "TEARDOWN"} /\ status # "INIT"
  \/ m = "OPTIONS"
  \/ m = "PAUSE" /\ status = "PLAYING"

\* createRtspMessage: the previous message, if any, is deleted.
NewMessage(c) ==
  /\ cseq' = cseq + 1
  /\ msg' = [method |-> call[c].op, n |-> cseq + 1]

\* A request on a session that has a connection, or that needs none.
Create(c) ==
  /\ call[c].at = "locked" /\ call[c].op \in Methods
  /\ MayStart(call[c].op)
  /\ call[c].op = "SETUP" => link # "none"
  /\ NewMessage(c)
  /\ call' = [call EXCEPT ![c].at = "send", ![c].n = cseq + 1]
  /\ UNCHANGED <<blocked, status, sem, recvFlag, retCode, connFail, timers, life, wire,
                 server, owner, last, rx, history>>

MayConnect(c) ==
  /\ call[c].at = "locked" /\ call[c].op = "SETUP"
  /\ status = "INIT" /\ link = "none"

\* SETUP on a session without a connection: connectPeer succeeds and
\* RegistHandle enters the session in m_FreeSessionList.
Connect(c) ==
  /\ MayConnect(c)
  /\ NewMessage(c)
  /\ setups' = setups + 1
  /\ link' = "up" /\ regs' = regs + 1
  /\ toServer' = <<>> /\ toClient' = <<>>
  /\ srv' = "INIT"
  /\ call' = [call EXCEPT ![c].at = "send", ![c].n = cseq + 1]
  /\ UNCHANGED <<blocked, status, sem, recvFlag, retCode, connFail, timers, inList,
                 delFlag, alive, announced, granted, continued, owner, last, rx, late, drops,
                 strays>>

\* connectPeer fails three times, or (the second disjunct) it connects and
\* RegistHandle fails; either way sendSetupMessage disconnects, keeps the
\* message and returns.
ConnectFails(c) ==
  /\ MayConnect(c)
  /\ NewMessage(c)
  /\ setups' = setups + 1
  /\ connFail' = TRUE \/ connFail' = connFail
  /\ Disconnect
  /\ call' = [call EXCEPT ![c] = Idle]
  /\ last' = [op |-> "SETUP", n |-> cseq + 1, r |-> "DISCONNECT"]
  /\ owner' = NoCaller
  /\ UNCHANGED <<blocked, status, sem, recvFlag, retCode, life, server, rx, late, drops, strays>>

\* sendMessage hands the whole request to the socket. The server gets it if
\* its end is still open.
Send(c) ==
  /\ call[c].at = "send" /\ link # "none"
  /\ toServer' = IF link = "up"
                 THEN Append(toServer, [method |-> call[c].op, n |-> call[c].n])
                 ELSE toServer
  /\ Goto(c, IF blocked THEN "wait" ELSE "timer")
  /\ UNCHANGED <<object, timers, life, link, toClient, server, rx, history>>

\* What SETUP and PLAY return of a failed send; the others say RET_FAIL.
SendError(m, r) == IF m \in {"SETUP", "PLAY"} THEN r ELSE "FAIL"

\* The socket is busy: sendMessage deletes the pending message.
SendBusy(c) ==
  /\ call[c].at = "send" /\ link # "none"
  /\ msg' = NoMsg
  /\ Finish(c, SendError(call[c].op, "SENDFAIL"))
  /\ UNCHANGED <<blocked, status, cseq, sem, recvFlag, retCode, connFail, timers, life,
                 wire, server, rx, history>>

\* The send fails for good: disconnectPeer, still under m_StreamMutex, needs
\* the reactor's token. The message is kept.
SendBroken(c) ==
  /\ call[c].at = "send" /\ link # "up"
  /\ Goto(c, "dropping")
  /\ UNCHANGED <<object, timers, life, wire, server, rx, history>>

Dropped(c) ==
  /\ call[c].at = "dropping"
  /\ link # "none" => TokenFree
  /\ Disconnect
  /\ Finish(c, SendError(call[c].op, "DISCONNECT"))
  /\ UNCHANGED <<object, life, server, rx, history>>

\* Asynchronous call: setRecvTimer refuses to arm a timer that is armed, and
\* then the message is deleted although the request is on its way.
ArmTimer(c) ==
  /\ call[c].at = "timer"
  /\ recvTimer' = TRUE
  /\ msg' = IF recvTimer THEN NoMsg ELSE msg
  /\ Finish(c, IF recvTimer THEN "FAIL" ELSE "OK")
  /\ UNCHANGED <<blocked, status, cseq, sem, recvFlag, retCode, connFail, dataTimer,
                 life, wire, server, rx, history>>

\* Synchronous call: m_pRtspSemaphore->acquire succeeds ...
Acquire(c) ==
  /\ call[c].at = "wait" /\ sem > 0
  /\ sem' = sem - 1
  /\ Goto(c, "woken")
  /\ UNCHANGED <<blocked, status, msg, cseq, recvFlag, retCode, connFail, timers, life,
                 wire, server, rx, history>>

\* (bug) acquire without a timeout.
NeverExpire(c) == FALSE /\ UNCHANGED vars

\* ... or times out.
Expire(c) ==
  /\ call[c].at = "wait" /\ sem = 0
  /\ late' = late + 1
  /\ Goto(c, "late")
  /\ UNCHANGED <<object, timers, life, wire, server, rx, setups, drops, strays>>

\* (bug) The call that timed out leaves its message pending.
GiveUpKeepsMessage(c) ==
  /\ call[c].at = "late" /\ MutexFree
  /\ Finish(c, "TIMEOUT")
  /\ UNCHANGED <<object, timers, life, wire, server, rx, history>>

\* The call that timed out deletes its message under m_Mutex.
GiveUp(c) ==
  /\ call[c].at = "late" /\ MutexFree
  /\ msg' = NoMsg
  /\ Finish(c, "TIMEOUT")
  /\ UNCHANGED <<blocked, status, cseq, sem, recvFlag, retCode, connFail, timers, life,
                 wire, server, rx, history>>

\* The end of handleSynchSetup once the semaphore is acquired.
SetupReturns(c) ==
  /\ call[c].at = "woken" /\ call[c].op = "SETUP"
  /\ ~recvFlag => MutexFree
  /\ msg' = NoMsg
  /\ LET done == recvFlag /\ msg.method = "SETUP" IN
       /\ status' = IF done THEN "READY" ELSE status
       /\ Finish(c, IF done THEN "OK" ELSE IF recvFlag THEN "FAIL" ELSE retCode)
  /\ UNCHANGED <<blocked, cseq, sem, recvFlag, retCode, connFail, timers, life, wire,
                 server, rx, history>>

\* The end of the other synchronous calls; PLAY arms the RTP data timer.
CallReturns(c) ==
  /\ call[c].at = "woken" /\ call[c].op # "SETUP"
  /\ dataTimer' = (dataTimer \/ (recvFlag /\ call[c].op = "PLAY"))
  /\ Finish(c, IF recvFlag THEN "OK" ELSE "FAIL")
  /\ UNCHANGED <<object, recvTimer, life, wire, server, rx, history>>

-----------------------------------------------------------------------------
(* The reactor thread: handle_input.                                       *)

\* A complete message is taken off the stream. An answer is matched against
\* the pending message by CSeq; one that matches nothing is skipped.
Input ==
  /\ alive /\ rx = RxIdle /\ link # "none" /\ toClient # <<>>
  /\ LET m == Head(toClient) IN
       rx' = IF m.at = "announce" THEN m
             ELSE IF msg # NoMsg /\ m.n = msg.n THEN m ELSE RxIdle
  /\ toClient' = Tail(toClient)
  /\ UNCHANGED <<object, timers, life, link, toServer, server, threads, history>>

\* (bug) The semaphore is released twice for one answer.
ReleaseTwice == sem' = sem + 2 /\ UNCHANGED strays

\* The result of an answer reaches the API thread through the semaphore; an
\* asynchronous client is told by a callback.
Release ==
  /\ sem' = sem + 1
  /\ strays' = IF sem = 0 /\ \E c \in Callers : call[c].at = "wait"
               THEN strays ELSE strays + 1

Silent == UNCHANGED <<recvFlag, sem, strays>>

\* (bug) A refusal does not reset m_bRecvRetFlag.
NotifyKeepsFlag(ok) ==
  IF blocked THEN recvFlag' = (recvFlag \/ ok) /\ Release ELSE Silent

Notify(ok) == IF blocked THEN recvFlag' = ok /\ Release ELSE Silent

\* (bug) A granted PAUSE does not change the status.
PauseKeepsStatus == [SETUP |-> "READY", PLAY |-> "PLAYING", PAUSE |-> "PLAYING"]

\* The status an answer that grants the request leads to.
StatusAfter == [SETUP |-> "READY", PLAY |-> "PLAYING", PAUSE |-> "READY"]

\* handleRtspRespMsg works on the message that is pending now; each handler
\* cancels the answer timer first.
Answering(m) == rx.at = "answer" /\ msg.method = m
Answered == rx' = RxIdle /\ recvTimer' = FALSE /\ UNCHANGED dataTimer

HandleSetup ==
  /\ Answering("SETUP") /\ Answered
  /\ LET ok == status = "INIT" /\ Decode("SETUP", rx.code) = "OK" IN
       /\ status' = IF ok THEN StatusAfter["SETUP"] ELSE status
       /\ retCode' = IF blocked /\ ~ok THEN Decode("SETUP", rx.code) ELSE retCode
       /\ msg' = IF blocked THEN msg ELSE NoMsg
       /\ Notify(ok)
  /\ UNCHANGED <<blocked, cseq, connFail, life, wire, server, threads, late, setups, drops>>

HandlePlay ==
  /\ Answering("PLAY") /\ Answered
  /\ LET ok == status # "INIT" /\ Decode("PLAY", rx.code) = "OK" IN
       /\ status' = IF ok THEN StatusAfter["PLAY"] ELSE status
       /\ Notify(ok)
  /\ msg' = NoMsg
  /\ UNCHANGED <<blocked, cseq, retCode, connFail, life, wire, server, threads, late, setups, drops>>

HandleOptions ==
  /\ Answering("OPTIONS") /\ Answered
  /\ Notify(status # "INIT" /\ Decode("OPTIONS", rx.code) = "OK")
  /\ msg' = NoMsg
  /\ UNCHANGED <<blocked, status, cseq, retCode, connFail, life, wire, server, threads, late, setups, drops>>

\* In READY the answer is swallowed and nobody is told.
HandlePause ==
  /\ Answering("PAUSE") /\ Answered
  /\ LET ok == status = "PLAYING" /\ Decode("PAUSE", rx.code) = "OK" IN
       /\ status' = IF ok THEN StatusAfter["PAUSE"] ELSE status
       /\ IF status = "READY" THEN Silent ELSE Notify(ok)
  /\ msg' = NoMsg
  /\ UNCHANGED <<blocked, cseq, retCode, connFail, life, wire, server, threads, late, setups, drops>>

\* The message outlives its answer; the connection is closed whatever the
\* server has answered.
HandleTeardown ==
  /\ Answering("TEARDOWN") /\ rx' = RxIdle
  /\ IF status = "INIT"
     THEN Silent /\ UNCHANGED <<timers, wire>>
     ELSE Disconnect /\ Notify(Decode("TEARDOWN", rx.code) = "OK")
  /\ UNCHANGED <<blocked, status, msg, cseq, retCode, connFail, life, server, threads, late, setups, drops>>

\* The message was deleted between the match and the handler.
HandleNothing ==
  /\ rx.at = "answer" /\ msg = NoMsg
  /\ rx' = RxIdle
  /\ UNCHANGED <<object, timers, life, wire, server, threads, history>>

\* handleRtspAnnounceMsg answers through sendMessage: it needs m_StreamMutex,
\* and a failed send has there the effects it has on a request.
HandleAnnounce ==
  /\ rx.at = "announce"
  /\ \A c \in Callers : call[c].at # "dropping"
  /\ rx' = RxIdle
  /\ \/ link # "none" /\ UNCHANGED <<blocked, msg, timers, wire>>
     \/ link # "none" /\ msg' = NoMsg /\ UNCHANGED <<timers, wire>>
     \/ link # "up" /\ Disconnect /\ UNCHANGED msg
  /\ UNCHANGED <<blocked, status, cseq, sem, recvFlag, retCode, connFail, life, server,
                 threads, history>>

\* recv finds the connection closed.
InputClosed ==
  /\ alive /\ rx = RxIdle /\ link = "broken" /\ toClient = <<>>
  /\ Disconnect
  /\ Notify(FALSE)
  /\ drops' = drops + 1
  /\ UNCHANGED <<blocked, status, msg, cseq, retCode, connFail, life, server, threads, rx, late, setups>>

\* handle_timeout of the data timer, when CheckRtpTimeout says so.
DataTimeout ==
  /\ dataTimer /\ rx = RxIdle
  /\ dataTimer' = FALSE
  /\ UNCHANGED <<object, recvTimer, life, wire, server, threads, rx, history>>

-----------------------------------------------------------------------------
(* The manager's timer and the sweep of the reactor loop.                  *)

TickAbnormal ==
  /\ inList /\ status = "ABNORMAL"
  /\ link # "none" => TokenFree
  /\ status' = "DELETE"
  /\ Disconnect
  /\ UNCHANGED <<blocked, msg, cseq, sem, recvFlag, retCode, connFail, life, server,
                 threads, rx, history>>

\* (bug) The session leaves the list without setDelFlag.
TickUnflagged ==
  /\ inList /\ status = "DELETE"
  /\ inList' = FALSE
  /\ UNCHANGED <<object, timers, regs, delFlag, alive, wire, server, threads, rx, history>>

TickDelete ==
  /\ inList /\ status = "DELETE"
  /\ inList' = FALSE /\ delFlag' = TRUE
  /\ UNCHANGED <<object, timers, regs, alive, wire, server, threads, rx, history>>

\* svc deletes a session of m_FreeSessionList whose flag is set.
Sweep ==
  /\ regs > 0 /\ delFlag
  /\ regs' = regs - 1 /\ alive' = FALSE
  /\ UNCHANGED <<object, timers, inList, delFlag, wire, server, threads, rx, history>>

-----------------------------------------------------------------------------
(* The server and the network.                                             *)

\* What a granted request makes of the server's session.
Granted == [SETUP |-> "READY", PLAY |-> "PLAYING", PAUSE |-> "READY",
            OPTIONS |-> srv, TEARDOWN |-> "INIT"]

Answer(n, code) == [at |-> "answer", n |-> n, code |-> code]

Serve ==
  /\ link = "up" /\ toServer # <<>>
  /\ \E code \in Codes \ {"continue"} :
       LET q == Head(toServer) IN
       /\ toClient' = Append(toClient, Answer(q.n, code))
       /\ srv' = IF code = "ok" THEN Granted[q.method] ELSE srv
       /\ granted' = IF code = "ok" THEN granted \cup {q.n} ELSE granted
  /\ toServer' = Tail(toServer)
  /\ UNCHANGED <<object, timers, life, link, announced, continued, threads, rx, history>>

\* 100 Continue, at most once for a request; the final answer comes after it.
ServeInterim ==
  /\ link = "up" /\ toServer # <<>> /\ Head(toServer) \notin continued
  /\ "continue" \in Codes /\ Cardinality(continued) < MaxContinue
  /\ toClient' = Append(toClient, Answer(Head(toServer).n, "continue"))
  /\ continued' = continued \cup {Head(toServer)}
  /\ UNCHANGED <<object, timers, life, link, toServer, srv, announced, granted,
                 threads, rx, history>>

Announce ==
  /\ link = "up" /\ announced < MaxAnnounce
  /\ announced' = announced + 1
  /\ toClient' = Append(toClient, [at |-> "announce", n |-> 0, code |-> "none"])
  /\ UNCHANGED <<object, timers, life, link, toServer, srv, granted, continued,
                 threads, rx, history>>

\* The server, or the network, ends the connection; what it had sent is
\* delivered or lost.
Close ==
  /\ link = "up"
  /\ link' = "broken"
  /\ toServer' = <<>>
  /\ toClient' = toClient \/ toClient' = <<>>
  /\ UNCHANGED <<object, timers, life, server, threads, rx, history>>

-----------------------------------------------------------------------------
CallerStep(c) ==
  \/ \E m \in Methods \cup {"FREE"} : Find(c, m)
  \/ Lock(c) \/ FreeUnconnected(c) \/ Free(c) \/ Decline(c)
  \/ Create(c) \/ Connect(c) \/ ConnectFails(c)
  \/ Send(c) \/ SendBusy(c) \/ SendBroken(c) \/ Dropped(c)
  \/ ArmTimer(c) \/ Acquire(c) \/ Expire(c) \/ GiveUp(c)
  \/ SetupReturns(c) \/ CallReturns(c)

Reactor ==
  \/ Input \/ HandleSetup \/ HandlePlay \/ HandleOptions \/ HandlePause
  \/ HandleTeardown \/ HandleNothing \/ HandleAnnounce \/ InputClosed
  \/ DataTimeout

Manager == TickAbnormal \/ TickDelete \/ Sweep

Environment == Serve \/ ServeInterim \/ Announce \/ Close

Next ==
  \/ \E c \in Callers : CallerStep(c)
  \/ Reactor \/ Manager \/ Environment

Spec == Init /\ [][Next]_vars

\* A thread inside the library always goes on when it may, and the acquire of
\* a synchronous call always ends. Nothing obliges a client to call, the
\* server to answer, or the network to fail.
Running(c) ==
  \/ Lock(c) \/ FreeUnconnected(c) \/ Free(c) \/ Decline(c)
  \/ Create(c) \/ Connect(c) \/ ConnectFails(c)
  \/ Send(c) \/ SendBusy(c) \/ SendBroken(c) \/ Dropped(c)
  \/ ArmTimer(c) \/ Acquire(c) \/ Expire(c) \/ GiveUp(c)
  \/ SetupReturns(c) \/ CallReturns(c)

FairSpec ==
  /\ Spec
  /\ \A c \in Callers : WF_vars(Running(c))
  /\ WF_vars(Reactor) /\ WF_vars(TickAbnormal) /\ WF_vars(TickDelete)
  /\ WF_vars(Sweep)

-----------------------------------------------------------------------------
Requests == [method : Methods, n : Nat]
Inputs   == [at : {"answer"}, n : Nat, code : {"ok", "refused", "continue"}]
              \cup {[at |-> "announce", n |-> 0, code |-> "none"]}

Ops      == Methods \cup {"FREE", "none"}
Calls    == [at : Places, op : Ops, n : Nat]

ObjectOK ==
  /\ blocked \in BOOLEAN /\ status \in Statuses
  /\ msg \in Requests \cup {NoMsg}
  /\ cseq \in Nat /\ sem \in Nat
  /\ recvFlag \in BOOLEAN /\ retCode \in {"OK", "FAIL"}
  /\ recvTimer \in BOOLEAN /\ dataTimer \in BOOLEAN /\ connFail \in BOOLEAN
  /\ inList \in BOOLEAN /\ regs \in Nat
  /\ delFlag \in BOOLEAN /\ alive \in BOOLEAN

WireOK ==
  /\ link \in {"none", "up", "broken"}
  /\ toServer \in Seq(Requests) /\ toClient \in Seq(Inputs)
  /\ srv \in {"INIT", "READY", "PLAYING"} /\ announced \in Nat
  /\ granted \subseteq Nat /\ continued \subseteq Requests
  /\ rx \in Inputs \cup {RxIdle}

ThreadsOK ==
  /\ call \in [Callers -> Calls]
  /\ owner \in Callers \cup {NoCaller}
  /\ last \in [op : Ops, n : Nat, r : Returns]
  /\ late \in Nat /\ setups \in Nat /\ drops \in Nat /\ strays \in Nat

\* Every variable keeps its type.
TypeOK == ObjectOK /\ WireOK /\ ThreadsOK

\* The server has sent no 100 Continue for a SETUP. The library keeps the
\* message of a synchronous SETUP after its answer, so that one that has had a
\* 100 Continue is answered a second time.
SetupFinal == \A q \in continued : q.method # "SETUP"

\* A synchronous call that returns RET_OK returns the server's answer to that
\* very request, although one semaphore, one flag and one message serve all
\* calls in turn and calls may give up at any moment; the answer is a 200 or,
\* which the library takes for one, a 100. It holds until the semaphore is
\* released with nobody waiting; for SETUP, whose result is read from
\* m_iRetCode, until the connection is lost.
OkIsGranted ==
  SetupFinal /\ blocked /\ strays = 0 /\ last.r = "OK" /\ last.n > 0
    /\ (last.op = "SETUP" => drops = 0)
    => last.n \in granted \cup {q.n : q \in continued}

\* A token left over in the semaphore, which ends a later call before its
\* answer, is paid for by a call that gave up or by a lost connection: with
\* neither, no call can be woken by the answer to another.
TokenBudget ==
  SetupFinal =>
    sem <= late + drops + Cardinality({c \in Callers : call[c].at = "wait"})

\* When nothing is in flight, no call gave up, no answer was an interim one
\* and the connection has held, client and server agree on the state of the
\* session.
Quiet ==
  /\ \A c \in Callers : call[c].at = "idle"
  /\ rx = RxIdle /\ toServer = <<>> /\ toClient = <<>> /\ link = "up"
  /\ status \in {"INIT", "READY", "PLAYING"}

StatusAgrees ==
  blocked /\ late = 0 /\ drops = 0 /\ continued = {} /\ Quiet => status = srv

\* The message handle_input has matched an answer with is not deleted or
\* replaced before that answer is handled, calls that give up included.
Pinned == rx.at = "answer" => msg.n = rx.n
MsgPinned == SetupFinal /\ blocked /\ strays = 0 => Pinned

\* When a session is deleted, nothing of the library still refers to it: no
\* thread is in a call or in its handler, its handle is out of the reactor,
\* its timers are cancelled, and no list holds it. (The SDK sends one SETUP on
\* a handle; one that connects twice is in m_FreeSessionList twice.)
FreedIsQuiet ==
  ~alive /\ setups <= 1 => /\ rx = RxIdle /\ link = "none" /\ ~recvTimer /\ ~dataTimer
            /\ ~inList /\ regs = 0
            /\ \A c \in Callers : call[c].at = "idle"

\* A handle that was freed is not revived by the answer to a call that gave up.
FreedForGood ==
  [][blocked /\ strays = 0 =>
       /\ status = "ABNORMAL" => status' \in {"ABNORMAL", "DELETE"}
       /\ status = "DELETE" => status' = "DELETE"]_vars

\* A call whose send has failed waits for the reactor's token to disconnect,
\* while the reactor thread, which has the token, waits for m_StreamMutex to
\* answer an ANNOUNCE.
Hung == rx.at = "announce" /\ link # "none" /\ \E c \in Callers : call[c].at = "dropping"

\* Every call returns, by its answer, its timeout or an error, unless it and
\* the reactor thread wait for each other.
CallsReturn ==
  \A c \in Callers : call[c].at # "idle" ~> call[c].at = "idle" \/ Hung

\* A synchronous session that was connected is deleted in the end once it is
\* freed. (The late answer to an asynchronous PLAY makes it PLAYING again.)
FreedIsReclaimed ==
  (blocked /\ status = "ABNORMAL" /\ strays = 0 /\ regs > 0) ~> ~alive

-----------------------------------------------------------------------------
(* What a comment of the code says, and the code does not do.              *)

\* "unTimeout: the timeout of the PLAY message": a call ends by then.
TimeoutEndsCall == \A c \in Callers : call[c].at # "idle" ~> call[c].at = "idle"
=============================================================================
