------------------------- MODULE RtspSession_proof -------------------------
(***************************************************************************)
(* Proofs about RtspSession, for any number of API threads, requests and   *)
(* announcements: every variable keeps its type; a session that has been   *)
(* deleted is not referred to any more; a freed session is not revived;    *)
(* and, while the server has sent no 100 Continue for a SETUP, a call gets *)
(* the answer to its own request, the semaphore is not raised behind its   *)
(* back, and client and server agree on the state of the session.          *)
(***************************************************************************)
EXTENDS RtspSession, TLAPS, FiniteSetTheorems

-----------------------------------------------------------------------------
(* Typing.                                                                 *)

\* A call that has created a request is not a FREE.
Requesting ==
  \A c \in Callers :
    call[c].at \in Places \ {"idle", "found", "locked"} => call[c].op \in Methods

TypeInv == ObjectOK /\ WireOK /\ ThreadsOK /\ Requesting

LEMMA TypeInit == Init => TypeInv
<1> SUFFICES ASSUME Init PROVE TypeInv
  OBVIOUS
<1>1. ObjectOK
  BY ConstAssumption DEF Init, ObjectOK, Statuses
<1>2. WireOK
  BY DEF Init, WireOK
<1>3. ThreadsOK /\ Requesting
  BY DEF Init, ThreadsOK, Requesting, Idle, Calls, Places, Ops, Returns
<1> QED
  BY <1>1, <1>2, <1>3 DEF TypeInv

LEMMA NotifyTyped ==
  ASSUME ObjectOK, ThreadsOK, NEW ok \in BOOLEAN, Notify(ok)
  PROVE  sem' \in Nat /\ recvFlag' \in BOOLEAN /\ strays' \in Nat
BY DEF ObjectOK, ThreadsOK, Notify, Release, Silent

LEMMA RequestFields ==
  ASSUME NEW q \in Requests PROVE q.n \in Nat /\ q.method \in Methods
BY DEF Requests

LEMMA AnswerTyped ==
  ASSUME NEW n \in Nat, NEW code \in {"ok", "refused", "continue"}
  PROVE  Answer(n, code) \in Inputs
BY DEF Answer, Inputs

LEMMA TypeStep == TypeInv /\ [Next]_vars => TypeInv'
<1> SUFFICES ASSUME TypeInv, [Next]_vars PROVE TypeInv'
  OBVIOUS
<1> ObjectOK /\ WireOK /\ ThreadsOK /\ Requesting
  BY DEF TypeInv
<1> USE DEF object, timers, life, wire, server, threads, history
<1>1. ASSUME NEW c \in Callers, NEW m \in Methods \cup {"FREE"}, Find(c, m)
      PROVE TypeInv'
  <2> USE <1>1 DEF Find
  <2>1. ObjectOK'
    BY DEF ObjectOK
  <2>2. WireOK'
    BY DEF WireOK
  <2>3. ThreadsOK' /\ Requesting'
    BY DEF ThreadsOK, Requesting, Calls, Ops, Places
  <2> QED
    BY <2>1, <2>2, <2>3 DEF TypeInv
<1>2. ASSUME NEW c \in Callers, Lock(c) PROVE TypeInv'
  <2> USE <1>2 DEF Lock
  <2>1. ObjectOK'
    BY DEF ObjectOK
  <2>2. WireOK'
    BY DEF WireOK
  <2>3. ThreadsOK' /\ Requesting'
    BY DEF ThreadsOK, Requesting, Calls, Places
  <2> QED
    BY <2>1, <2>2, <2>3 DEF TypeInv
<1>3. ASSUME NEW c \in Callers, FreeUnconnected(c) PROVE TypeInv'
  <2> USE <1>3 DEF FreeUnconnected
  <2>1. ObjectOK'
    BY DEF ObjectOK
  <2>2. WireOK'
    BY DEF WireOK
  <2>3. ThreadsOK' /\ Requesting'
    BY DEF ThreadsOK, Requesting, Calls, Idle, Ops, Places, Returns
  <2> QED
    BY <2>1, <2>2, <2>3 DEF TypeInv
<1>4. ASSUME NEW c \in Callers, Free(c) PROVE TypeInv'
  <2> USE <1>4 DEF Free, Finish
  <2>1. ObjectOK'
    BY DEF ObjectOK, Statuses
  <2>2. WireOK'
    BY DEF WireOK
  <2>3. ThreadsOK' /\ Requesting'
    BY DEF ThreadsOK, Requesting, Calls, Idle, Ops, Places, Returns
  <2> QED
    BY <2>1, <2>2, <2>3 DEF TypeInv
<1>5. ASSUME NEW c \in Callers, Decline(c) PROVE TypeInv'
  <2> USE <1>5 DEF Decline, Finish
  <2>1. ObjectOK'
    BY DEF ObjectOK
  <2>2. WireOK'
    BY DEF WireOK
  <2>3. ThreadsOK' /\ Requesting'
    BY DEF ThreadsOK, Requesting, Calls, Idle, Ops, Places, Returns
  <2> QED
    BY <2>1, <2>2, <2>3 DEF TypeInv
<1>6. ASSUME NEW c \in Callers, Create(c) PROVE TypeInv'
  <2> USE <1>6 DEF Create, NewMessage
  <2>1. ObjectOK'
    BY DEF ObjectOK, ThreadsOK, Requesting, Calls, Methods, Requests
  <2>2. WireOK'
    BY DEF WireOK
  <2>3. ThreadsOK' /\ Requesting'
    <3>1. cseq + 1 \in Nat /\ call[c].op \in Methods
      BY DEF ObjectOK, Methods
    <3>2. call' \in [Callers -> Calls] /\ Requesting'
      BY <3>1 DEF ThreadsOK, Requesting, Calls, Places
    <3> QED
      BY <3>2 DEF ThreadsOK
  <2> QED
    BY <2>1, <2>2, <2>3 DEF TypeInv
<1>7. ASSUME NEW c \in Callers, Connect(c) PROVE TypeInv'
  <2> USE <1>7 DEF Connect, MayConnect, NewMessage
  <2>1. ObjectOK'
    BY DEF ObjectOK, ThreadsOK, Requesting, Calls, Methods, Requests
  <2>2. WireOK'
    BY DEF WireOK
  <2>3. ThreadsOK' /\ Requesting'
    <3>1. cseq + 1 \in Nat /\ call[c].op \in Methods
      BY DEF ObjectOK, Methods
    <3>2. call' \in [Callers -> Calls] /\ Requesting'
      BY <3>1 DEF ThreadsOK, Requesting, Calls, Places
    <3> QED
      BY <3>2 DEF ThreadsOK
  <2> QED
    BY <2>1, <2>2, <2>3 DEF TypeInv
<1>8. ASSUME NEW c \in Callers, ConnectFails(c) PROVE TypeInv'
  <2> USE <1>8 DEF ConnectFails, MayConnect, NewMessage, Disconnect
  <2>1. ObjectOK'
    <3>1. call[c].op \in Methods
      BY DEF Methods
    <3>2. [method |-> call[c].op, n |-> cseq + 1] \in Requests
      BY <3>1 DEF ObjectOK, Requests
    <3>3. connFail' \in BOOLEAN
      BY DEF ObjectOK
    <3>4. msg' \in Requests /\ cseq' \in Nat
      BY <3>2 DEF ObjectOK
    <3> QED
      BY <3>3, <3>4 DEF ObjectOK
  <2>2. WireOK'
    BY DEF WireOK
  <2>3. ThreadsOK' /\ Requesting'
    BY DEF ThreadsOK, Requesting, Calls, Idle, Ops, Places, Returns,
       Methods, ObjectOK
  <2> QED
    BY <2>1, <2>2, <2>3 DEF TypeInv
<1>9. ASSUME NEW c \in Callers, Send(c) PROVE TypeInv'
  <2> USE <1>9 DEF Send, Goto
  <2>1. ObjectOK'
    BY DEF ObjectOK
  <2>2. WireOK'
    <3>1. [method |-> call[c].op, n |-> call[c].n] \in Requests
      BY DEF ThreadsOK, Requesting, Calls, Places, Requests
    <3>2. toServer' \in Seq(Requests)
      BY <3>1 DEF WireOK
    <3> QED
      BY <3>2 DEF WireOK
  <2>3. ThreadsOK' /\ Requesting'
    BY DEF ThreadsOK, Requesting, Calls, Places
  <2> QED
    BY <2>1, <2>2, <2>3 DEF TypeInv
<1>10. ASSUME NEW c \in Callers, SendBusy(c) PROVE TypeInv'
  <2> USE <1>10 DEF SendBusy, Finish, SendError
  <2>1. ObjectOK'
    BY DEF ObjectOK
  <2>2. WireOK'
    BY DEF WireOK
  <2>3. ThreadsOK' /\ Requesting'
    BY DEF ThreadsOK, Requesting, Calls, Idle, Ops, Places, Returns
  <2> QED
    BY <2>1, <2>2, <2>3 DEF TypeInv
<1>11. ASSUME NEW c \in Callers, SendBroken(c) PROVE TypeInv'
  <2> USE <1>11 DEF SendBroken, Goto
  <2>1. ObjectOK'
    BY DEF ObjectOK
  <2>2. WireOK'
    BY DEF WireOK
  <2>3. ThreadsOK' /\ Requesting'
    BY DEF ThreadsOK, Requesting, Calls, Places
  <2> QED
    BY <2>1, <2>2, <2>3 DEF TypeInv
<1>12. ASSUME NEW c \in Callers, Dropped(c) PROVE TypeInv'
  <2> USE <1>12 DEF Dropped, Disconnect, Finish, SendError
  <2>1. ObjectOK'
    BY DEF ObjectOK
  <2>2. WireOK'
    BY DEF WireOK
  <2>3. ThreadsOK' /\ Requesting'
    BY DEF ThreadsOK, Requesting, Calls, Idle, Ops, Places, Returns
  <2> QED
    BY <2>1, <2>2, <2>3 DEF TypeInv
<1>13. ASSUME NEW c \in Callers, ArmTimer(c) PROVE TypeInv'
  <2> USE <1>13 DEF ArmTimer, Finish
  <2>1. ObjectOK'
    BY DEF ObjectOK
  <2>2. WireOK'
    BY DEF WireOK
  <2>3. ThreadsOK' /\ Requesting'
    BY DEF ThreadsOK, Requesting, Calls, Idle, Ops, Places, Returns
  <2> QED
    BY <2>1, <2>2, <2>3 DEF TypeInv
<1>14. ASSUME NEW c \in Callers, Acquire(c) PROVE TypeInv'
  <2> USE <1>14 DEF Acquire, Goto
  <2>1. ObjectOK'
    BY DEF ObjectOK
  <2>2. WireOK'
    BY DEF WireOK
  <2>3. ThreadsOK' /\ Requesting'
    BY DEF ThreadsOK, Requesting, Calls, Places
  <2> QED
    BY <2>1, <2>2, <2>3 DEF TypeInv
<1>15. ASSUME NEW c \in Callers, Expire(c) PROVE TypeInv'
  <2> USE <1>15 DEF Expire, Goto
  <2>1. ObjectOK'
    BY DEF ObjectOK
  <2>2. WireOK'
    BY DEF WireOK
  <2>3. ThreadsOK' /\ Requesting'
    BY DEF ThreadsOK, Requesting, Calls, Places
  <2> QED
    BY <2>1, <2>2, <2>3 DEF TypeInv
<1>16. ASSUME NEW c \in Callers, GiveUp(c) PROVE TypeInv'
  <2> USE <1>16 DEF GiveUp, Finish
  <2>1. ObjectOK'
    BY DEF ObjectOK
  <2>2. WireOK'
    BY DEF WireOK
  <2>3. ThreadsOK' /\ Requesting'
    BY DEF ThreadsOK, Requesting, Calls, Idle, Ops, Places, Returns
  <2> QED
    BY <2>1, <2>2, <2>3 DEF TypeInv
<1>17. ASSUME NEW c \in Callers, SetupReturns(c) PROVE TypeInv'
  <2> USE <1>17 DEF SetupReturns, Finish
  <2>1. ObjectOK'
    BY DEF ObjectOK, Statuses
  <2>2. WireOK'
    BY DEF WireOK
  <2>3. ThreadsOK' /\ Requesting'
    BY DEF ThreadsOK, Requesting, Calls, Idle, Ops, Places, Returns,
       ObjectOK
  <2> QED
    BY <2>1, <2>2, <2>3 DEF TypeInv
<1>18. ASSUME NEW c \in Callers, CallReturns(c) PROVE TypeInv'
  <2> USE <1>18 DEF CallReturns, Finish
  <2>1. ObjectOK'
    BY DEF ObjectOK
  <2>2. WireOK'
    BY DEF WireOK
  <2>3. ThreadsOK' /\ Requesting'
    BY DEF ThreadsOK, Requesting, Calls, Idle, Ops, Places, Returns
  <2> QED
    BY <2>1, <2>2, <2>3 DEF TypeInv
<1>19. CASE Input
  <2> USE <1>19 DEF Input
  <2>1. ObjectOK'
    BY DEF ObjectOK
  <2>2. WireOK'
    BY DEF WireOK
  <2>3. ThreadsOK' /\ Requesting'
    BY DEF ThreadsOK, Requesting
  <2> QED
    BY <2>1, <2>2, <2>3 DEF TypeInv
<1>20. CASE HandleSetup
  <2> USE <1>20 DEF HandleSetup, Answered
  <2>1. ObjectOK'
    BY NotifyTyped DEF ObjectOK, Decode, StatusAfter, Statuses
  <2>2. WireOK'
    BY DEF WireOK
  <2>3. ThreadsOK' /\ Requesting'
    BY NotifyTyped DEF ThreadsOK, Requesting
  <2> QED
    BY <2>1, <2>2, <2>3 DEF TypeInv
<1>21. CASE HandlePlay
  <2> USE <1>21 DEF HandlePlay, Answered
  <2>1. ObjectOK'
    BY NotifyTyped DEF ObjectOK, StatusAfter, Statuses
  <2>2. WireOK'
    BY DEF WireOK
  <2>3. ThreadsOK' /\ Requesting'
    BY NotifyTyped DEF ThreadsOK, Requesting
  <2> QED
    BY <2>1, <2>2, <2>3 DEF TypeInv
<1>22. CASE HandleOptions
  <2> USE <1>22 DEF HandleOptions, Answered
  <2>1. ObjectOK'
    BY NotifyTyped DEF ObjectOK
  <2>2. WireOK'
    BY DEF WireOK
  <2>3. ThreadsOK' /\ Requesting'
    BY NotifyTyped DEF ThreadsOK, Requesting
  <2> QED
    BY <2>1, <2>2, <2>3 DEF TypeInv
<1>23. CASE HandlePause
  <2> USE <1>23 DEF HandlePause, Answered
  <2>1. ObjectOK'
    BY NotifyTyped DEF ObjectOK, StatusAfter, Statuses, Silent
  <2>2. WireOK'
    BY DEF WireOK
  <2>3. ThreadsOK' /\ Requesting'
    BY NotifyTyped DEF ThreadsOK, Requesting, Silent
  <2> QED
    BY <2>1, <2>2, <2>3 DEF TypeInv
<1>24. CASE HandleTeardown
  <2> USE <1>24 DEF HandleTeardown
  <2>1. ObjectOK'
    <3>1. CASE status = "INIT"
      BY <3>1 DEF ObjectOK, Silent
    <3>2. CASE status # "INIT"
      BY <3>2, NotifyTyped DEF ObjectOK, Disconnect
    <3> QED
      BY <3>1, <3>2
  <2>2. WireOK'
    <3>1. CASE status = "INIT"
      BY <3>1 DEF WireOK
    <3>2. CASE status # "INIT"
      BY <3>2 DEF WireOK, Disconnect
    <3> QED
      BY <3>1, <3>2
  <2>3. ThreadsOK' /\ Requesting'
    <3>1. CASE status = "INIT"
      BY <3>1 DEF ThreadsOK, Requesting, Silent
    <3>2. CASE status # "INIT"
      BY <3>2, NotifyTyped DEF ThreadsOK, Requesting
    <3> QED
      BY <3>1, <3>2
  <2> QED
    BY <2>1, <2>2, <2>3 DEF TypeInv
<1>25. CASE HandleNothing
  <2> USE <1>25 DEF HandleNothing
  <2>1. ObjectOK'
    BY DEF ObjectOK
  <2>2. WireOK'
    BY DEF WireOK
  <2>3. ThreadsOK' /\ Requesting'
    BY DEF ThreadsOK, Requesting
  <2> QED
    BY <2>1, <2>2, <2>3 DEF TypeInv
<1>26. CASE HandleAnnounce
  <2> USE <1>26 DEF HandleAnnounce
  <2>1. ObjectOK'
    <3>1. CASE UNCHANGED timers
      BY <3>1 DEF ObjectOK
    <3>2. CASE Disconnect
      BY <3>2 DEF ObjectOK, Disconnect
    <3> QED
      BY <3>1, <3>2
  <2>2. WireOK'
    <3>1. CASE UNCHANGED wire
      BY <3>1 DEF WireOK
    <3>2. CASE Disconnect
      BY <3>2 DEF WireOK, Disconnect
    <3> QED
      BY <3>1, <3>2
  <2>3. ThreadsOK' /\ Requesting'
    BY DEF ThreadsOK, Requesting
  <2> QED
    BY <2>1, <2>2, <2>3 DEF TypeInv
<1>27. CASE InputClosed
  <2> USE <1>27 DEF InputClosed, Disconnect
  <2>1. ObjectOK'
    BY NotifyTyped DEF ObjectOK
  <2>2. WireOK'
    BY DEF WireOK
  <2>3. ThreadsOK' /\ Requesting'
    <3>1. strays' \in Nat
      BY NotifyTyped
    <3>2. drops' \in Nat
      BY DEF ThreadsOK
    <3> QED
      BY <3>1, <3>2 DEF ThreadsOK, Requesting
  <2> QED
    BY <2>1, <2>2, <2>3 DEF TypeInv
<1>28. CASE DataTimeout
  <2> USE <1>28 DEF DataTimeout
  <2>1. ObjectOK'
    BY DEF ObjectOK
  <2>2. WireOK'
    BY DEF WireOK
  <2>3. ThreadsOK' /\ Requesting'
    BY DEF ThreadsOK, Requesting
  <2> QED
    BY <2>1, <2>2, <2>3 DEF TypeInv
<1>29. CASE TickAbnormal
  <2> USE <1>29 DEF TickAbnormal, Disconnect
  <2>1. ObjectOK'
    BY DEF ObjectOK, Statuses
  <2>2. WireOK'
    BY DEF WireOK
  <2>3. ThreadsOK' /\ Requesting'
    BY DEF ThreadsOK, Requesting
  <2> QED
    BY <2>1, <2>2, <2>3 DEF TypeInv
<1>30. CASE TickDelete
  <2> USE <1>30 DEF TickDelete
  <2>1. ObjectOK'
    BY DEF ObjectOK
  <2>2. WireOK'
    BY DEF WireOK
  <2>3. ThreadsOK' /\ Requesting'
    BY DEF ThreadsOK, Requesting
  <2> QED
    BY <2>1, <2>2, <2>3 DEF TypeInv
<1>31. CASE Sweep
  <2> USE <1>31 DEF Sweep
  <2>1. ObjectOK'
    <3>1. regs' \in Nat
      BY DEF ObjectOK
    <3> QED
      BY <3>1 DEF ObjectOK
  <2>2. WireOK'
    BY DEF WireOK
  <2>3. ThreadsOK' /\ Requesting'
    BY DEF ThreadsOK, Requesting
  <2> QED
    BY <2>1, <2>2, <2>3 DEF TypeInv
<1>32. CASE Serve
  <2> USE <1>32 DEF Serve
  <2>1. ObjectOK'
    BY DEF ObjectOK
  <2>2. WireOK'
    <3>1. Head(toServer) \in Requests
      BY DEF WireOK
    <3>2. PICK code \in Codes \ {"continue"} :
            /\ toClient' = Append(toClient, Answer(Head(toServer).n, code))
            /\ srv' = IF code = "ok" THEN Granted[Head(toServer).method] ELSE srv
            /\ granted' = IF code = "ok" THEN granted \cup {Head(toServer).n}
                          ELSE granted
      OBVIOUS
    <3>3. toClient' \in Seq(Inputs)
      BY <3>1, <3>2, RequestFields, AnswerTyped, ConstAssumption DEF WireOK
    <3>4. srv' \in {"INIT", "READY", "PLAYING"}
      BY <3>1, <3>2, RequestFields DEF WireOK, Granted, Methods
    <3>5. granted' \subseteq Nat
      BY <3>1, <3>2, RequestFields DEF WireOK
    <3> QED
      BY <3>3, <3>4, <3>5 DEF WireOK
  <2>3. ThreadsOK' /\ Requesting'
    BY DEF ThreadsOK, Requesting
  <2> QED
    BY <2>1, <2>2, <2>3 DEF TypeInv
<1>33. CASE ServeInterim
  <2> USE <1>33 DEF ServeInterim
  <2>1. ObjectOK'
    BY DEF ObjectOK
  <2>2. WireOK'
    <3>1. Head(toServer) \in Requests
      BY DEF WireOK
    <3>2. toClient' \in Seq(Inputs)
      BY <3>1, RequestFields, AnswerTyped DEF WireOK
    <3>3. continued' \subseteq Requests
      BY <3>1 DEF WireOK
    <3> QED
      BY <3>2, <3>3 DEF WireOK
  <2>3. ThreadsOK' /\ Requesting'
    BY DEF ThreadsOK, Requesting
  <2> QED
    BY <2>1, <2>2, <2>3 DEF TypeInv
<1>34. CASE Announce
  <2> USE <1>34 DEF Announce
  <2>1. ObjectOK'
    BY DEF ObjectOK
  <2>2. WireOK'
    BY DEF WireOK, Inputs
  <2>3. ThreadsOK' /\ Requesting'
    BY DEF ThreadsOK, Requesting
  <2> QED
    BY <2>1, <2>2, <2>3 DEF TypeInv
<1>35. CASE Close
  <2> USE <1>35 DEF Close
  <2>1. ObjectOK'
    BY DEF ObjectOK
  <2>2. WireOK'
    <3>1. CASE toClient' = toClient
      BY <3>1 DEF WireOK
    <3>2. CASE toClient' = <<>>
      BY <3>2 DEF WireOK
    <3> QED
      BY <3>1, <3>2
  <2>3. ThreadsOK' /\ Requesting'
    BY DEF ThreadsOK, Requesting
  <2> QED
    BY <2>1, <2>2, <2>3 DEF TypeInv
<1>36. CASE UNCHANGED vars
  BY <1>36 DEF vars, TypeInv, ObjectOK, WireOK, ThreadsOK, Requesting
<1> QED
  BY <1>1, <1>2, <1>3, <1>4, <1>5, <1>6, <1>7, <1>8, <1>9, <1>10, <1>11,
     <1>12, <1>13, <1>14, <1>15, <1>16, <1>17, <1>18, <1>19, <1>20, <1>21,
     <1>22, <1>23, <1>24, <1>25, <1>26, <1>27, <1>28, <1>29, <1>30, <1>31,
     <1>32, <1>33, <1>34, <1>35, <1>36
  DEF Next, CallerStep, Reactor, Manager, Environment

\* Every variable keeps its type, whatever the interleaving of the threads.
THEOREM TypeCorrect == Spec => []TypeOK
<1>1. TypeInv => TypeOK
  BY DEF TypeInv, TypeOK
<1> QED
  BY TypeInit, TypeStep, <1>1, PTL DEF Spec

-----------------------------------------------------------------------------
(* The life of a session.                                                  *)

\* The client frees a handle when no other call is on it, and that is the last
\* call.
LastCall ==
  /\ \A c \in Callers : call[c].at = "idle" => call[c].op = "none"
  /\ \A c, d \in Callers : call[c].op = "FREE" /\ d # c => call[d].at = "idle"
  /\ last.op = "FREE" => \A c \in Callers : call[c].at = "idle"

\* A session is on its way out only after it was freed; from DELETE on it has no
\* connection and no timer, and the flag that the sweep reads follows.
LeavingOK ==
  /\ status \in {"ABNORMAL", "DELETE"} => last.op = "FREE"
  /\ status = "DELETE" => link = "none" /\ ~recvTimer /\ ~dataTimer
  /\ delFlag => status = "DELETE" /\ ~inList

\* The reactor works for sessions that have a connection, which it is in
\* m_FreeSessionList for.
LinkedOK ==
  /\ rx # RxIdle => link # "none"
  /\ regs <= setups
  /\ connFail => setups # 0

\* A session that never connected has been given nothing to clean up.
Untouched ==
  setups = 0 \/ (connFail /\ setups <= 1) =>
    /\ regs = 0 /\ link = "none" /\ ~recvTimer /\ ~dataTimer
    /\ status \in {"INIT", "ABNORMAL", "DELETE"}
    /\ \A c \in Callers :
         call[c].at \in {"idle", "found", "locked", "send", "dropping"}

Detached ==
  /\ rx = RxIdle /\ link = "none" /\ ~recvTimer /\ ~dataTimer
  /\ ~inList /\ regs = 0

DeadOK == ~alive => last.op = "FREE" /\ (setups <= 1 => Detached)

LifeInv == LastCall /\ LeavingOK /\ LinkedOK /\ Untouched /\ DeadOK

LEMMA CallEnds ==
  ASSUME NEW c \in Callers, ThreadsOK, LastCall, call[c].at # "idle",
         call' = [call EXCEPT ![c] = Idle], last'.op = call[c].op
  PROVE  LastCall'
BY DEF ThreadsOK, LastCall, Idle, Calls

LEMMA CallGoesOn ==
  ASSUME NEW c \in Callers, ThreadsOK, LastCall, call[c].at # "idle",
         NEW place \in Places \ {"idle"}, NEW n \in Nat,
         call' = [call EXCEPT ![c].at = place, ![c].n = n], UNCHANGED last
  PROVE  LastCall'
BY DEF ThreadsOK, LastCall, Calls

LEMMA CallMoves ==
  ASSUME NEW c \in Callers, ThreadsOK, LastCall, call[c].at # "idle",
         NEW place \in Places \ {"idle"},
         call' = [call EXCEPT ![c].at = place], UNCHANGED last
  PROVE  LastCall'
BY DEF ThreadsOK, LastCall, Calls

LEMMA LastCallStep ==
  ASSUME TypeInv, LastCall, [Next]_vars
  PROVE  LastCall'
<1> ObjectOK /\ ThreadsOK
  BY DEF TypeInv
<1>1. ASSUME NEW c \in Callers, NEW m \in Methods \cup {"FREE"}, Find(c, m)
      PROVE LastCall'
  BY <1>1 DEF Find, LastCall, ThreadsOK, Calls, Methods
<1>2. ASSUME NEW c \in Callers, Running(c)
      PROVE LastCall'
  <2>1. CASE Lock(c)
    BY <2>1, CallMoves DEF Lock, Places
  <2>2. CASE FreeUnconnected(c)
    BY <2>2, CallEnds DEF FreeUnconnected
  <2>3. CASE Free(c)
    BY <2>3, CallEnds DEF Free, Finish
  <2>4. CASE Decline(c)
    BY <2>4, CallEnds DEF Decline, Finish
  <2>5. CASE Create(c)
    <3>1. call[c].at # "idle" /\ "send" \in Places \ {"idle"} /\ UNCHANGED last
      BY <2>5 DEF Create, NewMessage, Places
    <3>2. cseq + 1 \in Nat
      BY DEF ObjectOK
    <3>3. call' = [call EXCEPT ![c].at = "send", ![c].n = cseq + 1]
      BY <2>5 DEF Create
    <3> QED
      BY <3>1, <3>2, <3>3, CallGoesOn
  <2>6. CASE Connect(c)
    <3>1. call[c].at # "idle" /\ "send" \in Places \ {"idle"} /\ UNCHANGED last
      BY <2>6 DEF Connect, NewMessage, MayConnect, Places
    <3>2. cseq + 1 \in Nat
      BY DEF ObjectOK
    <3>3. call' = [call EXCEPT ![c].at = "send", ![c].n = cseq + 1]
      BY <2>6 DEF Connect
    <3> QED
      BY <3>1, <3>2, <3>3, CallGoesOn
  <2>7. CASE ConnectFails(c)
    BY <2>7, CallEnds DEF ConnectFails, MayConnect
  <2>8. CASE Send(c)
    BY <2>8, CallMoves DEF Send, Goto, Places
  <2>9. CASE SendBusy(c)
    BY <2>9, CallEnds DEF SendBusy, Finish
  <2>10. CASE SendBroken(c)
    BY <2>10, CallMoves DEF SendBroken, Goto, Places
  <2>11. CASE Dropped(c)
    BY <2>11, CallEnds DEF Dropped, Finish
  <2>12. CASE ArmTimer(c)
    BY <2>12, CallEnds DEF ArmTimer, Finish
  <2>13. CASE Acquire(c)
    BY <2>13, CallMoves DEF Acquire, Goto, Places
  <2>14. CASE Expire(c)
    BY <2>14, CallMoves DEF Expire, Goto, Places
  <2>15. CASE GiveUp(c)
    BY <2>15, CallEnds DEF GiveUp, Finish
  <2>16. CASE SetupReturns(c)
    BY <2>16, CallEnds DEF SetupReturns, Finish
  <2>17. CASE CallReturns(c)
    BY <2>17, CallEnds DEF CallReturns, Finish
  <2> QED
    BY <1>2, <2>1, <2>2, <2>3, <2>4, <2>5, <2>6, <2>7, <2>8, <2>9, <2>10,
       <2>11, <2>12, <2>13, <2>14, <2>15, <2>16, <2>17
    DEF Running
<1>3. CASE Reactor \/ Manager \/ Environment \/ UNCHANGED vars
  <2>1. UNCHANGED <<call, last>>
    BY <1>3 DEF Reactor, Manager, Environment, vars, threads, Input, HandleSetup,
       HandlePlay, HandleOptions, HandlePause, HandleTeardown, HandleNothing,
       HandleAnnounce, InputClosed, DataTimeout, TickAbnormal, TickDelete, Sweep,
       Serve, ServeInterim, Announce, Close
  <2> QED
    BY <2>1 DEF LastCall
<1> QED
  BY <1>1, <1>2, <1>3 DEF Next, CallerStep, Running

\* While a call is under way the handle has not been freed.
LEMMA InCall ==
  ASSUME TypeInv, LifeInv, NEW c \in Callers, call[c].at # "idle"
  PROVE  /\ last.op # "FREE" /\ status \notin {"ABNORMAL", "DELETE"}
         /\ ~delFlag /\ alive
BY DEF LifeInv, LastCall, LeavingOK, DeadOK

LEMMA LifeStep == TypeInv /\ LifeInv /\ [Next]_vars => LifeInv'
<1> SUFFICES ASSUME TypeInv, LifeInv, [Next]_vars PROVE LifeInv'
  OBVIOUS
<1> ObjectOK /\ WireOK /\ ThreadsOK /\ Requesting
  BY DEF TypeInv
<1> LastCall /\ LeavingOK /\ LinkedOK /\ Untouched /\ DeadOK
  BY DEF LifeInv
<1>a. LastCall'
  BY LastCallStep
<1> USE DEF object, timers, life, wire, server, threads, history
<1>1. ASSUME NEW c \in Callers, NEW m \in Methods \cup {"FREE"}, Find(c, m)
      PROVE LifeInv'
  <2> USE <1>1 DEF Find
  <2>1. LeavingOK'
    BY DEF LeavingOK
  <2>2. LinkedOK'
    BY DEF LinkedOK
  <2>3. Untouched'
    BY DEF Untouched, ThreadsOK, Calls
  <2>4. DeadOK'
    BY DEF DeadOK, Detached
  <2> QED
    BY <1>a, <2>1, <2>2, <2>3, <2>4 DEF LifeInv
<1>2. ASSUME NEW c \in Callers, Lock(c) PROVE LifeInv'
  <2>a. call[c].at # "idle"
    BY <1>2 DEF Lock
  <2>b. last.op # "FREE" /\ status \notin {"ABNORMAL", "DELETE"} /\ ~delFlag /\ alive
    BY <2>a, InCall
  <2> USE <2>b
  <2> USE <1>2 DEF Lock
  <2>1. LeavingOK'
    BY DEF LeavingOK
  <2>2. LinkedOK'
    BY DEF LinkedOK
  <2>3. Untouched'
    BY DEF Untouched, ThreadsOK, Calls
  <2>4. DeadOK'
    BY DEF DeadOK, Detached
  <2> QED
    BY <1>a, <2>1, <2>2, <2>3, <2>4 DEF LifeInv
<1>3. ASSUME NEW c \in Callers, FreeUnconnected(c) PROVE LifeInv'
  <2>a. call[c].at # "idle"
    BY <1>3 DEF FreeUnconnected
  <2>b. last.op # "FREE" /\ status \notin {"ABNORMAL", "DELETE"} /\ ~delFlag /\ alive
    BY <2>a, InCall
  <2> USE <2>b
  <2> USE <1>3 DEF FreeUnconnected, Idle
  <2>1. LeavingOK'
    BY DEF LeavingOK
  <2>2. LinkedOK'
    BY DEF LinkedOK
  <2>3. Untouched'
    BY DEF Untouched, ThreadsOK, Calls
  <2>4. DeadOK'
    <3>1. setups <= 1 => regs = 0 /\ link = "none" /\ ~recvTimer /\ ~dataTimer
      BY DEF Untouched
    <3>2. link = "none" => rx = RxIdle
      BY DEF LinkedOK
    <3> QED
      BY <3>1, <3>2 DEF DeadOK, Detached
  <2> QED
    BY <1>a, <2>1, <2>2, <2>3, <2>4 DEF LifeInv
<1>4. ASSUME NEW c \in Callers, Free(c) PROVE LifeInv'
  <2>a. call[c].at # "idle"
    BY <1>4 DEF Free
  <2>b. last.op # "FREE" /\ status \notin {"ABNORMAL", "DELETE"} /\ ~delFlag /\ alive
    BY <2>a, InCall
  <2> USE <2>b
  <2> USE <1>4 DEF Free, Finish, Idle
  <2>1. LeavingOK'
    BY DEF LeavingOK, ObjectOK
  <2>2. LinkedOK'
    BY DEF LinkedOK
  <2>3. Untouched'
    BY DEF Untouched, ThreadsOK, Calls
  <2>4. DeadOK'
    BY DEF DeadOK, Detached
  <2> QED
    BY <1>a, <2>1, <2>2, <2>3, <2>4 DEF LifeInv
<1>5. ASSUME NEW c \in Callers, Decline(c) PROVE LifeInv'
  <2>a. call[c].at # "idle"
    BY <1>5 DEF Decline
  <2>b. last.op # "FREE" /\ status \notin {"ABNORMAL", "DELETE"} /\ ~delFlag /\ alive
    BY <2>a, InCall
  <2> USE <2>b
  <2> USE <1>5 DEF Decline, Finish, Idle
  <2>1. LeavingOK'
    BY DEF LeavingOK
  <2>2. LinkedOK'
    BY DEF LinkedOK
  <2>3. Untouched'
    BY DEF Untouched, ThreadsOK, Calls
  <2>4. DeadOK'
    BY DEF DeadOK, Detached
  <2> QED
    BY <1>a, <2>1, <2>2, <2>3, <2>4 DEF LifeInv
<1>6. ASSUME NEW c \in Callers, Create(c) PROVE LifeInv'
  <2>a. call[c].at # "idle"
    BY <1>6 DEF Create
  <2>b. last.op # "FREE" /\ status \notin {"ABNORMAL", "DELETE"} /\ ~delFlag /\ alive
    BY <2>a, InCall
  <2> USE <2>b
  <2> USE <1>6 DEF Create, MayStart
  <2>1. LeavingOK'
    BY DEF LeavingOK
  <2>2. LinkedOK'
    BY DEF LinkedOK
  <2>3. Untouched'
    BY DEF Untouched, ThreadsOK, Calls
  <2>4. DeadOK'
    BY DEF DeadOK, Detached
  <2> QED
    BY <1>a, <2>1, <2>2, <2>3, <2>4 DEF LifeInv
<1>7. ASSUME NEW c \in Callers, Connect(c) PROVE LifeInv'
  <2>a. call[c].at # "idle"
    BY <1>7 DEF Connect, MayConnect
  <2>b. last.op # "FREE" /\ status \notin {"ABNORMAL", "DELETE"} /\ ~delFlag /\ alive
    BY <2>a, InCall
  <2> USE <2>b
  <2> USE <1>7 DEF Connect, MayConnect
  <2>1. LeavingOK'
    BY DEF LeavingOK
  <2>2. LinkedOK'
    BY DEF LinkedOK, ObjectOK, ThreadsOK
  <2>3. Untouched'
    <3>1. setups' # 0 /\ (connFail => setups' > 1)
      BY DEF LinkedOK, ThreadsOK
    <3> QED
      BY <3>1 DEF Untouched, ThreadsOK
  <2>4. DeadOK'
    BY DEF DeadOK, Detached
  <2> QED
    BY <1>a, <2>1, <2>2, <2>3, <2>4 DEF LifeInv
<1>8. ASSUME NEW c \in Callers, ConnectFails(c) PROVE LifeInv'
  <2>a. call[c].at # "idle"
    BY <1>8 DEF ConnectFails, MayConnect
  <2>b. last.op # "FREE" /\ status \notin {"ABNORMAL", "DELETE"} /\ ~delFlag /\ alive
    BY <2>a, InCall
  <2> USE <2>b
  <2> USE <1>8 DEF ConnectFails, MayConnect, Disconnect, Idle
  <2>1. LeavingOK'
    BY DEF LeavingOK
  <2>2. LinkedOK'
    BY DEF LinkedOK, ObjectOK, ThreadsOK
  <2>3. Untouched'
    BY DEF Untouched, ThreadsOK, Calls
  <2>4. DeadOK'
    BY DEF DeadOK, Detached
  <2> QED
    BY <1>a, <2>1, <2>2, <2>3, <2>4 DEF LifeInv
<1>9. ASSUME NEW c \in Callers, Send(c) PROVE LifeInv'
  <2>a. call[c].at # "idle"
    BY <1>9 DEF Send
  <2>b. last.op # "FREE" /\ status \notin {"ABNORMAL", "DELETE"} /\ ~delFlag /\ alive
    BY <2>a, InCall
  <2> USE <2>b
  <2> USE <1>9 DEF Send, Goto
  <2>1. LeavingOK'
    BY DEF LeavingOK
  <2>2. LinkedOK'
    BY DEF LinkedOK
  <2>3. Untouched'
    BY DEF Untouched, ThreadsOK, Calls
  <2>4. DeadOK'
    BY DEF DeadOK, Detached
  <2> QED
    BY <1>a, <2>1, <2>2, <2>3, <2>4 DEF LifeInv
<1>10. ASSUME NEW c \in Callers, SendBusy(c) PROVE LifeInv'
  <2>a. call[c].at # "idle"
    BY <1>10 DEF SendBusy
  <2>b. last.op # "FREE" /\ status \notin {"ABNORMAL", "DELETE"} /\ ~delFlag /\ alive
    BY <2>a, InCall
  <2> USE <2>b
  <2> USE <1>10 DEF SendBusy, Finish, Idle
  <2>1. LeavingOK'
    BY DEF LeavingOK
  <2>2. LinkedOK'
    BY DEF LinkedOK
  <2>3. Untouched'
    BY DEF Untouched, ThreadsOK, Calls
  <2>4. DeadOK'
    BY DEF DeadOK, Detached
  <2> QED
    BY <1>a, <2>1, <2>2, <2>3, <2>4 DEF LifeInv
<1>11. ASSUME NEW c \in Callers, SendBroken(c) PROVE LifeInv'
  <2>a. call[c].at # "idle"
    BY <1>11 DEF SendBroken
  <2>b. last.op # "FREE" /\ status \notin {"ABNORMAL", "DELETE"} /\ ~delFlag /\ alive
    BY <2>a, InCall
  <2> USE <2>b
  <2> USE <1>11 DEF SendBroken, Goto
  <2>1. LeavingOK'
    BY DEF LeavingOK
  <2>2. LinkedOK'
    BY DEF LinkedOK
  <2>3. Untouched'
    BY DEF Untouched, ThreadsOK, Calls
  <2>4. DeadOK'
    BY DEF DeadOK, Detached
  <2> QED
    BY <1>a, <2>1, <2>2, <2>3, <2>4 DEF LifeInv
<1>12. ASSUME NEW c \in Callers, Dropped(c) PROVE LifeInv'
  <2>a. call[c].at # "idle"
    BY <1>12 DEF Dropped
  <2>b. last.op # "FREE" /\ status \notin {"ABNORMAL", "DELETE"} /\ ~delFlag /\ alive
    BY <2>a, InCall
  <2> USE <2>b
  <2> USE <1>12 DEF Dropped, TokenFree, Disconnect, Finish, Idle
  <2>1. LeavingOK'
    BY DEF LeavingOK
  <2>2. LinkedOK'
    BY DEF LinkedOK
  <2>3. Untouched'
    BY DEF Untouched, ThreadsOK, Calls
  <2>4. DeadOK'
    BY DEF DeadOK, Detached
  <2> QED
    BY <1>a, <2>1, <2>2, <2>3, <2>4 DEF LifeInv
<1>13. ASSUME NEW c \in Callers, ArmTimer(c) PROVE LifeInv'
  <2>a. call[c].at # "idle"
    BY <1>13 DEF ArmTimer
  <2>b. last.op # "FREE" /\ status \notin {"ABNORMAL", "DELETE"} /\ ~delFlag /\ alive
    BY <2>a, InCall
  <2> USE <2>b
  <2> USE <1>13 DEF ArmTimer, Finish, Idle
  <2>1. LeavingOK'
    BY DEF LeavingOK
  <2>2. LinkedOK'
    BY DEF LinkedOK
  <2>3. Untouched'
    BY DEF Untouched, ThreadsOK, Calls
  <2>4. DeadOK'
    BY DEF DeadOK, Detached
  <2> QED
    BY <1>a, <2>1, <2>2, <2>3, <2>4 DEF LifeInv
<1>14. ASSUME NEW c \in Callers, Acquire(c) PROVE LifeInv'
  <2>a. call[c].at # "idle"
    BY <1>14 DEF Acquire
  <2>b. last.op # "FREE" /\ status \notin {"ABNORMAL", "DELETE"} /\ ~delFlag /\ alive
    BY <2>a, InCall
  <2> USE <2>b
  <2> USE <1>14 DEF Acquire, Goto
  <2>1. LeavingOK'
    BY DEF LeavingOK
  <2>2. LinkedOK'
    BY DEF LinkedOK
  <2>3. Untouched'
    BY DEF Untouched, ThreadsOK, Calls
  <2>4. DeadOK'
    BY DEF DeadOK, Detached
  <2> QED
    BY <1>a, <2>1, <2>2, <2>3, <2>4 DEF LifeInv
<1>15. ASSUME NEW c \in Callers, Expire(c) PROVE LifeInv'
  <2>a. call[c].at # "idle"
    BY <1>15 DEF Expire
  <2>b. last.op # "FREE" /\ status \notin {"ABNORMAL", "DELETE"} /\ ~delFlag /\ alive
    BY <2>a, InCall
  <2> USE <2>b
  <2> USE <1>15 DEF Expire, Goto
  <2>1. LeavingOK'
    BY DEF LeavingOK
  <2>2. LinkedOK'
    BY DEF LinkedOK
  <2>3. Untouched'
    BY DEF Untouched, ThreadsOK, Calls
  <2>4. DeadOK'
    BY DEF DeadOK, Detached
  <2> QED
    BY <1>a, <2>1, <2>2, <2>3, <2>4 DEF LifeInv
<1>16. ASSUME NEW c \in Callers, GiveUp(c) PROVE LifeInv'
  <2>a. call[c].at # "idle"
    BY <1>16 DEF GiveUp
  <2>b. last.op # "FREE" /\ status \notin {"ABNORMAL", "DELETE"} /\ ~delFlag /\ alive
    BY <2>a, InCall
  <2> USE <2>b
  <2> USE <1>16 DEF GiveUp, Finish, Idle
  <2>1. LeavingOK'
    BY DEF LeavingOK
  <2>2. LinkedOK'
    BY DEF LinkedOK
  <2>3. Untouched'
    BY DEF Untouched, ThreadsOK, Calls
  <2>4. DeadOK'
    BY DEF DeadOK, Detached
  <2> QED
    BY <1>a, <2>1, <2>2, <2>3, <2>4 DEF LifeInv
<1>17. ASSUME NEW c \in Callers, SetupReturns(c) PROVE LifeInv'
  <2>a. call[c].at # "idle"
    BY <1>17 DEF SetupReturns
  <2>b. last.op # "FREE" /\ status \notin {"ABNORMAL", "DELETE"} /\ ~delFlag /\ alive
    BY <2>a, InCall
  <2> USE <2>b
  <2> USE <1>17 DEF SetupReturns, Finish, Idle
  <2>1. LeavingOK'
    BY DEF LeavingOK
  <2>2. LinkedOK'
    BY DEF LinkedOK
  <2>3. Untouched'
    BY DEF Untouched, ThreadsOK, Calls
  <2>4. DeadOK'
    BY DEF DeadOK, Detached
  <2> QED
    BY <1>a, <2>1, <2>2, <2>3, <2>4 DEF LifeInv
<1>18. ASSUME NEW c \in Callers, CallReturns(c) PROVE LifeInv'
  <2>a. call[c].at # "idle"
    BY <1>18 DEF CallReturns
  <2>b. last.op # "FREE" /\ status \notin {"ABNORMAL", "DELETE"} /\ ~delFlag /\ alive
    BY <2>a, InCall
  <2> USE <2>b
  <2> USE <1>18 DEF CallReturns, Finish, Idle
  <2>1. LeavingOK'
    BY DEF LeavingOK
  <2>2. LinkedOK'
    BY DEF LinkedOK
  <2>3. Untouched'
    BY DEF Untouched, ThreadsOK, Calls
  <2>4. DeadOK'
    BY DEF DeadOK, Detached
  <2> QED
    BY <1>a, <2>1, <2>2, <2>3, <2>4 DEF LifeInv
<1>19. CASE Input
  <2> USE <1>19 DEF Input
  <2>1. LeavingOK'
    BY DEF LeavingOK
  <2>2. LinkedOK'
    BY DEF LinkedOK, RxIdle
  <2>3. Untouched'
    BY DEF Untouched
  <2>4. DeadOK'
    BY DEF DeadOK, Detached
  <2> QED
    BY <1>a, <2>1, <2>2, <2>3, <2>4 DEF LifeInv
<1>20. CASE HandleSetup
  <2> USE <1>20 DEF HandleSetup, Answering, Answered, StatusAfter
  <2>1. LeavingOK'
    BY DEF LeavingOK, LinkedOK, RxIdle
  <2>2. LinkedOK'
    BY DEF LinkedOK, RxIdle
  <2>3. Untouched'
    BY DEF Untouched, LinkedOK, RxIdle
  <2>4. DeadOK'
    BY DEF DeadOK, Detached
  <2> QED
    BY <1>a, <2>1, <2>2, <2>3, <2>4 DEF LifeInv
<1>21. CASE HandlePlay
  <2> USE <1>21 DEF HandlePlay, Answering, Answered, StatusAfter
  <2>1. LeavingOK'
    BY DEF LeavingOK, LinkedOK, RxIdle
  <2>2. LinkedOK'
    BY DEF LinkedOK, RxIdle
  <2>3. Untouched'
    BY DEF Untouched, LinkedOK, RxIdle
  <2>4. DeadOK'
    BY DEF DeadOK, Detached
  <2> QED
    BY <1>a, <2>1, <2>2, <2>3, <2>4 DEF LifeInv
<1>22. CASE HandleOptions
  <2> USE <1>22 DEF HandleOptions, Answering, Answered
  <2>1. LeavingOK'
    BY DEF LeavingOK, LinkedOK, RxIdle
  <2>2. LinkedOK'
    BY DEF LinkedOK, RxIdle
  <2>3. Untouched'
    BY DEF Untouched, LinkedOK, RxIdle
  <2>4. DeadOK'
    BY DEF DeadOK, Detached
  <2> QED
    BY <1>a, <2>1, <2>2, <2>3, <2>4 DEF LifeInv
<1>23. CASE HandlePause
  <2> USE <1>23 DEF HandlePause, Answering, Answered, StatusAfter
  <2>1. LeavingOK'
    BY DEF LeavingOK, LinkedOK, RxIdle
  <2>2. LinkedOK'
    BY DEF LinkedOK, RxIdle
  <2>3. Untouched'
    BY DEF Untouched, LinkedOK, RxIdle
  <2>4. DeadOK'
    BY DEF DeadOK, Detached
  <2> QED
    BY <1>a, <2>1, <2>2, <2>3, <2>4 DEF LifeInv
<1>24. CASE HandleTeardown
  <2> USE <1>24 DEF HandleTeardown, Answering, Disconnect
  <2>1. LeavingOK'
    BY DEF LeavingOK, LinkedOK, RxIdle
  <2>2. LinkedOK'
    BY DEF LinkedOK, RxIdle
  <2>3. Untouched'
    BY DEF Untouched, LinkedOK, RxIdle
  <2>4. DeadOK'
    BY DEF DeadOK, Detached
  <2> QED
    BY <1>a, <2>1, <2>2, <2>3, <2>4 DEF LifeInv
<1>25. CASE HandleNothing
  <2> USE <1>25 DEF HandleNothing
  <2>1. LeavingOK'
    BY DEF LeavingOK, LinkedOK, RxIdle
  <2>2. LinkedOK'
    BY DEF LinkedOK, RxIdle
  <2>3. Untouched'
    BY DEF Untouched, LinkedOK, RxIdle
  <2>4. DeadOK'
    BY DEF DeadOK, Detached
  <2> QED
    BY <1>a, <2>1, <2>2, <2>3, <2>4 DEF LifeInv
<1>26. CASE HandleAnnounce
  <2> USE <1>26 DEF HandleAnnounce, Disconnect
  <2>1. LeavingOK'
    BY DEF LeavingOK, LinkedOK, RxIdle
  <2>2. LinkedOK'
    BY DEF LinkedOK, RxIdle
  <2>3. Untouched'
    BY DEF Untouched, LinkedOK, RxIdle
  <2>4. DeadOK'
    BY DEF DeadOK, Detached
  <2> QED
    BY <1>a, <2>1, <2>2, <2>3, <2>4 DEF LifeInv
<1>27. CASE InputClosed
  <2> USE <1>27 DEF InputClosed, Disconnect
  <2>1. LeavingOK'
    BY DEF LeavingOK
  <2>2. LinkedOK'
    BY DEF LinkedOK, RxIdle
  <2>3. Untouched'
    BY DEF Untouched
  <2>4. DeadOK'
    BY DEF DeadOK, Detached
  <2> QED
    BY <1>a, <2>1, <2>2, <2>3, <2>4 DEF LifeInv
<1>28. CASE DataTimeout
  <2> USE <1>28 DEF DataTimeout
  <2>1. LeavingOK'
    BY DEF LeavingOK
  <2>2. LinkedOK'
    BY DEF LinkedOK, RxIdle
  <2>3. Untouched'
    BY DEF Untouched
  <2>4. DeadOK'
    BY DEF DeadOK, Detached
  <2> QED
    BY <1>a, <2>1, <2>2, <2>3, <2>4 DEF LifeInv
<1>29. CASE TickAbnormal
  <2> USE <1>29 DEF TickAbnormal, Disconnect, TokenFree
  <2>1. LeavingOK'
    BY DEF LeavingOK
  <2>2. LinkedOK'
    BY DEF LinkedOK, RxIdle
  <2>3. Untouched'
    BY DEF Untouched
  <2>4. DeadOK'
    BY DEF DeadOK, Detached
  <2> QED
    BY <1>a, <2>1, <2>2, <2>3, <2>4 DEF LifeInv
<1>30. CASE TickDelete
  <2> USE <1>30 DEF TickDelete
  <2>1. LeavingOK'
    BY DEF LeavingOK
  <2>2. LinkedOK'
    BY DEF LinkedOK, RxIdle
  <2>3. Untouched'
    BY DEF Untouched
  <2>4. DeadOK'
    BY DEF DeadOK, Detached
  <2> QED
    BY <1>a, <2>1, <2>2, <2>3, <2>4 DEF LifeInv
<1>31. CASE Sweep
  <2> USE <1>31 DEF Sweep
  <2>1. LeavingOK'
    BY DEF LeavingOK
  <2>2. LinkedOK'
    BY DEF LinkedOK, ObjectOK, ThreadsOK, RxIdle
  <2>3. Untouched'
    BY DEF Untouched
  <2>4. DeadOK'
    <3>1. status = "DELETE" /\ ~inList /\ last.op = "FREE"
      BY DEF LeavingOK
    <3>2. link = "none" /\ ~recvTimer /\ ~dataTimer
      BY <3>1 DEF LeavingOK
    <3>3. rx = RxIdle
      BY <3>2 DEF LinkedOK
    <3>4. setups <= 1 => regs' = 0
      BY DEF LinkedOK, ObjectOK, ThreadsOK
    <3> QED
      BY <3>1, <3>2, <3>3, <3>4 DEF DeadOK, Detached
  <2> QED
    BY <1>a, <2>1, <2>2, <2>3, <2>4 DEF LifeInv
<1>32. CASE Serve
  <2> USE <1>32 DEF Serve
  <2>1. LeavingOK'
    BY DEF LeavingOK
  <2>2. LinkedOK'
    BY DEF LinkedOK, RxIdle
  <2>3. Untouched'
    BY DEF Untouched
  <2>4. DeadOK'
    BY DEF DeadOK, Detached
  <2> QED
    BY <1>a, <2>1, <2>2, <2>3, <2>4 DEF LifeInv
<1>33. CASE ServeInterim
  <2> USE <1>33 DEF ServeInterim
  <2>1. LeavingOK'
    BY DEF LeavingOK
  <2>2. LinkedOK'
    BY DEF LinkedOK, RxIdle
  <2>3. Untouched'
    BY DEF Untouched
  <2>4. DeadOK'
    BY DEF DeadOK, Detached
  <2> QED
    BY <1>a, <2>1, <2>2, <2>3, <2>4 DEF LifeInv
<1>34. CASE Announce
  <2> USE <1>34 DEF Announce
  <2>1. LeavingOK'
    BY DEF LeavingOK
  <2>2. LinkedOK'
    BY DEF LinkedOK, RxIdle
  <2>3. Untouched'
    BY DEF Untouched
  <2>4. DeadOK'
    BY DEF DeadOK, Detached
  <2> QED
    BY <1>a, <2>1, <2>2, <2>3, <2>4 DEF LifeInv
<1>35. CASE Close
  <2> USE <1>35 DEF Close
  <2>1. LeavingOK'
    BY DEF LeavingOK
  <2>2. LinkedOK'
    BY DEF LinkedOK, RxIdle
  <2>3. Untouched'
    BY DEF Untouched
  <2>4. DeadOK'
    BY DEF DeadOK, Detached
  <2> QED
    BY <1>a, <2>1, <2>2, <2>3, <2>4 DEF LifeInv
<1>36. CASE UNCHANGED vars
  BY <1>36, <1>a DEF vars, LifeInv, LeavingOK, LinkedOK, Untouched, DeadOK, Detached
<1> QED
  BY <1>1, <1>2, <1>3, <1>4, <1>5, <1>6, <1>7, <1>8, <1>9, <1>10, <1>11,
     <1>12, <1>13, <1>14, <1>15, <1>16, <1>17, <1>18, <1>19, <1>20, <1>21,
     <1>22, <1>23, <1>24, <1>25, <1>26, <1>27, <1>28, <1>29, <1>30, <1>31,
     <1>32, <1>33, <1>34, <1>35, <1>36
  DEF Next, CallerStep, Reactor, Manager, Environment

LEMMA LifeInit == Init => LifeInv
BY DEF Init, LifeInv, LastCall, LeavingOK, LinkedOK, Untouched, DeadOK, Idle

\* A session that is deleted, by the sweep or by FREE of a session whose connect
\* failed, has no call under way, no handler running, no handle registered, no
\* timer and no list that holds it: nothing is left that could touch its memory.
THEOREM DeletedIsQuiet == Spec => []FreedIsQuiet
<1>1. LifeInv => FreedIsQuiet
  BY DEF LifeInv, DeadOK, Detached, LastCall, FreedIsQuiet
<1> QED
  BY TypeInit, TypeStep, LifeInit, LifeStep, <1>1, PTL DEF Spec

-----------------------------------------------------------------------------
(* The thread that holds m_SessionMutex, and the request it works on.      *)

Held == IF owner \in Callers THEN call[owner] ELSE Idle

\* Beyond findSession a call holds m_SessionMutex, and nobody else does; the
\* number of its request is set when the request is created.
LockOK ==
  /\ \A c \in Callers : owner = c <=> call[c].at \notin {"idle", "found"}
  /\ \A c \in Callers : call[c].at \in {"idle", "found", "locked"} <=> call[c].n = 0

\* The answer a comes before what the server says of request n, or is a
\* 100 Continue for n that its final answer follows.
Before(a, n) == a.n < n \/ (a.code = "continue" /\ a.n = n)

\* Requests are numbered in the order in which they are created and sent, and
\* are answered in that order: rx, toClient and toServer are in order, and no
\* number is among them twice, but for an interim answer and its request.
InOrder ==
  /\ Held.at = "send" /\ rx.at = "answer" => rx.n < Held.n
  /\ \A i \in 1..Len(toServer) :
       /\ toServer[i].n <= cseq
       /\ Held.at = "send" => toServer[i].n < Held.n
       /\ rx.at = "answer" => Before(rx, toServer[i].n)
       /\ \A j \in 1..Len(toServer) : i < j => toServer[i].n < toServer[j].n
       /\ \A j \in 1..Len(toClient) :
            toClient[j].at = "answer" => Before(toClient[j], toServer[i].n)
  /\ \A i \in 1..Len(toClient) : toClient[i].at = "answer" =>
       /\ toClient[i].n <= cseq
       /\ Held.at = "send" => toClient[i].n < Held.n
       /\ rx.at = "answer" => Before(rx, toClient[i].n)
       /\ \A j \in 1..Len(toClient) :
            i < j /\ toClient[j].at = "answer" => Before(toClient[i], toClient[j].n)

\* The message that waits for an answer is the one of the call under way.
MessageOK ==
  /\ Held.n <= cseq /\ (msg # NoMsg => msg.n <= cseq)
  /\ Held.n > 0 /\ msg # NoMsg => msg.n = Held.n /\ msg.method = Held.op
  /\ rx.at = "answer" => rx.n <= cseq
  /\ IF blocked THEN Held.at # "timer" ELSE Held.at \notin {"wait", "woken", "late"}

\* One number is not given to two requests.
NamesOK ==
  /\ \A q \in continued : q.n <= cseq
  /\ msg # NoMsg =>
       /\ \A i \in 1..Len(toServer) :
            toServer[i].n = msg.n => toServer[i].method = msg.method
       /\ \A q \in continued : q.n = msg.n => q.method = msg.method

\* Requests the server has given an answer to that counts as success.
Taken == granted \cup {q.n : q \in continued}

\* An answer that says 200 or 100 is the server's.
Vouched(a) ==
  /\ a.code = "ok" => a.n \in granted
  /\ a.code = "continue" => \E q \in continued : q.n = a.n

AnswersOK ==
  /\ \A i \in 1..Len(toClient) : toClient[i].at = "answer" => Vouched(toClient[i])
  /\ rx.at = "answer" => Vouched(rx)

\* The answer to the pending message is still to come.
Expected ==
  /\ msg # NoMsg
  /\ \/ \E i \in 1..Len(toServer) : toServer[i].n = msg.n
     \/ \E i \in 1..Len(toClient) : toClient[i].at = "answer" /\ toClient[i].n = msg.n

Coming == rx.at = "answer" \/ Expected

InWait == {"wait", "woken", "late"}

\* Until SETUP is granted only SETUP and OPTIONS are sent, and no answer to
\* them counts as granted.
SetupOK ==
  status = "INIT" =>
    /\ ~recvFlag
    /\ msg.method \in {"SETUP", "OPTIONS", "none"}
    /\ Held.n > 0 => Held.op \in {"SETUP", "OPTIONS"}

\* The answer at hand is taken for one to a SETUP, whose message stays, and a
\* second answer to it is still to come.
Twice == rx.at = "answer" /\ Expected /\ msg.method = "SETUP"

\* What may still raise the semaphore is counted with its tokens.
TokensOK ==
  IF blocked
  THEN sem + (IF Twice THEN 2 ELSE IF Coming THEN 1 ELSE 0)
         <= late + drops + (IF Held.at = "wait" THEN 1 ELSE 0)
  ELSE sem = 0

\* While no token has gone astray there is one for the call that waits, at most, and
\* an answer in sight is the answer to that call.
PinOK ==
  blocked /\ strays = 0 =>
    /\ sem > 0 => sem = 1 /\ Held.at = "wait"
    /\ rx.at = "answer" => msg # NoMsg /\ msg.n = rx.n
    /\ Coming => sem = 0 /\ Held.at \in {"wait", "late"} /\ msg.n = Held.n
    /\ Held.op = "SETUP" /\ (Held.at = "send" \/ Coming) => status = "INIT"

\* The flag that the woken call reads tells what became of its own request.
ResultOK ==
  blocked /\ strays = 0 /\ (sem > 0 \/ Held.at = "woken") =>
    /\ recvFlag => Held.n \in Taken
    /\ Held.op = "SETUP" /\ recvFlag => status = "READY"
    /\ Held.op = "SETUP" /\ ~recvFlag /\ drops = 0 => retCode = "FAIL"

\* No token is left over while no call gave up and no connection was lost.
NoStrays == blocked /\ late = 0 /\ drops = 0 => strays = 0

\* What a request makes of the server's session, whose state is s, when it is
\* granted.
Outcome(op, s) ==
  IF op \in {"SETUP", "PAUSE"} THEN "READY"
  ELSE IF op = "PLAY" THEN "PLAYING" ELSE IF op = "TEARDOWN" THEN "INIT" ELSE s

\* The call under way waits, and there is no token for it yet.
Unanswered == Held.at = "wait" /\ sem = 0

\* The answer a, to the call under way, tells what the server's session is.
Foretells(a) ==
  /\ Unanswered /\ Held.n = a.n
  /\ srv = IF a.code = "ok" THEN Outcome(Held.op, status) ELSE status

\* Before a call gives up, a connection is lost or an answer is an interim one,
\* client and server differ only while the answer that tells the client is on its
\* way, or when its message is gone and the call will give up.
AgreeOK ==
  blocked /\ late = 0 /\ drops = 0 /\ continued = {} /\ link = "up"
    /\ status \in {"INIT", "READY", "PLAYING"} =>
    /\ \A i \in 1..Len(toServer) :
         /\ Unanswered /\ toServer[i].n = Held.n /\ toServer[i].method = Held.op
         /\ srv = status
    /\ \A i \in 1..Len(toClient) :
         toClient[i].at = "answer" => Foretells(toClient[i])
    /\ rx.at = "answer" => Foretells(rx)
    /\ \/ srv = status
       \/ Unanswered /\ \A i \in 1..Len(toServer) : toServer[i].n # Held.n

\* What holds in both modes, and what holds of the calls that wait.
BaseInv == LockOK /\ InOrder /\ MessageOK /\ NamesOK /\ AnswersOK /\ SetupOK
CallInv == TokensOK /\ PinOK /\ ResultOK /\ NoStrays /\ AgreeOK /\ OkIsGranted
SessionInv == BaseInv /\ CallInv

-----------------------------------------------------------------------------
(* How a step of the holder, or of another thread, changes Held.           *)

LEMMA HeldTyped ==
  ASSUME ThreadsOK, Requesting, LockOK
  PROVE  /\ Held \in Calls /\ Held.at # "found"
         /\ Held.at \in {"idle", "locked"} <=> Held.n = 0
         /\ Held.n > 0 => Held.op \in Methods
         /\ Held.at = "idle" => owner \notin Callers
BY DEF Held, LockOK, ThreadsOK, Requesting, Calls, Idle, Places, Ops

LEMMA Holder ==
  ASSUME ThreadsOK, LockOK, NEW c \in Callers, call[c].at \notin {"idle", "found"}
  PROVE  owner = c /\ Held = call[c]
BY DEF Held, LockOK

LEMMA HeldKept ==
  ASSUME LockOK, UNCHANGED <<call, owner>>
  PROVE  LockOK' /\ Held' = Held
BY DEF Held, LockOK

LEMMA HeldMoves ==
  ASSUME ThreadsOK, LockOK, NEW c \in Callers, UNCHANGED owner,
         call[c].at \notin {"idle", "found", "locked"},
         NEW place \in Places \ {"idle", "found", "locked"},
         call' = [call EXCEPT ![c].at = place]
  PROVE  LockOK' /\ Held'.at = place /\ Held'.op = Held.op /\ Held'.n = Held.n
BY Holder DEF Held, LockOK, ThreadsOK, Calls

LEMMA HeldStarts ==
  ASSUME ThreadsOK, LockOK, NEW c \in Callers, UNCHANGED owner,
         call[c].at = "locked", NEW n \in Nat \ {0},
         call' = [call EXCEPT ![c].at = "send", ![c].n = n]
  PROVE  LockOK' /\ Held'.at = "send" /\ Held'.op = Held.op /\ Held'.n = n
BY Holder DEF Held, LockOK, ThreadsOK, Calls

LEMMA HeldEnds ==
  ASSUME ThreadsOK, LockOK, NEW c \in Callers, owner' = NoCaller,
         call[c].at \notin {"idle", "found"}, call' = [call EXCEPT ![c] = Idle]
  PROVE  LockOK' /\ Held' = Idle
BY Holder, ConstAssumption DEF Held, LockOK, ThreadsOK, Calls, Idle

LEMMA ExpectedKept ==
  ASSUME UNCHANGED <<toServer, toClient>>, UNCHANGED msg \/ msg' = NoMsg
  PROVE  Expected' => Expected /\ UNCHANGED msg
BY DEF Expected

LEMMA WireLost ==
  ASSUME toServer' = <<>>, toClient' = <<>>
  PROVE  ~Expected'
BY DEF Expected

LEMMA WireNumbers ==
  ASSUME WireOK
  PROVE  /\ \A i \in 1..Len(toServer) : toServer[i] \in Requests /\ toServer[i].n \in Nat
         /\ \A i \in 1..Len(toClient) : toClient[i] \in Inputs /\ toClient[i].n \in Nat
<1>1. \A i \in 1..Len(toServer) : toServer[i] \in Requests
  BY DEF WireOK
<1>2. \A i \in 1..Len(toClient) : toClient[i] \in Inputs
  BY DEF WireOK
<1>3. \A a \in Inputs : a.n \in Nat
  BY DEF Inputs
<1> QED
  BY <1>1, <1>2, <1>3, RequestFields

LEMMA NamesKept ==
  ASSUME WireOK, NamesOK, UNCHANGED <<cseq, continued>>, msg' = msg \/ msg' = NoMsg,
         toServer' \in {toServer, <<>>, Tail(toServer)}
  PROVE  NamesOK'
<1>1. CASE toServer' = toServer
  BY <1>1 DEF NamesOK
<1>2. CASE toServer' = <<>>
  BY <1>2 DEF NamesOK
<1>3. CASE toServer' = Tail(toServer) /\ toServer = <<>>
  <2>1. \A i \in 1..Len(toServer') : FALSE
    BY <1>3
  <2> QED
    BY <2>1 DEF NamesOK
<1>4. CASE toServer' = Tail(toServer) /\ toServer # <<>>
  <2>1. \A i \in 1..Len(toServer') : toServer'[i] = toServer[i + 1] /\ i + 1 \in 1..Len(toServer)
    BY <1>4 DEF WireOK
  <2> QED
    BY <2>1 DEF NamesOK
<1> QED
  BY <1>1, <1>2, <1>3, <1>4

LEMMA TwiceComes == Twice => Coming
BY DEF Twice, Coming

LEMMA NoMoreComes ==
  ASSUME UNCHANGED rx, Expected' => Expected /\ UNCHANGED msg
  PROVE  (Coming' => Coming) /\ (Twice' => Twice)
BY DEF Coming, Twice

LEMMA NothingComes ==
  ASSUME ~Coming'
  PROVE  ~Twice'
BY DEF Coming, Twice

LEMMA NewIsNotExpected ==
  ASSUME WireOK, ObjectOK, InOrder, UNCHANGED <<toServer, toClient>>, msg'.n = cseq + 1
  PROVE  ~Expected'
BY DEF Expected, InOrder, WireOK, ObjectOK, Requests, Inputs

-----------------------------------------------------------------------------
(* A step that leaves alone all that matters to the call under way.        *)

Rest ==
  /\ UNCHANGED <<blocked, status, msg, cseq, sem, recvFlag, retCode, wire, srv,
                 granted, continued, rx, late, drops, strays>>
  /\ Held' = Held
  /\ last' = last \/ last'.n = 0 \/ last'.r # "OK"

LEMMA RestKeeps ==
  ASSUME SessionInv, TypeInv, LockOK', Rest
  PROVE  SessionInv'
<1> LockOK /\ InOrder /\ MessageOK /\ NamesOK /\ AnswersOK /\ SetupOK
    /\ TokensOK /\ PinOK /\ ResultOK /\ NoStrays /\ AgreeOK /\ OkIsGranted
  BY DEF SessionInv, BaseInv, CallInv
<1> ObjectOK /\ WireOK /\ ThreadsOK
  BY DEF TypeInv
<1> USE DEF Rest, wire
<1>a. Expected' = Expected
  BY DEF Expected
<1>b. Coming' = Coming
  BY <1>a DEF Coming
<1>1. InOrder'
  BY DEF InOrder, Before
<1>2. MessageOK'
  BY DEF MessageOK
<1>3. AnswersOK'
  BY DEF AnswersOK, Vouched
<1>w. (Coming' => Coming) /\ (Twice' => Twice)
  BY <1>a, NoMoreComes
<1>0. NamesOK'
  BY NamesKept
<1>4. SetupOK'
  BY DEF SetupOK
<1>5. TokensOK'
  BY <1>w, TwiceComes DEF TokensOK, ObjectOK, ThreadsOK
<1>6. PinOK'
  BY <1>b DEF PinOK
<1>7. ResultOK' /\ NoStrays' /\ OkIsGranted'
  BY DEF ResultOK, Taken, NoStrays, OkIsGranted, SetupFinal
<1>8. AgreeOK'
  BY DEF AgreeOK, Foretells, Unanswered
<1> QED
  BY <1>0, <1>1, <1>2, <1>3, <1>4, <1>5, <1>6, <1>7, <1>8 DEF SessionInv, BaseInv, CallInv

-----------------------------------------------------------------------------
(* A call returns, and leaves the connection as it is.                     *)

Ends ==
  /\ Held.at \notin {"idle", "wait"} /\ Held' = Idle
  /\ UNCHANGED <<blocked, cseq, sem, recvFlag, retCode, wire, srv, granted, continued, rx,
                 late, drops, strays>>
  /\ msg' = msg \/ msg' = NoMsg
  /\ \/ status' = status \/ status' = "ABNORMAL"
     \/ status' = "READY" /\ Held.at = "woken" /\ Held.op = "SETUP" /\ recvFlag /\ msg' = NoMsg
  /\ Held.at = "late" => rx = RxIdle /\ msg' = NoMsg
  /\ blocked /\ last'.r = "OK" /\ last'.n > 0 =>
       /\ Held.at = "woken" /\ last'.n = Held.n /\ last'.op = Held.op
       /\ recvFlag \/ (Held.op = "SETUP" /\ retCode # "FAIL")

LEMMA EndsKeeps ==
  ASSUME SessionInv, TypeInv, LockOK', Ends
  PROVE  SessionInv'
<1> LockOK /\ InOrder /\ MessageOK /\ NamesOK /\ AnswersOK /\ SetupOK
    /\ TokensOK /\ PinOK /\ ResultOK /\ NoStrays /\ AgreeOK /\ OkIsGranted
  BY DEF SessionInv, BaseInv, CallInv
<1> ObjectOK /\ WireOK /\ ThreadsOK /\ Requesting
  BY DEF TypeInv
<1> USE DEF Ends, wire
<1>a. Expected' => Expected /\ UNCHANGED msg
  BY ExpectedKept
<1>b. Coming' => Coming /\ (UNCHANGED msg \/ rx.at = "answer")
  BY <1>a DEF Coming
<1>1. InOrder'
  BY DEF InOrder, Before, Idle
<1>2. MessageOK'
  BY DEF MessageOK, Idle, ObjectOK
<1>3. AnswersOK'
  BY DEF AnswersOK, Vouched
<1>w. (Coming' => Coming) /\ (Twice' => Twice)
  BY <1>a, NoMoreComes
<1>0. NamesOK'
  BY NamesKept
<1>4. SetupOK'
  BY DEF SetupOK, Idle, NoMsg
<1>5. TokensOK'
  BY <1>w, TwiceComes DEF TokensOK, Idle, ObjectOK, ThreadsOK
<1>6. PinOK'
  <2>1. Held.at = "late" => ~Coming'
    BY DEF Coming, Expected, RxIdle
  <2> QED
    BY <1>b, <2>1 DEF PinOK, Coming, Idle
<1>7. ResultOK'
  BY DEF ResultOK, Taken, PinOK, Idle
<1>8. NoStrays'
  BY DEF NoStrays
<1>9. OkIsGranted'
  <2>1. SUFFICES ASSUME blocked, strays = 0, last'.r = "OK", last'.n > 0,
                        last'.op = "SETUP" => drops = 0
                 PROVE  last'.n \in Taken
    BY DEF OkIsGranted, SetupFinal, Taken
  <2> QED
    BY <2>1 DEF ResultOK, Taken
<1>10. AgreeOK'
  <2> SUFFICES ASSUME blocked, late = 0, drops = 0, continued = {}, link = "up",
                      status' \in {"INIT", "READY", "PLAYING"}
               PROVE  AgreeOK'
    BY DEF AgreeOK
  <2>1. status' = status
    BY DEF ResultOK, Taken, NoStrays
  <2> QED
    BY <2>1 DEF AgreeOK, Foretells, Unanswered
<1> QED
  BY <1>0, <1>1, <1>2, <1>3, <1>4, <1>5, <1>6, <1>7, <1>8, <1>9, <1>10
  DEF SessionInv, BaseInv, CallInv

-----------------------------------------------------------------------------
(* A call locks the session, creates its request or moves on.              *)

Locks ==
  /\ Held.at = "idle" /\ Held'.at = "locked" /\ Held'.n = 0
  /\ UNCHANGED <<blocked, status, msg, cseq, sem, recvFlag, retCode, wire, srv,
                 granted, continued, rx, late, drops, strays, last>>

LEMMA LocksKeeps ==
  ASSUME SessionInv, TypeInv, LockOK', Locks
  PROVE  SessionInv'
<1> LockOK /\ InOrder /\ MessageOK /\ NamesOK /\ AnswersOK /\ SetupOK
    /\ TokensOK /\ PinOK /\ ResultOK /\ NoStrays /\ AgreeOK /\ OkIsGranted
  BY DEF SessionInv, BaseInv, CallInv
<1> ObjectOK /\ WireOK /\ ThreadsOK
  BY DEF TypeInv
<1> USE DEF Locks, wire
<1>a. Expected' = Expected
  BY DEF Expected
<1>b. Coming' = Coming
  BY <1>a DEF Coming
<1>1. InOrder' /\ AnswersOK'
  BY DEF InOrder, Before, AnswersOK, Vouched
<1>2. MessageOK'
  BY DEF MessageOK, TypeInv, ObjectOK
<1>w. (Coming' => Coming) /\ (Twice' => Twice)
  BY <1>a, NoMoreComes
<1>0. NamesOK'
  BY NamesKept
<1>4. SetupOK'
  BY DEF SetupOK, InWait
<1>5. TokensOK'
  BY <1>w, TwiceComes DEF TokensOK, ObjectOK, ThreadsOK
<1>6. PinOK'
  BY <1>b DEF PinOK
<1>7. ResultOK' /\ NoStrays' /\ OkIsGranted'
  BY DEF ResultOK, Taken, PinOK, NoStrays, OkIsGranted, SetupFinal
<1>8. AgreeOK'
  BY DEF AgreeOK, Foretells, Unanswered
<1> QED
  BY <1>0, <1>1, <1>2, <1>4, <1>5, <1>6, <1>7, <1>8 DEF SessionInv, BaseInv, CallInv

\* The request of a call is created, on a connection that is there or is new.
Starts ==
  /\ Held.at = "locked" /\ Held.op \in Methods
  /\ Held'.at = "send" /\ Held'.op = Held.op /\ Held'.n = cseq + 1
  /\ cseq' = cseq + 1 /\ msg' = [method |-> Held.op, n |-> cseq + 1]
  /\ Held.op = "SETUP" => status = "INIT"
  /\ status = "INIT" => Held.op \in {"SETUP", "OPTIONS"}
  /\ UNCHANGED <<blocked, status, sem, recvFlag, retCode, granted, continued, rx, late, drops,
                 strays, last>>
  /\ \/ UNCHANGED <<wire, srv>>
     \/ /\ link' = "up" /\ toServer' = <<>> /\ toClient' = <<>>
        /\ status = "INIT" /\ srv' = "INIT" /\ rx = RxIdle

LEMMA StartsKeeps ==
  ASSUME SessionInv, TypeInv, LockOK', Starts
  PROVE  SessionInv'
<1> LockOK /\ InOrder /\ MessageOK /\ NamesOK /\ AnswersOK /\ SetupOK
    /\ TokensOK /\ PinOK /\ ResultOK /\ NoStrays /\ AgreeOK /\ OkIsGranted
  BY DEF SessionInv, BaseInv, CallInv
<1> ObjectOK /\ WireOK /\ ThreadsOK /\ Requesting
  BY DEF TypeInv
<1>w0. \/ UNCHANGED <<link, toServer, toClient, srv>>
       \/ /\ link' = "up" /\ toServer' = <<>> /\ toClient' = <<>>
          /\ status = "INIT" /\ srv' = "INIT" /\ rx = RxIdle
  BY DEF Starts, wire
<1>m. msg'.n = cseq + 1 /\ msg'.method = Held.op /\ msg' # NoMsg
  BY DEF Starts, NoMsg, ObjectOK
<1> USE DEF Starts
<1>a. ~Expected'
  BY <1>w0, <1>m, NewIsNotExpected, WireLost
<1>b. Coming' <=> rx.at = "answer"
  BY <1>a DEF Coming
<1>w. (Coming' => Coming) /\ (Twice' => Twice)
  BY <1>a DEF Twice, Coming
<1>0. NamesOK'
  <2>1. \A q \in continued : q.n \in Nat
    BY RequestFields DEF WireOK
  <2>2. \A i \in 1..Len(toServer') : i \in 1..Len(toServer) /\ toServer'[i] = toServer[i]
    BY <1>w0 DEF WireOK
  <2>3. \A i \in 1..Len(toServer) : toServer[i].n \in Nat /\ toServer[i].n <= cseq
    BY WireNumbers DEF InOrder
  <2> QED
    BY <1>m, <2>1, <2>2, <2>3 DEF NamesOK, ObjectOK
<1>1. InOrder'
  <2>1. CASE UNCHANGED <<link, toServer, toClient, srv>>
    <3>1. \A i \in 1..Len(toServer) : toServer[i].n \in Nat
      BY WireNumbers
    <3>2. \A i \in 1..Len(toClient) : toClient[i].n \in Nat
      BY WireNumbers
    <3>3. cseq \in Nat /\ rx.n \in Nat
      BY DEF ObjectOK, WireOK, Inputs, RxIdle
    <3> QED
      BY <2>1, <3>1, <3>2, <3>3 DEF InOrder, Before, MessageOK
  <2>2. CASE toServer' = <<>> /\ toClient' = <<>> /\ rx = RxIdle
    BY <2>2 DEF InOrder, Before, RxIdle
  <2> QED
    BY <1>w0, <2>1, <2>2
<1>2. MessageOK'
  BY <1>m DEF MessageOK, ObjectOK, WireOK, Inputs, RxIdle
<1>3. AnswersOK'
  BY <1>w0 DEF AnswersOK, Vouched
<1>4. SetupOK'
  BY <1>m DEF SetupOK
<1>5. TokensOK'
  BY <1>w, TwiceComes DEF TokensOK, ObjectOK, ThreadsOK
<1>6. PinOK'
  BY <1>b DEF PinOK, Coming
<1>7. ResultOK' /\ NoStrays' /\ OkIsGranted'
  BY DEF ResultOK, Taken, PinOK, NoStrays, OkIsGranted, SetupFinal
<1>8. AgreeOK'
  <2>1. CASE UNCHANGED <<link, toServer, toClient, srv>>
    BY <2>1 DEF AgreeOK, Foretells, Unanswered
  <2>2. CASE /\ link' = "up" /\ toServer' = <<>> /\ toClient' = <<>>
             /\ status = "INIT" /\ srv' = "INIT" /\ rx = RxIdle
    BY <2>2 DEF AgreeOK, RxIdle
  <2> QED
    BY <1>w0, <2>1, <2>2
<1> QED
  BY <1>0, <1>1, <1>2, <1>3, <1>4, <1>5, <1>6, <1>7, <1>8 DEF SessionInv, BaseInv, CallInv

\* The connection is gone, and with it what was on the wire.
Drops ==
  /\ link' = "none" /\ toServer' = <<>> /\ toClient' = <<>>
  /\ rx' = RxIdle
  /\ UNCHANGED <<blocked, retCode, srv, granted, continued, late>>

LEMMA DropKeeps ==
  ASSUME SessionInv, Drops
  PROVE  ~Coming' /\ InOrder' /\ AnswersOK' /\ AgreeOK'
<1>1. ~Coming'
  BY WireLost DEF Drops, Coming, RxIdle
<1>2. InOrder' /\ AnswersOK'
  BY DEF Drops, InOrder, Before, AnswersOK, Vouched, RxIdle
<1>3. AgreeOK'
  BY DEF Drops, AgreeOK
<1> QED
  BY <1>1, <1>2, <1>3

\* A call ends because there is no connection.
Gives ==
  /\ Drops
  /\ Held.at \in {"locked", "dropping"} /\ Held' = Idle
  /\ \/ UNCHANGED <<msg, cseq>>
     \/ /\ cseq' = cseq + 1 /\ msg' = [method |-> "SETUP", n |-> cseq + 1]
        /\ status = "INIT"
  /\ UNCHANGED <<status, sem, recvFlag, drops, strays>>
  /\ last'.r # "OK"

LEMMA GivesKeeps ==
  ASSUME SessionInv, TypeInv, LockOK', Gives
  PROVE  SessionInv'
<1> LockOK /\ InOrder /\ MessageOK /\ NamesOK /\ AnswersOK /\ SetupOK
    /\ TokensOK /\ PinOK /\ ResultOK /\ NoStrays /\ AgreeOK /\ OkIsGranted
  BY DEF SessionInv, BaseInv, CallInv
<1> ObjectOK /\ WireOK /\ ThreadsOK /\ Requesting
  BY DEF TypeInv
<1> USE DEF Gives
<1>a. ~Coming' /\ InOrder' /\ AnswersOK' /\ AgreeOK'
  BY DropKeeps
<1> USE DEF Drops
<1>m. \/ msg' = msg /\ cseq' = cseq
      \/ /\ msg'.n = cseq + 1 /\ cseq' = cseq + 1 /\ msg'.method = "SETUP"
         /\ msg' # NoMsg /\ status = "INIT"
  BY DEF NoMsg, ObjectOK
<1>2. MessageOK'
  BY <1>m DEF MessageOK, ObjectOK, WireOK, Inputs, RxIdle, Idle
<1>0. NamesOK'
  <2>1. \A i \in 1..Len(toServer') : FALSE
    OBVIOUS
  <2>2. \A q \in continued : q.n \in Nat
    BY RequestFields DEF WireOK
  <2> QED
    BY <1>m, <2>1, <2>2 DEF NamesOK, ObjectOK
<1>4. SetupOK'
  BY <1>a, <1>m DEF SetupOK, Idle, RxIdle
<1>5. TokensOK'
  BY <1>a, NothingComes, TwiceComes DEF TokensOK, ObjectOK, ThreadsOK, Idle
<1>6. PinOK'
  BY <1>a DEF PinOK, RxIdle, Idle
<1>7. ResultOK' /\ NoStrays' /\ OkIsGranted'
  BY DEF ResultOK, Taken, PinOK, NoStrays, OkIsGranted, SetupFinal, Idle
<1> QED
  BY <1>0, <1>a, <1>2, <1>4, <1>5, <1>6, <1>7 DEF SessionInv, BaseInv, CallInv

-----------------------------------------------------------------------------
(* A call sends its request, or finds that it cannot, and waits.           *)

\* The call under way goes on to another place.
GoesTo(place) == Held'.at = place /\ Held'.op = Held.op /\ Held'.n = Held.n

Still == UNCHANGED <<blocked, status, msg, cseq, recvFlag, retCode, link, toClient, srv,
                     granted, continued, rx, drops, strays, last>>

\* Nothing is sent.
Moves ==
  /\ Held.at = "send" /\ UNCHANGED <<sem, late, toServer>> /\ Still
  /\ \/ GoesTo("dropping")
     \/ link # "up" /\ GoesTo(IF blocked THEN "wait" ELSE "timer")

LEMMA MovesKeeps ==
  ASSUME SessionInv, TypeInv, LockOK', Moves
  PROVE  SessionInv'
<1> LockOK /\ InOrder /\ MessageOK /\ NamesOK /\ AnswersOK /\ SetupOK
    /\ TokensOK /\ PinOK /\ ResultOK /\ NoStrays /\ AgreeOK /\ OkIsGranted
  BY DEF SessionInv, BaseInv, CallInv
<1> ObjectOK /\ WireOK /\ ThreadsOK /\ Requesting
  BY DEF TypeInv
<1> USE DEF Moves, Still, GoesTo
<1>a. Expected' = Expected
  BY DEF Expected
<1>b. Coming' = Coming
  BY <1>a DEF Coming
<1>1. InOrder' /\ AnswersOK'
  BY DEF InOrder, Before, AnswersOK, Vouched
<1>2. MessageOK'
  BY DEF MessageOK
<1>w. (Coming' => Coming) /\ (Twice' => Twice)
  BY <1>a, NoMoreComes
<1>0. NamesOK'
  BY NamesKept
<1>4. SetupOK'
  BY DEF SetupOK, InWait
<1>5. TokensOK'
  BY <1>w, TwiceComes DEF TokensOK, ObjectOK, ThreadsOK
<1>6. PinOK'
  BY <1>b DEF PinOK, ObjectOK
<1>7. ResultOK' /\ NoStrays' /\ OkIsGranted'
  BY DEF ResultOK, Taken, PinOK, NoStrays, OkIsGranted, SetupFinal
<1>8. AgreeOK'
  BY DEF AgreeOK, Foretells, Unanswered
<1> QED
  BY <1>0, <1>1, <1>2, <1>4, <1>5, <1>6, <1>7, <1>8 DEF SessionInv, BaseInv, CallInv

\* The request goes to the server.
Sends ==
  /\ Held.at = "send" /\ link = "up" /\ UNCHANGED <<sem, late>> /\ Still
  /\ toServer' = Append(toServer, [method |-> Held.op, n |-> Held.n])
  /\ GoesTo(IF blocked THEN "wait" ELSE "timer")

LEMMA SendsKeeps ==
  ASSUME SessionInv, TypeInv, LockOK', Sends
  PROVE  SessionInv'
<1> LockOK /\ InOrder /\ MessageOK /\ NamesOK /\ AnswersOK /\ SetupOK
    /\ TokensOK /\ PinOK /\ ResultOK /\ NoStrays /\ AgreeOK /\ OkIsGranted
  BY DEF SessionInv, BaseInv, CallInv
<1> ObjectOK /\ WireOK /\ ThreadsOK /\ Requesting
  BY DEF TypeInv
<1> USE DEF Sends, Still, GoesTo
<1>h. Held.n \in Nat /\ Held.n > 0 /\ Held.op \in Methods
  BY HeldTyped DEF Calls
<1>s. /\ Len(toServer) \in Nat /\ Len(toServer') = Len(toServer) + 1
      /\ \A i \in 1..Len(toServer) : toServer'[i] = toServer[i]
      /\ toServer'[Len(toServer) + 1].n = Held.n
      /\ toServer'[Len(toServer) + 1].method = Held.op
  BY <1>h DEF WireOK, Requests
<1>i. \A i \in 1..Len(toServer') : i \in 1..Len(toServer) \/ i = Len(toServer) + 1
  BY <1>s
<1>e. \A i \in 1..Len(toServer) : i \in 1..Len(toServer')
  BY <1>s
<1>n. /\ \A i \in 1..Len(toServer) : toServer[i].n \in Nat
      /\ \A i \in 1..Len(toClient) : toClient[i].n \in Nat
      /\ rx.n \in Nat /\ cseq \in Nat
  BY WireNumbers DEF WireOK, Inputs, RxIdle, ObjectOK
<1>a. Expected' => (msg # NoMsg /\ msg.n = Held.n) \/ Expected
  BY <1>s, <1>i DEF Expected
<1>b. Coming' => Coming \/ (msg # NoMsg /\ msg.n = Held.n)
  BY <1>a DEF Coming
<1>1. InOrder'
  BY <1>s, <1>i, <1>e, <1>n DEF InOrder, Before, MessageOK
<1>2. MessageOK' /\ AnswersOK'
  BY DEF MessageOK, AnswersOK, Vouched
<1>w. Twice' => Coming
  <2>1. Expected' => Expected \/ msg # NoMsg
    BY <1>a
  <2>2. msg' = msg /\ rx' = rx
    OBVIOUS
  <2> QED
    BY <2>2 DEF Twice, Coming
<1>0. NamesOK'
  BY <1>s, <1>i, <1>h DEF NamesOK, MessageOK
<1>4. SetupOK'
  BY DEF SetupOK
<1>5. TokensOK'
  BY <1>w, TwiceComes DEF TokensOK, ObjectOK, ThreadsOK
<1>6. PinOK'
  BY <1>b DEF PinOK, ObjectOK, Coming
<1>7. ResultOK' /\ NoStrays' /\ OkIsGranted'
  BY DEF ResultOK, Taken, PinOK, NoStrays, OkIsGranted, SetupFinal
<1>8. AgreeOK'
  <2> SUFFICES ASSUME blocked, late = 0, drops = 0, continued = {}, status \in {"INIT", "READY", "PLAYING"}
               PROVE  AgreeOK'
    BY DEF AgreeOK
  <2>1. strays = 0 /\ sem = 0
    BY DEF NoStrays, PinOK, ObjectOK
  <2>2. /\ \A i \in 1..Len(toServer) : FALSE
        /\ \A i \in 1..Len(toClient) : toClient[i].at # "answer"
        /\ rx.at # "answer" /\ srv = status
    BY DEF AgreeOK, Unanswered, Foretells
  <2>3. \A i \in 1..Len(toServer') : i = Len(toServer) + 1
    BY <1>i, <2>2
  <2> QED
    BY <1>s, <2>1, <2>2, <2>3 DEF AgreeOK, Unanswered
<1> QED
  BY <1>0, <1>1, <1>2, <1>4, <1>5, <1>6, <1>7, <1>8 DEF SessionInv, BaseInv, CallInv

\* The call under way takes a token, or its time is up.
Wakes ==
  /\ Held.at = "wait" /\ sem > 0 /\ sem' = sem - 1 /\ UNCHANGED late
  /\ GoesTo("woken") /\ UNCHANGED toServer /\ Still

TimesOut ==
  /\ Held.at = "wait" /\ sem = 0 /\ late' = late + 1 /\ UNCHANGED sem
  /\ GoesTo("late") /\ UNCHANGED toServer /\ Still

LEMMA WakesKeeps ==
  ASSUME SessionInv, TypeInv, LockOK', Wakes
  PROVE  SessionInv'
<1> LockOK /\ InOrder /\ MessageOK /\ NamesOK /\ AnswersOK /\ SetupOK
    /\ TokensOK /\ PinOK /\ ResultOK /\ NoStrays /\ AgreeOK /\ OkIsGranted
  BY DEF SessionInv, BaseInv, CallInv
<1> ObjectOK /\ WireOK /\ ThreadsOK /\ Requesting
  BY DEF TypeInv
<1> USE DEF Wakes, Still, GoesTo
<1>a. Expected' = Expected
  BY DEF Expected
<1>b. Coming' = Coming
  BY <1>a DEF Coming
<1>1. InOrder' /\ AnswersOK'
  BY DEF InOrder, Before, AnswersOK, Vouched
<1>2. MessageOK'
  BY DEF MessageOK
<1>w. (Coming' => Coming) /\ (Twice' => Twice)
  BY <1>a, NoMoreComes
<1>0. NamesOK'
  BY NamesKept
<1>4. SetupOK'
  BY DEF SetupOK, InWait
<1>5. TokensOK'
  BY <1>w, TwiceComes DEF TokensOK, ObjectOK, ThreadsOK
<1>6. PinOK'
  BY <1>b DEF PinOK, ObjectOK
<1>7. ResultOK' /\ NoStrays' /\ OkIsGranted'
  BY DEF ResultOK, Taken, PinOK, NoStrays, OkIsGranted, SetupFinal
<1>8. AgreeOK'
  BY DEF AgreeOK, Foretells, Unanswered, ObjectOK
<1> QED
  BY <1>0, <1>1, <1>2, <1>4, <1>5, <1>6, <1>7, <1>8 DEF SessionInv, BaseInv, CallInv

LEMMA TimesOutKeeps ==
  ASSUME SessionInv, TypeInv, LockOK', TimesOut
  PROVE  SessionInv'
<1> LockOK /\ InOrder /\ MessageOK /\ NamesOK /\ AnswersOK /\ SetupOK
    /\ TokensOK /\ PinOK /\ ResultOK /\ NoStrays /\ AgreeOK /\ OkIsGranted
  BY DEF SessionInv, BaseInv, CallInv
<1> ObjectOK /\ WireOK /\ ThreadsOK /\ Requesting
  BY DEF TypeInv
<1> USE DEF TimesOut, Still, GoesTo
<1>a. Expected' = Expected
  BY DEF Expected
<1>b. Coming' = Coming
  BY <1>a DEF Coming
<1>1. InOrder' /\ AnswersOK'
  BY DEF InOrder, Before, AnswersOK, Vouched
<1>2. MessageOK'
  BY DEF MessageOK
<1>w. (Coming' => Coming) /\ (Twice' => Twice)
  BY <1>a, NoMoreComes
<1>0. NamesOK'
  BY NamesKept
<1>4. SetupOK'
  BY DEF SetupOK, InWait
<1>5. TokensOK'
  BY <1>w, TwiceComes DEF TokensOK, ObjectOK, ThreadsOK
<1>6. PinOK'
  BY <1>b DEF PinOK, ObjectOK
<1>7. ResultOK' /\ OkIsGranted'
  BY DEF ResultOK, Taken, PinOK, OkIsGranted, SetupFinal
<1>8. late' # 0
  BY DEF ThreadsOK
<1>9. NoStrays' /\ AgreeOK'
  BY <1>8 DEF NoStrays, AgreeOK
<1> QED
  BY <1>0, <1>1, <1>2, <1>4, <1>5, <1>6, <1>7, <1>9 DEF SessionInv, BaseInv, CallInv

-----------------------------------------------------------------------------
(* The server answers, announces, or ends the connection.                  *)

Served ==
  UNCHANGED <<blocked, status, msg, cseq, sem, recvFlag, retCode, link, rx, late,
              drops, strays, last>> /\ Held' = Held

\* What holds of an answer that is on its way.
LEMMA ServeKeeps ==
  ASSUME SessionInv, TypeInv, LockOK', Served, NEW code \in {"ok", "refused"},
         toServer # <<>>, toServer' = Tail(toServer),
         toClient' = Append(toClient, Answer(Head(toServer).n, code)),
         UNCHANGED continued,
         srv' = IF code = "ok" THEN Granted[Head(toServer).method] ELSE srv,
         granted' = IF code = "ok" THEN granted \cup {Head(toServer).n} ELSE granted
  PROVE  SessionInv'
<1> LockOK /\ InOrder /\ MessageOK /\ NamesOK /\ AnswersOK /\ SetupOK
    /\ TokensOK /\ PinOK /\ ResultOK /\ NoStrays /\ AgreeOK /\ OkIsGranted
  BY DEF SessionInv, BaseInv, CallInv
<1> ObjectOK /\ WireOK /\ ThreadsOK /\ Requesting
  BY DEF TypeInv
<1> USE DEF Served
<1> DEFINE q == Head(toServer)
           a == Answer(q.n, code)
<1>q. q = toServer[1] /\ 1 \in 1..Len(toServer) /\ q \in Requests
  BY DEF WireOK
<1>f. a.at = "answer" /\ a.n = q.n /\ a.code = code /\ a \in Inputs
  BY <1>q, AnswerTyped, RequestFields DEF Answer
<1>s. /\ Len(toServer) \in Nat \ {0} /\ Len(toServer') = Len(toServer) - 1
      /\ \A i \in 1..Len(toServer') : toServer'[i] = toServer[i + 1] /\ i + 1 \in 1..Len(toServer)
  BY DEF WireOK
<1>c. /\ Len(toClient) \in Nat /\ Len(toClient') = Len(toClient) + 1
      /\ \A i \in 1..Len(toClient) : toClient'[i] = toClient[i] /\ i \in 1..Len(toClient')
      /\ toClient'[Len(toClient) + 1] = a
  <2> HIDE DEF a
  <2> QED
    BY <1>f DEF WireOK, a
<1>i. \A i \in 1..Len(toClient') : i \in 1..Len(toClient) \/ i = Len(toClient) + 1
  BY <1>c
<1>j. \A i \in 1..Len(toServer) : i = 1 \/ (i - 1 \in 1..Len(toServer') /\ toServer'[i - 1] = toServer[i])
  BY <1>s
<1> HIDE DEF a, q
<1>n. /\ \A i \in 1..Len(toServer) : toServer[i].n \in Nat
      /\ \A i \in 1..Len(toClient) : toClient[i].n \in Nat
      /\ rx.n \in Nat /\ cseq \in Nat /\ q.n \in Nat
  BY <1>q, WireNumbers, RequestFields DEF WireOK, Inputs, RxIdle, ObjectOK
<1>a. Expected' => Expected
  BY <1>s, <1>c, <1>f, <1>i, <1>q DEF Expected
<1>b. Coming' => Coming
  BY <1>a DEF Coming
<1>1. InOrder'
  BY <1>s, <1>c, <1>f, <1>i, <1>q, <1>n DEF InOrder, Before
<1>2. MessageOK'
  BY DEF MessageOK
<1>3. AnswersOK'
  BY <1>c, <1>i, <1>f DEF AnswersOK, Vouched, q
<1>w. (Coming' => Coming) /\ (Twice' => Twice)
  BY <1>a, NoMoreComes
<1>0. NamesOK'
  BY NamesKept
<1>4. SetupOK'
  BY DEF SetupOK
<1>5. TokensOK'
  BY <1>w, TwiceComes DEF TokensOK, ObjectOK, ThreadsOK
<1>6. PinOK'
  BY <1>b DEF PinOK, ObjectOK
<1>7. ResultOK' /\ NoStrays' /\ OkIsGranted'
  BY DEF ResultOK, Taken, PinOK, NoStrays, OkIsGranted, SetupFinal
<1>8. AgreeOK'
  <2> SUFFICES ASSUME blocked, late = 0, drops = 0, continued = {}, link = "up",
                      status \in {"INIT", "READY", "PLAYING"}
               PROVE  AgreeOK'
    BY DEF AgreeOK
  <2>1. Unanswered /\ q.n = Held.n /\ q.method = Held.op /\ srv = status
    BY <1>q DEF AgreeOK
  <2>2. \A i \in 1..Len(toServer) : i # 1 => toServer[i].n # Held.n
    BY <1>q, <1>n, <2>1 DEF InOrder, Before
  <2>3. \A i \in 1..Len(toServer') : FALSE
    BY <1>s, <2>2 DEF AgreeOK
  <2>4. /\ \A i \in 1..Len(toClient) : toClient[i].at # "answer"
        /\ rx.at # "answer"
    <3>1. ASSUME NEW b, b.n \in Nat, Vouched(b), Before(b, q.n), Foretells(b) PROVE FALSE
      BY <1>n, <2>1, <3>1 DEF Before, Vouched, Foretells
    <3>2. \A i \in 1..Len(toClient) : toClient[i].at = "answer" =>
            Vouched(toClient[i]) /\ Before(toClient[i], q.n) /\ Foretells(toClient[i])
      BY <1>q DEF InOrder, AnswersOK, AgreeOK
    <3>3. rx.at = "answer" => Vouched(rx) /\ Before(rx, q.n) /\ Foretells(rx)
      BY <1>q DEF InOrder, AnswersOK, AgreeOK
    <3> QED
      BY <1>n, <3>1, <3>2, <3>3
  <2>5. srv' = IF code = "ok" THEN Outcome(Held.op, status) ELSE status
    BY <1>q, <2>1, RequestFields DEF Outcome, Granted, Methods, q
  <2>6. ASSUME NEW i \in 1..Len(toClient'), toClient'[i].at = "answer"
        PROVE  toClient'[i].n = Held.n /\ toClient'[i].code = code
    BY <1>c, <1>i, <1>f, <2>1, <2>4, <2>6
  <2>7. Unanswered' /\ Held' = Held /\ status' = status /\ rx'.at # "answer"
    BY <2>1, <2>4 DEF Unanswered
  <2>8. ASSUME NEW i \in 1..Len(toClient'), toClient'[i].at = "answer"
        PROVE  Foretells(toClient[i])'
    BY <2>5, <2>6, <2>7, <2>8 DEF Foretells, Outcome
  <2> QED
    BY <2>3, <2>7, <2>8 DEF AgreeOK, Unanswered
<1> QED
  BY <1>0, <1>1, <1>2, <1>3, <1>4, <1>5, <1>6, <1>7, <1>8 DEF SessionInv, BaseInv, CallInv

\* The server answers a request, but not a SETUP, with 100 Continue.
LEMMA InterimKeeps ==
  ASSUME SessionInv, TypeInv, LockOK', Served, SetupFinal,
         toServer # <<>>, UNCHANGED <<toServer, srv, granted>>,
         toClient' = Append(toClient, Answer(Head(toServer).n, "continue")),
         continued' = continued \cup {Head(toServer)}
  PROVE  SessionInv'
<1> LockOK /\ InOrder /\ MessageOK /\ NamesOK /\ AnswersOK /\ SetupOK
    /\ TokensOK /\ PinOK /\ ResultOK /\ NoStrays /\ AgreeOK /\ OkIsGranted
  BY DEF SessionInv, BaseInv, CallInv
<1> ObjectOK /\ WireOK /\ ThreadsOK /\ Requesting
  BY DEF TypeInv
<1> USE DEF Served
<1> DEFINE q == Head(toServer)
           a == Answer(q.n, "continue")
<1>q. q = toServer[1] /\ 1 \in 1..Len(toServer) /\ q \in Requests
  BY DEF WireOK
<1>f. a.at = "answer" /\ a.n = q.n /\ a.code = "continue" /\ a \in Inputs
  BY <1>q, AnswerTyped, RequestFields DEF Answer
<1>c. /\ Len(toClient) \in Nat /\ Len(toClient') = Len(toClient) + 1
      /\ \A i \in 1..Len(toClient) : toClient'[i] = toClient[i] /\ i \in 1..Len(toClient')
      /\ toClient'[Len(toClient) + 1] = a
  <2> HIDE DEF a
  <2> QED
    BY <1>f DEF WireOK, a
<1>i. \A i \in 1..Len(toClient') : i \in 1..Len(toClient) \/ i = Len(toClient) + 1
  BY <1>c
<1>g. continued' = continued \cup {q}
  OBVIOUS
<1> HIDE DEF a, q
<1>n. /\ \A i \in 1..Len(toServer) : toServer[i].n \in Nat
      /\ \A i \in 1..Len(toClient) : toClient[i].n \in Nat
      /\ rx.n \in Nat /\ cseq \in Nat /\ q.n \in Nat
  BY <1>q, WireNumbers, RequestFields DEF WireOK, Inputs, RxIdle, ObjectOK
<1>a. Expected' => Expected
  BY <1>c, <1>f, <1>i, <1>q DEF Expected
<1>b. Coming' => Coming
  BY <1>a DEF Coming
<1>1. InOrder'
  BY <1>c, <1>f, <1>i, <1>q, <1>n DEF InOrder, Before
<1>2. MessageOK'
  BY DEF MessageOK
<1>3. AnswersOK'
  BY <1>c, <1>i, <1>f, <1>g DEF AnswersOK, Vouched
<1>w. (Coming' => Coming) /\ (Twice' => Twice)
  BY <1>a, NoMoreComes
<1>0. NamesOK'
  BY <1>g, <1>q DEF NamesOK, InOrder
<1>4. SetupOK'
  BY DEF SetupOK
<1>5. TokensOK'
  BY <1>w, TwiceComes DEF TokensOK, ObjectOK, ThreadsOK
<1>6. PinOK'
  BY <1>b DEF PinOK, ObjectOK
<1>7. ResultOK' /\ NoStrays' /\ OkIsGranted'
  BY <1>g DEF ResultOK, Taken, PinOK, NoStrays, OkIsGranted
<1>8. AgreeOK'
  BY <1>g DEF AgreeOK
<1> QED
  BY <1>0, <1>1, <1>2, <1>3, <1>4, <1>5, <1>6, <1>7, <1>8 DEF SessionInv, BaseInv, CallInv

\* The reactor takes a message off the stream.
Reads ==
  /\ toClient # <<>> /\ toClient' = Tail(toClient) /\ UNCHANGED toServer
  /\ rx = RxIdle
  /\ rx' = IF Head(toClient).at = "announce" THEN Head(toClient)
           ELSE IF msg # NoMsg /\ Head(toClient).n = msg.n THEN Head(toClient)
           ELSE RxIdle
  /\ UNCHANGED <<blocked, status, msg, cseq, sem, recvFlag, retCode, link, srv,
                 granted, continued, late, drops, strays, last>>
  /\ Held' = Held

LEMMA ReadsKeeps ==
  ASSUME SessionInv, TypeInv, SetupFinal, LockOK', Reads
  PROVE  SessionInv'
<1> LockOK /\ InOrder /\ MessageOK /\ NamesOK /\ AnswersOK /\ SetupOK
    /\ TokensOK /\ PinOK /\ ResultOK /\ NoStrays /\ AgreeOK /\ OkIsGranted
  BY DEF SessionInv, BaseInv, CallInv
<1> ObjectOK /\ WireOK /\ ThreadsOK /\ Requesting
  BY DEF TypeInv
<1> USE DEF Reads
<1> DEFINE m == Head(toClient)
<1>q. m = toClient[1] /\ 1 \in 1..Len(toClient) /\ m \in Inputs
  BY DEF WireOK
<1>s. /\ Len(toClient) \in Nat \ {0} /\ Len(toClient') = Len(toClient) - 1
      /\ \A i \in 1..Len(toClient') : toClient'[i] = toClient[i + 1] /\ i + 1 \in 1..Len(toClient)
  BY DEF WireOK
<1>n. /\ \A i \in 1..Len(toServer) : toServer[i].n \in Nat
      /\ \A i \in 1..Len(toClient) : toClient[i].n \in Nat
      /\ cseq \in Nat
  BY WireNumbers DEF ObjectOK
<1>r. \/ rx' = m /\ m.at = "announce"
      \/ rx' = m /\ m.at = "answer" /\ msg # NoMsg /\ m.n = msg.n
      \/ rx' = RxIdle /\ (m.at = "answer" => msg = NoMsg \/ m.n # msg.n)
  BY <1>q DEF Inputs
<1> HIDE DEF m
<1>r2. rx'.at = "answer" =>
         m.at = "answer" /\ rx' = m /\ msg # NoMsg /\ m.n = msg.n
  BY <1>r DEF RxIdle
<1>r3. rx.at # "answer"
  BY DEF RxIdle
<1>a. Expected' => Expected
  BY <1>s DEF Expected
<1>b. Coming' => Coming
  <2>1. rx'.at = "answer" => Expected
    BY <1>q, <1>r2 DEF Expected
  <2> QED
    BY <1>a, <2>1 DEF Coming
<1>1. InOrder'
  BY <1>s, <1>q, <1>n, <1>r2, <1>r3 DEF InOrder, Before
<1>2. MessageOK'
  BY <1>r2, <1>q DEF MessageOK, InOrder, Before
<1>3. AnswersOK'
  BY <1>s, <1>q, <1>r2 DEF AnswersOK, Vouched
<1>w. (Coming' => Coming) /\ (Twice' => Twice)
  <2>1. CASE rx'.at # "answer"
    BY <1>a, <1>r3, <2>1 DEF Twice, Coming
  <2>2. CASE rx'.at = "answer" /\ msg.method # "SETUP"
    BY <1>b, <1>r3, <2>2 DEF Twice, Coming
  <2>3. CASE rx'.at = "answer" /\ msg.method = "SETUP"
    <3>1. Vouched(m) /\ m.n = msg.n /\ m.n \in Nat
      BY <1>q, <1>n, <1>r2, <2>3 DEF AnswersOK
    <3>2. ~Expected'
      <4>1. m.code # "continue"
        BY <1>r2, <2>3, <3>1 DEF Vouched, NamesOK, SetupFinal
      <4>2. \A i \in 1..Len(toServer) : m.n < toServer[i].n
        BY <1>q, <1>r2, <2>3, <4>1 DEF InOrder, Before
      <4>3. \A i \in 1..Len(toClient') :
              toClient'[i].at = "answer" => m.n < toClient'[i].n
        BY <1>q, <1>r2, <1>s, <2>3, <4>1 DEF InOrder, Before
      <4> QED
        BY <1>n, <1>s, <3>1, <4>2, <4>3 DEF Expected
    <3> QED
      BY <1>b, <1>r3, <2>3, <3>2 DEF Twice, Coming
  <2> QED
    BY <2>1, <2>2, <2>3
<1>0. NamesOK'
  BY NamesKept
<1>4. SetupOK'
  BY DEF SetupOK
<1>5. TokensOK'
  BY <1>w, TwiceComes DEF TokensOK, ObjectOK, ThreadsOK
<1>6. PinOK'
  BY <1>b, <1>r2 DEF PinOK, ObjectOK
<1>7. ResultOK' /\ NoStrays' /\ OkIsGranted'
  BY DEF ResultOK, Taken, PinOK, NoStrays, OkIsGranted, SetupFinal
<1>8. AgreeOK'
  <2> SUFFICES ASSUME blocked, late = 0, drops = 0, continued = {}, link = "up",
                      status \in {"INIT", "READY", "PLAYING"}
               PROVE  AgreeOK'
    BY DEF AgreeOK
  <2>1. \A i \in 1..Len(toClient') : toClient'[i].at = "answer" => Foretells(toClient[i])'
    BY <1>s DEF AgreeOK, Foretells, Unanswered, Outcome
  <2>2. rx'.at = "answer" => Foretells(rx)'
    BY <1>r2, <1>q DEF AgreeOK, Foretells, Unanswered, Outcome
  <2>3. \/ srv = status
        \/ Unanswered /\ \A i \in 1..Len(toServer) : toServer[i].n # Held.n
    BY DEF AgreeOK
  <2>4. Unanswered' = Unanswered
    BY DEF Unanswered
  <2> QED
    BY <2>1, <2>2, <2>3, <2>4 DEF AgreeOK
<1> QED
  BY <1>0, <1>1, <1>2, <1>3, <1>4, <1>5, <1>6, <1>7, <1>8 DEF SessionInv, BaseInv, CallInv

\* The server pushes an ANNOUNCE, or the connection breaks.
Pushes ==
  /\ Served /\ UNCHANGED <<toServer, srv, granted, continued>>
  /\ toClient' = Append(toClient, [at |-> "announce", n |-> 0, code |-> "none"])

LEMMA PushesKeeps ==
  ASSUME SessionInv, TypeInv, LockOK', Pushes
  PROVE  SessionInv'
<1> LockOK /\ InOrder /\ MessageOK /\ NamesOK /\ AnswersOK /\ SetupOK
    /\ TokensOK /\ PinOK /\ ResultOK /\ NoStrays /\ AgreeOK /\ OkIsGranted
  BY DEF SessionInv, BaseInv, CallInv
<1> ObjectOK /\ WireOK /\ ThreadsOK /\ Requesting
  BY DEF TypeInv
<1> USE DEF Pushes, Served
<1>c. \A i \in 1..Len(toClient') :
        toClient'[i].at = "answer" => i \in 1..Len(toClient) /\ toClient'[i] = toClient[i]
  BY DEF WireOK
<1>a. Expected' => Expected
  BY <1>c DEF Expected
<1>b. Coming' => Coming
  BY <1>a DEF Coming
<1>1. InOrder' /\ AnswersOK'
  BY <1>c DEF InOrder, Before, AnswersOK, Vouched
<1>2. MessageOK'
  BY DEF MessageOK
<1>w. (Coming' => Coming) /\ (Twice' => Twice)
  BY <1>a, NoMoreComes
<1>0. NamesOK'
  BY NamesKept
<1>4. SetupOK'
  BY DEF SetupOK, InWait
<1>5. TokensOK'
  BY <1>w, TwiceComes DEF TokensOK, ObjectOK, ThreadsOK
<1>6. PinOK'
  BY <1>b DEF PinOK, ObjectOK
<1>7. ResultOK' /\ NoStrays' /\ OkIsGranted'
  BY DEF ResultOK, Taken, PinOK, NoStrays, OkIsGranted, SetupFinal
<1>8. AgreeOK'
  BY <1>c DEF AgreeOK, Foretells, Unanswered, Outcome
<1> QED
  BY <1>0, <1>1, <1>2, <1>4, <1>5, <1>6, <1>7, <1>8 DEF SessionInv, BaseInv, CallInv

Breaks ==
  /\ UNCHANGED <<blocked, status, msg, cseq, sem, recvFlag, retCode, srv, granted, continued, rx,
                 late, drops, strays, last>>
  /\ Held' = Held /\ link' = "broken" /\ toServer' = <<>>
  /\ toClient' = toClient \/ toClient' = <<>>

LEMMA BreaksKeeps ==
  ASSUME SessionInv, TypeInv, LockOK', Breaks
  PROVE  SessionInv'
<1> LockOK /\ InOrder /\ MessageOK /\ NamesOK /\ AnswersOK /\ SetupOK
    /\ TokensOK /\ PinOK /\ ResultOK /\ NoStrays /\ AgreeOK /\ OkIsGranted
  BY DEF SessionInv, BaseInv, CallInv
<1> ObjectOK /\ WireOK /\ ThreadsOK /\ Requesting
  BY DEF TypeInv
<1> USE DEF Breaks
<1>c. \A i \in 1..Len(toClient') : i \in 1..Len(toClient) /\ toClient'[i] = toClient[i]
  BY DEF WireOK
<1>a. Expected' => Expected
  BY <1>c DEF Expected
<1>b. Coming' => Coming
  BY <1>a DEF Coming
<1>1. InOrder' /\ AnswersOK'
  BY <1>c DEF InOrder, Before, AnswersOK, Vouched
<1>2. MessageOK'
  BY DEF MessageOK
<1>w. (Coming' => Coming) /\ (Twice' => Twice)
  BY <1>a, NoMoreComes
<1>0. NamesOK'
  BY NamesKept
<1>4. SetupOK'
  BY DEF SetupOK, InWait
<1>5. TokensOK'
  BY <1>w, TwiceComes DEF TokensOK, ObjectOK, ThreadsOK
<1>6. PinOK'
  BY <1>b DEF PinOK, ObjectOK
<1>7. ResultOK' /\ NoStrays' /\ OkIsGranted' /\ AgreeOK'
  BY DEF ResultOK, Taken, PinOK, NoStrays, OkIsGranted, SetupFinal, AgreeOK
<1> QED
  BY <1>0, <1>1, <1>2, <1>4, <1>5, <1>6, <1>7 DEF SessionInv, BaseInv, CallInv

-----------------------------------------------------------------------------
(* The reactor handles an answer.                                          *)

\* An answer that grants its request, or does not, is handled; TEARDOWN apart.
Replies(good) ==
  /\ rx.at = "answer" /\ rx' = RxIdle
  /\ msg.method \in Methods \ {"TEARDOWN"}
  /\ UNCHANGED <<blocked, cseq, link, toServer, toClient, srv, granted, continued, late, drops, last>>
  /\ Held' = Held
  /\ msg' = IF msg.method = "SETUP" /\ blocked THEN msg ELSE NoMsg
  /\ good <=> /\ Decode(msg.method, rx.code) = "OK"
              /\ IF msg.method = "SETUP" THEN status = "INIT"
                 ELSE IF msg.method = "PAUSE" THEN status = "PLAYING"
                 ELSE status # "INIT"
  /\ status' = IF good THEN Outcome(msg.method, status) ELSE status
  /\ Notify(good) \/ (~good /\ msg.method = "PAUSE" /\ status = "READY" /\ Silent)
  /\ msg.method = "SETUP" /\ blocked /\ ~good /\ Decode("SETUP", rx.code) = "FAIL" =>
       retCode' = "FAIL"

\* The semaphore is released once.
LEMMA Released ==
  ASSUME ObjectOK, ThreadsOK, LockOK, Release
  PROVE  /\ sem' = sem + 1 /\ (strays' = 0 => strays = 0)
         /\ sem = 0 /\ Held.at = "wait" => strays' = strays
         /\ strays' = 0 => sem = 0 /\ Held.at = "wait"
<1>1. Held.at = "wait" <=> \E c \in Callers : call[c].at = "wait"
  BY DEF Held, LockOK, Idle
<1> QED
  BY <1>1 DEF Release, ObjectOK, ThreadsOK

\* A session that was freed has nothing coming.
LEMMA AnswersLive ==
  ASSUME TypeInv, LifeInv, SessionInv, blocked, strays = 0, Coming
  PROVE  status \notin {"ABNORMAL", "DELETE"}
<1>1. Held.at \in {"wait", "late"}
  BY DEF SessionInv, CallInv, PinOK
<1>2. owner \in Callers /\ call[owner].at # "idle"
  BY <1>1 DEF Held, Idle
<1> QED
  BY <1>2, InCall

LEMMA RepliesKeeps ==
  ASSUME SessionInv, TypeInv, LifeInv, SetupFinal, LockOK', NEW good \in BOOLEAN, Replies(good)
  PROVE  SessionInv'
<1> LockOK /\ InOrder /\ MessageOK /\ NamesOK /\ AnswersOK /\ SetupOK
    /\ TokensOK /\ PinOK /\ ResultOK /\ NoStrays /\ AgreeOK /\ OkIsGranted
  BY DEF SessionInv, BaseInv, CallInv
<1> ObjectOK /\ WireOK /\ ThreadsOK /\ Requesting
  BY DEF TypeInv
<1>n. /\ \A i \in 1..Len(toServer) : toServer[i].n \in Nat
      /\ \A i \in 1..Len(toClient) : toClient[i].n \in Nat
      /\ rx.n \in Nat /\ cseq \in Nat
  BY WireNumbers DEF WireOK, Inputs, RxIdle, ObjectOK
<1> USE DEF Replies
<1>c. Coming
  BY DEF Coming
<1>m. msg # NoMsg
  BY DEF NoMsg, Methods
<1>f. rx.code = "continue" /\ rx.n = msg.n => msg.method # "SETUP"
  BY <1>m DEF AnswersOK, Vouched, NamesOK, SetupFinal
<1>e. Expected' => Expected /\ msg.method = "SETUP" /\ blocked /\ msg' = msg
  BY DEF Expected
<1>w. (blocked /\ Coming' => Twice) /\ ~Twice'
  BY <1>e DEF Coming, Twice, Expected, RxIdle
<1>b. msg.n = rx.n => ~Coming'
  BY <1>e, <1>f, <1>n DEF Expected, InOrder, Before, Coming, RxIdle
<1>p. blocked /\ strays = 0 => msg.n = rx.n /\ (Held.op = "SETUP" => status = "INIT")
  BY <1>c DEF PinOK
<1>o. good => rx.n \in Taken
  BY DEF AnswersOK, Vouched, Decode, Taken
<1>h. Held.n \in Nat /\ (Held.at = "wait" => Held.n > 0)
  BY HeldTyped DEF Calls
<1>g. \/ blocked /\ recvFlag' = good /\ Release
      \/ UNCHANGED <<recvFlag, sem, strays>>
  BY DEF Notify, Silent
<1>r. strays' = 0 => strays = 0
  BY <1>g, Released
<1>1. InOrder' /\ AnswersOK'
  BY DEF InOrder, Before, AnswersOK, Vouched, RxIdle
<1>2. MessageOK'
  BY DEF MessageOK, RxIdle
<1>4. SetupOK'
  <2>1. status' = "INIT" => status = "INIT" /\ ~good
    BY DEF Outcome, Methods
  <2> QED
    BY <2>1, <1>g DEF SetupOK, NoMsg
<1>0. NamesOK'
  BY NamesKept
<1>5. TokensOK'
  BY <1>c, <1>w, <1>g, Released, TwiceComes DEF TokensOK, ObjectOK, ThreadsOK
<1>6. PinOK'
  BY <1>b, <1>c, <1>g, <1>p, <1>r, Released DEF PinOK, ObjectOK, RxIdle
<1>7. ResultOK'
  <2> SUFFICES ASSUME blocked, strays' = 0, sem' > 0 \/ Held.at = "woken"
               PROVE  ResultOK'
    BY DEF ResultOK, Taken
  <2>1. strays = 0 /\ sem = 0 /\ msg.n = Held.n /\ Held.at \in {"wait", "late"} /\ msg.n = rx.n
    BY <1>c, <1>r DEF PinOK
  <2>2. recvFlag' = good /\ Held.at = "wait"
    BY <1>g, <2>1, Released
  <2>3. msg.method = Held.op
    BY <1>h, <1>m, <2>1, <2>2 DEF MessageOK
  <2>4. Held.op = "SETUP" /\ ~good => Decode("SETUP", rx.code) = "FAIL"
    BY <1>p, <2>1, <2>3 DEF Decode
  <2> QED
    BY <1>o, <2>1, <2>2, <2>3, <2>4 DEF ResultOK, Taken, Outcome
<1>8. NoStrays' /\ OkIsGranted'
  <2>1. blocked /\ late = 0 /\ drops = 0 => strays' = 0
    BY <1>c, <1>g, Released, TwiceComes DEF NoStrays, TokensOK, ObjectOK
  <2> QED
    BY <1>r, <2>1 DEF NoStrays, OkIsGranted, SetupFinal
<1>9. AgreeOK'
  <2> SUFFICES ASSUME blocked, late = 0, drops = 0, continued = {}, link = "up",
                      status' \in {"INIT", "READY", "PLAYING"}
               PROVE  AgreeOK'
    BY DEF AgreeOK
  <2>1. status \in {"INIT", "READY", "PLAYING"}
    BY <1>c, AnswersLive DEF NoStrays, Statuses, ObjectOK
  <2>2. Foretells(rx) /\ strays = 0
    BY <2>1 DEF AgreeOK, NoStrays
  <2>3. msg.method = Held.op /\ msg.n = rx.n
    BY <1>c, <1>h, <1>m, <2>2 DEF PinOK, MessageOK, Foretells, Unanswered
  <2>c. rx.code # "continue"
    BY DEF AnswersOK, Vouched
  <2>4. \A i \in 1..Len(toServer) : FALSE
    BY <1>n, <2>1, <2>2, <2>3, <2>c DEF AgreeOK, InOrder, Before, Foretells
  <2>5. \A i \in 1..Len(toClient) : toClient[i].at # "answer"
    BY <1>n, <2>1, <2>2, <2>3, <2>c DEF AgreeOK, InOrder, Before, Foretells
  <2>6. srv = status'
    BY <1>p, <2>1, <2>2, <2>3, <2>c DEF SetupOK, Foretells, Outcome, AnswersOK, Vouched, Decode, Methods
  <2> QED
    BY <2>4, <2>5, <2>6 DEF AgreeOK, RxIdle
<1> QED
  BY <1>0, <1>1, <1>2, <1>4, <1>5, <1>6, <1>7, <1>8, <1>9 DEF SessionInv, BaseInv, CallInv

\* An announcement, or an answer whose message is gone, is done with.
Skips ==
  /\ rx.at = "announce" \/ (rx.at = "answer" /\ msg = NoMsg)
  /\ rx' = RxIdle
  /\ msg' = msg \/ msg' = NoMsg
  /\ UNCHANGED <<blocked, status, cseq, sem, recvFlag, retCode, wire, srv, granted,
                 continued, late, drops, strays, last>>
  /\ Held' = Held

LEMMA SkipsKeeps ==
  ASSUME SessionInv, TypeInv, LockOK', Skips
  PROVE  SessionInv'
<1> LockOK /\ InOrder /\ MessageOK /\ NamesOK /\ AnswersOK /\ SetupOK
    /\ TokensOK /\ PinOK /\ ResultOK /\ NoStrays /\ AgreeOK /\ OkIsGranted
  BY DEF SessionInv, BaseInv, CallInv
<1> ObjectOK /\ WireOK /\ ThreadsOK /\ Requesting
  BY DEF TypeInv
<1> USE DEF Skips, wire
<1>a. Expected' => Expected /\ UNCHANGED msg
  BY ExpectedKept
<1>b. Coming' => Coming /\ UNCHANGED msg
  BY <1>a DEF Coming, RxIdle
<1>1. InOrder' /\ AnswersOK' /\ MessageOK'
  BY DEF InOrder, Before, AnswersOK, Vouched, MessageOK, RxIdle
<1>w. (Coming' => Coming) /\ (Twice' => Twice)
  BY <1>b, <1>a DEF Twice, Coming, RxIdle
<1>0. NamesOK'
  BY NamesKept
<1>4. SetupOK'
  BY DEF SetupOK, NoMsg
<1>5. TokensOK'
  BY <1>w, TwiceComes DEF TokensOK, ObjectOK, ThreadsOK
<1>6. PinOK'
  BY <1>b DEF PinOK, RxIdle
<1>7. ResultOK' /\ NoStrays' /\ OkIsGranted'
  BY DEF ResultOK, Taken, NoStrays, OkIsGranted, SetupFinal
<1>8. AgreeOK'
  BY DEF AgreeOK, Foretells, Unanswered, Outcome, RxIdle
<1> QED
  BY <1>0, <1>1, <1>4, <1>5, <1>6, <1>7, <1>8 DEF SessionInv, BaseInv, CallInv

\* The connection is closed by the reactor or the manager, and nobody is told.
Closes ==
  /\ Drops /\ rx.at # "answer"
  /\ UNCHANGED <<msg, cseq, sem, recvFlag, drops, strays, last>>
  /\ status' = status \/ (status = "ABNORMAL" /\ status' = "DELETE")
  /\ Held' = Held

LEMMA ClosesKeeps ==
  ASSUME SessionInv, TypeInv, LifeInv, LockOK', Closes
  PROVE  SessionInv'
<1> LockOK /\ InOrder /\ MessageOK /\ NamesOK /\ AnswersOK /\ SetupOK
    /\ TokensOK /\ PinOK /\ ResultOK /\ NoStrays /\ AgreeOK /\ OkIsGranted
  BY DEF SessionInv, BaseInv, CallInv
<1> ObjectOK /\ WireOK /\ ThreadsOK /\ Requesting
  BY DEF TypeInv
<1> USE DEF Closes
<1>a. ~Coming' /\ InOrder' /\ AnswersOK' /\ AgreeOK'
  BY DropKeeps
<1>s. status' = status \/ Held = Idle
  <2>1. status = "ABNORMAL" /\ owner \in Callers => call[owner].at = "idle"
    BY InCall
  <2> QED
    BY <2>1 DEF Held, LockOK
<1> USE DEF Drops
<1>2. MessageOK'
  BY DEF MessageOK, RxIdle
<1>0. NamesOK'
  BY NamesKept
<1>4. SetupOK'
  BY <1>a, <1>s DEF SetupOK, RxIdle, Idle
<1>5. TokensOK'
  BY <1>a, NothingComes, TwiceComes DEF TokensOK, ObjectOK, ThreadsOK
<1>6. PinOK'
  BY <1>a DEF PinOK, RxIdle
<1>7. ResultOK' /\ NoStrays' /\ OkIsGranted'
  BY <1>s DEF ResultOK, Taken, PinOK, NoStrays, OkIsGranted, SetupFinal, Idle
<1> QED
  BY <1>0, <1>a, <1>2, <1>4, <1>5, <1>6, <1>7 DEF SessionInv, BaseInv, CallInv

\* The connection is closed, and the client is told: TEARDOWN is answered, or the
\* server has closed its end.
Tells(good) ==
  /\ Drops
  /\ UNCHANGED <<msg, cseq, status, last>> /\ Held' = Held
  /\ Notify(good)
  /\ \/ /\ rx.at = "answer" /\ msg.method = "TEARDOWN" /\ drops' = drops
        /\ good <=> Decode("TEARDOWN", rx.code) = "OK"
     \/ rx.at # "answer" /\ drops' = drops + 1 /\ ~good

LEMMA TellsKeeps ==
  ASSUME SessionInv, TypeInv, LockOK', NEW good \in BOOLEAN, Tells(good)
  PROVE  SessionInv'
<1> LockOK /\ InOrder /\ MessageOK /\ NamesOK /\ AnswersOK /\ SetupOK
    /\ TokensOK /\ PinOK /\ ResultOK /\ NoStrays /\ AgreeOK /\ OkIsGranted
  BY DEF SessionInv, BaseInv, CallInv
<1> ObjectOK /\ WireOK /\ ThreadsOK /\ Requesting
  BY DEF TypeInv
<1> USE DEF Tells
<1>a. ~Coming' /\ InOrder' /\ AnswersOK' /\ AgreeOK'
  BY DropKeeps
<1> USE DEF Drops
<1>c. rx.at = "answer" => Coming
  BY DEF Coming
<1>i. rx.at = "answer" => status # "INIT"
  BY DEF SetupOK
<1>h. Held.n \in Nat /\ (Held.at = "wait" => Held.n > 0)
  BY HeldTyped DEF Calls
<1>o. good => rx.at = "answer" /\ rx.n \in Taken
  BY DEF AnswersOK, Vouched, Decode, Taken
<1>g. \/ blocked /\ recvFlag' = good /\ Release
      \/ ~blocked /\ UNCHANGED <<recvFlag, sem, strays>>
  BY DEF Notify, Silent
<1>r. strays' = 0 => strays = 0
  BY <1>g, Released
<1>2. MessageOK'
  BY DEF MessageOK, RxIdle
<1>0. NamesOK'
  BY NamesKept
<1>4. SetupOK'
  BY <1>a, <1>g, <1>i, <1>o DEF SetupOK, RxIdle
<1>5. TokensOK'
  BY <1>a, <1>c, <1>g, Released, NothingComes, TwiceComes DEF TokensOK, ObjectOK, ThreadsOK
<1>6. PinOK'
  BY <1>a, <1>g, <1>r, Released DEF PinOK, ObjectOK, RxIdle
<1>7. ResultOK'
  <2> SUFFICES ASSUME blocked, strays' = 0, sem' > 0 \/ Held.at = "woken"
               PROVE  ResultOK'
    BY DEF ResultOK, Taken
  <2>1. strays = 0 /\ recvFlag' = good /\ Held.at = "wait"
    BY <1>g, <1>r, Released
  <2>2. CASE rx.at = "answer"
    <3>1. msg.n = Held.n /\ msg.n = rx.n /\ msg # NoMsg
      BY <1>c, <2>1, <2>2 DEF PinOK
    <3>2. Held.op = "TEARDOWN"
      BY <1>h, <2>1, <2>2, <3>1 DEF MessageOK
    <3> QED
      BY <1>o, <2>1, <3>1, <3>2 DEF ResultOK, Taken
  <2>3. CASE rx.at # "answer"
    BY <1>o, <2>1, <2>3 DEF ResultOK, Taken, ThreadsOK
  <2> QED
    BY <2>2, <2>3
<1>8. NoStrays' /\ OkIsGranted'
  <2>1. blocked /\ late = 0 /\ drops' = 0 => strays' = 0
    BY <1>c, <1>g, Released, TwiceComes DEF NoStrays, TokensOK, ObjectOK, ThreadsOK
  <2>2. drops' = 0 => drops = 0
    BY DEF ThreadsOK
  <2> QED
    BY <1>r, <2>1, <2>2 DEF NoStrays, OkIsGranted, SetupFinal
<1> QED
  BY <1>0, <1>a, <1>2, <1>4, <1>5, <1>6, <1>7, <1>8 DEF SessionInv, BaseInv, CallInv

-----------------------------------------------------------------------------
(* Every step is one of these.                                             *)

Same == UNCHANGED <<blocked, status, msg, cseq, sem, recvFlag, retCode, wire, srv,
                    granted, continued, rx, late, drops, strays>>

LEMMA CallerKeeps ==
  ASSUME TypeInv, LifeInv, SessionInv, NEW c \in Callers, CallerStep(c)
  PROVE  SessionInv'
<1> ObjectOK /\ WireOK /\ ThreadsOK /\ Requesting /\ LockOK /\ LastCall /\ LinkedOK
  BY DEF TypeInv, LifeInv, SessionInv, BaseInv
<1> SetupOK /\ MessageOK /\ PinOK
  BY DEF SessionInv, BaseInv, CallInv
<1> call[c].op \in Ops /\ call[c].n \in Nat /\ cseq + 1 \in Nat \ {0}
  BY DEF ThreadsOK, Calls, ObjectOK
<1> USE DEF object, timers, life, wire, server, threads, history
<1>1. ASSUME NEW m \in Methods \cup {"FREE"}, Find(c, m) PROVE SessionInv'
  <2>1. LockOK' /\ Held' = Held
    BY <1>1 DEF Find, Held, LockOK, ThreadsOK, Calls
  <2> QED
    BY <1>1, <2>1, RestKeeps DEF Find, Rest
<1>2. CASE Lock(c)
  <2>1. LockOK' /\ Held.at = "idle" /\ Held'.at = "locked" /\ Held'.n = 0
    BY <1>2, ConstAssumption DEF Lock, Held, LockOK, ThreadsOK, Calls, Idle
  <2> QED
    BY <1>2, <2>1, LocksKeeps DEF Lock, Locks
<1>3. CASE FreeUnconnected(c)
  <2>1. LockOK' /\ Held' = Held
    BY <1>3 DEF FreeUnconnected, Held, LockOK, ThreadsOK, Calls, Idle
  <2> QED
    BY <1>3, <2>1, RestKeeps DEF FreeUnconnected, Rest
<1>4. CASE Free(c)
  <2>1. Held = call[c] /\ Held.at = "locked"
    BY <1>4, Holder DEF Free
  <2>2. LockOK' /\ Held' = Idle
    BY <1>4, HeldEnds DEF Free, Finish
  <2>3. last'.n = 0
    BY <1>4, <2>1 DEF Free, Finish, LockOK
  <2>4. Ends
    BY <1>4, <2>1, <2>2, <2>3 DEF Free, Ends, InWait
  <2> QED
    BY <2>2, <2>4, EndsKeeps
<1>5. CASE Decline(c)
  <2>1. Held = call[c] /\ Held.at = "locked"
    BY <1>5, Holder DEF Decline
  <2>2. LockOK' /\ Held' = Idle
    BY <1>5, HeldEnds DEF Decline, Finish
  <2>3. last'.n = 0
    BY <1>5, <2>1 DEF Decline, Finish, LockOK
  <2>4. Ends
    BY <1>5, <2>1, <2>2, <2>3 DEF Decline, Ends, InWait
  <2> QED
    BY <2>2, <2>4, EndsKeeps
<1>6. CASE Create(c)
  <2>1. Held = call[c] /\ Held.at = "locked"
    BY <1>6, Holder DEF Create
  <2>2. LockOK' /\ Held'.at = "send" /\ Held'.op = Held.op /\ Held'.n = cseq + 1
    BY <1>6, HeldStarts DEF Create
  <2>3. Starts
    BY <1>6, <2>1, <2>2 DEF Create, NewMessage, MayStart, Starts, Methods
  <2> QED
    BY <2>2, <2>3, StartsKeeps
<1>7. CASE Connect(c)
  <2>1. Held = call[c] /\ Held.at = "locked"
    BY <1>7, Holder DEF Connect, MayConnect
  <2>2. LockOK' /\ Held'.at = "send" /\ Held'.op = Held.op /\ Held'.n = cseq + 1
    BY <1>7, HeldStarts DEF Connect, MayConnect
  <2>3. Starts
    BY <1>7, <2>1, <2>2 DEF Connect, MayConnect, NewMessage, Starts, Methods, LinkedOK
  <2> QED
    BY <2>2, <2>3, StartsKeeps
<1>8. CASE ConnectFails(c)
  <2>1. Held = call[c] /\ Held.at = "locked"
    BY <1>8, Holder DEF ConnectFails, MayConnect
  <2>2. LockOK' /\ Held' = Idle
    BY <1>8, HeldEnds DEF ConnectFails, MayConnect
  <2>3. Gives
    BY <1>8, <2>1, <2>2 DEF ConnectFails, MayConnect, NewMessage, Disconnect, Gives, Drops, LinkedOK
  <2> QED
    BY <2>2, <2>3, GivesKeeps
<1>9. CASE Send(c)
  <2>1. Held = call[c] /\ Held.at = "send"
    BY <1>9, Holder DEF Send
  <2> DEFINE place == IF blocked THEN "wait" ELSE "timer"
  <2>2. LockOK' /\ GoesTo(place)
    <3>1. place \in Places \ {"idle", "found", "locked"}
      BY DEF Places
    <3>2. call' = [call EXCEPT ![c].at = place] /\ UNCHANGED owner
      BY <1>9 DEF Send, Goto
    <3> HIDE DEF place
    <3> QED
      BY <2>1, <3>1, <3>2, HeldMoves DEF GoesTo
  <2>3. CASE link = "up"
    <3>1. Sends
      BY <1>9, <2>1, <2>2, <2>3 DEF Send, Goto, Sends, Still
    <3> QED
      BY <2>2, <3>1, SendsKeeps
  <2>4. CASE link # "up"
    <3>1. Moves
      BY <1>9, <2>1, <2>2, <2>4 DEF Send, Goto, Moves, Still
    <3> QED
      BY <2>2, <3>1, MovesKeeps
  <2> QED
    BY <2>3, <2>4
<1>10. CASE SendBusy(c)
  <2>1. Held = call[c] /\ Held.at = "send"
    BY <1>10, Holder DEF SendBusy
  <2>2. LockOK' /\ Held' = Idle
    BY <1>10, HeldEnds DEF SendBusy, Finish
  <2>3. last'.r # "OK"
    BY <1>10 DEF SendBusy, Finish, SendError
  <2>4. Ends
    BY <1>10, <2>1, <2>2, <2>3 DEF SendBusy, Ends, InWait
  <2> QED
    BY <2>2, <2>4, EndsKeeps
<1>11. CASE SendBroken(c)
  <2>1. Held = call[c] /\ Held.at = "send"
    BY <1>11, Holder DEF SendBroken
  <2>2. LockOK' /\ GoesTo("dropping")
    BY <1>11, <2>1, HeldMoves DEF SendBroken, Goto, Places, GoesTo
  <2>3. Moves
    BY <1>11, <2>1, <2>2 DEF SendBroken, Goto, Moves, Still
  <2> QED
    BY <2>2, <2>3, MovesKeeps
<1>12. CASE Dropped(c)
  <2>1. Held = call[c] /\ Held.at = "dropping"
    BY <1>12, Holder DEF Dropped
  <2>2. LockOK' /\ Held' = Idle
    BY <1>12, HeldEnds DEF Dropped, Finish
  <2>3. Gives
    BY <1>12, <2>1, <2>2 DEF Dropped, TokenFree, Finish, SendError, Disconnect, Gives, Drops, LinkedOK
  <2> QED
    BY <2>2, <2>3, GivesKeeps
<1>13. CASE ArmTimer(c)
  <2>1. Held = call[c] /\ Held.at = "timer"
    BY <1>13, Holder DEF ArmTimer
  <2>2. LockOK' /\ Held' = Idle
    BY <1>13, HeldEnds DEF ArmTimer, Finish
  <2>3. ~blocked
    BY <2>1 DEF MessageOK
  <2>4. Ends
    BY <1>13, <2>1, <2>2, <2>3 DEF ArmTimer, Ends, InWait
  <2> QED
    BY <2>2, <2>4, EndsKeeps
<1>14. CASE Acquire(c)
  <2>1. Held = call[c] /\ Held.at = "wait"
    BY <1>14, Holder DEF Acquire
  <2>2. LockOK' /\ GoesTo("woken")
    BY <1>14, <2>1, HeldMoves DEF Acquire, Goto, Places, GoesTo
  <2>3. Wakes
    BY <1>14, <2>1, <2>2 DEF Acquire, Goto, Wakes, Still
  <2> QED
    BY <2>2, <2>3, WakesKeeps
<1>15. CASE Expire(c)
  <2>1. Held = call[c] /\ Held.at = "wait"
    BY <1>15, Holder DEF Expire
  <2>2. LockOK' /\ GoesTo("late")
    BY <1>15, <2>1, HeldMoves DEF Expire, Goto, Places, GoesTo
  <2>3. TimesOut
    BY <1>15, <2>1, <2>2 DEF Expire, Goto, TimesOut, Still
  <2> QED
    BY <2>2, <2>3, TimesOutKeeps
<1>16. CASE GiveUp(c)
  <2>1. Held = call[c] /\ Held.at = "late"
    BY <1>16, Holder DEF GiveUp
  <2>2. LockOK' /\ Held' = Idle
    BY <1>16, HeldEnds DEF GiveUp, Finish
  <2>4. Ends
    BY <1>16, <2>1, <2>2 DEF GiveUp, MutexFree, Finish, Ends
  <2> QED
    BY <2>2, <2>4, EndsKeeps
<1>17. CASE SetupReturns(c)
  <2>1. Held = call[c] /\ Held.at = "woken" /\ Held.op = "SETUP"
    BY <1>17, Holder DEF SetupReturns
  <2>2. LockOK' /\ Held' = Idle
    BY <1>17, HeldEnds DEF SetupReturns, Finish
  <2>4. last'.r = "OK" => recvFlag \/ retCode = "OK"
    BY <1>17 DEF SetupReturns, Finish
  <2>5. Ends
    BY <1>17, <2>1, <2>2, <2>4 DEF SetupReturns, Finish, Ends
  <2> QED
    BY <2>2, <2>5, EndsKeeps
<1>18. CASE CallReturns(c)
  <2>1. Held = call[c] /\ Held.at = "woken" /\ Held.op # "SETUP"
    BY <1>18, Holder DEF CallReturns
  <2>2. LockOK' /\ Held' = Idle
    BY <1>18, HeldEnds DEF CallReturns, Finish
  <2>4. Ends
    BY <1>18, <2>1, <2>2 DEF CallReturns, Finish, Ends
  <2> QED
    BY <2>2, <2>4, EndsKeeps
<1> QED
  BY <1>1, <1>2, <1>3, <1>4, <1>5, <1>6, <1>7, <1>8, <1>9, <1>10, <1>11,
     <1>12, <1>13, <1>14, <1>15, <1>16, <1>17, <1>18 DEF CallerStep

LEMMA ReactorKeeps ==
  ASSUME TypeInv, LifeInv, SessionInv, SetupFinal, Reactor
  PROVE  SessionInv'
<1> ObjectOK /\ WireOK /\ ThreadsOK /\ LockOK /\ LinkedOK
  BY DEF TypeInv, LifeInv, SessionInv, BaseInv
<1> SetupOK /\ AnswersOK
  BY DEF SessionInv, BaseInv
<1> USE DEF object, timers, life, wire, server, threads, history
<1>k. UNCHANGED <<call, owner, last>>
  BY DEF Reactor, Input, HandleSetup, HandlePlay, HandleOptions, HandlePause,
     HandleTeardown, HandleNothing, HandleAnnounce, InputClosed, DataTimeout
<1>h. LockOK' /\ Held' = Held
  BY <1>k, HeldKept
<1>1. CASE Input
  <2>1. Reads
    BY <1>1, <1>h DEF Input, Reads
  <2> QED
    BY <1>h, <2>1, ReadsKeeps
<1>2. CASE HandleSetup
  <2> DEFINE good == status = "INIT" /\ Decode("SETUP", rx.code) = "OK"
  <2>1. Replies(good)
    BY <1>2, <1>h DEF HandleSetup, Answering, Answered, Replies, Methods, StatusAfter,
       Outcome, Decode
  <2> QED
    BY <1>h, <2>1, RepliesKeeps
<1>3. CASE HandlePlay
  <2> DEFINE good == status # "INIT" /\ Decode("PLAY", rx.code) = "OK"
  <2>1. Replies(good)
    BY <1>3, <1>h DEF HandlePlay, Answering, Answered, Replies, Methods, StatusAfter, Outcome
  <2> QED
    BY <1>h, <2>1, RepliesKeeps
<1>4. CASE HandleOptions
  <2> DEFINE good == status # "INIT" /\ Decode("OPTIONS", rx.code) = "OK"
  <2>1. Replies(good)
    BY <1>4, <1>h DEF HandleOptions, Answering, Answered, Replies, Methods, Outcome
  <2> QED
    BY <1>h, <2>1, RepliesKeeps
<1>5. CASE HandlePause
  <2> DEFINE good == status = "PLAYING" /\ Decode("PAUSE", rx.code) = "OK"
  <2>1. Replies(good)
    BY <1>5, <1>h DEF HandlePause, Answering, Answered, Replies, Methods, StatusAfter, Outcome
  <2> QED
    BY <1>h, <2>1, RepliesKeeps
<1>6. CASE HandleTeardown
  <2>1. status # "INIT"
    BY <1>6 DEF HandleTeardown, Answering, SetupOK
  <2> DEFINE good == Decode("TEARDOWN", rx.code) = "OK"
  <2>2. Tells(good)
    BY <1>6, <1>h, <2>1 DEF HandleTeardown, Answering, Disconnect, Drops, Tells
  <2> QED
    BY <1>h, <2>2, TellsKeeps
<1>7. CASE HandleNothing
  <2>1. Skips
    BY <1>7, <1>h DEF HandleNothing, Skips
  <2> QED
    BY <1>h, <2>1, SkipsKeeps
<1>8. CASE HandleAnnounce
  <2>1. CASE UNCHANGED wire
    <3>1. Skips
      BY <1>8, <1>h, <2>1 DEF HandleAnnounce, Skips, Disconnect
    <3> QED
      BY <1>h, <3>1, SkipsKeeps
  <2>2. CASE Disconnect /\ UNCHANGED msg
    <3>1. Closes
      BY <1>8, <1>h, <2>2 DEF HandleAnnounce, Disconnect, Closes, Drops
    <3> QED
      BY <1>h, <3>1, ClosesKeeps
  <2> QED
    BY <1>8, <2>1, <2>2 DEF HandleAnnounce
<1>9. CASE InputClosed
  <2>1. Tells(FALSE)
    BY <1>9, <1>h DEF InputClosed, Disconnect, Drops, Tells, RxIdle
  <2> QED
    BY <1>h, <2>1, TellsKeeps
<1>10. CASE DataTimeout
  <2>1. Rest
    BY <1>10, <1>h DEF DataTimeout, Rest
  <2> QED
    BY <1>h, <2>1, RestKeeps
<1> QED
  BY <1>1, <1>2, <1>3, <1>4, <1>5, <1>6, <1>7, <1>8, <1>9, <1>10 DEF Reactor

LEMMA OtherKeeps ==
  ASSUME TypeInv, LifeInv, SessionInv, SetupFinal,
         Manager \/ Environment \/ UNCHANGED vars
  PROVE  SessionInv'
<1> ObjectOK /\ WireOK /\ ThreadsOK /\ LockOK /\ LinkedOK
  BY DEF TypeInv, LifeInv, SessionInv, BaseInv
<1> USE DEF object, timers, life, wire, server, threads, history
<1>k. UNCHANGED <<call, owner, last>>
  BY DEF Manager, Environment, TickAbnormal, TickDelete, Sweep, Serve, ServeInterim,
     Announce, Close, vars
<1>h. LockOK' /\ Held' = Held
  BY <1>k, HeldKept
<1>1. CASE TickAbnormal
  <2>1. rx = RxIdle
    BY <1>1 DEF TickAbnormal, TokenFree, LinkedOK
  <2>2. Closes
    BY <1>1, <1>h, <2>1 DEF TickAbnormal, Disconnect, Closes, Drops, RxIdle
  <2> QED
    BY <1>h, <2>2, ClosesKeeps
<1>2. CASE TickDelete \/ Sweep \/ UNCHANGED vars
  <2>1. Rest
    BY <1>2, <1>h DEF TickDelete, Sweep, vars, Rest
  <2> QED
    BY <1>h, <2>1, RestKeeps
<1>3. CASE Serve
  <2>1. PICK code \in Codes \ {"continue"} :
          /\ toClient' = Append(toClient, Answer(Head(toServer).n, code))
          /\ srv' = IF code = "ok" THEN Granted[Head(toServer).method] ELSE srv
          /\ granted' = IF code = "ok" THEN granted \cup {Head(toServer).n} ELSE granted
    BY <1>3 DEF Serve
  <2>2. code \in {"ok", "refused"}
    BY ConstAssumption
  <2>3. Served /\ toServer # <<>> /\ toServer' = Tail(toServer)
    BY <1>3, <1>h DEF Serve, Served
  <2>4. UNCHANGED continued
    BY <1>3 DEF Serve
  <2> QED
    BY <1>h, <2>1, <2>2, <2>3, <2>4, ServeKeeps
<1>4. CASE ServeInterim
  <2>1. Served /\ UNCHANGED <<toServer, srv, granted>>
    BY <1>4, <1>h DEF ServeInterim, Served
  <2> QED
    BY <1>4, <1>h, <2>1, InterimKeeps DEF ServeInterim
<1>5. CASE Announce
  <2>1. Pushes
    BY <1>5, <1>h DEF Announce, Pushes, Served
  <2> QED
    BY <1>h, <2>1, PushesKeeps
<1>6. CASE Close
  <2>1. Breaks
    BY <1>6, <1>h DEF Close, Breaks
  <2> QED
    BY <1>h, <2>1, BreaksKeeps
<1> QED
  BY <1>1, <1>2, <1>3, <1>4, <1>5, <1>6 DEF Manager, Environment

LEMMA SessionInit == Init => SessionInv
<1> SUFFICES ASSUME Init PROVE SessionInv
  OBVIOUS
<1>1. Held = Idle
  BY DEF Init, Held
<1>2. ~Coming
  BY DEF Init, Coming, Expected, RxIdle
<1>3. LockOK /\ InOrder /\ MessageOK /\ NamesOK /\ AnswersOK
  BY <1>1, ConstAssumption
  DEF Init, LockOK, InOrder, MessageOK, NamesOK, AnswersOK, RxIdle, Idle, NoMsg
<1>4. SetupOK /\ TokensOK /\ PinOK
  BY <1>1, <1>2, TwiceComes DEF Init, SetupOK, TokensOK, PinOK, RxIdle, Idle, NoMsg
<1>5. ResultOK /\ NoStrays /\ AgreeOK /\ OkIsGranted
  BY <1>1 DEF Init, ResultOK, Taken, NoStrays, AgreeOK, OkIsGranted, SetupFinal, Idle
<1> QED
  BY <1>3, <1>4, <1>5 DEF SessionInv, BaseInv, CallInv

\* While no SETUP has had a 100 Continue, every step keeps what holds of the calls.
LEMMA SessionStep ==
  TypeInv /\ LifeInv /\ (SetupFinal => SessionInv) /\ [Next]_vars => (SetupFinal' => SessionInv')
<1>1. [Next]_vars => continued \subseteq continued'
  BY DEF Next, CallerStep, Reactor, Manager, Environment, vars, server, Find, Lock,
     FreeUnconnected, Free, Decline, Create, Connect, ConnectFails, Send, SendBusy,
     SendBroken, Dropped, ArmTimer, Acquire, Expire, GiveUp, SetupReturns, CallReturns,
     Input, HandleSetup, HandlePlay, HandleOptions, HandlePause, HandleTeardown,
     HandleNothing, HandleAnnounce, InputClosed, DataTimeout, TickAbnormal, TickDelete,
     Sweep, Serve, ServeInterim, Announce, Close
<1>2. [Next]_vars /\ SetupFinal' => SetupFinal
  BY <1>1 DEF SetupFinal
<1> QED
  BY <1>2, CallerKeeps, ReactorKeeps, OtherKeeps DEF Next

\* A call that is told OK was granted: the answer that woke it is the server's 200
\* to its own request.
THEOREM GrantedCorrect ==
  Spec => []OkIsGranted
<1>1. (SetupFinal => SessionInv) => OkIsGranted
  BY DEF SessionInv, CallInv, OkIsGranted
<1> QED
  BY TypeInit, TypeStep, LifeInit, LifeStep, SessionInit, SessionStep, <1>1, PTL DEF Spec

\* The message that an answer was matched with is there when it is handled.
THEOREM PinnedCorrect ==
  Spec => []MsgPinned
<1>1. (SetupFinal => SessionInv) => MsgPinned
  BY DEF SessionInv, CallInv, PinOK, MsgPinned, Pinned
<1> QED
  BY TypeInit, TypeStep, LifeInit, LifeStep, SessionInit, SessionStep, <1>1, PTL DEF Spec

\* Tokens of the semaphore are accounted for: what is left over was left by a call
\* that gave up or by a connection that was lost.
THEOREM TokensCorrect ==
  Spec => []TokenBudget
<1>1. ASSUME TypeInv, SetupFinal => SessionInv PROVE TokenBudget
  <2> SUFFICES ASSUME SetupFinal PROVE TokenBudget
    BY DEF TokenBudget
  <2> ObjectOK /\ ThreadsOK /\ LockOK /\ TokensOK
    BY <1>1 DEF TypeInv, SessionInv, BaseInv, CallInv
  <2> DEFINE waiting == {c \in Callers : call[c].at = "wait"}
  <2>1. CASE Held.at = "wait"
    <3>1. waiting = {owner}
      BY <2>1 DEF Held, Idle, LockOK
    <3>2. Cardinality(waiting) = 1
      BY <3>1, FS_Singleton
    <3> HIDE DEF waiting
    <3>3. sem <= late + drops + Cardinality(waiting)
      BY <2>1, <3>2, TwiceComes DEF TokensOK, ObjectOK, ThreadsOK
    <3> QED
      BY <3>3 DEF TokenBudget, waiting
  <2>2. CASE Held.at # "wait"
    <3>1. waiting = {}
      BY <2>2 DEF Held, LockOK
    <3>2. Cardinality(waiting) = 0
      BY <3>1, FS_EmptySet
    <3> HIDE DEF waiting
    <3>3. sem <= late + drops + Cardinality(waiting)
      BY <2>2, <3>2, TwiceComes DEF TokensOK, ObjectOK, ThreadsOK
    <3> QED
      BY <3>3 DEF TokenBudget, waiting
  <2> QED
    BY <2>1, <2>2
<1> QED
  BY TypeInit, TypeStep, LifeInit, LifeStep, SessionInit, SessionStep, <1>1, PTL DEF Spec

\* When nothing is under way on a session whose calls all had their answers, client
\* and server are in the same state.
THEOREM StatusCorrect ==
  Spec => []StatusAgrees
<1>1. ASSUME SetupFinal => SessionInv PROVE StatusAgrees
  <2>2. continued = {} => SetupFinal
    BY DEF SetupFinal
  <2>1. Quiet => Held.at # "wait"
    BY DEF Quiet, Held, Idle
  <2> QED
    BY <1>1, <2>1, <2>2 DEF SessionInv, CallInv, AgreeOK, Unanswered, StatusAgrees, Quiet
<1> QED
  BY TypeInit, TypeStep, LifeInit, LifeStep, SessionInit, SessionStep, <1>1, PTL DEF Spec

-----------------------------------------------------------------------------
(* A freed session stays freed, interim answers included. With them        *)
(* SessionInv does not hold: one answer may wake a call before another     *)
(* comes. But once a call has been told, none is left for its message.     *)

HeldMessage == Held.n > 0 /\ msg # NoMsg => msg.method = Held.op

HeldMode == IF blocked THEN Held.at # "timer" ELSE Held.at \notin InWait

HeldToken == blocked /\ strays = 0 /\ sem > 0 => sem = 1 /\ Held.at = "wait"

\* Nothing that comes in is matched with the pending message any more.
Settled == msg = NoMsg \/ (rx.at # "answer" /\ ~Expected)

\* There is no call that is still to be told of the answer.
Told == Held.n = 0 \/ sem > 0 \/ Held.at = "woken"

SettledOK ==
  blocked /\ strays = 0 /\ Told => Settled \/ (Held.n > 0 /\ msg.method = "SETUP")

WaitInv == HeldMessage /\ HeldMode /\ HeldToken /\ SettledOK

\* A step that tells no call of anything.
LEMMA WaitKept ==
  ASSUME WaitInv, Held' = Held, UNCHANGED <<blocked, sem, strays>>,
         msg' = msg \/ msg' = NoMsg, Settled => Settled'
  PROVE  WaitInv'
BY DEF WaitInv, HeldMessage, HeldMode, HeldToken, Told, SettledOK, NoMsg, Settled

\* A call goes on to a place where it has not been told of its answer.
LEMMA WaitMoves ==
  ASSUME WaitInv, Held.at # "wait" \/ sem = 0, UNCHANGED <<blocked, sem, strays>>,
         ObjectOK, Held'.n > 0, Held'.at # "woken",
         Held'.at = "timer" => ~blocked, Held'.at \in InWait => blocked,
         msg' # NoMsg => msg'.method = Held'.op
  PROVE  WaitInv'
BY DEF WaitInv, HeldMessage, HeldMode, HeldToken, Told, SettledOK, ObjectOK

\* A call returns, and there is no answer to its message left.
LEMMA WaitEnds ==
  ASSUME WaitInv, ObjectOK, Held.at # "wait", Held' = Idle,
         UNCHANGED <<blocked, sem, strays>>, blocked /\ strays = 0 => Settled'
  PROVE  WaitInv'
BY DEF WaitInv, HeldMessage, HeldMode, HeldToken, Told, SettledOK, ObjectOK, Idle, InWait

\* The call under way is told of its answer; of SETUP the message is left.
LEMMA WaitTold ==
  ASSUME WaitInv, ThreadsOK, Requesting, ObjectOK, LockOK, Held' = Held,
         UNCHANGED <<blocked, call>>, Silent \/ (blocked /\ Release),
         msg' = msg \/ msg' = NoMsg,
         Silent /\ Settled => Settled', msg.method = "SETUP" \/ Silent \/ Settled'
  PROVE  WaitInv'
<1>1. CASE Silent
  BY <1>1, WaitKept DEF Silent
<1>2. CASE blocked /\ Release /\ strays' # 0
  BY <1>2 DEF WaitInv, HeldMessage, HeldMode, HeldToken, SettledOK
<1>3. CASE blocked /\ Release /\ strays' = 0
  <2>1. sem = 0 /\ strays = 0 /\ sem' = 1 /\ \E c \in Callers : call[c].at = "wait"
    BY <1>3 DEF Release, ThreadsOK
  <2>2. Held.at = "wait" /\ Held.n > 0
    BY <2>1, Holder, HeldTyped DEF Calls
  <2>3. HeldMessage' /\ HeldMode' /\ HeldToken'
    BY <2>1, <2>2 DEF WaitInv, HeldMessage, HeldMode, HeldToken
  <2>4. Settled' \/ msg'.method = "SETUP"
    BY <1>3, <2>1 DEF Settled, Silent
  <2> QED
    BY <2>2, <2>3, <2>4 DEF WaitInv, SettledOK
<1> QED
  BY <1>1, <1>2, <1>3

LEMMA SettledLost ==
  ASSUME toServer' = <<>>, toClient' = <<>>, rx' = RxIdle
  PROVE  Settled'
BY WireLost DEF Settled, RxIdle

LEMMA CallerWaits ==
  ASSUME TypeInv, LifeInv, LockOK, WaitInv, NEW c \in Callers, CallerStep(c)
  PROVE  LockOK' /\ WaitInv'
<1> ObjectOK /\ WireOK /\ ThreadsOK /\ Requesting /\ LinkedOK
  BY DEF TypeInv, LifeInv
<1> HeldMessage /\ HeldMode /\ HeldToken /\ SettledOK
  BY DEF WaitInv
<1> call[c].op \in Ops /\ call[c].n \in Nat /\ cseq + 1 \in Nat \ {0}
  BY DEF ThreadsOK, Calls, ObjectOK
<1> USE DEF object, timers, life, wire, server, threads, history
<1>s. UNCHANGED <<msg, rx, toServer, toClient>> => Settled' = Settled
  BY DEF Settled, Expected
<1>1. ASSUME NEW m \in Methods \cup {"FREE"}, Find(c, m) PROVE LockOK' /\ WaitInv'
  <2>1. LockOK' /\ Held' = Held
    BY <1>1 DEF Find, Held, LockOK, ThreadsOK, Calls
  <2> QED
    BY <1>1, <1>s, <2>1, WaitKept DEF Find
<1>2. CASE Lock(c)
  <2>1. LockOK' /\ Held = Idle /\ Held'.at = "locked" /\ Held'.n = 0
    BY <1>2, ConstAssumption DEF Lock, Held, LockOK, ThreadsOK, Calls, Idle
  <2>2. UNCHANGED <<blocked, sem, strays, msg, rx, toServer, toClient>>
    BY <1>2 DEF Lock
  <2>3. Settled' = Settled
    BY <1>s, <2>2
  <2>4. HeldMessage' /\ HeldMode' /\ HeldToken'
    BY <2>1, <2>2 DEF HeldMessage, HeldMode, HeldToken, InWait, Idle
  <2>5. SettledOK'
    BY <2>1, <2>2, <2>3 DEF SettledOK, Told, Idle
  <2> QED
    BY <2>1, <2>4, <2>5 DEF WaitInv
<1>3. CASE FreeUnconnected(c)
  <2>1. LockOK' /\ Held' = Held
    BY <1>3 DEF FreeUnconnected, Held, LockOK, ThreadsOK, Calls, Idle
  <2> QED
    BY <1>3, <1>s, <2>1, WaitKept DEF FreeUnconnected
<1>4. CASE Free(c) \/ Decline(c)
  <2>1. Held = call[c] /\ Held.at = "locked" /\ Held.n = 0
    BY <1>4, Holder DEF Free, Decline, LockOK
  <2>2. LockOK' /\ Held' = Idle
    BY <1>4, HeldEnds DEF Free, Decline, Finish
  <2>3. UNCHANGED <<blocked, sem, strays, msg, rx, toServer, toClient>>
    BY <1>4 DEF Free, Decline
  <2>4. blocked /\ strays = 0 => Settled'
    BY <1>s, <2>1, <2>3 DEF SettledOK, Told
  <2> QED
    BY <2>1, <2>2, <2>3, <2>4, WaitEnds
<1>6. CASE Create(c) \/ Connect(c)
  <2>1. Held = call[c] /\ Held.at = "locked"
    BY <1>6, Holder DEF Create, Connect, MayConnect
  <2>2. LockOK' /\ Held'.at = "send" /\ Held'.op = Held.op /\ Held'.n = cseq + 1
    BY <1>6, HeldStarts DEF Create, Connect, MayConnect
  <2>3. UNCHANGED <<blocked, sem, strays>> /\ msg'.method = Held.op
    BY <1>6, <2>1 DEF Create, Connect, MayConnect, NewMessage
  <2> QED
    BY <2>1, <2>2, <2>3, WaitMoves DEF InWait, ObjectOK
<1>8. CASE ConnectFails(c)
  <2>1. Held.at = "locked"
    BY <1>8, Holder DEF ConnectFails, MayConnect
  <2>2. LockOK' /\ Held' = Idle
    BY <1>8, HeldEnds DEF ConnectFails, MayConnect
  <2>3. Settled'
    BY <1>8, SettledLost DEF ConnectFails, MayConnect, Disconnect, LinkedOK
  <2> QED
    BY <1>8, <2>1, <2>2, <2>3, WaitEnds DEF ConnectFails
<1>9. CASE Send(c)
  <2>1. Held = call[c] /\ Held.at = "send"
    BY <1>9, Holder DEF Send
  <2> DEFINE place == IF blocked THEN "wait" ELSE "timer"
  <2>2. LockOK' /\ Held'.at = place /\ Held'.op = Held.op /\ Held'.n = Held.n
    <3>1. place \in Places \ {"idle", "found", "locked"}
      BY DEF Places
    <3>2. call' = [call EXCEPT ![c].at = place] /\ UNCHANGED owner
      BY <1>9 DEF Send, Goto
    <3> HIDE DEF place
    <3> QED
      BY <2>1, <3>1, <3>2, HeldMoves
  <2>3. Held.n > 0
    BY <2>1, HeldTyped DEF Calls
  <2>4. UNCHANGED <<blocked, sem, strays, msg>>
    BY <1>9 DEF Send
  <2> QED
    BY <2>1, <2>2, <2>3, <2>4, WaitMoves DEF HeldMessage, InWait
<1>10. CASE SendBusy(c)
  <2>1. Held.at = "send"
    BY <1>10, Holder DEF SendBusy
  <2>2. LockOK' /\ Held' = Idle
    BY <1>10, HeldEnds DEF SendBusy, Finish
  <2> QED
    BY <1>10, <2>1, <2>2, WaitEnds DEF SendBusy, Settled
<1>11. CASE SendBroken(c)
  <2>1. Held = call[c] /\ Held.at = "send" /\ Held.n > 0
    BY <1>11, Holder, HeldTyped DEF SendBroken, Calls
  <2>2. LockOK' /\ Held'.at = "dropping" /\ Held'.op = Held.op /\ Held'.n = Held.n
    BY <1>11, <2>1, HeldMoves DEF SendBroken, Goto, Places
  <2>3. UNCHANGED <<blocked, sem, strays, msg>>
    BY <1>11 DEF SendBroken
  <2> QED
    BY <2>1, <2>2, <2>3, WaitMoves DEF HeldMessage, InWait
<1>12. CASE Dropped(c)
  <2>1. Held.at = "dropping"
    BY <1>12, Holder DEF Dropped
  <2>2. LockOK' /\ Held' = Idle
    BY <1>12, HeldEnds DEF Dropped, Finish
  <2>3. Settled'
    BY <1>12, SettledLost DEF Dropped, Disconnect, TokenFree, LinkedOK
  <2> QED
    BY <1>12, <2>1, <2>2, <2>3, WaitEnds DEF Dropped
<1>13. CASE ArmTimer(c)
  <2>1. Held.at = "timer" /\ ~blocked
    BY <1>13, Holder DEF ArmTimer, HeldMode
  <2>2. LockOK' /\ Held' = Idle
    BY <1>13, HeldEnds DEF ArmTimer, Finish
  <2> QED
    BY <1>13, <2>1, <2>2, WaitEnds DEF ArmTimer
<1>14. CASE Acquire(c)
  <2>1. Held = call[c] /\ Held.at = "wait" /\ sem > 0 /\ blocked /\ Held.n > 0
    BY <1>14, Holder, HeldTyped DEF Acquire, HeldMode, InWait, Calls
  <2>2. LockOK' /\ Held'.at = "woken" /\ Held'.op = Held.op /\ Held'.n = Held.n
    BY <1>14, <2>1, HeldMoves DEF Acquire, Goto, Places
  <2>3. UNCHANGED <<blocked, strays, msg, rx, toServer, toClient>> /\ sem' = sem - 1
    BY <1>14 DEF Acquire
  <2>4. HeldMessage' /\ HeldMode' /\ HeldToken'
    BY <2>1, <2>2, <2>3 DEF HeldMessage, HeldMode, HeldToken, ObjectOK
  <2>5. SettledOK'
    BY <1>s, <2>1, <2>2, <2>3 DEF SettledOK, Told
  <2> QED
    BY <2>2, <2>4, <2>5 DEF WaitInv
<1>15. CASE Expire(c)
  <2>1. Held = call[c] /\ Held.at = "wait" /\ sem = 0 /\ blocked /\ Held.n > 0
    BY <1>15, Holder, HeldTyped DEF Expire, HeldMode, InWait, Calls
  <2>2. LockOK' /\ Held'.at = "late" /\ Held'.op = Held.op /\ Held'.n = Held.n
    BY <1>15, <2>1, HeldMoves DEF Expire, Goto, Places
  <2>3. UNCHANGED <<blocked, sem, strays, msg>>
    BY <1>15 DEF Expire
  <2> QED
    BY <2>1, <2>2, <2>3, WaitMoves DEF HeldMessage
<1>16. CASE GiveUp(c) \/ SetupReturns(c)
  <2>1. Held.at \in {"late", "woken"}
    BY <1>16, Holder DEF GiveUp, SetupReturns
  <2>2. LockOK' /\ Held' = Idle
    BY <1>16, HeldEnds DEF GiveUp, SetupReturns, Finish
  <2> QED
    BY <1>16, <2>1, <2>2, WaitEnds DEF GiveUp, SetupReturns, Settled
<1>17. CASE CallReturns(c)
  <2>1. Held.at = "woken" /\ Held.op # "SETUP" /\ Held.n > 0
    BY <1>17, Holder, HeldTyped DEF CallReturns, Calls
  <2>2. LockOK' /\ Held' = Idle
    BY <1>17, HeldEnds DEF CallReturns, Finish
  <2>3. blocked /\ strays = 0 => Settled
    BY <2>1 DEF SettledOK, Told, HeldMessage, Settled
  <2> QED
    BY <1>17, <1>s, <2>1, <2>2, <2>3, WaitEnds DEF CallReturns
<1> QED
  BY <1>1, <1>2, <1>3, <1>4, <1>6, <1>8, <1>9, <1>10, <1>11, <1>12, <1>13, <1>14, <1>15,
     <1>16, <1>17 DEF CallerStep

LEMMA ReactorWaits ==
  ASSUME TypeInv, LifeInv, LockOK, WaitInv, Reactor
  PROVE  LockOK' /\ WaitInv'
<1> ObjectOK /\ WireOK /\ ThreadsOK /\ Requesting /\ LinkedOK
  BY DEF TypeInv, LifeInv
<1> USE DEF object, timers, life, wire, server, threads, history
<1>k. UNCHANGED <<call, owner, last>>
  BY DEF Reactor, Input, HandleSetup, HandlePlay, HandleOptions, HandlePause,
     HandleTeardown, HandleNothing, HandleAnnounce, InputClosed, DataTimeout
<1>h. LockOK' /\ Held' = Held
  BY <1>k, HeldKept
<1>e. UNCHANGED <<toServer, toClient, msg>> => Expected' = Expected
  BY DEF Expected
<1>1. CASE Input
  <2> DEFINE m == Head(toClient)
  <2>1. m = toClient[1] /\ 1 \in 1..Len(toClient) /\ m \in Inputs
    BY <1>1 DEF Input, WireOK
  <2>2. \A i \in 1..Len(toClient') :
          toClient'[i] = toClient[i + 1] /\ i + 1 \in 1..Len(toClient)
    BY <1>1 DEF Input, WireOK
  <2>3. Expected' => Expected
    BY <1>1, <2>2 DEF Input, Expected
  <2>4. rx'.at = "answer" => Expected
    <3>1. rx' = IF m.at = "announce" THEN m
                ELSE IF msg # NoMsg /\ m.n = msg.n THEN m ELSE RxIdle
      BY <1>1 DEF Input
    <3> HIDE DEF m
    <3> QED
      BY <2>1, <3>1 DEF Expected, RxIdle
  <2>5. UNCHANGED <<blocked, sem, strays, msg>>
    BY <1>1 DEF Input
  <2>6. Settled => Settled'
    BY <2>3, <2>4, <2>5 DEF Settled
  <2> QED
    BY <1>h, <2>5, <2>6, WaitKept
<1>2. CASE HandleSetup
  <2>1. msg.method = "SETUP" /\ UNCHANGED <<blocked, toServer, toClient>> /\ rx' = RxIdle
    BY <1>2 DEF HandleSetup, Answering, Answered
  <2>2. (msg' = msg \/ msg' = NoMsg) /\ (Silent \/ (blocked /\ Release))
    BY <1>2 DEF HandleSetup, Notify
  <2>3. Settled => Settled'
    BY <1>e, <2>1, <2>2 DEF Settled, RxIdle
  <2> QED
    BY <1>h, <1>k, <2>1, <2>2, <2>3, WaitTold
<1>3. CASE HandlePlay \/ HandleOptions \/ HandlePause
  <2>1. UNCHANGED blocked /\ msg' = NoMsg
    BY <1>3 DEF HandlePlay, HandleOptions, HandlePause
  <2>2. Silent \/ (blocked /\ Release)
    BY <1>3 DEF HandlePlay, HandleOptions, HandlePause, Notify
  <2>3. Settled'
    BY <2>1 DEF Settled
  <2> QED
    BY <1>h, <1>k, <2>1, <2>2, <2>3, WaitTold
<1>6. CASE HandleTeardown
  <2>1. UNCHANGED <<blocked, msg>> /\ rx' = RxIdle
    BY <1>6 DEF HandleTeardown
  <2>2. CASE Silent /\ UNCHANGED wire
    <3>1. Settled => Settled'
      BY <1>e, <2>1, <2>2 DEF Settled, RxIdle
    <3> QED
      BY <1>h, <1>k, <2>1, <2>2, <3>1, WaitTold
  <2>3. CASE Disconnect /\ (Silent \/ (blocked /\ Release))
    <3>1. Settled'
      BY <2>1, <2>3, SettledLost DEF Disconnect
    <3> QED
      BY <1>h, <1>k, <2>1, <2>3, <3>1, WaitTold
  <2> QED
    BY <1>6, <2>2, <2>3 DEF HandleTeardown, Notify
<1>7. CASE HandleNothing \/ DataTimeout
  <2>1. UNCHANGED <<blocked, msg, sem, strays, toServer, toClient>>
    BY <1>7 DEF HandleNothing, DataTimeout
  <2>2. UNCHANGED rx \/ rx' = RxIdle
    BY <1>7 DEF HandleNothing, DataTimeout
  <2>3. Settled => Settled'
    BY <1>e, <2>1, <2>2 DEF Settled, RxIdle
  <2> QED
    BY <1>h, <2>1, <2>3, WaitKept
<1>8. CASE HandleAnnounce
  <2>1. UNCHANGED <<blocked, sem, strays>> /\ (msg' = msg \/ msg' = NoMsg) /\ rx' = RxIdle
    BY <1>8 DEF HandleAnnounce
  <2>2. UNCHANGED <<toServer, toClient>> \/ (toServer' = <<>> /\ toClient' = <<>>)
    BY <1>8 DEF HandleAnnounce, Disconnect
  <2>3. Settled => Settled'
    BY <1>e, <2>1, <2>2, SettledLost DEF Settled, RxIdle
  <2> QED
    BY <1>h, <2>1, <2>3, WaitKept
<1>9. CASE InputClosed
  <2>1. UNCHANGED <<blocked, msg>> /\ (Silent \/ (blocked /\ Release))
    BY <1>9 DEF InputClosed, Notify
  <2>2. Settled'
    BY <1>9, SettledLost DEF InputClosed, Disconnect
  <2> QED
    BY <1>h, <1>k, <2>1, <2>2, WaitTold
<1> QED
  BY <1>1, <1>2, <1>3, <1>6, <1>7, <1>8, <1>9 DEF Reactor

\* An answer to a request that is on its way to the server, which may keep it.
LEMMA Answers ==
  ASSUME WireOK, toServer # <<>>, UNCHANGED msg, toServer' \in {toServer, Tail(toServer)},
         NEW code, toClient' = Append(toClient, Answer(Head(toServer).n, code))
  PROVE  Expected' => Expected
<1> DEFINE a == Answer(Head(toServer).n, code)
<1>1. 1 \in 1..Len(toServer) /\ a.n = toServer[1].n
  BY DEF WireOK, Answer
<1>2. \A i \in 1..Len(toServer') : \E j \in 1..Len(toServer) : toServer'[i] = toServer[j]
  <2>1. toServer' = Tail(toServer) =>
          \A i \in 1..Len(toServer') : toServer'[i] = toServer[i + 1] /\ i + 1 \in 1..Len(toServer)
    BY DEF WireOK
  <2> QED
    BY <2>1
<1> HIDE DEF a
<1>3. \A i \in 1..Len(toClient') :
        toClient'[i] = a \/ (i \in 1..Len(toClient) /\ toClient'[i] = toClient[i])
  BY DEF WireOK, a
<1> QED
  BY <1>1, <1>2, <1>3 DEF Expected

LEMMA OtherWaits ==
  ASSUME TypeInv, LifeInv, LockOK, WaitInv, Manager \/ Environment \/ UNCHANGED vars
  PROVE  LockOK' /\ WaitInv'
<1> ObjectOK /\ WireOK /\ ThreadsOK /\ LinkedOK
  BY DEF TypeInv, LifeInv
<1> USE DEF object, timers, life, wire, server, threads, history
<1>k. /\ UNCHANGED <<call, owner>>
      /\ UNCHANGED <<blocked, sem, strays, msg, rx>>
  BY DEF Manager, Environment, TickAbnormal, TickDelete, Sweep, Serve, ServeInterim,
     Announce, Close, vars
<1>h. LockOK' /\ Held' = Held
  BY <1>k, HeldKept
<1>1. CASE TickAbnormal
  <2>1. rx' = RxIdle
    BY <1>k, <1>1 DEF TickAbnormal, TokenFree, LinkedOK
  <2>2. Settled'
    BY <1>1, <2>1, SettledLost DEF TickAbnormal, Disconnect
  <2> QED
    BY <1>h, <1>k, <2>2, WaitKept
<1>2. CASE ~TickAbnormal
  <2>1. Expected' => Expected
    <3>1. CASE UNCHANGED <<toServer, toClient>>
      BY <1>k, <3>1 DEF Expected
    <3>2. CASE Serve
      <4>1. PICK code : toClient' = Append(toClient, Answer(Head(toServer).n, code))
        BY <3>2 DEF Serve
      <4>2. toServer # <<>> /\ toServer' = Tail(toServer)
        BY <3>2 DEF Serve
      <4> QED
        BY <1>k, <4>1, <4>2, Answers
    <3>3. CASE ServeInterim
      BY <1>k, <3>3, Answers DEF ServeInterim
    <3>4. CASE Announce
      <4>1. \A i \in 1..Len(toClient') :
              toClient'[i].at = "answer" => i \in 1..Len(toClient) /\ toClient'[i] = toClient[i]
        BY <3>4 DEF Announce, WireOK
      <4> QED
        BY <1>k, <3>4, <4>1 DEF Announce, Expected
    <3>5. CASE Close
      <4>1. toServer' = <<>> /\ \A i \in 1..Len(toClient') :
              i \in 1..Len(toClient) /\ toClient'[i] = toClient[i]
        BY <3>5 DEF Close, WireOK
      <4> QED
        BY <1>k, <4>1 DEF Expected
    <3> QED
      BY <1>2, <3>1, <3>2, <3>3, <3>4, <3>5
      DEF Manager, Environment, TickDelete, Sweep, vars
  <2> QED
    BY <1>h, <1>k, <2>1, WaitKept DEF Settled
<1> QED
  BY <1>1, <1>2

LEMMA WaitInit == Init => LockOK /\ WaitInv
<1> SUFFICES ASSUME Init PROVE LockOK /\ WaitInv
  OBVIOUS
<1>1. Held = Idle
  BY DEF Init, Held
<1> QED
  BY <1>1, ConstAssumption
  DEF Init, LockOK, WaitInv, HeldMessage, HeldMode, HeldToken, Settled, SettledOK, Idle, InWait

\* A handle that was freed is not revived by a late answer, whatever the server
\* answers.
THEOREM FreedCorrect == Spec => FreedForGood
<1> DEFINE Final == blocked /\ strays = 0 =>
             /\ status = "ABNORMAL" => status' \in {"ABNORMAL", "DELETE"}
             /\ status = "DELETE" => status' = "DELETE"
<1>1. TypeInv /\ LifeInv /\ LockOK /\ WaitInv /\ [Next]_vars => LockOK' /\ WaitInv'
  BY CallerWaits, ReactorWaits, OtherWaits DEF Next
<1>2. ASSUME TypeInv, LifeInv, LockOK, WaitInv, [Next]_vars PROVE Final
  <2> SUFFICES ASSUME blocked, strays = 0, status \in {"ABNORMAL", "DELETE"},
                      status' # status
               PROVE  status = "ABNORMAL" /\ status' = "DELETE"
    OBVIOUS
  <2>1. \A c \in Callers : call[c].at = "idle"
    BY <1>2, InCall
  <2>2. Held.n = 0
    BY <1>2, <2>1 DEF Held, Idle, LockOK
  <2>3. Settled
    BY <1>2, <2>2 DEF WaitInv, SettledOK, Told
  <2>4. rx.at # "answer" \/ msg = NoMsg
    BY <2>3 DEF Settled
  <2>5. ASSUME NEW c \in Callers, CallerStep(c) PROVE FALSE
    BY <2>1, <2>5 DEF CallerStep, object, Find, Lock, FreeUnconnected, Free, Decline, Create,
       Connect, MayConnect, ConnectFails, Send, SendBusy, SendBroken, Dropped, ArmTimer,
       Acquire, Expire, GiveUp, SetupReturns, CallReturns
  <2>6. CASE Reactor
    <3>1. ~HandleSetup /\ ~HandlePlay /\ ~HandlePause
      <4>1. ~Answering("SETUP") /\ ~Answering("PLAY") /\ ~Answering("PAUSE")
        BY <2>4 DEF Answering, NoMsg
      <4> QED
        BY <4>1 DEF HandleSetup, HandlePlay, HandlePause
    <3> QED
      BY <2>6, <3>1 DEF Reactor, object, Input, HandleOptions, HandleTeardown, HandleNothing,
         HandleAnnounce, InputClosed, DataTimeout
  <2>7. CASE Manager \/ Environment \/ UNCHANGED vars
    BY <2>7 DEF Manager, Environment, object, TickAbnormal, TickDelete, Sweep, Serve,
       ServeInterim, Announce, Close, vars
  <2> QED
    BY <1>2, <2>5, <2>6, <2>7 DEF Next
<1> QED
  BY TypeInit, TypeStep, LifeInit, LifeStep, WaitInit, <1>1, <1>2, PTL DEF Spec, FreedForGood
=============================================================================
