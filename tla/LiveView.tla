------------------------------ MODULE LiveView ------------------------------
(***************************************************************************)
(* Live views of one session (IVS_SDK): CRealPlayMgr, CRealPlay, the queue *)
(* of events and the list of views to resume.  Their threads:              *)
(*   - clients start and stop views;                                       *)
(*   - the threads of the media libraries report that a stream has ended;  *)
(*   - the event thread stops the broken stream and lists its view;        *)
(*   - the resume thread (a timer) starts the streams of the list again;   *)
(*   - a logout stops all views and then the timer.                        *)
(* A view is an object, and its handle is the object's address.  An object *)
(* that a window start has made counts its references: the map holds one,  *)
(* an event that is being handled one, and an entry of the list one.  A    *)
(* callback start takes an object that looks free, and counts nothing.     *)
(*                                                                         *)
(* An access to a deleted object is undefined; the thread that makes it    *)
(* goes no further here.  An address is used again by a new object, unless *)
(* a stream is left that delivers to it.                                   *)
(***************************************************************************)
EXTENDS Integers, Sequences, FiniteSets, SequencesExt

CONSTANTS
  Plays,     \* addresses of CRealPlay objects
  Users,     \* client threads
  None,      \* NULL
  MaxQueue,  \* capacity of the event queue, MAX_EVENT_QUEUE_LEN
  MaxBreaks  \* bound: exceptions the media libraries report

ASSUME LiveAssumption ==
  None \notin Plays /\ MaxQueue \in Nat \ {0} /\ MaxBreaks \in Nat

VARIABLES
  obj,     \* the objects that exist
  map,     \* m_HanleRealPlayMap
  view,    \* what the objects hold: ref, m_RefCounter; busy, m_iStatus is
           \* MEDIA_STATUS_BUSY; status, m_nStatus; info, m_CameraPlayInfo: "none",
           \* "window", or "callback", which lacks the object
  stream,  \* the RTSP session and the channel that deliver to the address
  queue,   \* m_eventQueue
  list,    \* m_CamerPlayInfoList
  ev,      \* the event thread
  rs,      \* the resume thread
  usr,     \* the clients
  out,     \* the logout
  breaks,  \* exceptions so far
  sole,    \* history: objects a window start has made and nobody else has
  blind    \* history: views the event thread has stopped and will not see resumed:
           \* their stream ended as it should, or their parameters were not saved

playVars == <<obj, map, view, stream>>
threadVars == <<ev, rs, usr, out>>
vars == <<playVars, queue, list, threadVars, breaks, sole, blind>>

Blank == [ref |-> 0, busy |-> FALSE, status |-> "ready", info |-> "none"]
Entry(kind, p) == [h |-> IF kind = "none" THEN None ELSE p,
                   obj |-> IF kind = "window" THEN p ELSE None]
Idle == [at |-> "idle", p |-> None, code |-> "end", entry |-> Entry("none", None)]
Client == [at |-> "idle", p |-> None, cb |-> FALSE]

Init ==
  /\ obj = {} /\ map = {} /\ view = [p \in Plays |-> Blank]
  /\ stream = [p \in Plays |-> "off"]
  /\ queue = <<>> /\ list = <<>> /\ ev = Idle
  /\ rs = [at |-> "idle", p |-> None, failed |-> <<>>]
  /\ usr = [u \in Users |-> Client] /\ out = "in" /\ breaks = 0
  /\ sole = {} /\ blind = {}

\* m_pMediaMutex of an object is free.
Unlocked(p) ==
  /\ \A u \in Users : usr[u].at = "connect" => usr[u].p # p
  /\ rs.at = "connect" => rs.p # p

\* What a deleted object held is of no interest.
Delete(p) == obj' = obj \ {p} /\ view' = [view EXCEPT ![p] = Blank]

\* PutRef; the last reference deletes the object.
PutRef(p) ==
  /\ p \in obj
  /\ IF view[p].ref = 1 THEN Delete(p)
     ELSE view' = [view EXCEPT ![p].ref = @ - 1] /\ UNCHANGED obj

\* RemoveStopPlayHandle: the first entry of the handle goes.
Without(l, h) ==
  LET at == SelectInSeq(l, LAMBDA e : e.h = h)
  IN IF at = 0 THEN l ELSE RemoveAt(l, at)

-----------------------------------------------------------------------------
(* Clients.                                                                *)

At(u, at) == usr[u].at = at
Go(u, at) == usr' = [usr EXCEPT ![u].at = at]
Leave(u) == usr' = [usr EXCEPT ![u] = Client]
Fresh == {p \in Plays \ obj : stream[p] = "off"}

New(u, p, refs, cb) ==
  /\ obj' = obj \cup {p} /\ map' = map \cup {p}
  /\ view' = [view EXCEPT ![p] = [Blank EXCEPT !.ref = refs, !.busy = cb]]
  /\ usr' = [usr EXCEPT ![u] = [at |-> "lock", p |-> p, cb |-> cb]]
  /\ blind' = blind \ {p}
  /\ UNCHANGED <<stream, queue, list, ev, rs, out, breaks>>

\* Somebody still refers to the object that was at the address.
ReferredTo(p) ==
  \/ p \in map \/ ev.p = p \/ rs.p = p
  \/ \E u \in Users : usr[u].p = p
  \/ \E i \in DOMAIN list : list[i].obj = p
  \/ \E i \in DOMAIN rs.failed : rs.failed[i] = p

\* GetFreeRealPlayEx.
StartWindow(u) ==
  /\ At(u, "idle") /\ out = "in"
  /\ \E p \in Fresh :
       /\ New(u, p, 1, FALSE)
       /\ sole' = IF ReferredTo(p) THEN sole \ {p} ELSE sole \cup {p}

\* GetFreeRealPlay: a view that a window start has made is never marked busy.
LooksFree == {p \in map : ~view[p].busy}
StartCallback(u) ==
  /\ At(u, "idle") /\ out = "in"
  /\ IF LooksFree # {}
     THEN \E p \in LooksFree \cap obj :
            /\ view' = [view EXCEPT ![p].busy = TRUE] /\ sole' = sole \ {p}
            /\ usr' = [usr EXCEPT ![u] = [at |-> "lock", p |-> p, cb |-> TRUE]]
            /\ UNCHANGED <<obj, map, stream, queue, list, ev, rs, out, breaks, blind>>
     ELSE \E p \in Fresh : New(u, p, 0, TRUE) /\ sole' = sole \ {p}

\* StartRealPlay asks for the URL and sets the stream up, under the mutex.
Connect(u) ==
  LET p == usr[u].p IN
  /\ At(u, "lock") /\ p \in obj /\ Unlocked(p)
  /\ stream' = [stream EXCEPT ![p] = "on"] /\ Go(u, "connect")
  /\ UNCHANGED <<obj, map, view, queue, list, ev, rs, out, breaks, sole, blind>>

Connected(u) ==
  LET p == usr[u].p IN
  /\ At(u, "connect") /\ p \in obj
  /\ view' = [view EXCEPT ![p].status = "playing",
                          ![p].info = IF usr[u].cb THEN "callback" ELSE "window"]
  /\ Go(u, "view")
  /\ UNCHANGED <<obj, map, stream, queue, list, ev, rs, out, breaks, sole, blind>>

\* A callback start frees its object at once, whoever refers to it.
Failed(u) == IF usr[u].cb THEN "free" ELSE "erase"

ConnectFails(u) ==
  LET p == usr[u].p IN
  /\ At(u, "connect") /\ p \in obj
  /\ stream' = [stream EXCEPT ![p] = "off"] /\ Go(u, Failed(u))
  /\ UNCHANGED <<obj, map, view, queue, list, ev, rs, out, breaks, sole, blind>>

\* IVS_PLAY_SetPlayWindow fails: the stream plays, and nobody stops it.
WindowFails(u) ==
  LET p == usr[u].p IN
  /\ At(u, "connect") /\ p \in obj
  /\ view' = [view EXCEPT ![p].status = "playing"] /\ Go(u, Failed(u))
  /\ UNCHANGED <<obj, map, stream, queue, list, ev, rs, out, breaks, sole, blind>>

FreeRealPlay(u) ==
  LET p == usr[u].p IN
  /\ At(u, "free") /\ (p \in map => p \in obj)
  /\ IF p \in map THEN Delete(p) ELSE UNCHANGED <<obj, view>>
  /\ map' = map \ {p} /\ Leave(u)
  /\ UNCHANGED <<stream, queue, list, ev, rs, out, breaks, sole, blind>>

\* StopRealPlay of the manager, and of the view it finds.
StopBegins(u) ==
  /\ At(u, "view") /\ out = "in"
  /\ list' = Without(list, usr[u].p) /\ Go(u, "stop")
  /\ UNCHANGED <<playVars, queue, ev, rs, out, breaks, sole, blind>>

NotFound(u) ==
  /\ At(u, "stop") /\ usr[u].p \notin map /\ Leave(u)
  /\ UNCHANGED <<playVars, queue, list, ev, rs, out, breaks, sole, blind>>

StopRealPlay(u) ==
  LET p == usr[u].p IN
  /\ At(u, "stop") /\ p \in map \cap obj /\ Unlocked(p)
  /\ stream' = [stream EXCEPT ![p] = "off"]
  /\ view' = [view EXCEPT ![p].info = "none", ![p].busy = FALSE, ![p].status = "finished"]
  /\ Go(u, "erase")
  /\ UNCHANGED <<obj, map, queue, list, ev, rs, out, breaks, sole, blind>>

\* FreeRealPlayEx: the handle leaves the map, then its reference is put back.
Erase(u) ==
  LET p == usr[u].p IN
  /\ At(u, "erase")
  /\ map' = map \ {p}
  /\ IF p \in map THEN Go(u, "put") ELSE Leave(u)
  /\ UNCHANGED <<obj, view, stream, queue, list, ev, rs, out, breaks, sole, blind>>

\* (bug) Deletes the view whoever refers to it, as FreeRealPlay does.
PutDeletes(u) ==
  /\ At(u, "put") /\ Delete(usr[u].p) /\ Leave(u)
  /\ UNCHANGED <<map, stream, queue, list, ev, rs, out, breaks, sole, blind>>

Put(u) ==
  /\ At(u, "put") /\ PutRef(usr[u].p) /\ Leave(u)
  /\ UNCHANGED <<map, stream, queue, list, ev, rs, out, breaks, sole, blind>>

-----------------------------------------------------------------------------
(* The media libraries, and the queue of events.                           *)

\* A full queue drops its oldest event.
Post(e) == queue' = Append(IF Len(queue) >= MaxQueue THEN Tail(queue) ELSE queue, e)

\* RtspExceptionCallBack, NetSourceExceptionCallBack: a stream that delivers
\* to a view of the map has ended, as it should ("end") or not ("resume").
StreamEnds(p, code) ==
  /\ out = "in" /\ p \in map /\ stream[p] # "off" /\ breaks < MaxBreaks
  /\ stream' = [stream EXCEPT ![p] = "broken"] /\ breaks' = breaks + 1
  /\ Post([p |-> p, code |-> code])
  /\ UNCHANGED <<obj, map, view, list, threadVars, sole, blind>>

-----------------------------------------------------------------------------
(* The event thread: HandleStreamMsg.                                      *)

EvAt(at) == ev.at = at
EvGo(at) == ev' = [ev EXCEPT !.at = at]

\* Nobody knows the session any more, or the handle.
EventIgnored ==
  /\ EvAt("idle") /\ queue # <<>>
  /\ out # "in" \/ Head(queue).p \notin map
  /\ queue' = Tail(queue)
  /\ UNCHANGED <<playVars, list, threadVars, breaks, sole, blind>>

\* (bug) Takes the view from the map without a reference, as GetMediaBase does.
GetRealPlayOnly ==
  /\ EvAt("idle") /\ queue # <<>> /\ out = "in"
  /\ Head(queue).p \in map \cap obj
  /\ ev' = [Idle EXCEPT !.at = "copy", !.p = Head(queue).p, !.code = Head(queue).code]
  /\ queue' = Tail(queue)
  /\ UNCHANGED <<playVars, list, rs, usr, out, breaks, sole, blind>>

\* GetRealPlayEx takes a reference.
GetRealPlayEx ==
  /\ EvAt("idle") /\ queue # <<>> /\ out = "in"
  /\ LET e == Head(queue) IN
       /\ e.p \in map \cap obj
       /\ view' = [view EXCEPT ![e.p].ref = @ + 1]
       /\ ev' = [Idle EXCEPT !.at = "copy", !.p = e.p, !.code = e.code]
  /\ queue' = Tail(queue)
  /\ UNCHANGED <<obj, map, stream, list, rs, usr, out, breaks, sole, blind>>

\* GetCameraPlayInfo does not take the mutex of the view.
CopyInfo ==
  /\ EvAt("copy") /\ ev.p \in obj
  /\ ev' = [ev EXCEPT !.at = "stop", !.entry = Entry(view[ev.p].info, ev.p)]
  /\ UNCHANGED <<playVars, queue, list, rs, usr, out, breaks, sole, blind>>

AfterStop == IF ev.code = "resume" THEN "remove" ELSE "release"

\* StopStream does nothing to a view that has been stopped.
StopStream ==
  /\ EvAt("stop") /\ ev.p \in obj /\ Unlocked(ev.p)
  /\ IF view[ev.p].status = "finished" THEN UNCHANGED <<stream, view>>
     ELSE /\ stream' = [stream EXCEPT ![ev.p] = "off"]
          /\ view' = [view EXCEPT ![ev.p].status = "stopped"]
  /\ EvGo(AfterStop)
  /\ blind' = IF ev.code = "end" THEN blind \cup {ev.p} ELSE blind
  /\ UNCHANGED <<obj, map, queue, list, rs, usr, out, breaks, sole>>

\* AddCameraPlayInfo2List: an older entry goes, then the new one comes.
RemoveEntry ==
  /\ EvAt("remove") /\ list' = Without(list, ev.entry.h) /\ EvGo("add")
  /\ UNCHANGED <<playVars, queue, rs, usr, out, breaks, sole, blind>>

AddEntry ==
  /\ EvAt("add") /\ list' = Append(list, ev.entry) /\ EvGo("ref")
  /\ blind' = IF ev.entry.obj = None THEN blind \cup {ev.p} ELSE blind
  /\ UNCHANGED <<playVars, queue, rs, usr, out, breaks, sole>>

\* The reference of the entry, which is in the list already.
RefEntry ==
  /\ EvAt("ref") /\ ev.p \in obj
  /\ view' = [view EXCEPT ![ev.p].ref = @ + 1] /\ EvGo("release")
  /\ UNCHANGED <<obj, map, stream, queue, list, rs, usr, out, breaks, sole, blind>>

ReleaseEvent ==
  /\ EvAt("release") /\ PutRef(ev.p) /\ ev' = Idle
  /\ UNCHANGED <<map, stream, queue, list, rs, usr, out, breaks, sole, blind>>

-----------------------------------------------------------------------------
(* The resume thread: onTrigger of CAutoResume.                            *)

RsAt(at) == rs.at = at
RsGo(at) == rs' = [rs EXCEPT !.at = at]

Trigger ==
  /\ RsAt("idle") /\ out # "done" /\ list # <<>> /\ RsGo("take")
  /\ UNCHANGED <<playVars, queue, list, ev, usr, out, breaks, sole, blind>>

\* An entry without its object is dropped.
TakeEntry ==
  /\ RsAt("take") /\ list # <<>> /\ list' = Tail(list)
  /\ IF Head(list).obj = None THEN UNCHANGED rs
     ELSE rs' = [rs EXCEPT !.at = "try", !.p = Head(list).obj]
  /\ UNCHANGED <<playVars, queue, ev, usr, out, breaks, sole, blind>>

AllTaken ==
  /\ RsAt("take") /\ list = <<>> /\ RsGo("back")
  /\ UNCHANGED <<playVars, queue, list, ev, usr, out, breaks, sole, blind>>

\* (bug) What was not resumed is forgotten.
NotBackToList ==
  /\ RsAt("back") /\ rs' = [at |-> "idle", p |-> None, failed |-> <<>>]
  /\ UNCHANGED <<playVars, queue, list, ev, usr, out, breaks, sole, blind>>

BackToList ==
  /\ RsAt("back") /\ list' = list \o [i \in DOMAIN rs.failed |-> Entry("window", rs.failed[i])]
  /\ rs' = [at |-> "idle", p |-> None, failed |-> <<>>]
  /\ UNCHANGED <<playVars, queue, ev, usr, out, breaks, sole, blind>>

\* (bug) A view that has been stopped is started again.
StillRestartable(p) == view[p].status # "playing"

\* ReStartRealPlay leaves a view alone that plays, or that has been stopped.
Restartable(p) == view[p].status \notin {"finished", "playing"}

RestartRefused ==
  /\ RsAt("try") /\ rs.p \in obj /\ Unlocked(rs.p) /\ ~Restartable(rs.p)
  /\ RsGo("release")
  /\ UNCHANGED <<playVars, queue, list, ev, usr, out, breaks, sole, blind>>

ReStartRealPlay ==
  /\ RsAt("try") /\ rs.p \in obj /\ Unlocked(rs.p) /\ Restartable(rs.p)
  /\ stream' = [stream EXCEPT ![rs.p] = "on"] /\ RsGo("connect")
  /\ UNCHANGED <<obj, map, view, queue, list, ev, usr, out, breaks, sole, blind>>

Restarted ==
  /\ RsAt("connect") /\ rs.p \in obj
  /\ view' = [view EXCEPT ![rs.p].status = "playing"] /\ RsGo("release")
  /\ blind' = blind \ {rs.p}
  /\ UNCHANGED <<obj, map, stream, queue, list, ev, usr, out, breaks, sole>>

\* (bug) The view that failed is not kept.
RestartGivesUp ==
  /\ RsAt("connect") /\ rs.p \in obj
  /\ stream' = [stream EXCEPT ![rs.p] = "off"]
  /\ rs' = [rs EXCEPT !.at = "take", !.p = None]
  /\ UNCHANGED <<obj, map, view, queue, list, ev, usr, out, breaks, sole, blind>>

RestartFails ==
  /\ RsAt("connect") /\ rs.p \in obj
  /\ stream' = [stream EXCEPT ![rs.p] = "off"]
  /\ rs' = [at |-> "take", p |-> None, failed |-> Append(rs.failed, rs.p)]
  /\ UNCHANGED <<obj, map, view, queue, list, ev, usr, out, breaks, sole, blind>>

ReleaseResumed ==
  /\ RsAt("release") /\ PutRef(rs.p)
  /\ rs' = [rs EXCEPT !.at = "take", !.p = None]
  /\ UNCHANGED <<map, stream, queue, list, ev, usr, out, breaks, sole, blind>>

-----------------------------------------------------------------------------
(* Logout, when no client is in a call.                                    *)

Logout ==
  /\ out = "in" /\ \A u \in Users : usr[u].at \in {"idle", "view"}
  /\ out' = "stopping" /\ blind' = {}
  /\ UNCHANGED <<playVars, queue, list, ev, rs, usr, breaks, sole>>

\* StopAllRealPlay deletes every view, and has stopped it if it is busy.
\* It holds the lock of the map: the views leave it one by one here.
StopsInAll(p) == view[p].busy
StopAllRealPlay(p) ==
  /\ out = "stopping" /\ p \in map \cap obj
  /\ IF StopsInAll(p)
     THEN Unlocked(p) /\ stream' = [stream EXCEPT ![p] = "off"]
     ELSE UNCHANGED stream
  /\ Delete(p) /\ map' = map \ {p}
  /\ UNCHANGED <<queue, list, threadVars, breaks, sole, blind>>

AllStopped ==
  /\ out = "stopping" /\ map = {} /\ out' = "clear"
  /\ UNCHANGED <<playVars, queue, list, ev, rs, usr, breaks, sole, blind>>

\* StopResumeTimer: the list is cleared, then the timer is cancelled, which
\* waits for onTrigger.
ClearList ==
  /\ out = "clear" /\ out' = "cancel" /\ list' = <<>>
  /\ UNCHANGED <<playVars, queue, ev, rs, usr, breaks, sole, blind>>

CancelTimer ==
  /\ out = "cancel" /\ RsAt("idle") /\ out' = "done"
  /\ UNCHANGED <<playVars, queue, list, ev, rs, usr, breaks, sole, blind>>

-----------------------------------------------------------------------------
Begin(u) == StartWindow(u) \/ StartCallback(u) \/ StopBegins(u)
Call(u) ==
  \/ Connect(u) \/ Connected(u) \/ ConnectFails(u) \/ WindowFails(u)
  \/ FreeRealPlay(u) \/ NotFound(u) \/ StopRealPlay(u) \/ Erase(u) \/ Put(u)
EventThread ==
  \/ EventIgnored \/ GetRealPlayEx \/ CopyInfo \/ StopStream \/ RemoveEntry
  \/ AddEntry \/ RefEntry \/ ReleaseEvent
ResumeThread ==
  \/ Trigger \/ TakeEntry \/ AllTaken \/ BackToList \/ RestartRefused
  \/ ReStartRealPlay \/ Restarted \/ RestartFails \/ ReleaseResumed
LogoutSteps == (\E p \in Plays : StopAllRealPlay(p)) \/ AllStopped \/ ClearList \/ CancelTimer

Next ==
  \/ \E u \in Users : Begin(u) \/ Call(u)
  \/ \E p \in Plays, code \in {"resume", "end"} : StreamEnds(p, code)
  \/ EventThread \/ ResumeThread \/ Logout \/ LogoutSteps

\* A thread goes on, and a server that is asked again and again answers once.
Fairness ==
  /\ \A u \in Users : WF_vars(Call(u))
  /\ WF_vars(EventThread) /\ WF_vars(ResumeThread) /\ SF_vars(Restarted)
  /\ WF_vars(LogoutSteps)

Spec == Init /\ [][Next]_vars
FairSpec == Spec /\ Fairness

-----------------------------------------------------------------------------
Entries == [h : Plays \cup {None}, obj : Plays \cup {None}]
Views == [ref : Int, busy : BOOLEAN, status : {"ready", "playing", "stopped", "finished"},
          info : {"none", "window", "callback"}]
EventStates == [at : {"idle", "copy", "stop", "remove", "add", "ref", "release"},
                p : Plays \cup {None}, code : {"resume", "end"}, entry : Entries]
ResumeStates == [at : {"idle", "take", "try", "connect", "release", "back"},
                 p : Plays \cup {None}, failed : Seq(Plays)]
Clients == [at : {"idle", "lock", "connect", "free", "view", "stop", "erase", "put"},
            p : Plays \cup {None}, cb : BOOLEAN]
\* Every variable keeps its type.
TypeOK ==
  /\ obj \subseteq Plays /\ map \subseteq Plays
  /\ view \in [Plays -> Views] /\ stream \in [Plays -> {"off", "on", "broken"}]
  /\ queue \in Seq([p : Plays, code : {"resume", "end"}]) /\ Len(queue) <= MaxQueue
  /\ list \in Seq(Entries) /\ ev \in EventStates /\ rs \in ResumeStates
  /\ usr \in [Users -> Clients] /\ out \in {"in", "stopping", "clear", "cancel", "done"}
  /\ breaks \in 0..MaxBreaks /\ sole \subseteq Plays /\ blind \subseteq Plays

\* Who counts on the object p.
Listed(p) == Cardinality({i \in DOMAIN list : list[i].obj = p})
Retried(p) == Cardinality({i \in DOMAIN rs.failed : rs.failed[i] = p})
One(b) == IF b THEN 1 ELSE 0
Holders(p) ==
  One(p \in map) + Listed(p) + Retried(p) + One(ev.p = p) + One(rs.p = p)
    + Cardinality({u \in Users : At(u, "put") /\ usr[u].p = p})
\* The event thread has listed p and not yet counted the entry.
Uncounted(p) == ev.p = p /\ ev.at = "ref"

\* Until the session is logged out, a view that a window start has made has a
\* reference for everyone that holds it: the map, the event thread, the list,
\* the resume thread and a client that puts the reference of the map back.
\* The one reference that comes late is that of an entry just listed.
RefsEnough ==
  out = "in" => \A p \in sole \cap obj : view[p].ref + One(Uncounted(p)) >= Holders(p)

\* So nobody touches a deleted view but the event thread that takes the late
\* reference: the list never resumes, the timer never frees, the event thread
\* never lists or puts back, and the map never finds an object that is gone.
HeldIsLive ==
  out = "in" => \A p \in sole \ obj : Holders(p) = One(Uncounted(p))

\* A view its client has stopped delivers nothing, and nothing starts it again,
\* though its entry may still be in the list or with the resume thread
\* (the comment at RealPlay.cpp:175).
StoppedIsOff ==
  \A p \in sole : view[p].status = "finished" => stream[p] = "off"

\* A view whose stream was stopped because it broke is on its way back: with the
\* event thread, in the list or with the resume thread; unless its stream
\* ended as it should, or the event read its parameters before the start had
\* saved them.
OnItsWay(p) ==
  \/ ev.p = p /\ ev.at \in {"remove", "add"}
  \/ Listed(p) > 0 \/ Retried(p) > 0 \/ rs.p = p
StoppedIsListed ==
  out = "in" => \A p \in sole \cap map :
    \/ view[p].status = "stopped" => (p \in blind \/ OnItsWay(p))
    \/ \E u \in Users : At(u, "stop") /\ usr[u].p = p

\* A view in the list plays again in the end, unless its client stops it or
\* logs out: what failed is tried again by the next trigger.  (Or the resume
\* thread has met a deleted view, of a callback start or of an address used
\* again.)
ListedResumes ==
  \A p \in Plays : p \in sole /\ Listed(p) > 0 ~>
    \/ p \notin sole \cap obj \/ view[p].status \in {"playing", "finished"}
    \/ rs.p \notin obj \cup {None} \/ out # "in"
=============================================================================
