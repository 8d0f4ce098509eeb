----------------------------- MODULE LinkRoutes -----------------------------
(***************************************************************************)
(* The links of one session to the servers of its domains (IVS_SDK):       *)
(* CLinkRouteMgr, CReLink, CLoginMgr, CDomainRouteMgr and the parts of     *)
(* CUserMgr and CSDKMainctrl that use them.                                *)
(*   - Clients send requests; the first one to a domain opens its link.    *)
(*     They refresh the list of the domains and log out.                   *)
(*   - The notification thread of the network library reports that a link  *)
(*     has closed, and lists its element for relinking.                    *)
(*   - The relink thread (a timer) takes the list, logs in again to each   *)
(*     element, and lists again what failed.                               *)
(* Each access to the routes, or to the list, has a lock of its own; the   *)
(* threads meet between them.  The table of domains has none.              *)
(*                                                                         *)
(* An element is the SMU of a domain, or the OMU of the home domain.  An   *)
(* element is known by its address; the port of an SMU is the default one. *)
(***************************************************************************)
EXTENDS Integers, Sequences, FiniteSets, SequencesExt

CONSTANTS
  Domains,    \* domains, each with an SMU
  Home,       \* the domain of the login
  Omu,        \* its OMU
  Links,      \* ids of links, NetElementID
  Clients,    \* client threads
  Sso,        \* single sign-on: a login cannot be repeated with a password
  None,
  MaxBreaks,  \* bound: links that break
  MaxRefresh  \* bound: refreshes of the domains

Elems == Domains \cup {Omu}

ASSUME LinkAssumption ==
  /\ Home \in Domains /\ Omu \notin Domains /\ None \notin Elems \cup Links
  /\ \E h, o \in Links : h # o
  /\ Sso \in BOOLEAN /\ MaxBreaks \in Nat /\ MaxRefresh \in Nat

VARIABLES
  phase,   \* of the session: "in", "stop": m_bRelink is off, "out"
  route,   \* m_LinkRouteMap of the session: status and link of each element
  known,   \* m_domainCodeMap
  list,    \* m_listRelink
  clock,   \* m_ResumeStartTime: "off", "on", or "long" when ten minutes have passed
  peer,    \* the network library: the element a link goes to
  up,      \* the links that are open
  lost,    \* the links that have broken and are not yet reported
  nt,      \* the notification thread
  rt,      \* the relink thread
  cl,      \* the clients
  breaks, refreshes,
  serving, \* the servers answer every relink from now on
  gone,    \* history: elements nobody relinks: the login was refused for good, or
           \* the domain was missing from the table of domains
  crowded, \* history: elements that were logged in to although there was a link,
           \* or a login under way
  unseen   \* history: links whose loss was reported before they were in a route

netVars == <<peer, up, lost>>
countVars == <<breaks, refreshes, serving>>
histVars == <<gone, crowded, unseen>>
vars == <<phase, route, known, list, clock, netVars, nt, rt, cl, countVars, histVars>>

NoRoute == [status |-> "none", link |-> None]
Enabled == [status |-> "enabled", link |-> None]
Opened(k) == [status |-> "opened", link |-> k]
Idle == [at |-> "idle", d |-> None, link |-> None, todo |-> {}]
Resting == [at |-> "idle", todo |-> <<>>, cur |-> None, link |-> None, ret |-> "none", failed |-> <<>>]
Silent == [at |-> "idle", link |-> None]

\* After a login: the home domain has its links, and of the others the server
\* may have said that they are there.
Init ==
  /\ phase = "in" /\ known = Domains /\ list = <<>> /\ clock = "off"
  /\ LET h == CHOOSE k \in Links : TRUE
         o == CHOOSE k \in Links \ {h} : TRUE
     IN \E r \in [Domains \ {Home} -> {NoRoute, Enabled}] :
       /\ route = [e \in Elems |-> CASE e = Home -> Opened(h) [] e = Omu -> Opened(o)
                                     [] OTHER -> r[e]]
       /\ peer = [k \in Links |-> CASE k = h -> Home [] k = o -> Omu [] OTHER -> None]
       /\ up = {h, o} /\ lost = {}
  /\ nt = Silent /\ rt = Resting /\ cl = [c \in Clients |-> Idle]
  /\ breaks = 0 /\ refreshes = 0 /\ serving = FALSE
  /\ gone = {} /\ crowded = {} /\ unseen = {}

-----------------------------------------------------------------------------
(* The network library.                                                    *)

Held(k) ==
  \/ \E e \in Elems : route[e].link = k
  \/ nt.link = k \/ rt.link = k \/ \E c \in Clients : cl[c].link = k

\* CreateClientLinkSyn: the id of a link nobody remembers is given again.  The
\* ids are alike, and any of them stands for the others.
Free == {k \in Links \ (up \cup lost) : ~Held(k)}
Create(k, e) ==
  /\ Free # {} /\ k = CHOOSE f \in Free : TRUE
  /\ peer' = [peer EXCEPT ![k] = e] /\ up' = up \cup {k} /\ unseen' = unseen \ {k}
  /\ UNCHANGED lost

\* DeleteClientLinkByAddr
DeleteByAddr(e) == up' = {k \in up : peer[k] # e} /\ UNCHANGED <<peer, lost>>

ServersAnswer ==
  /\ ~serving /\ serving' = TRUE
  /\ UNCHANGED <<phase, route, known, list, clock, netVars, nt, rt, cl, breaks, refreshes,
                 histVars>>

Break(k) ==
  /\ k \in up /\ breaks < MaxBreaks /\ breaks' = breaks + 1
  /\ up' = up \ {k} /\ lost' = lost \cup {k}
  /\ UNCHANGED <<phase, route, known, list, clock, peer, nt, rt, cl, refreshes, serving, histVars>>

-----------------------------------------------------------------------------
(* The routes and the list.                                                *)

\* UpdateLinkInfo and SetLinkIDByDomainCode change what is there.
SetRoute(e, r) == route' = [route EXCEPT ![e] = IF @.status = "none" THEN @ ELSE r]

\* AddLinkIdToBusinessList: an element is listed once.
Listing(e) == IF Contains(list, e) THEN list ELSE Append(list, e)

-----------------------------------------------------------------------------
(* The notification thread: CSDKMainctrl::OnLinkClosed.                    *)

NtAt(at) == nt.at = at

\* SetLinkIDStatus
LinkClosed(k) ==
  /\ NtAt("idle") /\ k \in lost /\ lost' = lost \ {k}
  /\ nt' = [at |-> "find", link |-> k]
  /\ route' = [e \in Elems |-> IF route[e].link = k THEN [route[e] EXCEPT !.status = "closed"]
                               ELSE route[e]]
  /\ UNCHANGED <<phase, known, list, clock, peer, up, rt, cl, countVars, histVars>>

\* FindSessionIDByLinkID: a link that is in no route has no session.
FindSession ==
  /\ NtAt("find")
  /\ IF \E e \in Elems : route[e].link = nt.link
     THEN /\ nt' = [nt EXCEPT !.at = "add"] /\ UNCHANGED unseen
     ELSE nt' = Silent /\ unseen' = unseen \cup {nt.link}
  /\ UNCHANGED <<phase, route, known, list, clock, netVars, rt, cl, countVars,
                 gone, crowded>>

\* (bug) An element the relink thread is at work on is not listed.
AddUnlessTaken ==
  /\ NtAt("add") /\ nt' = Silent
  /\ list' = IF rt.cur = peer[nt.link] THEN list ELSE Listing(peer[nt.link])
  /\ UNCHANGED <<phase, route, known, clock, netVars, rt, cl, countVars, histVars>>

AddClosed ==
  /\ NtAt("add") /\ nt' = Silent /\ list' = Listing(peer[nt.link])
  /\ UNCHANGED <<phase, route, known, clock, netVars, rt, cl, countVars, histVars>>

-----------------------------------------------------------------------------
(* The clients.                                                            *)

At(c, at) == cl[c].at = at
LoggingIn(e) == rt.cur = e \/ \E c \in Clients : cl[c].d = e /\ ~At(c, "publish")
Crowding(e) == IF LoggingIn(e) \/ \E k \in up : peer[k] = e THEN crowded \cup {e} ELSE crowded

\* A request to a domain whose route is enabled logs in first.
UseLink(c, d) ==
  /\ At(c, "idle") /\ phase = "in" /\ d # Home /\ route[d].status = "enabled"
  /\ cl' = [cl EXCEPT ![c] = [Idle EXCEPT !.at = "connect", !.d = d]]
  /\ crowded' = Crowding(d)
  /\ UNCHANGED <<phase, route, known, list, clock, netVars, nt, rt, countVars,
                 gone, unseen>>

\* GeneralLoginSmu
Connect(c) ==
  /\ At(c, "connect") /\ cl[c].d \in known
  /\ \E k \in Links :
       Create(k, cl[c].d) /\ cl' = [cl EXCEPT ![c].link = k, ![c].at = "auth"]
  /\ UNCHANGED <<phase, route, known, list, clock, nt, rt, countVars, gone, crowded>>

ConnectFails(c) ==
  /\ At(c, "connect") /\ cl' = [cl EXCEPT ![c].at = "fail"]
  /\ IF cl[c].d \in known THEN DeleteByAddr(cl[c].d) ELSE UNCHANGED netVars
  /\ UNCHANGED <<phase, route, known, list, clock, nt, rt, countVars, histVars>>

Accepted(c) ==
  /\ At(c, "auth") /\ cl[c].link \in up /\ cl' = [cl EXCEPT ![c].at = "open"]
  /\ UNCHANGED <<phase, route, known, list, clock, netVars, nt, rt, countVars, histVars>>
Refused(c) ==
  /\ At(c, "auth") /\ cl' = [cl EXCEPT ![c].at = "fail"]
  /\ UNCHANGED <<phase, route, known, list, clock, netVars, nt, rt, countVars, histVars>>

\* ProcrssEnableLinkNode
LinkOpened(c) ==
  /\ At(c, "open") /\ SetRoute(cl[c].d, Opened(cl[c].link)) /\ cl' = [cl EXCEPT ![c] = Idle]
  /\ UNCHANGED <<phase, known, list, clock, netVars, nt, rt, countVars, histVars>>
LinkFails(c) ==
  /\ At(c, "fail") /\ SetRoute(cl[c].d, [status |-> "closed", link |-> None])
  /\ cl' = [cl EXCEPT ![c].at = "add"]
  /\ UNCHANGED <<phase, known, list, clock, netVars, nt, rt, countVars, histVars>>

\* (bug) The link whose login was refused stays open.
AddFailedOnly(c) ==
  /\ At(c, "add") /\ cl' = [cl EXCEPT ![c] = Idle]
  /\ IF cl[c].d \in known THEN list' = Listing(cl[c].d) /\ UNCHANGED gone
     ELSE gone' = gone \cup {cl[c].d} /\ UNCHANGED list
  /\ UNCHANGED <<phase, route, known, clock, netVars, nt, rt, countVars,
                 crowded, unseen>>

AddFailed(c) ==
  /\ At(c, "add") /\ cl' = [cl EXCEPT ![c] = Idle]
  /\ IF cl[c].d \in known
     THEN list' = Listing(cl[c].d) /\ up' = up \ {cl[c].link} /\ UNCHANGED gone
     ELSE gone' = gone \cup {cl[c].d} /\ UNCHANGED <<list, up>>
  /\ UNCHANGED <<phase, route, known, clock, peer, lost, nt, rt, countVars,
                 crowded, unseen>>

\* GetDomainRoute: each domain is erased from the table and put there again.
Refresh(c) ==
  /\ At(c, "idle") /\ phase = "in" /\ route[Home].status = "opened"
  /\ refreshes < MaxRefresh /\ refreshes' = refreshes + 1
  /\ cl' = [cl EXCEPT ![c] = [Idle EXCEPT !.at = "erase", !.todo = Domains]]
  /\ UNCHANGED <<phase, route, known, list, clock, netVars, nt, rt, breaks, serving,
                 histVars>>

EraseRoute(c) ==
  /\ At(c, "erase")
  /\ LET d == CHOOSE d \in cl[c].todo : TRUE IN
       /\ known' = known \ {d}
       /\ cl' = [cl EXCEPT ![c].at = "insert", ![c].todo = @ \ {d}]
  /\ UNCHANGED <<phase, route, list, clock, netVars, nt, rt, countVars, histVars>>

InsertRoute(c) ==
  /\ At(c, "insert") /\ known' = Domains
  /\ cl' = [cl EXCEPT ![c] = IF @.todo # {} THEN [@ EXCEPT !.at = "erase"]
                             ELSE [@ EXCEPT !.at = "publish", !.todo = Domains \ {Home}]]
  /\ UNCHANGED <<phase, route, list, clock, netVars, nt, rt, countVars, histVars>>

\* The server says that a domain is online, or it is to be relinked.  What is
\* known of its link does not change.
Publish(c) ==
  /\ At(c, "publish")
  /\ IF cl[c].todo = {} THEN cl' = [cl EXCEPT ![c] = Idle] /\ UNCHANGED <<route, list>>
     ELSE LET d == CHOOSE d \in cl[c].todo : TRUE
              Insert(r) == route' = [route EXCEPT ![d] = IF @.status = "none" THEN r ELSE @]
          IN /\ cl' = [cl EXCEPT ![c].todo = @ \ {d}]
             /\ \/ Insert(Enabled) /\ UNCHANGED list
                \/ Insert([status |-> "closed", link |-> None]) /\ list' = Listing(d)
  /\ UNCHANGED <<phase, known, clock, netVars, nt, rt, countVars, histVars>>

-----------------------------------------------------------------------------
(* The relink thread: CReLink::onTrigger.                                  *)

RtAt(at) == rt.at = at

Trigger ==
  /\ RtAt("idle") /\ phase # "out" /\ list # <<>>
  /\ rt' = [Resting EXCEPT !.at = "next", !.todo = list] /\ list' = <<>>
  /\ UNCHANGED <<phase, route, known, clock, netVars, nt, cl, countVars, histVars>>

\* When the session ends, the elements not yet tried are dropped.
PassEnds ==
  /\ RtAt("next") /\ (phase # "in" \/ rt.todo = <<>>)
  /\ rt' = [Resting EXCEPT !.at = "back", !.failed = rt.failed]
  /\ UNCHANGED <<phase, route, known, list, clock, netVars, nt, cl, countVars, histVars>>

\* GetDomainRouteByIP: a domain that is not in the table is not relinked.
Drop ==
  /\ RtAt("next") /\ phase = "in" /\ rt.todo # <<>>
  /\ Head(rt.todo) \notin known \cup {Omu}
  /\ rt' = [rt EXCEPT !.todo = Tail(@)] /\ gone' = gone \cup {Head(rt.todo)}
  /\ UNCHANGED <<phase, route, known, list, clock, netVars, nt, cl, countVars,
                 crowded, unseen>>

Take ==
  /\ RtAt("next") /\ phase = "in" /\ rt.todo # <<>>
  /\ Head(rt.todo) \in known \cup {Omu}
  /\ rt' = [rt EXCEPT !.at = "connect", !.cur = Head(rt.todo), !.todo = Tail(@)]
  /\ crowded' = Crowding(Head(rt.todo))
  /\ UNCHANGED <<phase, route, known, list, clock, netVars, nt, cl, countVars,
                 gone, unseen>>

\* ReLoginSMU and ReLoginOmu.  The clock of a relink of the login starts at its
\* first attempt.
Started == IF rt.cur = Home /\ clock = "off" THEN "on" ELSE clock
Missing == rt.cur \notin known \cup {Omu}

\* The table has lost the domain since.
NotFound ==
  /\ RtAt("connect") /\ Missing /\ rt' = [rt EXCEPT !.at = "done", !.ret = "refused"]
  /\ UNCHANGED <<phase, route, known, list, clock, netVars, nt, cl, countVars, histVars>>

RtConnect ==
  /\ RtAt("connect") /\ ~Missing /\ clock' = Started
  /\ \E k \in Links : Create(k, rt.cur) /\ rt' = [rt EXCEPT !.at = "login", !.link = k]
  /\ UNCHANGED <<phase, route, known, list, nt, cl, countVars, gone, crowded>>

RtConnectFails ==
  /\ RtAt("connect") /\ ~Missing /\ ~serving /\ clock' = Started
  /\ DeleteByAddr(rt.cur) /\ rt' = [rt EXCEPT !.at = "done", !.ret = "refused"]
  /\ UNCHANGED <<phase, route, known, list, nt, cl, countVars, histVars>>

\* The server accepts the login.  ("needmod": the password has to be changed.)
Welcome == IF rt.cur = Home THEN {"ok", "needmod"} ELSE {"ok"}
LoggedIn ==
  /\ RtAt("login") /\ rt.link \in up
  /\ \E r \in Welcome :
       rt' = [rt EXCEPT !.ret = r, !.at = IF rt.cur \in {Home, Omu} THEN "refresh" ELSE "update"]
  /\ UNCHANGED <<phase, route, known, list, clock, netVars, nt, cl, countVars, histVars>>

\* It does not, or not at once ("first": the password is the initial one), or
\* the answer does not come.  A login to the home domain deletes its link.  That
\* the password has to be changed is, for another domain, as good as that it is
\* wrong ("password"): either leaves the route as it was, and the link open.
Denials ==
  {"refused"} \cup (IF rt.cur = Omu THEN {} ELSE {"first", "password"})
    \cup (IF rt.cur = Home /\ Sso THEN {"restarted"} ELSE {})
LoginFails ==
  /\ RtAt("login") /\ (serving => rt.link \notin up)
  /\ \E r \in Denials :
       rt' = [rt EXCEPT !.ret = r, !.at = IF r = "first" THEN "update" ELSE "done"]
  /\ up' = IF rt.cur \in {Home, Omu} THEN up \ {rt.link} ELSE up
  /\ UNCHANGED <<phase, route, known, list, clock, peer, lost, nt, cl, countVars, histVars>>

\* RefreshLoginInfo, and what ReLoginOmu does.
RefreshLink ==
  /\ RtAt("refresh") /\ SetRoute(rt.cur, Opened(rt.link))
  /\ rt' = [rt EXCEPT !.at = IF rt.cur = Home /\ rt.ret = "ok" THEN "update" ELSE "done"]
  /\ UNCHANGED <<phase, known, list, clock, netVars, nt, cl, countVars, histVars>>

\* ReLoginSMU does it once more, or for the first time.
UpdateLink ==
  /\ RtAt("update") /\ SetRoute(rt.cur, Opened(rt.link)) /\ rt' = [rt EXCEPT !.at = "done"]
  /\ UNCHANGED <<phase, known, list, clock, netVars, nt, cl, countVars, histVars>>

NextItem(failed) == rt' = [Resting EXCEPT !.at = "next", !.todo = rt.todo, !.failed = failed]
IsDone == rt.ret \in {"ok", "needmod", "password"}
Abandoned == IF rt.ret = "password" THEN gone \cup {rt.cur} ELSE gone

\* (bug) The clock goes on.
RelinkedOnly ==
  /\ RtAt("done") /\ IsDone /\ NextItem(rt.failed)
  /\ gone' = Abandoned
  /\ UNCHANGED <<phase, route, known, list, clock, netVars, nt, cl, countVars, crowded, unseen>>

\* Of the home domain the client is told how it ended.  A wrong password ends the
\* relinking, of any domain.
Relinked ==
  /\ RtAt("done") /\ IsDone /\ NextItem(rt.failed)
  /\ clock' = IF rt.cur = Home THEN "off" ELSE clock
  /\ gone' = Abandoned
  /\ UNCHANGED <<phase, route, known, list, netVars, nt, cl, countVars, crowded, unseen>>

\* With single sign-on a relink is given up when the server has lost the login,
\* and after ten minutes.  A clock that has not started shows more than that.
Hopeless == Sso /\ rt.cur = Home /\ (rt.ret = "restarted" \/ clock # "on")

GiveUp ==
  /\ RtAt("done") /\ ~IsDone /\ Hopeless /\ NextItem(rt.failed)
  /\ DeleteByAddr(Home) /\ clock' = "off" /\ gone' = gone \cup {Home}
  /\ UNCHANGED <<phase, route, known, list, nt, cl, countVars, crowded, unseen>>

RelinkFails ==
  /\ RtAt("done") /\ ~IsDone /\ ~Hopeless /\ NextItem(Append(rt.failed, rt.cur))
  /\ DeleteByAddr(rt.cur)
  /\ UNCHANGED <<phase, route, known, list, clock, nt, cl, countVars, histVars>>

\* (bug) Only what is still closed goes back.
BackIfClosed ==
  /\ RtAt("back") /\ rt.failed # <<>> /\ rt' = [rt EXCEPT !.failed = Tail(@)]
  /\ list' = IF route[Head(rt.failed)].status = "closed" THEN Listing(Head(rt.failed)) ELSE list
  /\ UNCHANGED <<phase, route, known, clock, netVars, nt, cl, countVars, histVars>>

\* (bug) Only the first one goes back.
BackFirst ==
  /\ RtAt("back") /\ rt.failed # <<>>
  /\ list' = Listing(Head(rt.failed)) /\ rt' = [rt EXCEPT !.failed = <<>>]
  /\ UNCHANGED <<phase, route, known, clock, netVars, nt, cl, countVars, histVars>>

BackToList ==
  /\ RtAt("back") /\ rt.failed # <<>>
  /\ list' = Listing(Head(rt.failed)) /\ rt' = [rt EXCEPT !.failed = Tail(@)]
  /\ UNCHANGED <<phase, route, known, clock, netVars, nt, cl, countVars, histVars>>

PassDone ==
  /\ RtAt("back") /\ rt.failed = <<>> /\ rt' = Resting
  /\ UNCHANGED <<phase, route, known, list, clock, netVars, nt, cl, countVars, histVars>>

TenMinutes ==
  /\ clock = "on" /\ clock' = "long"
  /\ UNCHANGED <<phase, route, known, list, netVars, nt, rt, cl, countVars, histVars>>

-----------------------------------------------------------------------------
(* Logout.                                                                 *)

\* StopResumeTimer, when no other call of the client is under way.
Logout ==
  /\ phase = "in" /\ phase' = "stop" /\ \A c \in Clients : At(c, "idle")
  /\ UNCHANGED <<route, known, list, clock, netVars, nt, rt, cl, countVars, histVars>>

\* cancelTimer has waited for the pass: DeleteLinkList.
LoggedOut ==
  /\ phase = "stop" /\ RtAt("idle") /\ phase' = "out" /\ known' = {}
  /\ up' = up \ {route[e].link : e \in Elems}
  /\ route' = [e \in Elems |-> NoRoute]
  /\ UNCHANGED <<list, clock, peer, lost, nt, rt, cl, countVars, histVars>>

-----------------------------------------------------------------------------
Notify == (\E k \in Links : LinkClosed(k)) \/ FindSession \/ AddClosed
Call(c) ==
  \/ Connect(c) \/ ConnectFails(c) \/ Accepted(c) \/ Refused(c) \/ LinkOpened(c)
  \/ LinkFails(c) \/ AddFailed(c) \/ EraseRoute(c) \/ InsertRoute(c) \/ Publish(c)
Relink ==
  \/ Trigger \/ PassEnds \/ Drop \/ Take \/ NotFound \/ RtConnect \/ RtConnectFails
  \/ LoggedIn \/ LoginFails \/ RefreshLink \/ UpdateLink \/ Relinked \/ GiveUp
  \/ RelinkFails \/ BackToList \/ PassDone

Next ==
  \/ ServersAnswer \/ \E k \in Links : Break(k)
  \/ Notify \/ Relink \/ TenMinutes \/ Logout \/ LoggedOut
  \/ \E c \in Clients : Call(c) \/ Refresh(c) \/ \E d \in Domains : UseLink(c, d)

\* The threads go on, and the servers are not away for ever.
Fairness ==
  /\ WF_vars(Notify) /\ WF_vars(Relink) /\ WF_vars(LoggedOut) /\ WF_vars(ServersAnswer)
  /\ \A c \in Clients : WF_vars(Call(c))

Spec == Init /\ [][Next]_vars
FairSpec == Spec /\ Fairness

-----------------------------------------------------------------------------
\* Every variable keeps its type, and no element is listed twice.
TypeOK ==
  /\ phase \in {"in", "stop", "out"} /\ known \subseteq Domains
  /\ route \in [Elems -> [status : {"none", "enabled", "opened", "closed"},
                          link : Links \cup {None}]]
  /\ list \in Seq(Elems) /\ IsInjective(list)
  /\ clock \in {"off", "on", "long"}
  /\ peer \in [Links -> Elems \cup {None}] /\ up \subseteq Links /\ lost \subseteq Links \ up
  /\ nt \in [at : {"idle", "find", "add"}, link : Links \cup {None}]
  /\ rt \in [at : {"idle", "next", "connect", "login", "refresh", "update", "done", "back"},
             todo : Seq(Elems), cur : Elems \cup {None}, link : Links \cup {None},
             ret : {"none", "ok", "needmod", "refused", "first", "password", "restarted"},
             failed : Seq(Elems)]
  /\ cl \in [Clients -> [at : {"idle", "connect", "auth", "open", "fail", "add",
                               "erase", "insert", "publish"},
                         d : Domains \cup {None}, link : Links \cup {None},
                         todo : SUBSET Domains]]
  /\ serving \in BOOLEAN /\ breaks \in 0..MaxBreaks /\ refreshes \in 0..MaxRefresh
  /\ gone \subseteq Elems /\ crowded \subseteq Elems
  /\ unseen \subseteq Links

\* An element that will be relinked: it is listed, or taken, or about to be listed.
InPass(e) == Contains(rt.todo, e) \/ rt.cur = e \/ Contains(rt.failed, e)
OnItsWay(e) ==
  \/ Contains(list, e) \/ InPass(e)
  \/ nt.link # None /\ peer[nt.link] = e
  \/ \E c \in Clients : At(c, "add") /\ cl[c].d = e

\* While the session lasts, no element whose route is closed is forgotten,
\* however the three threads meet, unless its relinking was given up.
ClosedIsListed ==
  phase = "in" => \A e \in Elems \ gone : route[e].status = "closed" => OnItsWay(e)

\* A route is not open over a link that is gone, unless that is about to be
\* put right, or the link was lost before it was in its route.  (Of two logins
\* to one element, the one that fails closes the link of the other.)
OpenedIsUp ==
  phase = "in" => \A e \in Elems \ (gone \cup crowded) : route[e].status = "opened" =>
    \/ route[e].link \in up \cup lost \cup unseen \/ OnItsWay(e)

\* Every link that is open belongs to its route, or to the thread that is
\* logging in over it, so that none is left when the session has ended.
LinksOwned ==
  \A k \in up : \/ peer[k] \in crowded \cup gone
                \/ route[peer[k]].link = k \/ rt.link = k
                \/ \E c \in Clients : cl[c].link = k

\* The ten minutes of a single sign-on run only while the login is relinked, so
\* that the next loss of it has its ten minutes too.
ClockIsRight ==
  phase = "in" /\ clock # "off" => InPass(Home) \/ Contains(list, Home) \/ Home \in gone

\* A route that is closed opens again, when the servers answer.
ClosedOpens ==
  \A e \in Elems : []<>(route[e].status # "closed" \/ phase # "in" \/ e \in gone)
=============================================================================
