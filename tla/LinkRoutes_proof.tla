-------------------------- MODULE LinkRoutes_proof --------------------------
(* Theorems on the links of a session, for any domains, links and clients, *)
(* and any number of breaks and refreshes.                                 *)
EXTENDS LinkRoutes, SequenceTheorems, TLAPS

\* What a client, or another thread, has in its hands at each of its steps.
CallOK(r) ==
  /\ r.at \in {"connect", "auth", "open", "fail", "add"} => r.d \in Domains
  /\ r.at \in {"auth", "open"} => r.link \in Links
PassOK(r) ==
  /\ r.at = "idle" => r = Resting
  /\ r.at \in {"next", "back"} => r.cur = None
  /\ r.at = "back" /\ phase = "in" => r.todo = <<>>
  /\ r.at \in {"connect", "login", "refresh", "update", "done"} => r.cur \in Elems
  /\ r.at \in {"login", "refresh", "update"} => r.link \in Links
  /\ r.at = "refresh" => r.ret \in {"ok", "needmod"}
  /\ r.at = "update" => r.ret \in {"ok", "needmod", "first"}

HandsOK ==
  /\ nt.at # "idle" => nt.link \in Links /\ peer[nt.link] \in Elems
  /\ PassOK(rt)
  /\ \A c \in Clients : CallOK(cl[c])

\* A link leads to the element in whose route it is, or that is logged in to
\* over it.
PeersOK ==
  /\ \A k \in up \cup lost : peer[k] \in Elems
  /\ \A e \in Elems : route[e].link # None => peer[route[e].link] = e
  /\ rt.at \in {"login", "refresh", "update"} => peer[rt.link] = rt.cur
  /\ \A c \in Clients : cl[c].at \in {"auth", "open"} => peer[cl[c].link] = cl[c].d

\* Who will list or relink the element e.  The notification thread will if it
\* finds the route of its link; the relink thread is done with an element when
\* the login has succeeded.
Remembered(e) ==
  \/ Contains(list, e) \/ Contains(rt.todo, e) \/ Contains(rt.failed, e)
  \/ rt.cur = e /\ ~(rt.at = "done" /\ rt.ret \in {"ok", "needmod"})
  \/ nt.at # "idle" /\ peer[nt.link] = e /\ (nt.at = "find" => route[e].link = nt.link)
  \/ \E c \in Clients : At(c, "add") /\ cl[c].d = e

ClosedOK ==
  phase = "in" => \A e \in Elems \ gone : route[e].status = "closed" => Remembered(e)

\* What the threads have of links and elements when they have any, and that they
\* have none of them when they rest.
HeldOK ==
  /\ rt.at \in {"idle", "next", "connect", "back"} => rt.link = None
  /\ rt.link # None => peer[rt.link] = rt.cur
  /\ \A c \in Clients :
       /\ cl[c].at \in {"idle", "erase", "insert", "publish"} => cl[c].d = None /\ cl[c].link = None
       /\ cl[c].at = "connect" => cl[c].link = None
       /\ cl[c].link # None => peer[cl[c].link] = cl[c].d
  /\ phase # "in" => \A c \in Clients : cl[c].at = "idle"
  /\ phase = "out" => rt.at = "idle"

\* The elements that threads and lists name are in the table of routes.
Named(e) ==
  \/ Contains(list, e) \/ Contains(rt.todo, e) \/ Contains(rt.failed, e) \/ rt.cur = e
  \/ nt.at = "add" /\ peer[nt.link] = e
  \/ \E c \in Clients : cl[c].d = e
RoutedOK ==
  /\ \A e \in Elems : route[e].status = "none" => route[e].link = None
  /\ phase # "out" => \A e \in Elems : Named(e) => route[e].status # "none"

\* An element that is not crowded is logged in to by one thread at a time, and
\* then has no link but that of the login.
Lone(e) ==
  /\ rt.cur = e => \A k \in up : peer[k] = e => k = rt.link
  /\ \A c \in Clients : cl[c].d = e =>
       /\ rt.cur # e
       /\ \A b \in Clients : cl[b].d = e => b = c
       /\ \A k \in up : peer[k] = e => k = cl[c].link
AloneOK == \A e \in Elems \ crowded : Lone(e)

\* When the relink thread has succeeded, its link is in the route.
Succeeded == rt.at = "done" /\ rt.ret \in {"ok", "needmod"}
MadeOK == Succeeded /\ rt.cur \notin crowded => route[rt.cur].link = rt.link

\* An element waits in one of the lists for the relink thread.
Pending(e) == Contains(list, e) \/ Contains(rt.todo, e) \/ Contains(rt.failed, e)

\* The loss of the link k will be seen, or will never be, or the link is up.
Seen(k) == k \in up \cup lost \cup unseen \/ (nt.at = "find" /\ nt.link = k)

\* The element will be relinked, other than by the login under way.
Kept(e) ==
  \/ Pending(e)
  \/ nt.at = "add" /\ peer[nt.link] = e
  \/ \E c \in Clients : At(c, "add") /\ cl[c].d = e
Sure(e) == Kept(e) \/ (rt.cur = e /\ ~Succeeded)

\* An open route, and a login that has not failed, have a link whose loss will
\* be seen, or an element that will be relinked all the same.
RouteOpen(e) == route[e].status = "opened" => Seen(route[e].link) \/ Sure(e)
PassOpen ==
  /\ rt.at = "login" \/ (rt.at \in {"refresh", "update"} /\ rt.ret \in {"ok", "needmod"})
  /\ rt.cur \notin gone \cup crowded
  => Seen(rt.link) \/ Kept(rt.cur)
CallOpen(c) ==
  cl[c].at \in {"auth", "open"} /\ cl[c].d \notin gone \cup crowded =>
    Seen(cl[c].link) \/ Sure(cl[c].d)
OpenOK ==
  phase = "in" => /\ \A e \in Elems \ (gone \cup crowded) : RouteOpen(e)
                  /\ PassOpen
                  /\ \A c \in Clients : CallOpen(c)

IInv ==
  /\ TypeOK /\ HandsOK /\ PeersOK /\ ClosedOK
  /\ HeldOK /\ RoutedOK /\ AloneOK /\ MadeOK
  /\ LinksOwned /\ ClockIsRight /\ OpenOK
-----------------------------------------------------------------------------
(* What the operations make of a sequence, and of the other data.          *)

LEMMA TailFact ==
  ASSUME NEW S, NEW s \in Seq(S), s # <<>>
  PROVE  /\ Head(s) \in S /\ Tail(s) \in Seq(S) /\ Contains(s, Head(s))
         /\ \A x : Contains(s, x) => x = Head(s) \/ Contains(Tail(s), x)
<1>1. Len(s) \in Nat /\ Len(s) # 0 /\ \A i \in 1..Len(s) : s[i] \in S
  BY LenProperties, EmptySeq, ElementOfSeq
<1>2. /\ Head(s) = s[1] /\ Tail(s) \in Seq(S) /\ Len(Tail(s)) = Len(s) - 1
      /\ \A i \in 1..(Len(s) - 1) : Tail(s)[i] = s[i + 1]
  BY <1>1, HeadTailProperties
<1>3. ASSUME NEW x, Contains(s, x) PROVE x = Head(s) \/ Contains(Tail(s), x)
  <2>1. PICK i \in 1..Len(s) : s[i] = x
    BY <1>3 DEF Contains
  <2>2. CASE i = 1
    BY <1>2, <2>1, <2>2
  <2>3. CASE i # 1
    <3>1. i - 1 \in 1..(Len(s) - 1) /\ (i - 1) + 1 = i
      BY <1>1, <2>1, <2>3
    <3>2. Tail(s)[i - 1] = x /\ i - 1 \in 1..Len(Tail(s))
      BY <1>2, <2>1, <3>1
    <3> QED
      BY <3>2 DEF Contains
  <2> QED
    BY <2>2, <2>3
<1> QED
  BY <1>1, <1>2, <1>3 DEF Contains

LEMMA AppendFact ==
  ASSUME NEW S, NEW s \in Seq(S), NEW e \in S
  PROVE  /\ Append(s, e) \in Seq(S) /\ Contains(Append(s, e), e)
         /\ \A x : Contains(s, x) => Contains(Append(s, e), x)
         /\ IsInjective(s) /\ ~Contains(s, e) => IsInjective(Append(s, e))
<1>1. /\ Len(s) \in Nat /\ Append(s, e) \in Seq(S) /\ Len(Append(s, e)) = Len(s) + 1
      /\ Append(s, e)[Len(s) + 1] = e /\ \A i \in 1..Len(s) : Append(s, e)[i] = s[i]
      /\ DOMAIN s = 1..Len(s) /\ DOMAIN Append(s, e) = 1..(Len(s) + 1)
  BY AppendProperties, LenProperties
<1>2. Contains(Append(s, e), e)
  BY <1>1 DEF Contains
<1>3. \A x : Contains(s, x) => Contains(Append(s, e), x)
  BY <1>1 DEF Contains
<1>4. ASSUME IsInjective(s), ~Contains(s, e), NEW a \in 1..(Len(s) + 1), NEW b \in 1..(Len(s) + 1),
             Append(s, e)[a] = Append(s, e)[b]
      PROVE  a = b
  <2>1. \A i \in 1..Len(s) : s[i] # e
    BY <1>4 DEF Contains
  <2>2. \A i, j \in 1..Len(s) : s[i] = s[j] => i = j
    BY <1>1, <1>4 DEF IsInjective
  <2>3. (a \in 1..Len(s) \/ a = Len(s) + 1) /\ (b \in 1..Len(s) \/ b = Len(s) + 1)
    BY <1>1
  <2> QED
    BY <1>1, <1>4, <2>1, <2>2, <2>3
<1> QED
  BY <1>1, <1>2, <1>3, <1>4 DEF IsInjective

LEMMA EmptyFact ==
  \A S : <<>> \in Seq(S) /\ IsInjective(<<>>) /\ \A x : ~Contains(<<>>, x)
  BY EmptySeq DEF IsInjective, Contains

\* The list after e has been put there.
LEMMA ListingFact ==
  ASSUME TypeOK, NEW e \in Elems
  PROVE  /\ Listing(e) \in Seq(Elems) /\ IsInjective(Listing(e)) /\ Contains(Listing(e), e)
         /\ \A x : Contains(list, x) => Contains(Listing(e), x)
  BY AppendFact DEF Listing, TypeOK

LEMMA CreateFact ==
  ASSUME TypeOK, NEW k \in Links, NEW e \in Elems, Create(k, e)
  PROVE  /\ peer' = [peer EXCEPT ![k] = e] /\ peer' \in [Links -> Elems \cup {None}]
         /\ up' \subseteq Links /\ lost' = lost /\ lost \subseteq Links \ up'
         /\ unseen' \subseteq Links /\ ~Held(k) /\ k \notin lost
  BY DEF TypeOK, Create, Free

Routes == [status : {"none", "enabled", "opened", "closed"}, link : Links \cup {None}]
LEMMA SetRouteFact ==
  ASSUME TypeOK, NEW e \in Elems, NEW r \in Routes, SetRoute(e, r)
  PROVE  /\ route' \in [Elems -> Routes]
         /\ \A x \in Elems : route'[x] = route[x] \/ (x = e /\ route'[x] = r)
         /\ route'[e] = r \/ route'[e].status = "none"
  BY DEF TypeOK, SetRoute, Routes

Calls == [at : {"idle", "connect", "auth", "open", "fail", "add", "erase", "insert", "publish"},
          d : Domains \cup {None}, link : Links \cup {None}, todo : SUBSET Domains]
LEMMA CallFact ==
  ASSUME TypeOK, HandsOK, NEW c \in Clients, NEW r \in Calls, CallOK(r),
         cl' = [cl EXCEPT ![c] = r]
  PROVE  /\ cl' \in [Clients -> Calls] /\ \A x \in Clients : CallOK(cl'[x])
         /\ cl'[c] = r /\ \A x \in Clients : x # c => cl'[x] = cl[x]
<1>1. cl \in [Clients -> Calls]
  BY DEF TypeOK, Calls
<1> QED
  BY <1>1 DEF HandsOK

LEMMA SomeElems == Home \in Elems /\ Omu \in Elems /\ Domains \subseteq Elems /\ None \notin Elems
                   /\ None \notin Links
  BY LinkAssumption DEF Elems
-----------------------------------------------------------------------------
(* Every step keeps the types and what the threads hold.                   *)

LEMMA TypeNotify ==
  ASSUME TypeOK, HandsOK, PeersOK,
         \/ ServersAnswer \/ Notify \/ TenMinutes \/ Logout \/ LoggedOut
         \/ \E k \in Links : Break(k)
  PROVE  TypeOK' /\ HandsOK'
<1> USE DEF TypeOK, HandsOK, PassOK, netVars, countVars, histVars
<1>1. CASE ServersAnswer
  BY <1>1 DEF ServersAnswer
<1>2. ASSUME NEW k \in Links, LinkClosed(k) PROVE TypeOK' /\ HandsOK'
  BY <1>2 DEF LinkClosed, NtAt, PeersOK
<1>3. CASE FindSession
  BY <1>3 DEF FindSession, NtAt, Silent
<1>4. CASE AddClosed
  <2>1. list' \in Seq(Elems) /\ IsInjective(list')
    BY <1>4, ListingFact DEF AddClosed, NtAt
  <2> QED
    BY <1>4, <2>1 DEF AddClosed, Silent
<1>5. CASE TenMinutes
  BY <1>5 DEF TenMinutes
<1>6. CASE Logout
  BY <1>6 DEF Logout
<1>7. CASE LoggedOut
  BY <1>7 DEF LoggedOut, NoRoute
<1>8. ASSUME NEW k \in Links, Break(k) PROVE TypeOK' /\ HandsOK'
  BY <1>8, LinkAssumption DEF Break
<1> QED
  BY <1>1, <1>2, <1>3, <1>4, <1>5, <1>6, <1>7, <1>8 DEF Notify

LEMMA TypeCall ==
  ASSUME TypeOK, HandsOK, NEW c \in Clients,
         Call(c) \/ Refresh(c) \/ \E d \in Domains : UseLink(c, d)
  PROVE  TypeOK' /\ HandsOK'
<1> DEFINE Steps(r) == r \in Calls /\ CallOK(r) /\ cl' = [cl EXCEPT ![c] = r]
           Rest == /\ UNCHANGED <<phase, nt, rt>>
                   /\ \A k \in Links : peer[k] \in Elems => peer'[k] \in Elems
<1> USE SomeElems DEF netVars, countVars, histVars, At
<1>1. cl[c] \in Calls /\ CallOK(cl[c]) /\ Idle \in Calls /\ CallOK(Idle)
  BY DEF TypeOK, HandsOK, Calls, Idle, CallOK
<1>2. ASSUME NEW r, Steps(r), Rest
      PROVE  cl' \in [Clients -> Calls] /\ HandsOK'
  <2>1. cl' \in [Clients -> Calls] /\ \A x \in Clients : CallOK(cl'[x])
    BY <1>2, CallFact
  <2> QED
    BY <1>2, <2>1 DEF HandsOK, PassOK, TypeOK
<1> HIDE DEF Steps, Rest
<1>4. CASE Connect(c)
  <2>1. PICK k \in Links :
          Create(k, cl[c].d) /\ cl' = [cl EXCEPT ![c].link = k, ![c].at = "auth"]
    BY <1>4 DEF Connect
  <2>2. cl[c].d \in Elems /\ cl[c].d \in Domains
    BY <1>1, <1>4 DEF Connect, CallOK
  <2>3. /\ peer' \in [Links -> Elems \cup {None}] /\ up' \subseteq Links /\ lost' \subseteq Links \ up'
        /\ unseen' \subseteq Links /\ peer' = [peer EXCEPT ![k] = cl[c].d]
    BY <2>1, <2>2, CreateFact
  <2>4. Steps([cl[c] EXCEPT !.link = k, !.at = "auth"])
    BY <1>1, <2>1, <2>2 DEF Calls, CallOK, TypeOK, Steps
  <2>5. Rest
    BY <1>4, <2>2, <2>3 DEF Connect, TypeOK, Rest
  <2>6. cl' \in [Clients -> Calls] /\ HandsOK'
    BY <1>2, <2>4, <2>5
  <2> QED
    BY <1>4, <2>2, <2>3, <2>6 DEF Connect, TypeOK, Calls
<1>5. CASE ConnectFails(c)
  <2>1. Steps([cl[c] EXCEPT !.at = "fail"])
    BY <1>1, <1>5 DEF ConnectFails, Calls, CallOK, Steps
  <2>2. Rest
    BY <1>5 DEF ConnectFails, DeleteByAddr, Rest
  <2>3. cl' \in [Clients -> Calls] /\ HandsOK'
    BY <1>2, <2>1, <2>2
  <2> QED
    BY <1>5, <2>3 DEF ConnectFails, DeleteByAddr, TypeOK, Calls
<1>6. CASE Accepted(c)
  <2>1. Steps([cl[c] EXCEPT !.at = "open"])
    BY <1>1, <1>6 DEF Accepted, Calls, CallOK, Steps
  <2>2. Rest
    BY <1>6 DEF Accepted, Rest
  <2>3. cl' \in [Clients -> Calls] /\ HandsOK'
    BY <1>2, <2>1, <2>2
  <2>4. UNCHANGED <<phase, route, known, list, clock, peer, up, lost, nt, rt, breaks,
                    refreshes, serving, gone, crowded, unseen>>
    BY <1>6 DEF Accepted
  <2> QED
    BY <2>3, <2>4 DEF TypeOK, Calls
<1>7. CASE Refused(c)
  <2>1. Steps([cl[c] EXCEPT !.at = "fail"])
    BY <1>1, <1>7 DEF Refused, Calls, CallOK, Steps
  <2>2. Rest
    BY <1>7 DEF Refused, Rest
  <2>3. cl' \in [Clients -> Calls] /\ HandsOK'
    BY <1>2, <2>1, <2>2
  <2> QED
    BY <1>7, <2>3 DEF Refused, TypeOK, Calls
<1>8. CASE LinkOpened(c)
  <2>1. cl[c].d \in Elems /\ Opened(cl[c].link) \in Routes /\ SetRoute(cl[c].d, Opened(cl[c].link))
    BY <1>1, <1>8 DEF LinkOpened, Opened, Routes, CallOK
  <2>2. route' \in [Elems -> Routes] /\ Steps(Idle)
    BY <1>1, <1>8, <2>1, SetRouteFact DEF LinkOpened, Steps
  <2>3. Rest
    BY <1>8 DEF LinkOpened, Rest
  <2>4. cl' \in [Clients -> Calls] /\ HandsOK'
    BY <1>2, <2>2, <2>3
  <2> QED
    BY <1>8, <2>2, <2>4 DEF LinkOpened, Routes, TypeOK, Calls
<1>9. CASE LinkFails(c)
  <2>1. /\ cl[c].d \in Elems /\ [status |-> "closed", link |-> None] \in Routes
        /\ SetRoute(cl[c].d, [status |-> "closed", link |-> None])
    BY <1>1, <1>9 DEF LinkFails, Routes, CallOK
  <2>2. route' \in [Elems -> Routes]
    BY <2>1, SetRouteFact
  <2>3. Steps([cl[c] EXCEPT !.at = "add"])
    BY <1>1, <1>9 DEF LinkFails, Calls, CallOK, Steps
  <2>4. Rest
    BY <1>9 DEF LinkFails, Rest
  <2>5. cl' \in [Clients -> Calls] /\ HandsOK'
    BY <1>2, <2>3, <2>4
  <2>6. UNCHANGED <<phase, known, list, clock, peer, up, lost, nt, rt, breaks, refreshes,
                    serving, gone, crowded, unseen>>
    BY <1>9 DEF LinkFails
  <2> QED
    BY <2>2, <2>5, <2>6 DEF Routes, TypeOK, Calls
<1>10. CASE AddFailed(c)
  <2>1. cl[c].d \in Elems /\ Steps(Idle)
    BY <1>1, <1>10 DEF AddFailed, CallOK, Steps
  <2>2. list' \in Seq(Elems) /\ IsInjective(list')
    BY <1>10, <2>1, ListingFact DEF AddFailed, TypeOK
  <2>3. Rest
    BY <1>10 DEF AddFailed, Rest
  <2>4. cl' \in [Clients -> Calls] /\ HandsOK'
    BY <1>2, <2>1, <2>3
  <2> QED
    BY <1>10, <2>1, <2>2, <2>4 DEF AddFailed, TypeOK, Calls
<1>11. CASE EraseRoute(c)
  <2>1. \E d : Steps([cl[c] EXCEPT !.at = "insert", !.todo = @ \ {d}])
    BY <1>1, <1>11 DEF EraseRoute, Calls, CallOK, Steps
  <2>2. Rest
    BY <1>11 DEF EraseRoute, Rest
  <2>3. cl' \in [Clients -> Calls] /\ HandsOK'
    BY <1>2, <2>1, <2>2
  <2>4. /\ known' \subseteq known
        /\ UNCHANGED <<phase, route, list, clock, peer, up, lost, nt, rt, breaks, refreshes,
                       serving, gone, crowded, unseen>>
    BY <1>11 DEF EraseRoute
  <2> QED
    BY <2>3, <2>4 DEF TypeOK, Calls
<1>12. CASE InsertRoute(c)
  <2>1. \/ Steps([cl[c] EXCEPT !.at = "erase"])
        \/ Steps([cl[c] EXCEPT !.at = "publish", !.todo = Domains \ {Home}])
    BY <1>1, <1>12 DEF InsertRoute, Calls, CallOK, Steps
  <2>2. Rest
    BY <1>12 DEF InsertRoute, Rest
  <2>3. cl' \in [Clients -> Calls] /\ HandsOK'
    BY <1>2, <2>1, <2>2
  <2> QED
    BY <1>12, <2>3 DEF InsertRoute, TypeOK, Calls
<1>13. CASE Publish(c)
  <2>1. CASE cl[c].todo = {}
    <3>1. Steps(Idle)
      BY <1>1, <1>13, <2>1 DEF Publish, Steps
    <3>2. Rest
      BY <1>13, <2>1 DEF Publish, Rest
    <3>3. cl' \in [Clients -> Calls] /\ HandsOK'
      BY <1>2, <3>1, <3>2
    <3> QED
      BY <1>13, <2>1, <3>3 DEF Publish, TypeOK, Calls
  <2>2. CASE cl[c].todo # {}
    <3> DEFINE d == CHOOSE d \in cl[c].todo : TRUE
    <3>1. d \in Elems
      BY <1>1, <2>2 DEF Calls
    <3> HIDE DEF d
    <3>2. cl' = [cl EXCEPT ![c].todo = @ \ {d}]
      BY <1>13, <2>2 DEF Publish, d
    <3>3. \E r \in {Enabled, [status |-> "closed", link |-> None]} :
            route' = [route EXCEPT ![d] = IF @.status = "none" THEN r ELSE @]
      BY <1>13, <2>2 DEF Publish, d
    <3>4. route' \in [Elems -> Routes]
      BY <3>1, <3>3 DEF Enabled, Routes, TypeOK
    <3>5. list' \in Seq(Elems) /\ IsInjective(list')
      <4>1. list' = list \/ list' = Listing(d)
        BY <1>13, <2>2 DEF Publish, d
      <4> QED
        BY <3>1, <4>1, ListingFact DEF TypeOK
    <3>6. Steps([cl[c] EXCEPT !.todo = @ \ {d}])
      BY <1>1, <3>2 DEF Calls, CallOK, Steps
    <3>7. Rest
      BY <1>13, <2>2 DEF Publish, Rest
    <3>8. cl' \in [Clients -> Calls] /\ HandsOK'
      BY <1>2, <3>6, <3>7
    <3> QED
      BY <1>13, <3>4, <3>5, <3>8 DEF Publish, Routes, TypeOK, Calls
  <2> QED
    BY <2>1, <2>2
<1>14. CASE Refresh(c)
  <2>1. Steps([Idle EXCEPT !.at = "erase", !.todo = Domains])
    BY <1>14 DEF Refresh, Calls, CallOK, Idle, Steps
  <2>2. refreshes' \in 0..MaxRefresh
    BY <1>14, LinkAssumption DEF Refresh, TypeOK
  <2>3. Rest
    BY <1>14 DEF Refresh, Rest
  <2>4. cl' \in [Clients -> Calls] /\ HandsOK'
    BY <1>2, <2>1, <2>3
  <2> QED
    BY <1>14, <2>2, <2>4 DEF Refresh, TypeOK, Calls
<1>15. ASSUME NEW d \in Domains, UseLink(c, d) PROVE TypeOK' /\ HandsOK'
  <2>1. Steps([Idle EXCEPT !.at = "connect", !.d = d])
    BY <1>15 DEF UseLink, Calls, CallOK, Idle, Steps
  <2>2. Rest
    BY <1>15 DEF UseLink, Rest
  <2>3. cl' \in [Clients -> Calls] /\ HandsOK'
    BY <1>2, <2>1, <2>2
  <2>4. /\ crowded' \subseteq Elems
        /\ UNCHANGED <<phase, route, known, list, clock, peer, up, lost, nt, rt, breaks,
                       refreshes, serving, gone, unseen>>
    BY <1>15 DEF UseLink, Crowding, TypeOK
  <2> QED
    BY <2>3, <2>4 DEF TypeOK, Calls
<1> QED
  BY <1>4, <1>5, <1>6, <1>7, <1>8, <1>9, <1>10, <1>11, <1>12, <1>13, <1>14, <1>15 DEF Call

Passes == [at : {"idle", "next", "connect", "login", "refresh", "update", "done", "back"},
           todo : Seq(Elems), cur : Elems \cup {None}, link : Links \cup {None},
           ret : {"none", "ok", "needmod", "refused", "first", "password", "restarted"},
           failed : Seq(Elems)]

LEMMA TypeRelink ==
  ASSUME TypeOK, HandsOK, Relink
  PROVE  TypeOK' /\ HandsOK'
<1> DEFINE Rest == /\ UNCHANGED <<phase, known, nt, cl, breaks, refreshes, serving>>
                   /\ peer' = peer \/ \E k \in Links, e \in Elems : peer' = [peer EXCEPT ![k] = e]
           Data == /\ route' \in [Elems -> Routes] /\ list' \in Seq(Elems) /\ IsInjective(list')
                   /\ clock' \in {"off", "on", "long"} /\ up' \subseteq Links
                   /\ lost' \subseteq Links \ up' /\ unseen' \subseteq Links
                   /\ gone' \subseteq Elems /\ crowded' \subseteq Elems
           Goes(r) == r \in Passes /\ PassOK(r) /\ rt' = r
           same == <<route, list, clock, peer, up, lost, gone, crowded, unseen>>
<1> USE SomeElems DEF netVars, countVars, histVars, RtAt
<1>1. /\ rt \in Passes /\ PassOK(rt) /\ Resting \in Passes
      /\ rt.todo \in Seq(Elems) /\ rt.failed \in Seq(Elems)
  BY EmptyFact DEF TypeOK, HandsOK, Passes, PassOK, Resting
<1>2. ASSUME NEW r, Goes(r), Rest, Data PROVE TypeOK' /\ HandsOK'
  <2>1. peer' \in [Links -> Elems \cup {None}]
    <3>1. peer \in [Links -> Elems \cup {None}]
      BY DEF TypeOK
    <3> QED
      BY <1>2, <3>1
  <2>2. TypeOK'
    BY <1>2, <2>1 DEF TypeOK, Passes, Routes
  <2> QED
    BY <1>2, <2>2 DEF TypeOK, HandsOK, PassOK
<1>3. ASSUME UNCHANGED same PROVE Data
  BY <1>3 DEF TypeOK, Routes
<1>4. rt.todo # <<>> => Head(rt.todo) \in Elems /\ Tail(rt.todo) \in Seq(Elems)
  BY <1>1, TailFact
<1>5. rt.failed # <<>> => Head(rt.failed) \in Elems /\ Tail(rt.failed) \in Seq(Elems)
  BY <1>1, TailFact
<1> HIDE DEF Rest, Data, Goes
<1>6. CASE Trigger
  <2>1. Goes([Resting EXCEPT !.at = "next", !.todo = list])
    BY <1>1, <1>6 DEF Trigger, Passes, PassOK, Resting, TypeOK, Goes
  <2>2. Rest /\ Data
    BY <1>6, EmptyFact DEF Trigger, Rest, Data, TypeOK, Routes
  <2> QED
    BY <1>2, <2>1, <2>2
<1>7. CASE PassEnds
  <2>1. Goes([Resting EXCEPT !.at = "back", !.failed = rt.failed])
    BY <1>1, <1>7 DEF PassEnds, Passes, PassOK, Resting, Goes
  <2>2. Rest /\ UNCHANGED same
    BY <1>7 DEF PassEnds, Rest
  <2> QED
    BY <1>2, <1>3, <2>1, <2>2
<1>8. CASE Drop
  <2>1. Goes([rt EXCEPT !.todo = Tail(rt.todo)])
    BY <1>1, <1>4, <1>8 DEF Drop, Passes, PassOK, Resting, Goes
  <2>2. Rest /\ Data
    BY <1>4, <1>8 DEF Drop, Rest, Data, TypeOK, Routes
  <2> QED
    BY <1>2, <2>1, <2>2
<1>9. CASE Take
  <2>1. Goes([rt EXCEPT !.at = "connect", !.cur = Head(rt.todo), !.todo = Tail(rt.todo)])
    BY <1>1, <1>4, <1>9 DEF Take, Passes, PassOK, Resting, Goes
  <2>2. Rest /\ Data
    BY <1>4, <1>9 DEF Take, Crowding, Rest, Data, TypeOK, Routes
  <2> QED
    BY <1>2, <2>1, <2>2
<1>10. CASE NotFound
  <2>1. Goes([rt EXCEPT !.at = "done", !.ret = "refused"])
    BY <1>1, <1>10 DEF NotFound, Passes, PassOK, Goes
  <2>2. Rest /\ UNCHANGED same
    BY <1>10 DEF NotFound, Rest
  <2> QED
    BY <1>2, <1>3, <2>1, <2>2
<1>11. CASE RtConnect
  <2>1. PICK k \in Links : Create(k, rt.cur) /\ rt' = [rt EXCEPT !.at = "login", !.link = k]
    BY <1>11 DEF RtConnect
  <2>2. rt.cur \in Elems
    BY <1>1, <1>11 DEF RtConnect, PassOK
  <2>3. /\ peer' = [peer EXCEPT ![k] = rt.cur] /\ up' \subseteq Links
        /\ lost' \subseteq Links \ up' /\ unseen' \subseteq Links
    BY <2>1, <2>2, CreateFact
  <2>4. Goes([rt EXCEPT !.at = "login", !.link = k])
    BY <1>1, <2>1, <2>2 DEF Passes, PassOK, Goes
  <2>5. Rest /\ Data
    BY <1>11, <2>2, <2>3 DEF RtConnect, Started, Rest, Data, TypeOK, Routes
  <2> QED
    BY <1>2, <2>4, <2>5
<1>12. CASE RtConnectFails
  <2>1. Goes([rt EXCEPT !.at = "done", !.ret = "refused"])
    BY <1>1, <1>12 DEF RtConnectFails, Passes, PassOK, Goes
  <2>2. Rest /\ Data
    BY <1>12 DEF RtConnectFails, DeleteByAddr, Started, Rest, Data, TypeOK, Routes
  <2> QED
    BY <1>2, <2>1, <2>2
<1>13. CASE LoggedIn
  <2>1. PICK r \in Welcome : rt' = [rt EXCEPT !.ret = r,
                                  !.at = IF rt.cur \in {Home, Omu} THEN "refresh" ELSE "update"]
    BY <1>13 DEF LoggedIn
  <2>2. r \in {"ok", "needmod"}
    BY <2>1 DEF Welcome
  <2>3. Goes(rt')
    BY <1>1, <1>13, <2>1, <2>2 DEF LoggedIn, Passes, PassOK, Goes
  <2>4. Rest /\ UNCHANGED same
    BY <1>13 DEF LoggedIn, Rest
  <2> QED
    BY <1>2, <1>3, <2>3, <2>4
<1>14. CASE LoginFails
  <2>1. PICK r \in Denials :
          rt' = [rt EXCEPT !.ret = r, !.at = IF r = "first" THEN "update" ELSE "done"]
    BY <1>14 DEF LoginFails
  <2>2. r \in {"refused", "first", "password", "restarted"}
    BY <2>1 DEF Denials
  <2>3. Goes(rt')
    BY <1>1, <1>14, <2>1, <2>2 DEF LoginFails, Passes, PassOK, Goes
  <2>4. Rest /\ Data
    BY <1>14 DEF LoginFails, Rest, Data, TypeOK, Routes
  <2> QED
    BY <1>2, <2>3, <2>4
<1>15. CASE RefreshLink \/ UpdateLink
  <2>1. rt.cur \in Elems /\ Opened(rt.link) \in Routes /\ SetRoute(rt.cur, Opened(rt.link))
    BY <1>1, <1>15 DEF RefreshLink, UpdateLink, PassOK, Opened, Routes
  <2>2. route' \in [Elems -> Routes]
    BY <2>1, SetRouteFact
  <2>3. \E at \in {"update", "done"} : rt' = [rt EXCEPT !.at = at]
    BY <1>15 DEF RefreshLink, UpdateLink
  <2>4. Goes(rt')
    BY <1>1, <1>15, <2>3 DEF RefreshLink, UpdateLink, Passes, PassOK, Goes
  <2>5. Rest /\ Data
    BY <1>15, <2>2 DEF RefreshLink, UpdateLink, Rest, Data, TypeOK, Routes
  <2> QED
    BY <1>2, <2>4, <2>5
<1>16. CASE Relinked
  <2>1. Goes([Resting EXCEPT !.at = "next", !.todo = rt.todo, !.failed = rt.failed])
    BY <1>1, <1>16 DEF Relinked, NextItem, Passes, PassOK, Resting, Goes
  <2>2. Rest /\ Data
    BY <1>1, <1>16 DEF Relinked, Abandoned, Rest, Data, TypeOK, Routes, PassOK
  <2> QED
    BY <1>2, <2>1, <2>2
<1>17. CASE GiveUp
  <2>1. Goes([Resting EXCEPT !.at = "next", !.todo = rt.todo, !.failed = rt.failed])
    BY <1>1, <1>17 DEF GiveUp, NextItem, Passes, PassOK, Resting, Goes
  <2>2. Rest /\ Data
    BY <1>17 DEF GiveUp, DeleteByAddr, Rest, Data, TypeOK, Routes
  <2> QED
    BY <1>2, <2>1, <2>2
<1>18. CASE RelinkFails
  <2>1. rt.cur \in Elems /\ Append(rt.failed, rt.cur) \in Seq(Elems)
    BY <1>1, <1>18, AppendFact DEF RelinkFails, PassOK
  <2>2. Goes([Resting EXCEPT !.at = "next", !.todo = rt.todo, !.failed = Append(rt.failed, rt.cur)])
    BY <1>1, <1>18, <2>1 DEF RelinkFails, NextItem, Passes, PassOK, Resting, Goes
  <2>3. Rest /\ Data
    BY <1>18 DEF RelinkFails, DeleteByAddr, Rest, Data, TypeOK, Routes
  <2> QED
    BY <1>2, <2>2, <2>3
<1>19. CASE BackToList
  <2>1. Goes([rt EXCEPT !.failed = Tail(rt.failed)])
    BY <1>1, <1>5, <1>19 DEF BackToList, Passes, PassOK, Goes
  <2>2. list' \in Seq(Elems) /\ IsInjective(list')
    BY <1>5, <1>19, ListingFact DEF BackToList
  <2>3. Rest /\ Data
    BY <1>19, <2>2 DEF BackToList, Rest, Data, TypeOK, Routes
  <2> QED
    BY <1>2, <2>1, <2>3
<1>20. CASE PassDone
  <2>1. Goes(Resting)
    BY <1>1, <1>20 DEF PassDone, PassOK, Resting, Goes
  <2>2. Rest /\ UNCHANGED same
    BY <1>20 DEF PassDone, Rest
  <2> QED
    BY <1>2, <1>3, <2>1, <2>2
<1> QED
  BY <1>6, <1>7, <1>8, <1>9, <1>10, <1>11, <1>12, <1>13, <1>14, <1>15, <1>16, <1>17, <1>18,
     <1>19, <1>20 DEF Relink
-----------------------------------------------------------------------------
(* Links lead where the routes say.                                        *)

\* A new link leads to its element, and is none of the others.
LEMMA CreateKeepsPeers ==
  ASSUME TypeOK, HandsOK, PeersOK, NEW k \in Links, NEW e \in Elems, Create(k, e)
  PROVE  /\ peer'[k] = e
         /\ \A x \in up' \cup lost' : peer'[x] \in Elems
         /\ \A x \in Elems : route[x].link # None => peer'[route[x].link] = x
         /\ rt.at \in {"login", "refresh", "update"} => peer'[rt.link] = rt.cur
         /\ \A c \in Clients : cl[c].at \in {"auth", "open"} => peer'[cl[c].link] = cl[c].d
         /\ nt.link \in Links => peer'[nt.link] = peer[nt.link]
<1>1. /\ peer' = [peer EXCEPT ![k] = e] /\ up' = up \cup {k} /\ lost' = lost
      /\ up \cup lost \subseteq Links /\ peer \in [Links -> Elems \cup {None}]
  BY DEF TypeOK, Create
<1>2. \A x \in Elems : route[x].link # k
  BY CreateFact DEF Held
<1>3. nt.link # k /\ rt.link # k /\ \A c \in Clients : cl[c].link # k
  BY CreateFact DEF Held
<1>4. \A x \in Elems : route[x].link \in Links \cup {None}
  BY DEF TypeOK
<1>5. \A c \in Clients : cl[c].at \in {"auth", "open"} => cl[c].link \in Links
  BY DEF HandsOK, CallOK
<1> QED
  BY <1>1, <1>2, <1>3, <1>4, <1>5 DEF PeersOK, HandsOK, PassOK

\* A step that creates no link keeps PeersOK if what it puts into a route leads there.
LEMMA PeersFrame ==
  ASSUME PeersOK, peer' = peer, up' \cup lost' \subseteq up \cup lost,
         \A e \in Elems : \/ route'[e].link \in {route[e].link, None}
                         \/ peer[route'[e].link] = e,
         rt'.at \in {"login", "refresh", "update"} =>
           rt.at \in {"login", "refresh", "update"} /\ rt'.link = rt.link /\ rt'.cur = rt.cur,
         \A c \in Clients : cl'[c].at \in {"auth", "open"} =>
           cl[c].at \in {"auth", "open"} /\ cl'[c].link = cl[c].link /\ cl'[c].d = cl[c].d
  PROVE  PeersOK'
  BY DEF PeersOK

LEMMA PeersNotify ==
  ASSUME TypeOK, HandsOK, PeersOK,
         \/ ServersAnswer \/ Notify \/ TenMinutes \/ Logout \/ LoggedOut
         \/ \E k \in Links : Break(k)
  PROVE  PeersOK'
<1> USE DEF netVars, countVars, histVars
<1> DEFINE Keeps == /\ UNCHANGED <<peer, rt, cl>> /\ up' \cup lost' \subseteq up \cup lost
                    /\ \A e \in Elems : route'[e].link \in {route[e].link, None}
<1>1. Keeps
  <2>1. ASSUME NEW k \in Links, LinkClosed(k) PROVE Keeps
    BY <2>1 DEF LinkClosed, TypeOK
  <2>2. CASE FindSession \/ AddClosed \/ ServersAnswer \/ TenMinutes \/ Logout
    BY <2>2 DEF FindSession, AddClosed, ServersAnswer, TenMinutes, Logout
  <2>3. CASE LoggedOut
    BY <2>3 DEF LoggedOut, NoRoute
  <2>4. ASSUME NEW k \in Links, Break(k) PROVE Keeps
    BY <2>4 DEF Break
  <2> QED
    BY <2>1, <2>2, <2>3, <2>4 DEF Notify
<1> QED
  BY <1>1, PeersFrame

\* A refresh publishes routes without links, and lists those that are closed.
LEMMA PublishFact ==
  ASSUME TypeOK, NEW c \in Clients, Publish(c)
  PROVE  /\ \A x : Contains(list, x) => Contains(list', x)
         /\ \A e \in Elems : \/ route'[e] = route[e]
                            \/ /\ route'[e].link = None
                               /\ route'[e].status = "closed" => Contains(list', e)
<1>1. CASE cl[c].todo = {}
  BY <1>1 DEF Publish
<1>2. CASE cl[c].todo # {}
  <2> DEFINE d == CHOOSE d \in cl[c].todo : TRUE
             shut == [status |-> "closed", link |-> None]
  <2>1. d \in Elems
    BY <1>2, SomeElems DEF TypeOK
  <2> HIDE DEF d
  <2>2. \/ /\ route' = [route EXCEPT ![d] = IF @.status = "none" THEN Enabled ELSE @]
           /\ list' = list
        \/ /\ route' = [route EXCEPT ![d] = IF @.status = "none" THEN shut ELSE @]
           /\ list' = Listing(d)
    BY <1>2 DEF Publish, d
  <2> QED
    BY <2>1, <2>2, ListingFact DEF Enabled, TypeOK
<1> QED
  BY <1>1, <1>2

\* Where a client goes.
LEMMA CallMoves ==
  ASSUME TypeOK, NEW c \in Clients,
         Call(c) \/ Refresh(c) \/ \E d \in Domains : UseLink(c, d)
  PROVE  /\ \A x \in Clients : x # c => cl'[x] = cl[x]
         /\ cl[c].at = "add" => AddFailed(c)
         /\ cl'[c].at = "add" => LinkFails(c) /\ cl'[c].d = cl[c].d
         /\ cl'[c].at = "auth" => Connect(c)
         /\ cl'[c].at = "open" =>
              cl[c].at = "auth" /\ cl'[c].link = cl[c].link /\ cl'[c].d = cl[c].d
<1> DEFINE Goes == /\ \A x \in Clients : x # c => cl'[x] = cl[x]
                   /\ cl[c].at = "add" => AddFailed(c)
                   /\ cl'[c].at = "add" => LinkFails(c) /\ cl'[c].d = cl[c].d
                   /\ cl'[c].at = "auth" => Connect(c)
                   /\ cl'[c].at = "open" =>
                        cl[c].at = "auth" /\ cl'[c].link = cl[c].link /\ cl'[c].d = cl[c].d
<1>1. cl \in [Clients -> Calls] /\ cl[c] \in Calls
  BY DEF TypeOK, Calls
<1> USE DEF At
<1>2. CASE Connect(c)
  BY <1>1, <1>2 DEF Connect, Calls
<1>3. CASE ConnectFails(c)
  BY <1>1, <1>3 DEF ConnectFails, Calls
<1>4. CASE Accepted(c)
  BY <1>1, <1>4 DEF Accepted, Calls
<1>5. CASE Refused(c)
  BY <1>1, <1>5 DEF Refused, Calls
<1>6. CASE LinkOpened(c)
  BY <1>1, <1>6 DEF LinkOpened, Idle, Calls
<1>7. CASE LinkFails(c)
  BY <1>1, <1>7 DEF LinkFails, Calls
<1>8. CASE AddFailed(c)
  BY <1>1, <1>8 DEF AddFailed, Idle, Calls
<1>9. CASE EraseRoute(c)
  BY <1>1, <1>9 DEF EraseRoute, Calls
<1>10. CASE InsertRoute(c)
  BY <1>1, <1>10 DEF InsertRoute, Calls
<1>11. CASE Publish(c)
  BY <1>1, <1>11 DEF Publish, Idle, Calls
<1>12. CASE Refresh(c)
  BY <1>1, <1>12 DEF Refresh, Idle, Calls
<1>13. ASSUME NEW d \in Domains, UseLink(c, d) PROVE Goes
  BY <1>1, <1>13 DEF UseLink, Idle, Calls
<1> QED
  BY <1>2, <1>3, <1>4, <1>5, <1>6, <1>7, <1>8, <1>9, <1>10, <1>11, <1>12, <1>13 DEF Call

LEMMA PeersCall ==
  ASSUME TypeOK, HandsOK, PeersOK, NEW c \in Clients,
         Call(c) \/ Refresh(c) \/ \E d \in Domains : UseLink(c, d)
  PROVE  PeersOK'
<1> USE SomeElems DEF netVars, countVars, histVars, At
<1>1. /\ cl \in [Clients -> Calls] /\ route \in [Elems -> Routes]
      /\ CallOK(cl[c])
      /\ cl[c].at \in {"auth", "open"} => peer[cl[c].link] = cl[c].d
  BY DEF TypeOK, HandsOK, PeersOK, Calls, Routes
<1>2. CASE Connect(c)
  <2>1. PICK k \in Links :
          Create(k, cl[c].d) /\ cl' = [cl EXCEPT ![c].link = k, ![c].at = "auth"]
    BY <1>2 DEF Connect
  <2>2. cl[c].d \in Elems
    BY <1>1, <1>2 DEF Connect, CallOK
  <2>3. UNCHANGED <<route, rt>> /\ peer'[k] = cl[c].d
    BY <1>2, <2>1, <2>2, CreateKeepsPeers DEF Connect
  <2>4. \A x \in Clients : IF x = c THEN cl'[x].link = k /\ cl'[x].d = cl[c].d ELSE cl'[x] = cl[x]
    BY <1>1, <2>1 DEF Calls
  <2> QED
    BY <2>1, <2>2, <2>3, <2>4, CreateKeepsPeers DEF PeersOK
<1>3. CASE ~Connect(c)
  <2>1. /\ UNCHANGED <<peer, rt>> /\ up' \cup lost' \subseteq up \cup lost
    BY <1>3 DEF Call, ConnectFails, DeleteByAddr, Accepted, Refused, LinkOpened, LinkFails,
       AddFailed, EraseRoute, InsertRoute, Publish, Refresh, UseLink
  <2>2. \A e \in Elems : \/ route'[e].link \in {route[e].link, None}
                         \/ peer[route'[e].link] = e
    <3>1. CASE LinkOpened(c)
      BY <1>1, <3>1, SetRouteFact DEF LinkOpened, SetRoute, Opened, CallOK
    <3>2. CASE LinkFails(c)
      BY <1>1, <3>2 DEF LinkFails, SetRoute, CallOK, Routes
    <3>3. CASE Publish(c)
      BY <3>3, PublishFact
    <3>4. CASE ~(LinkOpened(c) \/ LinkFails(c) \/ Publish(c))
      BY <1>3, <3>4 DEF Call, ConnectFails, Accepted, Refused, AddFailed, EraseRoute, InsertRoute,
         Refresh, UseLink
    <3> QED
      BY <3>1, <3>2, <3>3, <3>4
  <2>3. \A x \in Clients : cl'[x].at \in {"auth", "open"} =>
           cl[x].at \in {"auth", "open"} /\ cl'[x].link = cl[x].link /\ cl'[x].d = cl[x].d
    BY <1>3, CallMoves
  <2> QED
    BY <2>1, <2>2, <2>3, PeersFrame
<1> QED
  BY <1>2, <1>3

\* Where the relink thread goes, of the steps that do not belong to a login.
LEMMA PassMoves ==
  ASSUME TypeOK, Trigger \/ PassEnds \/ Drop \/ Take \/ NotFound \/ RtConnectFails \/ Relinked
                   \/ GiveUp \/ RelinkFails \/ BackToList \/ PassDone
  PROVE  /\ rt'.at \notin {"login", "refresh", "update"}
         /\ UNCHANGED <<peer, cl, route, nt>> /\ up' \subseteq up /\ UNCHANGED <<lost, phase>>
<1>1. rt \in Passes
  BY DEF TypeOK, Passes
<1> USE DEF netVars, countVars, histVars, RtAt
<1>2. CASE Trigger
  BY <1>1, <1>2 DEF Trigger, Resting, Passes
<1>3. CASE PassEnds
  BY <1>1, <1>3 DEF PassEnds, Resting, Passes
<1>4. CASE Drop
  BY <1>1, <1>4 DEF Drop, Passes
<1>5. CASE Take
  BY <1>1, <1>5 DEF Take, Passes
<1>6. CASE NotFound
  BY <1>1, <1>6 DEF NotFound, Passes
<1>7. CASE RtConnectFails
  BY <1>1, <1>7 DEF RtConnectFails, DeleteByAddr, Passes
<1>8. CASE Relinked
  BY <1>1, <1>8 DEF Relinked, NextItem, Resting, Passes
<1>9. CASE GiveUp
  BY <1>1, <1>9 DEF GiveUp, NextItem, Resting, DeleteByAddr, Passes
<1>10. CASE RelinkFails
  BY <1>1, <1>10 DEF RelinkFails, NextItem, Resting, DeleteByAddr, Passes
<1>11. CASE BackToList
  BY <1>1, <1>11 DEF BackToList, Passes
<1>12. CASE PassDone
  BY <1>1, <1>12 DEF PassDone, Resting, Passes
<1> QED
  BY <1>2, <1>3, <1>4, <1>5, <1>6, <1>7, <1>8, <1>9, <1>10, <1>11, <1>12

LEMMA PeersRelink ==
  ASSUME TypeOK, HandsOK, PeersOK, Relink
  PROVE  PeersOK'
<1> USE SomeElems DEF netVars, countVars, histVars, RtAt
<1>1. /\ rt \in Passes /\ PassOK(rt) /\ route \in [Elems -> Routes]
      /\ rt.at \in {"login", "refresh", "update"} => peer[rt.link] = rt.cur
  BY DEF TypeOK, HandsOK, PeersOK, Passes, Routes
<1>2. CASE RtConnect
  <2>1. PICK k \in Links : Create(k, rt.cur) /\ rt' = [rt EXCEPT !.at = "login", !.link = k]
    BY <1>2 DEF RtConnect
  <2>2. rt.cur \in Elems
    BY <1>1, <1>2 DEF RtConnect, PassOK
  <2>3. UNCHANGED <<route, cl>> /\ peer'[k] = rt.cur /\ rt'.link = k /\ rt'.cur = rt.cur
    BY <1>1, <1>2, <2>1, <2>2, CreateKeepsPeers DEF RtConnect, Passes
  <2> QED
    BY <2>1, <2>2, <2>3, CreateKeepsPeers DEF PeersOK
<1>3. CASE RefreshLink \/ UpdateLink
  <2>1. SetRoute(rt.cur, Opened(rt.link)) /\ peer[rt.link] = rt.cur /\ rt.cur \in Elems
    BY <1>1, <1>3 DEF RefreshLink, UpdateLink, PassOK
  <2>2. \A e \in Elems : route'[e].link \in {route[e].link, None} \/ peer[route'[e].link] = e
    BY <1>1, <2>1 DEF SetRoute, Opened
  <2>3. UNCHANGED <<peer, up, lost, cl>> /\ \E at : rt' = [rt EXCEPT !.at = at]
    BY <1>3 DEF RefreshLink, UpdateLink
  <2>4. rt'.link = rt.link /\ rt'.cur = rt.cur /\ rt.at \in {"login", "refresh", "update"}
    BY <1>1, <1>3, <2>3 DEF Passes, RefreshLink, UpdateLink
  <2> QED
    BY <2>2, <2>3, <2>4, PeersFrame
<1>4. CASE LoggedIn \/ LoginFails
  <2>1. UNCHANGED <<peer, cl, route>> /\ up' \cup lost' \subseteq up \cup lost
    BY <1>4 DEF LoggedIn, LoginFails
  <2>2. \E at, r : rt' = [rt EXCEPT !.ret = r, !.at = at]
    BY <1>4 DEF LoggedIn, LoginFails
  <2>3. rt'.link = rt.link /\ rt'.cur = rt.cur /\ rt.at = "login"
    BY <1>1, <1>4, <2>2 DEF Passes, LoggedIn, LoginFails
  <2> QED
    BY <2>1, <2>3, PeersFrame
<1>5. CASE ~(RtConnect \/ RefreshLink \/ UpdateLink \/ LoggedIn \/ LoginFails)
  BY <1>5, PassMoves, PeersFrame DEF Relink
<1> QED
  BY <1>2, <1>3, <1>4, <1>5
-----------------------------------------------------------------------------
(* What is closed is remembered.                                           *)

LEMMA ClosedNotify ==
  ASSUME TypeOK, HandsOK, PeersOK, ClosedOK,
         \/ ServersAnswer \/ Notify \/ TenMinutes \/ Logout \/ LoggedOut
         \/ \E k \in Links : Break(k)
  PROVE  ClosedOK'
<1> USE DEF netVars, countVars, histVars, NtAt
<1>1. CASE \E k \in Links : LinkClosed(k)
  <2>1. PICK k \in Links : LinkClosed(k)
    BY <1>1
  <2>2. /\ nt.at = "idle" /\ nt' = [at |-> "find", link |-> k]
        /\ UNCHANGED <<phase, list, peer, rt, cl, gone>>
        /\ \A e \in Elems : route'[e] = IF route[e].link = k THEN [route[e] EXCEPT !.status = "closed"]
                                      ELSE route[e]
    BY <2>1 DEF LinkClosed
  <2>3. ASSUME NEW e \in Elems \ gone, phase = "in", route'[e].status = "closed"
        PROVE  Remembered(e)'
    <3>1. CASE route[e].link = k
      <4>1. route'[e].link = k /\ peer[k] = e
        BY <2>2, <3>1, SomeElems DEF PeersOK, TypeOK
      <4> QED
        BY <2>2, <4>1 DEF Remembered
    <3>2. CASE route[e].link # k
      <4>1. Remembered(e)
        BY <2>2, <2>3, <3>2 DEF ClosedOK
      <4> QED
        BY <2>2, <4>1 DEF Remembered, At
    <3> QED
      BY <3>1, <3>2
  <2> QED
    BY <2>2, <2>3 DEF ClosedOK
<1>2. CASE FindSession
  <2>1. /\ nt.at = "find" /\ UNCHANGED <<phase, route, list, peer, rt, cl, gone>>
        /\ \/ nt' = [nt EXCEPT !.at = "add"]
           \/ nt' = Silent /\ \A e \in Elems : route[e].link # nt.link
    BY <1>2 DEF FindSession
  <2>2. nt'.at = "add" => nt'.link = nt.link
    BY <2>1 DEF Silent, TypeOK
  <2> QED
    BY <2>1, <2>2 DEF ClosedOK, Remembered, At, Silent, TypeOK
<1>3. CASE AddClosed
  <2>1. /\ nt.at = "add" /\ nt' = Silent /\ list' = Listing(peer[nt.link])
        /\ UNCHANGED <<phase, route, peer, rt, cl, gone>>
    BY <1>3 DEF AddClosed
  <2>2. peer[nt.link] \in Elems
    BY <2>1 DEF HandsOK
  <2>3. Contains(list', peer[nt.link]) /\ \A x : Contains(list, x) => Contains(list', x)
    BY <2>1, <2>2, ListingFact
  <2> QED
    BY <2>1, <2>3 DEF ClosedOK, Remembered, At
<1>4. CASE ServersAnswer \/ TenMinutes \/ \E k \in Links : Break(k)
  BY <1>4 DEF ServersAnswer, TenMinutes, Break, ClosedOK, Remembered, At
<1>5. CASE Logout \/ LoggedOut
  BY <1>5 DEF Logout, LoggedOut, ClosedOK
<1> QED
  BY <1>1, <1>2, <1>3, <1>4, <1>5 DEF Notify

LEMMA ClosedCall ==
  ASSUME TypeOK, HandsOK, PeersOK, ClosedOK, NEW c \in Clients,
         Call(c) \/ Refresh(c) \/ \E d \in Domains : UseLink(c, d)
  PROVE  ClosedOK'
<1> USE DEF netVars, countVars, histVars, At
<1>1. /\ cl \in [Clients -> Calls] /\ route \in [Elems -> Routes] /\ CallOK(cl[c])
  BY DEF TypeOK, HandsOK, Calls, Routes
<1>2. /\ UNCHANGED <<phase, nt, rt>> /\ gone \subseteq gone'
  BY DEF Call, Connect, ConnectFails, Accepted, Refused, LinkOpened, LinkFails, AddFailed,
     EraseRoute, InsertRoute, Publish, Refresh, UseLink
<1>3. nt.at # "idle" => peer'[nt.link] = peer[nt.link]
  <2>1. CASE Connect(c)
    <3>1. PICK k \in Links : Create(k, cl[c].d)
      BY <2>1 DEF Connect
    <3>2. cl[c].d \in Elems
      BY <1>1, <2>1, SomeElems DEF Connect, CallOK
    <3> QED
      BY <3>1, <3>2, CreateKeepsPeers DEF HandsOK
  <2>2. CASE ~Connect(c)
    BY <2>2 DEF Call, ConnectFails, DeleteByAddr, Accepted, Refused, LinkOpened, LinkFails,
       AddFailed, EraseRoute, InsertRoute, Publish, Refresh, UseLink
  <2> QED
    BY <2>1, <2>2
<1>4. ASSUME \A e \in Elems \ gone' : \/ route'[e] = route[e] \/ route'[e].status # "closed"
                                     \/ Remembered(e)',
             \A x : Contains(list, x) => Contains(list', x),
             \A e \in Elems \ gone' :
               \A x \in Clients : cl[x].at = "add" /\ cl[x].d = e =>
                 Contains(list', e) \/ (cl'[x].at = "add" /\ cl'[x].d = e)
      PROVE  ClosedOK'
  <2> SUFFICES ASSUME phase = "in", NEW e \in Elems \ gone', route[e].status = "closed",
                      route'[e] = route[e]
               PROVE  Remembered(e)'
    BY <1>2, <1>4 DEF ClosedOK
  <2>1. Remembered(e)
    BY <1>2 DEF ClosedOK
  <2> QED
    BY <1>2, <1>3, <1>4, <2>1 DEF Remembered
<1>5. CASE AddFailed(c)
  <2>1. cl[c].d \in Elems
    BY <1>1, <1>5, SomeElems DEF AddFailed, CallOK
  <2>2. \/ list' = Listing(cl[c].d)
        \/ list' = list /\ cl[c].d \in gone'
    BY <1>5 DEF AddFailed
  <2>3. /\ \A x : Contains(list, x) => Contains(list', x)
        /\ Contains(list', cl[c].d) \/ cl[c].d \in gone'
    BY <2>1, <2>2, ListingFact
  <2>4. route' = route
    BY <1>5 DEF AddFailed
  <2> QED
    BY <1>4, <1>5, <2>3, <2>4, CallMoves
<1>6. CASE LinkFails(c)
  <2>1. /\ list' = list /\ cl[c].at = "fail" /\ cl[c].d \in Elems
        /\ SetRoute(cl[c].d, [status |-> "closed", link |-> None])
        /\ cl' = [cl EXCEPT ![c].at = "add"]
    BY <1>1, <1>6, SomeElems DEF LinkFails, CallOK
  <2>2. cl'[c].at = "add" /\ cl'[c].d = cl[c].d
    BY <1>1, <2>1 DEF Calls
  <2>3. \A e \in Elems : e # cl[c].d => route'[e] = route[e]
    BY <1>1, <2>1 DEF SetRoute
  <2>4. Remembered(cl[c].d)'
    BY <2>2 DEF Remembered
  <2> QED
    BY <1>4, <1>6, <2>1, <2>3, <2>4, CallMoves
<1>7. CASE LinkOpened(c)
  <2>1. list' = list /\ cl[c].at = "open" /\ SetRoute(cl[c].d, Opened(cl[c].link))
    BY <1>7 DEF LinkOpened
  <2>2. \A e \in Elems : route'[e] = route[e] \/ route'[e].status # "closed"
    BY <1>1, <2>1 DEF SetRoute, Opened
  <2> QED
    BY <1>4, <1>7, <2>1, <2>2, CallMoves
<1>8. CASE Publish(c)
  <2>1. \A e \in Elems : route'[e] = route[e] \/ route'[e].status # "closed" \/ Remembered(e)'
    BY <1>8, PublishFact DEF Remembered
  <2> QED
    BY <1>4, <1>8, <2>1, PublishFact, CallMoves DEF Publish
<1>9. CASE ~(AddFailed(c) \/ LinkFails(c) \/ LinkOpened(c) \/ Publish(c))
  <2>1. UNCHANGED <<route, list>>
    BY <1>9 DEF Call, Connect, ConnectFails, Accepted, Refused, EraseRoute, InsertRoute, Refresh,
       UseLink
  <2> QED
    BY <1>4, <1>9, <2>1, CallMoves
<1> QED
  BY <1>5, <1>6, <1>7, <1>8, <1>9

LEMMA ClosedRelink ==
  ASSUME TypeOK, HandsOK, PeersOK, ClosedOK, Relink
  PROVE  ClosedOK'
<1> DEFINE InHand(e) == rt.cur = e /\ ~(rt.at = "done" /\ rt.ret \in {"ok", "needmod"})
           Pass(e) == Contains(rt.todo, e) \/ Contains(rt.failed, e) \/ InHand(e)
<1> USE DEF netVars, countVars, histVars, RtAt
<1>1. /\ rt \in Passes /\ PassOK(rt) /\ route \in [Elems -> Routes]
      /\ rt.todo \in Seq(Elems) /\ rt.failed \in Seq(Elems)
  BY DEF TypeOK, HandsOK, Passes, Routes
<1>2. UNCHANGED <<phase, nt, cl>> /\ gone \subseteq gone'
  BY DEF Relink, Trigger, PassEnds, Drop, Take, NotFound, RtConnect, RtConnectFails, LoggedIn,
     LoginFails, RefreshLink, UpdateLink, Relinked, Abandoned, GiveUp, RelinkFails, BackToList, PassDone
<1>3. nt.at # "idle" => peer'[nt.link] = peer[nt.link]
  <2>1. CASE RtConnect
    <3>1. PICK k \in Links : Create(k, rt.cur)
      BY <2>1 DEF RtConnect
    <3>2. rt.cur \in Elems
      BY <1>1, <2>1 DEF RtConnect, PassOK
    <3> QED
      BY <3>1, <3>2, CreateKeepsPeers DEF HandsOK
  <2>2. CASE ~RtConnect
    BY <2>2, PassMoves DEF Relink, LoggedIn, LoginFails, RefreshLink, UpdateLink
  <2> QED
    BY <2>1, <2>2
<1>4. ASSUME \A e \in Elems \ gone' : route'[e] = route[e] \/ route'[e].status # "closed",
             \A e \in Elems \ gone' :
               phase = "in" /\ route'[e].status = "closed" /\ (Contains(list, e) \/ Pass(e)) =>
                 Contains(list', e) \/ Pass(e)'
      PROVE  ClosedOK'
  <2> SUFFICES ASSUME phase = "in", NEW e \in Elems \ gone', route[e].status = "closed",
                      route'[e] = route[e]
               PROVE  Remembered(e)'
    BY <1>2, <1>4 DEF ClosedOK
  <2>1. Remembered(e)
    BY <1>2 DEF ClosedOK
  <2> QED
    BY <1>2, <1>3, <1>4, <2>1 DEF Remembered, At
<1> DEFINE Passed == \A e \in Elems \ gone' :
             phase = "in" /\ route'[e].status = "closed" /\ (Contains(list, e) \/ Pass(e)) =>
               Contains(list', e) \/ Pass(e)'
<1> HIDE DEF Passed
<1>5. ASSUME route' = route, Passed PROVE ClosedOK'
  BY <1>4, <1>5 DEF Passed
<1>6. CASE Trigger
  <2>1. rt = Resting /\ rt'.todo = list /\ route' = route
    BY <1>1, <1>6 DEF Trigger, PassOK, Resting
  <2>2. Passed
    BY <2>1, EmptyFact, SomeElems DEF Passed, Resting
  <2> QED
    BY <1>5, <2>1, <2>2
<1>7. CASE PassEnds
  <2>1. /\ phase = "in" => rt.todo = <<>>
        /\ rt.cur = None /\ rt'.failed = rt.failed /\ UNCHANGED <<list, route>>
    BY <1>1, <1>7 DEF PassEnds, PassOK, Resting
  <2>2. Passed
    BY <2>1, EmptyFact, SomeElems DEF Passed
  <2> QED
    BY <1>5, <2>1, <2>2
<1>8. CASE Drop
  <2>1. /\ rt.at = "next" /\ rt.todo # <<>> /\ Head(rt.todo) \in gone' /\ UNCHANGED <<list, route>>
        /\ rt' = [rt EXCEPT !.todo = Tail(rt.todo)]
    BY <1>8 DEF Drop
  <2>2. /\ rt'.todo = Tail(rt.todo) /\ rt'.failed = rt.failed /\ rt.cur = None
    BY <1>1, <2>1 DEF Passes, PassOK
  <2>3. Passed
    BY <1>1, <2>1, <2>2, TailFact, SomeElems DEF Passed
  <2> QED
    BY <1>5, <2>1, <2>3
<1>9. CASE Take
  <2>1. /\ rt.at = "next" /\ rt.todo # <<>> /\ UNCHANGED <<list, route>>
        /\ rt' = [rt EXCEPT !.at = "connect", !.cur = Head(rt.todo), !.todo = Tail(rt.todo)]
    BY <1>9 DEF Take
  <2>2. /\ rt'.todo = Tail(rt.todo) /\ rt'.failed = rt.failed /\ rt.cur = None
        /\ rt'.cur = Head(rt.todo) /\ rt'.at = "connect"
    BY <1>1, <2>1 DEF Passes, PassOK
  <2>3. Passed
    BY <1>1, <2>1, <2>2, TailFact, SomeElems DEF Passed
  <2> QED
    BY <1>5, <2>1, <2>3
<1>10. CASE NotFound \/ RtConnect \/ RtConnectFails \/ LoggedIn \/ LoginFails
  <2>1. UNCHANGED <<list, route>>
    BY <1>10 DEF NotFound, RtConnect, RtConnectFails, LoggedIn, LoginFails
  <2>2. /\ UNCHANGED <<rt.todo, rt.failed, rt.cur>>
        /\ ~(rt'.at = "done" /\ rt'.ret \in {"ok", "needmod"})
    <3>1. CASE NotFound \/ RtConnectFails
      BY <1>1, <3>1 DEF NotFound, RtConnectFails, Passes
    <3>2. CASE RtConnect
      BY <1>1, <3>2 DEF RtConnect, Passes
    <3>3. CASE LoggedIn
      BY <1>1, <3>3 DEF LoggedIn, Passes
    <3>4. CASE LoginFails
      BY <1>1, <3>4 DEF LoginFails, Denials, Passes
    <3> QED
      BY <1>10, <3>1, <3>2, <3>3, <3>4
  <2>3. Passed
    BY <2>1, <2>2 DEF Passed
  <2> QED
    BY <1>5, <2>1, <2>3
<1>11. CASE RefreshLink \/ UpdateLink
  <2>1. /\ rt.at \in {"refresh", "update"} /\ list' = list
        /\ SetRoute(rt.cur, Opened(rt.link)) /\ \E at : rt' = [rt EXCEPT !.at = at]
    BY <1>11 DEF RefreshLink, UpdateLink
  <2>2. UNCHANGED <<rt.todo, rt.failed, rt.cur>> /\ rt.cur \in Elems
    BY <1>1, <2>1 DEF Passes, PassOK
  <2>3. /\ \A e \in Elems : route'[e] = route[e] \/ route'[e].status # "closed"
        /\ route'[rt.cur].status # "closed"
    BY <1>1, <2>1, <2>2 DEF SetRoute, Opened
  <2>4. Passed
    BY <2>1, <2>2, <2>3 DEF Passed
  <2> QED
    BY <1>4, <2>3, <2>4 DEF Passed
<1>12. CASE Relinked
  <2>1. /\ rt.at = "done" /\ UNCHANGED <<list, route>>
        /\ rt.ret \in {"ok", "needmod"} \/ rt.cur \in gone'
        /\ rt'.todo = rt.todo /\ rt'.failed = rt.failed
    BY <1>12 DEF Relinked, IsDone, Abandoned, NextItem, Resting
  <2>2. Passed
    BY <2>1 DEF Passed
  <2> QED
    BY <1>5, <2>1, <2>2
<1>13. CASE GiveUp
  <2>1. /\ UNCHANGED <<list, route>> /\ rt.cur \in gone'
        /\ rt'.todo = rt.todo /\ rt'.failed = rt.failed
    BY <1>13 DEF GiveUp, Hopeless, NextItem, Resting
  <2>2. Passed
    BY <2>1 DEF Passed
  <2> QED
    BY <1>5, <2>1, <2>2
<1>14. CASE RelinkFails
  <2>1. /\ rt.at = "done" /\ UNCHANGED <<list, route>>
        /\ rt'.todo = rt.todo /\ rt'.failed = Append(rt.failed, rt.cur)
    BY <1>14 DEF RelinkFails, NextItem, Resting
  <2>2. rt.cur \in Elems
    BY <1>1, <2>1 DEF PassOK
  <2>3. Passed
    BY <1>1, <2>1, <2>2, AppendFact DEF Passed
  <2> QED
    BY <1>5, <2>1, <2>3
<1>15. CASE BackToList
  <2>1. /\ rt.at = "back" /\ rt.failed # <<>> /\ route' = route
        /\ list' = Listing(Head(rt.failed)) /\ rt' = [rt EXCEPT !.failed = Tail(rt.failed)]
    BY <1>15 DEF BackToList
  <2>2. rt'.todo = rt.todo /\ rt'.failed = Tail(rt.failed) /\ rt.cur = None
    BY <1>1, <2>1 DEF Passes, PassOK
  <2>3. Head(rt.failed) \in Elems
    BY <1>1, <2>1, TailFact
  <2>4. Contains(list', Head(rt.failed)) /\ \A x : Contains(list, x) => Contains(list', x)
    BY <2>1, <2>3, ListingFact
  <2>5. Passed
    BY <1>1, <2>1, <2>2, <2>4, TailFact, SomeElems DEF Passed
  <2> QED
    BY <1>5, <2>1, <2>5
<1>16. CASE PassDone
  <2>1. /\ phase = "in" => rt.todo = <<>>
        /\ rt.cur = None /\ rt.failed = <<>> /\ UNCHANGED <<list, route>>
    BY <1>1, <1>16 DEF PassDone, PassOK
  <2>2. Passed
    BY <2>1, EmptyFact, SomeElems DEF Passed
  <2> QED
    BY <1>5, <2>1, <2>2
<1> QED
  BY <1>6, <1>7, <1>8, <1>9, <1>10, <1>11, <1>12, <1>13, <1>14, <1>15, <1>16 DEF Relink
-----------------------------------------------------------------------------
(* How each thread changes what it holds.                                  *)

\* What the step of a client does to what it holds: it begins a login, creates
\* its link, goes on with it, or holds nothing.
CallWay(c) ==
  /\ UNCHANGED <<phase, nt, rt, lost>> /\ gone \subseteq gone' /\ crowded \subseteq crowded'
  /\ phase = "in" /\ \A x \in Clients : x # c => cl'[x] = cl[x]
  /\ \/ \E k \in Links :
          /\ Create(k, cl[c].d) /\ cl[c].d \in Elems /\ cl[c].at = "connect"
          /\ cl'[c].at = "auth" /\ cl'[c].d = cl[c].d /\ cl'[c].link = k
          /\ UNCHANGED <<route, list, gone, crowded, clock>>
     \/ /\ UNCHANGED <<peer, unseen>> /\ up' \subseteq up
        /\ \E d \in Domains : /\ UseLink(c, d) /\ cl[c].at = "idle" /\ cl'[c].at = "connect"
                              /\ cl'[c].d = d /\ cl'[c].link = None
     \/ /\ UNCHANGED <<peer, unseen, crowded>> /\ up' \subseteq up
        /\ cl[c].at \in {"connect", "auth", "open", "fail"} /\ cl'[c].at \in {"open", "fail", "add"}
        /\ cl'[c].at = "open" => cl[c].at = "auth"
        /\ cl'[c].at = "add" => LinkFails(c)
        /\ cl'[c].d = cl[c].d /\ cl'[c].link = cl[c].link
     \/ /\ UNCHANGED <<peer, unseen, crowded>> /\ up' \subseteq up
        /\ cl'[c].at \in {"idle", "erase", "insert", "publish"}
        /\ cl'[c].d = None /\ cl'[c].link = None

LEMMA CallWays ==
  ASSUME TypeOK, HandsOK, HeldOK, NEW c \in Clients,
         Call(c) \/ Refresh(c) \/ \E d \in Domains : UseLink(c, d)
  PROVE  CallWay(c)
<1>1. /\ cl \in [Clients -> Calls] /\ cl[c] \in Calls /\ CallOK(cl[c])
      /\ cl[c].at \in {"idle", "erase", "insert", "publish"} => cl[c].d = None /\ cl[c].link = None
      /\ cl[c].at # "idle" => phase = "in"
  BY DEF TypeOK, Calls, HandsOK, HeldOK
<1> USE DEF CallWay, At, netVars, countVars, histVars
<1>2. CASE Connect(c)
  <2>1. PICK k \in Links :
          Create(k, cl[c].d) /\ cl' = [cl EXCEPT ![c].link = k, ![c].at = "auth"]
    BY <1>2 DEF Connect
  <2>2. cl'[c].link = k /\ cl'[c].at = "auth" /\ cl'[c].d = cl[c].d /\ cl[c].d \in Elems
    BY <1>1, <1>2, <2>1, SomeElems DEF Connect, CallOK, Calls
  <2>3. lost' = lost
    BY <2>1 DEF Create
  <2> QED
    BY <1>1, <1>2, <2>1, <2>2, <2>3 DEF Connect
<1>3. CASE ConnectFails(c)
  BY <1>1, <1>3 DEF ConnectFails, DeleteByAddr, Calls
<1>4. CASE Accepted(c)
  BY <1>1, <1>4 DEF Accepted, Calls
<1>5. CASE Refused(c)
  BY <1>1, <1>5 DEF Refused, Calls
<1>6. CASE LinkOpened(c)
  BY <1>1, <1>6 DEF LinkOpened, Idle, Calls
<1>7. CASE LinkFails(c)
  <2>1. cl' = [cl EXCEPT ![c].at = "add"] /\ cl[c].at = "fail"
    BY <1>7 DEF LinkFails
  <2>2. cl'[c].at = "add" /\ cl'[c].d = cl[c].d /\ cl'[c].link = cl[c].link
    BY <1>1, <2>1 DEF Calls
  <2> QED
    BY <1>1, <1>7, <2>1, <2>2 DEF LinkFails
<1>8. CASE AddFailed(c)
  BY <1>1, <1>8 DEF AddFailed, Idle, Calls
<1>9. CASE EraseRoute(c)
  BY <1>1, <1>9 DEF EraseRoute, Calls
<1>10. CASE InsertRoute(c)
  BY <1>1, <1>10 DEF InsertRoute, Calls
<1>11. CASE Publish(c)
  BY <1>1, <1>11 DEF Publish, Idle, Calls
<1>12. CASE Refresh(c)
  BY <1>1, <1>12 DEF Refresh, Idle, Calls
<1>13. ASSUME NEW d \in Domains, UseLink(c, d) PROVE CallWay(c)
  <2>1. cl'[c].at = "connect" /\ cl'[c].d = d /\ cl'[c].link = None
    BY <1>1, <1>13 DEF UseLink, Idle, Calls
  <2>2. crowded \subseteq crowded'
    BY <1>13 DEF UseLink, Crowding
  <2> QED
    BY <1>1, <1>13, <2>1, <2>2 DEF UseLink
<1> QED
  BY <1>2, <1>3, <1>4, <1>5, <1>6, <1>7, <1>8, <1>9, <1>10, <1>11, <1>12, <1>13 DEF Call

\* Likewise the relink thread.
RelinkWay ==
  /\ UNCHANGED <<phase, nt, cl, lost>> /\ gone \subseteq gone' /\ crowded \subseteq crowded'
  /\ phase # "out"
  /\ \/ /\ Take /\ rt'.at = "connect" /\ rt'.link = None /\ rt'.cur = Head(rt.todo)
        /\ rt.todo # <<>> /\ rt'.cur \in Elems /\ crowded' = Crowding(rt'.cur)
        /\ UNCHANGED <<peer, up, unseen, route, list, gone, clock>>
     \/ /\ RtConnect /\ rt.at = "connect" /\ rt'.at = "login" /\ rt'.cur = rt.cur
        /\ rt.cur \in Elems /\ rt'.link \in Links /\ Create(rt'.link, rt.cur)
        /\ rt'.ret = rt.ret /\ rt'.todo = rt.todo /\ rt'.failed = rt.failed
        /\ UNCHANGED <<route, list, gone, crowded>>
     \/ /\ UNCHANGED <<peer, unseen, crowded>> /\ up' \subseteq up
        /\ \/ rt'.at \in {"idle", "next", "back"} /\ rt'.cur = None /\ rt'.link = None
           \/ /\ rt.at \in {"connect", "login", "refresh", "update"}
              /\ rt'.at \in {"refresh", "update", "done"}
              /\ rt'.at \in {"refresh", "update"} => rt.at \in {"login", "refresh"}
              /\ rt'.cur = rt.cur /\ rt'.link = rt.link
              /\ rt'.todo = rt.todo /\ rt'.failed = rt.failed /\ list' = list
              /\ rt'.at = "done" /\ rt'.ret \in {"ok", "needmod"} =>
                   (RefreshLink \/ UpdateLink) /\ rt'.ret = rt.ret

LEMMA RelinkWays ==
  ASSUME TypeOK, HandsOK, HeldOK, Relink
  PROVE  RelinkWay
<1>1. /\ rt \in Passes /\ PassOK(rt) /\ rt.todo \in Seq(Elems)
      /\ rt.at \in {"idle", "next", "connect", "back"} => rt.link = None
      /\ phase = "out" => rt.at = "idle"
  BY DEF TypeOK, HandsOK, Passes, HeldOK
<1> USE DEF RelinkWay, netVars, countVars, histVars, RtAt
<1>2. CASE Trigger
  BY <1>1, <1>2 DEF Trigger, Resting, Passes
<1>3. CASE PassEnds
  BY <1>1, <1>3 DEF PassEnds, Resting, Passes
<1>4. CASE Drop
  BY <1>1, <1>4 DEF Drop, Passes, PassOK
<1>5. CASE Take
  <2>1. /\ rt'.at = "connect" /\ rt'.link = None /\ rt'.cur = Head(rt.todo)
    BY <1>1, <1>5 DEF Take, Passes
  <2>2. rt.todo # <<>> /\ Head(rt.todo) \in Elems
    BY <1>1, <1>5, TailFact DEF Take
  <2> QED
    BY <1>1, <1>5, <2>1, <2>2 DEF Take, Crowding
<1>6. CASE NotFound
  BY <1>1, <1>6 DEF NotFound, Passes
<1>7. CASE RtConnect
  <2>1. PICK k \in Links : Create(k, rt.cur) /\ rt' = [rt EXCEPT !.at = "login", !.link = k]
    BY <1>7 DEF RtConnect
  <2>2. /\ rt'.at = "login" /\ rt'.cur = rt.cur /\ rt'.link = k /\ rt'.ret = rt.ret
        /\ rt'.todo = rt.todo /\ rt'.failed = rt.failed
    BY <1>1, <2>1 DEF Passes
  <2>3. rt.cur \in Elems /\ lost' = lost
    BY <1>1, <1>7, <2>1 DEF RtConnect, PassOK, Create
  <2> QED
    BY <1>1, <1>7, <2>1, <2>2, <2>3 DEF RtConnect
<1>8. CASE RtConnectFails
  BY <1>1, <1>8 DEF RtConnectFails, DeleteByAddr, Passes
<1>9. CASE LoggedIn
  <2>1. PICK r \in Welcome : rt' = [rt EXCEPT !.ret = r,
                                  !.at = IF rt.cur \in {Home, Omu} THEN "refresh" ELSE "update"]
    BY <1>9 DEF LoggedIn
  <2> QED
    BY <1>1, <1>9, <2>1 DEF LoggedIn, Passes
<1>10. CASE LoginFails
  <2>1. PICK r \in Denials :
          rt' = [rt EXCEPT !.ret = r, !.at = IF r = "first" THEN "update" ELSE "done"]
    BY <1>10 DEF LoginFails
  <2>2. r \notin {"ok", "needmod"}
    BY <2>1 DEF Denials
  <2> QED
    BY <1>1, <1>10, <2>1, <2>2 DEF LoginFails, Passes
<1>11. CASE RefreshLink \/ UpdateLink
  <2>1. \E at \in {"update", "done"} : /\ rt' = [rt EXCEPT !.at = at]
                                       /\ at = "update" => rt.at = "refresh"
    BY <1>11 DEF RefreshLink, UpdateLink
  <2>2. /\ rt'.at \in {"update", "done"}
        /\ rt'.at = "update" => rt.at = "refresh"
        /\ rt'.cur = rt.cur /\ rt'.link = rt.link /\ rt'.ret = rt.ret
        /\ rt'.todo = rt.todo /\ rt'.failed = rt.failed
    BY <1>1, <2>1 DEF Passes
  <2>3. /\ rt.at \in {"refresh", "update"}
        /\ UNCHANGED <<phase, nt, cl, lost, gone, crowded, peer, unseen, up, list>>
    BY <1>11 DEF RefreshLink, UpdateLink
  <2>4. phase # "out" /\ rt.at \in {"connect", "login", "refresh", "update"}
    BY <1>1, <2>3
  <2>5. /\ rt'.at \in {"refresh", "update", "done"}
        /\ rt'.at \in {"refresh", "update"} => rt.at \in {"login", "refresh"}
    BY <2>2
  <2>6. up' \subseteq up /\ gone \subseteq gone' /\ crowded \subseteq crowded'
    BY <2>3
  <2> QED
    BY <1>11, <2>2, <2>3, <2>4, <2>5, <2>6
<1>12. CASE Relinked
  BY <1>1, <1>12 DEF Relinked, Abandoned, NextItem, Resting, Passes
<1>13. CASE GiveUp
  BY <1>1, <1>13 DEF GiveUp, NextItem, Resting, DeleteByAddr, Passes
<1>14. CASE RelinkFails
  BY <1>1, <1>14 DEF RelinkFails, NextItem, Resting, DeleteByAddr, Passes
<1>15. CASE BackToList
  BY <1>1, <1>15 DEF BackToList, Passes, PassOK
<1>16. CASE PassDone
  BY <1>1, <1>16 DEF PassDone, Resting, Passes
<1> QED
  BY <1>2, <1>3, <1>4, <1>5, <1>6, <1>7, <1>8, <1>9, <1>10, <1>11, <1>12, <1>13, <1>14, <1>15,
     <1>16 DEF Relink

\* What the other threads leave alone.
OtherStep ==
  \/ ServersAnswer \/ Notify \/ TenMinutes \/ Logout \/ LoggedOut \/ \E k \in Links : Break(k)

OtherWay ==
  /\ UNCHANGED <<rt, cl, peer, crowded, gone>> /\ up' \subseteq up
  /\ phase' # phase => \/ Logout /\ phase' = "stop" /\ \A c \in Clients : cl[c].at = "idle"
                       \/ LoggedOut /\ phase = "stop" /\ phase' = "out" /\ rt.at = "idle"
  /\ LoggedOut \/ \A e \in Elems : /\ route'[e].link = route[e].link
                                   /\ \/ route'[e] = route[e]
                                      \/ route'[e].status = "closed" /\ route[e].link \in lost

LEMMA OtherWays ==
  ASSUME TypeOK, OtherStep
  PROVE  OtherWay
<1> USE DEF OtherWay, netVars, countVars, histVars, RtAt, At
<1>1. ASSUME NEW k \in Links, LinkClosed(k) PROVE OtherWay
  <2>1. \A e \in Elems : route[e] \in Routes
    BY DEF TypeOK, Routes
  <2> QED
    BY <1>1, <2>1 DEF LinkClosed, Routes
<1>2. CASE FindSession \/ AddClosed \/ ServersAnswer \/ TenMinutes
  BY <1>2 DEF FindSession, AddClosed, ServersAnswer, TenMinutes
<1>3. CASE Logout
  BY <1>3 DEF Logout
<1>4. CASE LoggedOut
  BY <1>4 DEF LoggedOut
<1>5. ASSUME NEW k \in Links, Break(k) PROVE OtherWay
  BY <1>5 DEF Break
<1> QED
  BY <1>1, <1>2, <1>3, <1>4, <1>5 DEF OtherStep, Notify

\* A new link keeps the others.
LEMMA CreateKeepsOthers ==
  ASSUME TypeOK, NEW k \in Links, NEW e \in Elems, Create(k, e)
  PROVE  /\ peer'[k] = e /\ up' = up \cup {k} /\ k \notin up
         /\ \A x \in Links : x # k => peer'[x] = peer[x]
         /\ rt.link # k /\ nt.link # k /\ \A c \in Clients : cl[c].link # k
         /\ \A x \in Elems : route[x].link # k
         /\ unseen' = unseen \ {k} /\ lost' = lost
  BY DEF TypeOK, Create, Free, Held

LEMMA NextWays ==
  ASSUME Next
  PROVE  \/ OtherStep \/ Relink
         \/ \E c \in Clients : Call(c) \/ Refresh(c) \/ \E d \in Domains : UseLink(c, d)
  BY DEF Next, OtherStep

LEMMA HeldStep ==
  ASSUME TypeOK, HandsOK, HeldOK, Next
  PROVE  HeldOK'
<1>1. /\ rt.link \in Links \cup {None} /\ \A c \in Clients : cl[c].link \in Links \cup {None}
      /\ phase \in {"in", "stop", "out"}
  BY DEF TypeOK
<1>2. CASE OtherStep
  BY <1>2, OtherWays DEF OtherWay, HeldOK
<1>3. CASE Relink
  <2>1. RelinkWay
    BY <1>3, RelinkWays
  <2>2. CASE /\ rt'.at = "login" /\ rt'.cur = rt.cur /\ rt.cur \in Elems
             /\ rt'.link \in Links /\ Create(rt'.link, rt.cur)
    BY <1>1, <2>1, <2>2, CreateKeepsOthers DEF RelinkWay, HeldOK
  <2>3. CASE /\ peer' = peer
             /\ \/ rt'.at \in {"idle", "next", "back", "connect"} /\ rt'.link = None
                \/ /\ rt'.at \in {"refresh", "update", "done"}
                   /\ rt'.cur = rt.cur /\ rt'.link = rt.link
    BY <2>1, <2>3 DEF RelinkWay, HeldOK
  <2> QED
    BY <2>1, <2>2, <2>3 DEF RelinkWay
<1>4. ASSUME NEW c \in Clients, Call(c) \/ Refresh(c) \/ \E d \in Domains : UseLink(c, d)
      PROVE  HeldOK'
  <2>1. UNCHANGED <<phase, rt>> /\ phase = "in" /\ \A x \in Clients : x # c => cl'[x] = cl[x]
    BY <1>4, CallWays DEF CallWay
  <2>2. ASSUME NEW k \in Links, Create(k, cl[c].d), cl[c].d \in Elems,
               cl'[c].at = "auth", cl'[c].d = cl[c].d, cl'[c].link = k
        PROVE  HeldOK'
    BY <1>1, <2>1, <2>2, CreateKeepsOthers DEF HeldOK
  <2>3. CASE /\ peer' = peer
             /\ \/ cl'[c].at = "connect" /\ cl'[c].link = None
                \/ /\ cl'[c].at \in {"open", "fail", "add"}
                   /\ cl'[c].d = cl[c].d /\ cl'[c].link = cl[c].link
                \/ /\ cl'[c].at \in {"idle", "erase", "insert", "publish"}
                   /\ cl'[c].d = None /\ cl'[c].link = None
    BY <2>1, <2>3 DEF HeldOK
  <2> QED
    BY <1>4, <2>2, <2>3, CallWays DEF CallWay
<1> QED
  BY <1>2, <1>3, <1>4, NextWays
-----------------------------------------------------------------------------
(* An element is logged in to by one thread.                               *)

LEMMA AloneStep ==
  ASSUME TypeOK, HandsOK, HeldOK, AloneOK, Next
  PROVE  AloneOK'
<1>1. /\ up \subseteq Links /\ None \notin Links /\ Domains \subseteq Elems /\ None \notin Elems
      /\ \A c \in Clients : cl[c].link = None => cl[c].link \notin up
  BY SomeElems DEF TypeOK
<1> SUFFICES ASSUME NEW e \in Elems, e \notin crowded' PROVE Lone(e)'
  BY DEF AloneOK
<1>2. CASE OtherStep
  <2>1. UNCHANGED <<rt, cl, peer, crowded>> /\ up' \subseteq up
    BY <1>2, OtherWays DEF OtherWay
  <2>2. Lone(e)
    BY <2>1 DEF AloneOK
  <2> QED
    BY <2>1, <2>2 DEF Lone
<1>3. CASE Relink
  <2>1. RelinkWay
    BY <1>3, RelinkWays
  <2>2. e \notin crowded /\ cl' = cl
    BY <2>1 DEF RelinkWay
  <2>3. Lone(e)
    BY <2>2 DEF AloneOK
  <2>4. CASE rt'.cur \in Elems /\ crowded' = Crowding(rt'.cur) /\ UNCHANGED <<peer, up>> /\ Take
    <3>1. CASE rt'.cur = e
      <4>1. ~LoggingIn(e) /\ \A k \in up : peer[k] # e
        BY <2>4, <3>1 DEF Crowding
      <4>2. \A c \in Clients : cl[c].d # e
        <5> SUFFICES ASSUME NEW c \in Clients, cl[c].d = e PROVE FALSE
          OBVIOUS
        <5>1. cl[c].at = "publish"
          BY <4>1 DEF LoggingIn, At
        <5> QED
          BY <1>1, <5>1 DEF HeldOK
      <4> QED
        BY <2>2, <2>4, <4>1, <4>2 DEF Lone
    <3>2. CASE rt'.cur # e
      BY <2>2, <2>3, <2>4, <3>2 DEF Lone
    <3> QED
      BY <3>1, <3>2
  <2>5. CASE /\ rt.at = "connect" /\ rt'.cur = rt.cur /\ rt.cur \in Elems
             /\ rt'.link \in Links /\ Create(rt'.link, rt.cur)
    <3>1. /\ peer'[rt'.link] = rt.cur /\ up' = up \cup {rt'.link} /\ rt'.link \notin up
          /\ \A x \in Links : x # rt'.link => peer'[x] = peer[x]
      BY <2>5, CreateKeepsOthers
    <3>2. rt.link = None
      BY <2>5 DEF HeldOK
    <3>3. rt.cur = e => \A k \in up : peer[k] # e
      BY <1>1, <2>3, <3>2 DEF Lone
    <3> QED
      BY <1>1, <2>2, <2>3, <2>5, <3>1, <3>3 DEF Lone
  <2>6. CASE peer' = peer /\ up' \subseteq up /\ (rt'.cur = None \/ (rt'.cur = rt.cur /\ rt'.link = rt.link))
    BY <1>1, <2>2, <2>3, <2>6 DEF Lone
  <2> QED
    BY <2>1, <2>4, <2>5, <2>6 DEF RelinkWay
<1>4. ASSUME NEW c \in Clients, Call(c) \/ Refresh(c) \/ \E d \in Domains : UseLink(c, d)
      PROVE  Lone(e)'
  <2>1. CallWay(c)
    BY <1>4, CallWays
  <2>2. e \notin crowded /\ rt' = rt /\ \A x \in Clients : x # c => cl'[x] = cl[x]
    BY <2>1 DEF CallWay
  <2>3. Lone(e)
    BY <2>2 DEF AloneOK
  <2>4. ASSUME NEW k \in Links, Create(k, cl[c].d), cl[c].d \in Elems, cl[c].at = "connect",
               cl'[c].d = cl[c].d, cl'[c].link = k
        PROVE  Lone(e)'
    <3>1. /\ peer'[k] = cl[c].d /\ up' = up \cup {k} /\ k \notin up
          /\ \A x \in Links : x # k => peer'[x] = peer[x]
      BY <2>4, CreateKeepsOthers
    <3>2. cl[c].link = None
      BY <2>4 DEF HeldOK
    <3>3. CASE cl[c].d = e
      <4>1. /\ rt.cur # e /\ \A b \in Clients : cl[b].d = e => b = c
            /\ \A x \in up : peer[x] # e
        BY <1>1, <2>3, <3>2, <3>3 DEF Lone
      <4>2. \A b \in Clients : cl'[b].d = e => b = c
        BY <2>2, <4>1
      <4>3. \A x \in up' : peer'[x] = e => x = k
        BY <1>1, <3>1, <4>1
      <4> QED
        BY <2>2, <2>4, <4>1, <4>2, <4>3 DEF Lone
    <3>4. CASE cl[c].d # e
      <4>1. \A b \in Clients : cl'[b].d = e => cl[b].d = e /\ cl'[b] = cl[b]
        BY <2>2, <2>4, <3>4
      <4>2. \A x \in up' : peer'[x] = e => x \in up /\ peer[x] = e
        BY <1>1, <3>1, <3>4
      <4> QED
        BY <2>2, <2>3, <4>1, <4>2 DEF Lone
    <3> QED
      BY <3>3, <3>4
  <2>5. ASSUME NEW d \in Domains, UseLink(c, d), cl[c].at = "idle", cl'[c].d = d, peer' = peer,
               up' \subseteq up
        PROVE  Lone(e)'
    <3>1. crowded' = Crowding(d)
      BY <2>5 DEF UseLink
    <3>2. CASE d = e
      <4>1. ~LoggingIn(e) /\ \A k \in up : peer[k] # e
        BY <3>1, <3>2 DEF Crowding
      <4>2. rt.cur # e /\ \A b \in Clients : cl[b].d # e
        <5>1. rt.cur # e /\ \A b \in Clients : cl[b].d = e => cl[b].at = "publish"
          BY <4>1 DEF LoggingIn, At
        <5> QED
          BY <1>1, <5>1 DEF HeldOK
      <4>3. \A b \in Clients : cl'[b].d = e => b = c
        BY <2>2, <4>2
      <4> QED
        BY <2>2, <2>5, <4>1, <4>2, <4>3 DEF Lone
    <3>3. CASE d # e
      <4>1. \A b \in Clients : cl'[b].d = e => cl[b].d = e /\ cl'[b] = cl[b]
        BY <2>2, <2>5, <3>3
      <4> QED
        BY <2>2, <2>3, <2>5, <4>1 DEF Lone
    <3> QED
      BY <3>2, <3>3
  <2>6. CASE /\ peer' = peer /\ up' \subseteq up
             /\ cl'[c].d = None \/ (cl'[c].d = cl[c].d /\ cl'[c].link = cl[c].link)
    <3>1. \A b \in Clients : cl'[b].d = e => cl[b].d = e /\ cl'[b].link = cl[b].link
      BY <1>1, <2>2, <2>6
    <3> QED
      BY <2>2, <2>3, <2>6, <3>1 DEF Lone
  <2> QED
    BY <2>1, <2>4, <2>5, <2>6 DEF CallWay
<1> QED
  BY <1>2, <1>3, <1>4, NextWays

\* What the entries of a list were before.
LEMMA ListingOnly ==
  ASSUME TypeOK, NEW e \in Elems, NEW x, Contains(Listing(e), x)
  PROVE  Contains(list, x) \/ x = e
<1>1. CASE Contains(list, e)
  BY <1>1 DEF Listing
<1>2. CASE ~Contains(list, e)
  <2>1. Contains(Append(list, e), x) /\ list \in Seq(Elems)
    BY <1>2 DEF Listing, TypeOK
  <2>2. /\ Len(list) \in Nat /\ Len(Append(list, e)) = Len(list) + 1
        /\ Append(list, e)[Len(list) + 1] = e
        /\ \A i \in 1..Len(list) : Append(list, e)[i] = list[i]
    BY <2>1, AppendProperties, LenProperties
  <2>3. PICK i \in 1..(Len(list) + 1) : Append(list, e)[i] = x
    BY <2>1, <2>2 DEF Contains
  <2>4. i = Len(list) + 1 \/ i \in 1..Len(list)
    BY <2>2
  <2> QED
    BY <2>2, <2>3, <2>4 DEF Contains
<1> QED
  BY <1>1, <1>2

LEMMA AppendOnly ==
  ASSUME NEW S, NEW s \in Seq(S), NEW e \in S, NEW x, Contains(Append(s, e), x)
  PROVE  Contains(s, x) \/ x = e
<1>1. /\ Len(s) \in Nat /\ Len(Append(s, e)) = Len(s) + 1
      /\ Append(s, e)[Len(s) + 1] = e
      /\ \A i \in 1..Len(s) : Append(s, e)[i] = s[i]
  BY AppendProperties, LenProperties
<1>2. PICK i \in 1..(Len(s) + 1) : Append(s, e)[i] = x
  BY <1>1 DEF Contains
<1>3. i = Len(s) + 1 \/ i \in 1..Len(s)
  BY <1>1
<1> QED
  BY <1>1, <1>2, <1>3 DEF Contains

LEMMA TailOnly ==
  ASSUME NEW S, NEW s \in Seq(S), s # <<>>, NEW x, Contains(Tail(s), x)
  PROVE  Contains(s, x)
<1>1. Len(s) \in Nat /\ Len(s) # 0
  BY LenProperties, EmptySeq
<1>2. /\ Len(Tail(s)) = Len(s) - 1 /\ \A i \in 1..(Len(s) - 1) : Tail(s)[i] = s[i + 1]
  BY <1>1, HeadTailProperties
<1>3. PICK i \in 1..(Len(s) - 1) : Tail(s)[i] = x
  BY <1>2 DEF Contains
<1>4. i + 1 \in 1..Len(s)
  BY <1>1
<1> QED
  BY <1>2, <1>3, <1>4 DEF Contains
-----------------------------------------------------------------------------
(* The routes of what is named.                                            *)

\* What a step does to the route of e.
Shut == [status |-> "closed", link |-> None]
RouteWay(e) ==
  \/ route'[e] = route[e]
  \/ /\ RefreshLink \/ UpdateLink
     /\ e = rt.cur /\ route[e].status # "none" /\ route'[e] = Opened(rt.link)
  \/ \E c \in Clients :
       /\ e = cl[c].d /\ route[e].status # "none"
       /\ \/ LinkOpened(c) /\ route'[e] = Opened(cl[c].link)
          \/ LinkFails(c) /\ route'[e] = Shut
  \/ \E c \in Clients :
       Publish(c) /\ route[e].status = "none" /\ route'[e] \in {Enabled, Shut}
  \/ /\ \E k \in Links : LinkClosed(k) /\ route[e].link = k
     /\ route'[e].status = "closed" /\ route'[e].link = route[e].link
  \/ LoggedOut /\ route'[e] = NoRoute

LEMMA RouteWays ==
  ASSUME TypeOK, Next, NEW e \in Elems
  PROVE  RouteWay(e)
<1>1. route \in [Elems -> Routes] /\ route[e] \in Routes
  BY DEF TypeOK, Routes
<1> USE DEF netVars, countVars, histVars
<1>2. CASE RefreshLink \/ UpdateLink
  <2>1. SetRoute(rt.cur, Opened(rt.link))
    BY <1>2 DEF RefreshLink, UpdateLink
  <2>2. \/ route'[e] = route[e]
        \/ e = rt.cur /\ route[e].status # "none" /\ route'[e] = Opened(rt.link)
    BY <1>1, <2>1 DEF SetRoute
  <2> QED
    BY <1>2, <2>2 DEF RouteWay
<1>3. ASSUME NEW c \in Clients, LinkOpened(c) PROVE RouteWay(e)
  <2>1. SetRoute(cl[c].d, Opened(cl[c].link))
    BY <1>3 DEF LinkOpened
  <2>2. \/ route'[e] = route[e]
        \/ e = cl[c].d /\ route[e].status # "none" /\ route'[e] = Opened(cl[c].link)
    BY <1>1, <2>1 DEF SetRoute
  <2> QED
    BY <1>3, <2>2 DEF RouteWay
<1>4. ASSUME NEW c \in Clients, LinkFails(c) PROVE RouteWay(e)
  <2>1. SetRoute(cl[c].d, Shut)
    BY <1>4 DEF LinkFails, Shut
  <2>2. \/ route'[e] = route[e]
        \/ e = cl[c].d /\ route[e].status # "none" /\ route'[e] = Shut
    BY <1>1, <2>1 DEF SetRoute
  <2> QED
    BY <1>4, <2>2 DEF RouteWay
<1>5. ASSUME NEW c \in Clients, Publish(c) PROVE RouteWay(e)
  <2>1. \/ route' = route
        \/ \E d, r : /\ r \in {Enabled, Shut}
                     /\ route' = [route EXCEPT ![d] = IF @.status = "none" THEN r ELSE @]
    BY <1>5 DEF Publish, Shut
  <2>2. \/ route'[e] = route[e]
        \/ route[e].status = "none" /\ route'[e] \in {Enabled, Shut}
    BY <1>1, <2>1
  <2> QED
    BY <1>5, <2>2 DEF RouteWay
<1>6. ASSUME NEW k \in Links, LinkClosed(k) PROVE RouteWay(e)
  <2>1. route'[e] = IF route[e].link = k THEN [route[e] EXCEPT !.status = "closed"] ELSE route[e]
    BY <1>6 DEF LinkClosed
  <2>2. route[e].link = k => route'[e].status = "closed" /\ route'[e].link = route[e].link
    BY <1>1, <2>1 DEF Routes
  <2> QED
    BY <1>6, <2>1, <2>2 DEF RouteWay
<1>7. CASE LoggedOut
  BY <1>7 DEF LoggedOut, RouteWay
<1>8. CASE /\ ~LoggedOut /\ ~RefreshLink /\ ~UpdateLink /\ \A k \in Links : ~LinkClosed(k)
           /\ \A c \in Clients : ~LinkOpened(c) /\ ~LinkFails(c) /\ ~Publish(c)
  <2>1. CASE Relink
    BY <1>8, <2>1 DEF Relink, Trigger, PassEnds, Drop, Take, NotFound, RtConnect, RtConnectFails,
       LoggedIn, LoginFails, Relinked, GiveUp, RelinkFails, BackToList, PassDone, RouteWay
  <2>2. CASE OtherStep
    BY <1>8, <2>2 DEF OtherStep, Notify, ServersAnswer, TenMinutes, Logout, Break, FindSession,
       AddClosed, RouteWay
  <2>3. ASSUME NEW c \in Clients, Call(c) \/ Refresh(c) \/ \E d \in Domains : UseLink(c, d)
        PROVE  RouteWay(e)
    BY <1>8, <2>3 DEF Call, Connect, ConnectFails, Accepted, Refused, AddFailed, EraseRoute,
       InsertRoute, Refresh, UseLink, RouteWay
  <2> QED
    BY <2>1, <2>2, <2>3, NextWays
<1> QED
  BY <1>2, <1>3, <1>4, <1>5, <1>6, <1>7, <1>8

LEMMA RouteFields ==
  /\ \A k : Opened(k).status = "opened" /\ Opened(k).link = k
  /\ Shut.status = "closed" /\ Shut.link = None
  /\ Enabled.status = "enabled" /\ Enabled.link = None
  /\ NoRoute.status = "none" /\ NoRoute.link = None
  BY DEF Opened, Shut, Enabled, NoRoute

LEMMA PublishOnly ==
  ASSUME TypeOK, NEW c \in Clients, Publish(c), NEW x \in Elems, Contains(list', x)
  PROVE  Contains(list, x) \/ route'[x].status # "none"
<1>1. CASE cl[c].todo = {}
  BY <1>1 DEF Publish
<1>2. CASE cl[c].todo # {}
  <2> DEFINE d == CHOOSE d \in cl[c].todo : TRUE
  <2>1. d \in Elems
    BY <1>2, SomeElems DEF TypeOK
  <2> HIDE DEF d
  <2>2. \/ list' = list
        \/ /\ route' = [route EXCEPT ![d] = IF @.status = "none" THEN Shut ELSE @]
           /\ list' = Listing(d)
    BY <1>2 DEF Publish, d, Shut
  <2>3. CASE list' = Listing(d) /\ x = d
    BY <2>1, <2>2, <2>3 DEF Shut, TypeOK
  <2> QED
    BY <2>1, <2>2, <2>3, ListingOnly
<1> QED
  BY <1>1, <1>2

\* Nothing is named that has not been published.
LEMMA NamedOther ==
  ASSUME TypeOK, HandsOK, PeersOK, RoutedOK, OtherStep, phase' # "out", NEW e \in Elems, Named(e)'
  PROVE  Named(e) \/ route'[e].status # "none"
<1> USE DEF netVars, countVars, histVars, NtAt
<1>1. UNCHANGED <<rt, cl, peer>>
  BY OtherWays DEF OtherWay
<1>2. CASE AddClosed
  <2>1. nt.at = "add" /\ nt'.at # "add" /\ list' = Listing(peer[nt.link]) /\ peer[nt.link] \in Elems
    BY <1>2 DEF AddClosed, Silent, HandsOK
  <2>2. Contains(list', e) => Contains(list, e) \/ e = peer[nt.link]
    BY <2>1, ListingOnly
  <2> QED
    BY <1>1, <2>1, <2>2 DEF Named
<1>3. CASE FindSession
  <2>1. /\ list' = list /\ route' = route /\ nt.at = "find"
        /\ nt'.at = "add" => nt' = [nt EXCEPT !.at = "add"] /\ \E x \in Elems : route[x].link = nt.link
    BY <1>3 DEF FindSession, Silent
  <2>2. ASSUME nt'.at = "add", peer[nt'.link] = e PROVE route[e].status # "none"
    <3>1. PICK x \in Elems : route[x].link = nt.link
      BY <2>1, <2>2
    <3>2. nt.link \in Links /\ nt'.link = nt.link
      BY <2>1, <2>2 DEF HandsOK, TypeOK
    <3>3. x = e
      BY <2>2, <3>1, <3>2, SomeElems DEF PeersOK
    <3> QED
      BY <3>1, <3>2, <3>3, SomeElems DEF RoutedOK
  <2> QED
    BY <1>1, <2>1, <2>2 DEF Named
<1>4. ASSUME NEW k \in Links, LinkClosed(k) PROVE Named(e)
  BY <1>1, <1>4 DEF LinkClosed, Named
<1>5. CASE ServersAnswer \/ TenMinutes \/ Logout \/ LoggedOut \/ \E k \in Links : Break(k)
  BY <1>1, <1>5 DEF ServersAnswer, TenMinutes, Logout, LoggedOut, Break, Named
<1> QED
  BY <1>2, <1>3, <1>4, <1>5 DEF OtherStep, Notify

LEMMA NamedRelink ==
  ASSUME TypeOK, HandsOK, HeldOK, Relink, NEW e \in Elems, Named(e)'
  PROVE  Named(e)
<1> DEFINE InHands == \/ Contains(list, e) \/ Contains(rt.todo, e) \/ Contains(rt.failed, e)
                      \/ rt.cur = e
<1> USE DEF netVars, countVars, histVars, RtAt
<1>1. /\ rt \in Passes /\ PassOK(rt) /\ rt.todo \in Seq(Elems) /\ rt.failed \in Seq(Elems)
      /\ list \in Seq(Elems) /\ None \notin Elems
  BY SomeElems DEF TypeOK, HandsOK, Passes
<1>2. nt.at = "add" => peer'[nt.link] = peer[nt.link]
  <2>1. RelinkWay
    BY RelinkWays
  <2>2. CASE rt.cur \in Elems /\ rt'.link \in Links /\ Create(rt'.link, rt.cur)
    <3>1. nt.at = "add" => nt.link \in Links /\ nt.link # rt'.link
      BY <2>2, CreateKeepsOthers DEF HandsOK
    <3> QED
      BY <2>2, <3>1, CreateKeepsOthers
  <2> QED
    BY <2>1, <2>2 DEF RelinkWay
<1>3. SUFFICES ASSUME InHands' PROVE InHands
  BY <1>2, RelinkWays DEF Named, RelinkWay
<1>4. CASE Trigger
  BY <1>1, <1>3, <1>4, EmptyFact DEF Trigger, Resting
<1>5. CASE PassEnds
  BY <1>1, <1>3, <1>5, EmptyFact DEF PassEnds, Resting
<1>6. CASE Drop
  <2>1. /\ rt'.todo = Tail(rt.todo) /\ rt'.failed = rt.failed /\ rt'.cur = rt.cur /\ list' = list
        /\ rt.todo # <<>>
    BY <1>1, <1>6 DEF Drop, Passes
  <2> QED
    BY <1>1, <1>3, <2>1, TailOnly
<1>7. CASE Take
  <2>1. /\ rt'.todo = Tail(rt.todo) /\ rt'.failed = rt.failed /\ rt'.cur = Head(rt.todo) /\ list' = list
        /\ rt.todo # <<>>
    BY <1>1, <1>7 DEF Take, Passes
  <2> QED
    BY <1>1, <1>3, <2>1, TailOnly, TailFact
<1>8. CASE NotFound \/ RtConnect \/ RtConnectFails \/ LoggedIn \/ LoginFails \/ RefreshLink \/ UpdateLink
  <2>1. list' = list
    BY <1>8 DEF NotFound, RtConnect, RtConnectFails, LoggedIn, LoginFails, RefreshLink, UpdateLink
  <2>2. \E at, r, k : rt' = [rt EXCEPT !.at = at, !.ret = r, !.link = k]
    <3>1. rt = [rt EXCEPT !.at = rt.at, !.ret = rt.ret, !.link = rt.link]
      BY <1>1 DEF Passes
    <3>2. CASE RtConnect
      <4>1. PICK k \in Links : rt' = [rt EXCEPT !.at = "login", !.link = k]
        BY <3>2 DEF RtConnect
      <4>2. rt' = [rt EXCEPT !.at = "login", !.ret = rt.ret, !.link = k]
        BY <1>1, <4>1 DEF Passes
      <4> QED
        BY <4>2
    <3>3. CASE NotFound \/ RtConnectFails
      <4>1. rt' = [rt EXCEPT !.at = "done", !.ret = "refused", !.link = rt.link]
        BY <1>1, <3>3 DEF NotFound, RtConnectFails, Passes
      <4> QED
        BY <4>1
    <3>4. CASE LoggedIn \/ LoginFails
      <4>1. PICK at, r : rt' = [rt EXCEPT !.ret = r, !.at = at]
        BY <3>4 DEF LoggedIn, LoginFails
      <4>2. rt' = [rt EXCEPT !.at = at, !.ret = r, !.link = rt.link]
        BY <1>1, <4>1 DEF Passes
      <4> QED
        BY <4>2
    <3>5. CASE RefreshLink \/ UpdateLink
      <4>1. PICK at : rt' = [rt EXCEPT !.at = at]
        BY <3>5 DEF RefreshLink, UpdateLink
      <4>2. rt' = [rt EXCEPT !.at = at, !.ret = rt.ret, !.link = rt.link]
        BY <1>1, <4>1 DEF Passes
      <4> QED
        BY <4>2
    <3> QED
      BY <1>8, <3>2, <3>3, <3>4, <3>5
  <2>3. rt'.todo = rt.todo /\ rt'.failed = rt.failed /\ rt'.cur = rt.cur
    BY <1>1, <2>2 DEF Passes
  <2> QED
    BY <1>3, <2>1, <2>3
<1>9. CASE Relinked \/ GiveUp
  <2>1. rt'.todo = rt.todo /\ rt'.failed = rt.failed /\ rt'.cur = None /\ list' = list
    BY <1>9 DEF Relinked, GiveUp, NextItem, Resting
  <2> QED
    BY <1>1, <1>3, <2>1
<1>10. CASE RelinkFails
  <2>1. /\ rt'.todo = rt.todo /\ rt'.failed = Append(rt.failed, rt.cur) /\ rt'.cur = None
        /\ list' = list /\ rt.cur \in Elems
    BY <1>1, <1>10 DEF RelinkFails, NextItem, Resting, PassOK
  <2> QED
    BY <1>1, <1>3, <2>1, AppendOnly
<1>11. CASE BackToList
  <2>1. /\ rt'.todo = rt.todo /\ rt'.failed = Tail(rt.failed) /\ rt'.cur = rt.cur
        /\ list' = Listing(Head(rt.failed)) /\ rt.failed # <<>>
    BY <1>1, <1>11 DEF BackToList, Passes
  <2>2. Head(rt.failed) \in Elems /\ Contains(rt.failed, Head(rt.failed))
    BY <1>1, <2>1, TailFact
  <2> QED
    BY <1>1, <1>3, <2>1, <2>2, TailOnly, ListingOnly
<1>12. CASE PassDone
  BY <1>1, <1>3, <1>12, EmptyFact DEF PassDone, Resting
<1> QED
  BY <1>4, <1>5, <1>6, <1>7, <1>8, <1>9, <1>10, <1>11, <1>12 DEF Relink

LEMMA NamedCall ==
  ASSUME TypeOK, HandsOK, HeldOK, NEW c \in Clients,
         Call(c) \/ Refresh(c) \/ \E d \in Domains : UseLink(c, d), NEW e \in Elems, Named(e)'
  PROVE  Named(e) \/ route'[e].status # "none"
<1> USE DEF netVars, countVars, histVars, At
<1>1. CallWay(c)
  BY CallWays
<1>2. None \notin Elems /\ UNCHANGED <<nt, rt>> /\ \A x \in Clients : x # c => cl'[x] = cl[x]
  BY <1>1, SomeElems DEF CallWay
<1>3. nt.at = "add" => peer'[nt.link] = peer[nt.link]
  <2>1. ASSUME NEW k \in Links, Create(k, cl[c].d), cl[c].d \in Elems, nt.at = "add"
        PROVE  peer'[nt.link] = peer[nt.link]
    BY <2>1, CreateKeepsOthers DEF HandsOK
  <2> QED
    BY <1>1, <2>1 DEF CallWay
<1>4. \A x \in Clients : cl'[x].d = e => cl[x].d = e \/ route'[e].status # "none"
  <2>1. ASSUME NEW d \in Domains, UseLink(c, d), cl'[c].d = d, d = e
        PROVE  route'[e].status # "none"
    BY <2>1 DEF UseLink
  <2> QED
    BY <1>1, <1>2, <2>1 DEF CallWay
<1>5. Contains(list', e) => Contains(list, e) \/ (\E x \in Clients : cl[x].d = e)
                              \/ route'[e].status # "none"
  <2>1. CASE Publish(c)
    BY <2>1, PublishOnly
  <2>2. CASE AddFailed(c)
    <3>1. cl[c].d \in Elems /\ (list' = list \/ list' = Listing(cl[c].d))
      BY <2>2, SomeElems DEF AddFailed, HandsOK, CallOK
    <3> QED
      BY <3>1, ListingOnly
  <2>3. CASE ~Publish(c) /\ ~AddFailed(c)
    <3>1. list' = list
      BY <2>3 DEF Call, Connect, ConnectFails, Accepted, Refused, LinkOpened, LinkFails, EraseRoute,
         InsertRoute, Refresh, UseLink
    <3> QED
      BY <3>1
  <2> QED
    BY <2>1, <2>2, <2>3
<1> QED
  BY <1>2, <1>3, <1>4, <1>5 DEF Named

LEMMA RoutedStep ==
  ASSUME TypeOK, HandsOK, HeldOK, PeersOK, RoutedOK, Next
  PROVE  RoutedOK'
<1>1. ASSUME NEW e \in Elems PROVE route'[e].status = "none" => route'[e].link = None
  <2>1. RouteWay(e)
    BY RouteWays
  <2> QED
    BY <2>1, RouteFields DEF RouteWay, RoutedOK
<1>2. ASSUME phase' # "out", NEW e \in Elems, Named(e)' PROVE route'[e].status # "none"
  <2>1. phase # "out" /\ ~LoggedOut
    <3>1. CASE OtherStep
      BY <1>2, <3>1, OtherWays DEF OtherWay, Logout, LoggedOut
    <3>2. CASE Relink
      BY <1>2, <3>2, RelinkWays DEF RelinkWay, LoggedOut
    <3>3. CASE \E c \in Clients : Call(c) \/ Refresh(c) \/ \E d \in Domains : UseLink(c, d)
      BY <1>2, <3>3, CallWays DEF CallWay, LoggedOut
    <3> QED
      BY <3>1, <3>2, <3>3, NextWays
  <2>2. Named(e) \/ route'[e].status # "none"
    BY <1>2, NamedOther, NamedRelink, NamedCall, NextWays
  <2>3. Named(e) => route[e].status # "none"
    BY <2>1 DEF RoutedOK
  <2>4. RouteWay(e)
    BY RouteWays
  <2> QED
    BY <2>1, <2>2, <2>3, <2>4, RouteFields DEF RouteWay
<1> QED
  BY <1>1, <1>2 DEF RoutedOK
-----------------------------------------------------------------------------
(* Links have owners.                                                      *)

LEMMA MadeStep ==
  ASSUME TypeOK, HandsOK, HeldOK, RoutedOK, AloneOK, MadeOK, Next
  PROVE  MadeOK'
<1> SUFFICES ASSUME rt'.at = "done", rt'.ret \in {"ok", "needmod"}, rt'.cur \notin crowded'
             PROVE  route'[rt'.cur].link = rt'.link
  BY DEF MadeOK, Succeeded
<1>1. rt.at \in {"connect", "login", "refresh", "update", "done"} =>
        rt.cur \in Elems /\ phase # "out" /\ route[rt.cur].status # "none"
  BY DEF HandsOK, PassOK, HeldOK, RoutedOK, Named
<1>2. CASE Relink
  <2>1. /\ RefreshLink \/ UpdateLink
        /\ rt'.cur = rt.cur /\ rt'.link = rt.link
    BY <1>2, RelinkWays DEF RelinkWay
  <2>2. SetRoute(rt.cur, Opened(rt.link)) /\ rt.at \in {"refresh", "update"}
    BY <2>1 DEF RefreshLink, UpdateLink, RtAt
  <2>3. route'[rt.cur] = Opened(rt.link)
    BY <1>1, <2>2 DEF SetRoute, TypeOK
  <2> QED
    BY <2>1, <2>3, RouteFields
<1>3. CASE ~Relink
  <2>1. rt' = rt /\ crowded \subseteq crowded'
    <3>1. CASE OtherStep
      BY <3>1, OtherWays DEF OtherWay
    <3>2. CASE \E c \in Clients : Call(c) \/ Refresh(c) \/ \E d \in Domains : UseLink(c, d)
      BY <3>2, CallWays DEF CallWay
    <3> QED
      BY <1>3, <3>1, <3>2, NextWays
  <2>2. /\ rt.cur \in Elems /\ route[rt.cur].status # "none"
        /\ route[rt.cur].link = rt.link /\ \A c \in Clients : cl[c].d # rt.cur
    BY <1>1, <2>1 DEF MadeOK, Succeeded, AloneOK, Lone
  <2>3. RouteWay(rt.cur)
    BY <2>2, RouteWays
  <2>4. ~RefreshLink /\ ~UpdateLink /\ ~LoggedOut
    BY <2>1 DEF RefreshLink, UpdateLink, LoggedOut, RtAt
  <2> QED
    BY <2>1, <2>2, <2>3, <2>4 DEF RouteWay
<1> QED
  BY <1>2, <1>3

\* A link that is open stays with its owner, or goes from the thread that made it
\* into the route.
LEMMA OwnedStep ==
  ASSUME TypeOK, HandsOK, HeldOK, PeersOK, RoutedOK, AloneOK, MadeOK, LinksOwned, Next
  PROVE  LinksOwned'
<1> USE DEF netVars, countVars, histVars
<1>1. /\ up \subseteq Links /\ None \notin Links /\ Domains \subseteq Elems /\ None \notin Elems
      /\ \A k \in up : peer[k] \in Elems
      /\ rt \in Passes /\ PassOK(rt)
  BY SomeElems DEF TypeOK, PeersOK, Passes, HandsOK
<1> SUFFICES ASSUME NEW k \in up', peer'[k] \notin crowded' \cup gone'
             PROVE  \/ route'[peer'[k]].link = k \/ rt'.link = k
                    \/ \E c \in Clients : cl'[c].link = k
  BY DEF LinksOwned
<1>2. CASE OtherStep
  <2>1. OtherWay
    BY <1>2, OtherWays
  <2>2. k \in up /\ peer' = peer /\ crowded' = crowded /\ gone' = gone /\ cl' = cl /\ rt' = rt
    BY <2>1 DEF OtherWay
  <2>3. \/ route[peer[k]].link = k \/ rt.link = k \/ \E c \in Clients : cl[c].link = k
    BY <2>2 DEF LinksOwned
  <2>4. CASE LoggedOut
    <3>1. k \notin {route[e].link : e \in Elems}
      BY <2>4 DEF LoggedOut
    <3> QED
      BY <1>1, <2>2, <2>3, <3>1
  <2>5. CASE ~LoggedOut
    BY <1>1, <2>1, <2>2, <2>3, <2>5 DEF OtherWay
  <2> QED
    BY <2>4, <2>5
<1>3. CASE Relink
  <2>1. RelinkWay
    BY <1>3, RelinkWays
  <2>2. cl' = cl /\ crowded \subseteq crowded' /\ gone \subseteq gone' /\ phase # "out"
    BY <2>1 DEF RelinkWay
  <2>3. CASE Create(rt'.link, rt.cur) /\ rt'.link \in Links /\ rt.cur \in Elems /\ route' = route
             /\ rt.at = "connect"
    <3>1. CASE k = rt'.link
      BY <3>1
    <3>2. CASE k # rt'.link
      <4>1. k \in up /\ peer'[k] = peer[k]
        BY <1>1, <2>3, <3>2, CreateKeepsOthers
      <4>2. \/ route[peer[k]].link = k \/ rt.link = k \/ \E c \in Clients : cl[c].link = k
        BY <2>2, <4>1 DEF LinksOwned
      <4>3. rt.link = None
        BY <2>3 DEF HeldOK
      <4> QED
        BY <1>1, <2>2, <2>3, <4>1, <4>2, <4>3
    <3> QED
      BY <3>1, <3>2
  <2>4. ASSUME up' \subseteq up, peer' = peer
        PROVE  \/ route'[peer'[k]].link = k \/ rt'.link = k \/ \E c \in Clients : cl'[c].link = k
    <3>1. \/ route[peer[k]].link = k \/ rt.link = k \/ \E c \in Clients : cl[c].link = k
      BY <2>2, <2>4 DEF LinksOwned
    <3>2. CASE route[peer[k]].link = k
      <4> DEFINE e == peer[k]
      <4>1. e \in Elems /\ e \notin crowded /\ RouteWay(e)
        BY <1>1, <2>2, <2>4, RouteWays
      <4>2. CASE RefreshLink \/ UpdateLink
        <5>1. rt'.link = rt.link
          BY <1>1, <4>2 DEF RefreshLink, UpdateLink, Passes
        <5>2. e = rt.cur => k = rt.link
          BY <2>4, <4>1 DEF AloneOK, Lone
        <5>3. e # rt.cur => route'[e] = route[e]
          BY <1>1, <4>1, <4>2 DEF RefreshLink, UpdateLink, SetRoute, TypeOK
        <5> QED
          BY <2>4, <3>2, <5>1, <5>2, <5>3
      <4>3. CASE ~RefreshLink /\ ~UpdateLink
        <5>1. route' = route
          BY <1>3, <4>3 DEF Relink, Trigger, PassEnds, Drop, Take, NotFound, RtConnect,
             RtConnectFails, LoggedIn, LoginFails, Relinked, GiveUp, RelinkFails, BackToList, PassDone
        <5> QED
          BY <2>4, <3>2, <5>1
      <4> QED
        BY <4>2, <4>3
    <3>3. CASE rt.link = k
      <4>1. rt.link # None /\ peer[k] = rt.cur /\ rt.at \notin {"idle", "next", "connect", "back"}
        BY <1>1, <2>4, <3>3 DEF HeldOK
      <4>2. CASE Relinked
        <5>1. rt.at = "done" /\ IsDone /\ route' = route
          BY <4>2 DEF Relinked, RtAt
        <5>2. rt.ret = "password" => peer[k] \in gone'
          BY <4>1, <4>2, <5>1 DEF Relinked, IsDone, Abandoned
        <5>3. route[rt.cur].link = rt.link
          BY <2>2, <2>4, <4>1, <5>1, <5>2 DEF IsDone, MadeOK, Succeeded
        <5> QED
          BY <2>4, <3>3, <4>1, <5>1, <5>3
      <4>3. CASE GiveUp \/ RelinkFails
        <5>1. DeleteByAddr(rt.cur)
          BY <4>3 DEF GiveUp, Hopeless, RelinkFails
        <5> QED
          BY <2>4, <4>1, <5>1 DEF DeleteByAddr
      <4>4. CASE ~Relinked /\ ~GiveUp /\ ~RelinkFails
        <5>1. rt'.link = rt.link
          BY <1>1, <1>3, <4>1, <4>4 DEF Relink, Trigger, PassEnds, Drop, Take, NotFound, RtConnect,
             RtConnectFails, LoggedIn, LoginFails, RefreshLink, UpdateLink, BackToList, PassDone,
             RtAt, Passes
        <5> QED
          BY <3>3, <5>1
      <4> QED
        BY <4>2, <4>3, <4>4
    <3> QED
      BY <2>2, <3>1, <3>2, <3>3
  <2> QED
    BY <2>1, <2>3, <2>4 DEF RelinkWay
<1>4. ASSUME NEW c \in Clients, Call(c) \/ Refresh(c) \/ \E d \in Domains : UseLink(c, d)
      PROVE  \/ route'[peer'[k]].link = k \/ rt'.link = k \/ \E x \in Clients : cl'[x].link = k
  <2>1. CallWay(c)
    BY <1>4, CallWays
  <2>2. /\ rt' = rt /\ crowded \subseteq crowded' /\ gone \subseteq gone' /\ phase = "in"
        /\ \A x \in Clients : x # c => cl'[x] = cl[x]
    BY <2>1 DEF CallWay
  <2>3. ASSUME NEW f \in Links, Create(f, cl[c].d), cl[c].d \in Elems, cl[c].at = "connect",
               cl'[c].link = f, route' = route
        PROVE  \/ route'[peer'[k]].link = k \/ rt'.link = k \/ \E x \in Clients : cl'[x].link = k
    <3>1. CASE k = f
      BY <2>3, <3>1
    <3>2. CASE k # f
      <4>1. k \in up /\ peer'[k] = peer[k]
        BY <1>1, <2>3, <3>2, CreateKeepsOthers
      <4>2. \/ route[peer[k]].link = k \/ rt.link = k \/ \E x \in Clients : cl[x].link = k
        BY <2>2, <4>1 DEF LinksOwned
      <4>3. cl[c].link = None
        BY <2>3 DEF HeldOK
      <4> QED
        BY <1>1, <2>2, <2>3, <4>1, <4>2, <4>3
    <3> QED
      BY <3>1, <3>2
  <2>4. ASSUME up' \subseteq up, peer' = peer
        PROVE  \/ route'[peer'[k]].link = k \/ rt'.link = k \/ \E x \in Clients : cl'[x].link = k
    <3> DEFINE e == peer[k]
    <3>1. \/ route[e].link = k \/ rt.link = k \/ \E x \in Clients : cl[x].link = k
      BY <2>2, <2>4 DEF LinksOwned
    <3>2. e \in Elems /\ e \notin crowded /\ e \notin gone' /\ RouteWay(e) /\ k \in up /\ k # None
      BY <1>1, <2>2, <2>4, RouteWays
    <3> HIDE DEF e
    <3>3. ~RefreshLink /\ ~UpdateLink /\ ~LoggedOut /\ ~\E x \in Links : LinkClosed(x)
      <4>1. RefreshLink \/ UpdateLink => rt' # rt
        BY <1>1 DEF RefreshLink, UpdateLink, Passes, RtAt
      <4>2. LoggedOut => phase' # phase
        BY DEF LoggedOut
      <4>3. \A x \in Links : LinkClosed(x) => nt' # nt
        BY DEF LinkClosed, NtAt
      <4> QED
        BY <2>1, <4>1, <4>2, <4>3 DEF CallWay
    <3>4. CASE route[e].link = k
      <4>1. ASSUME NEW b \in Clients, e = cl[b].d, LinkOpened(b), route'[e] = Opened(cl[b].link)
            PROVE  route'[e].link = k
        <5>1. k = cl[b].link
          BY <2>4, <3>2, <4>1 DEF AloneOK, Lone, e
        <5> QED
          BY <4>1, <5>1, RouteFields
      <4>2. ASSUME NEW b \in Clients, e = cl[b].d, LinkFails(b) PROVE cl'[b].link = k
        <5>1. k = cl[b].link
          BY <2>4, <3>2, <4>2 DEF AloneOK, Lone, e
        <5>2. cl' = [cl EXCEPT ![b].at = "add"]
          BY <4>2 DEF LinkFails
        <5> QED
          BY <5>1, <5>2 DEF TypeOK
      <4>3. route[e].status # "none"
        BY <3>2, <3>4 DEF RoutedOK
      <4> QED
        BY <2>4, <3>2, <3>3, <3>4, <4>1, <4>2, <4>3 DEF RouteWay, e
    <3>5. CASE cl[c].link = k
      <4>1. cl[c].d = e /\ cl[c].at \notin {"idle", "erase", "insert", "publish", "connect"}
        BY <3>2, <3>5 DEF HeldOK, e
      <4>2. CASE LinkOpened(c)
        <5>1. SetRoute(e, Opened(k))
          BY <3>5, <4>1, <4>2 DEF LinkOpened
        <5>2. route[e].status # "none"
          BY <2>2, <3>2, <4>1 DEF RoutedOK, Named
        <5>3. route'[e] = Opened(k)
          BY <3>2, <5>1, <5>2 DEF SetRoute, TypeOK
        <5> QED
          BY <2>4, <5>3, RouteFields DEF e
      <4>3. CASE AddFailed(c)
        BY <3>2, <3>5, <4>1, <4>3 DEF AddFailed
      <4>4. CASE ~LinkOpened(c) /\ ~AddFailed(c)
        <5>1. \E at : cl' = [cl EXCEPT ![c].at = at]
          BY <1>4, <4>1, <4>4 DEF Call, Connect, ConnectFails, Accepted, Refused, LinkFails,
             EraseRoute, InsertRoute, Publish, Refresh, UseLink, At
        <5>2. cl'[c].link = cl[c].link
          BY <5>1 DEF TypeOK
        <5> QED
          BY <3>5, <5>2
      <4> QED
        BY <4>2, <4>3, <4>4
    <3> QED
      BY <2>2, <3>1, <3>4, <3>5
  <2> QED
    BY <2>1, <2>3, <2>4 DEF CallWay
<1> QED
  BY <1>2, <1>3, <1>4, NextWays
-----------------------------------------------------------------------------
(* The clock.                                                              *)

LEMMA PendingRelink ==
  ASSUME TypeOK, HandsOK, HeldOK, Relink, phase = "in", NEW e \in Elems, e \notin gone',
         Pending(e) \/ (RelinkFails /\ e = rt.cur)
  PROVE  Pending(e)' \/ (Take /\ rt'.cur = e /\ rt'.at = "connect")
<1> USE DEF netVars, countVars, histVars, RtAt
<1>1. /\ rt \in Passes /\ PassOK(rt) /\ rt.todo \in Seq(Elems) /\ rt.failed \in Seq(Elems)
  BY DEF TypeOK, HandsOK, Passes
<1>2. CASE Trigger
  BY <1>1, <1>2, EmptyFact DEF Trigger, PassOK, Pending, Resting, RelinkFails
<1>3. CASE PassEnds
  BY <1>1, <1>3, EmptyFact DEF PassEnds, Pending, Resting, RelinkFails
<1>4. CASE Drop
  <2>1. /\ rt'.todo = Tail(rt.todo) /\ rt'.failed = rt.failed /\ list' = list
        /\ rt.todo # <<>> /\ Head(rt.todo) \in gone' /\ rt.at = "next"
    BY <1>1, <1>4 DEF Drop, Passes
  <2> QED
    BY <1>1, <2>1, TailFact DEF Pending, RelinkFails
<1>5. CASE Take
  <2>1. /\ rt'.todo = Tail(rt.todo) /\ rt'.failed = rt.failed /\ rt'.cur = Head(rt.todo)
        /\ list' = list /\ rt.todo # <<>> /\ rt'.at = "connect" /\ rt.at = "next"
    BY <1>1, <1>5 DEF Take, Passes
  <2> QED
    BY <1>1, <1>5, <2>1, TailFact DEF Pending, RelinkFails
<1>6. CASE RelinkFails
  <2>1. /\ rt'.todo = rt.todo /\ rt'.failed = Append(rt.failed, rt.cur) /\ list' = list
        /\ rt.cur \in Elems
    BY <1>1, <1>6 DEF RelinkFails, NextItem, Resting, PassOK
  <2> QED
    BY <1>1, <2>1, AppendFact DEF Pending
<1>7. CASE BackToList
  <2>1. /\ rt'.todo = rt.todo /\ rt'.failed = Tail(rt.failed) /\ rt.failed # <<>>
        /\ list' = Listing(Head(rt.failed)) /\ Head(rt.failed) \in Elems /\ rt.at = "back"
    BY <1>1, <1>7, TailFact DEF BackToList, Passes
  <2>2. Contains(list', Head(rt.failed)) /\ \A x : Contains(list, x) => Contains(list', x)
    BY <2>1, ListingFact
  <2> QED
    BY <1>1, <2>1, <2>2, TailFact DEF Pending, RelinkFails
<1>8. CASE PassDone
  <2>1. rt.at = "back" /\ rt.todo = <<>> /\ rt.failed = <<>> /\ list' = list
    BY <1>1, <1>8 DEF PassDone, PassOK
  <2> QED
    BY <2>1, EmptyFact DEF Pending, RelinkFails
<1>9. CASE Relinked \/ GiveUp
  <2>1. rt'.todo = rt.todo /\ rt'.failed = rt.failed /\ list' = list
    BY <1>9 DEF Relinked, GiveUp, NextItem, Resting
  <2>2. RelinkFails => FALSE
    BY <1>9 DEF Relinked, GiveUp, RelinkFails
  <2> QED
    BY <2>1, <2>2 DEF Pending
<1>10. CASE NotFound \/ RtConnect \/ RtConnectFails \/ LoggedIn \/ LoginFails \/ RefreshLink \/ UpdateLink
  <2>1. rt.at \notin {"next", "idle", "back", "done"}
    BY <1>10 DEF NotFound, RtConnect, RtConnectFails, LoggedIn, LoginFails, RefreshLink, UpdateLink
  <2>2. rt'.at \notin {"next", "idle", "back"}
    BY <1>1, <1>10 DEF NotFound, RtConnect, RtConnectFails, LoggedIn, LoginFails, RefreshLink,
       UpdateLink, Passes
  <2>3. rt'.todo = rt.todo /\ rt'.failed = rt.failed /\ list' = list
    BY <2>1, <2>2, RelinkWays DEF RelinkWay, Take
  <2> QED
    BY <2>1, <2>3 DEF Pending, RelinkFails
<1> QED
  BY <1>2, <1>3, <1>4, <1>5, <1>6, <1>7, <1>8, <1>9, <1>10 DEF Relink

\* The other threads only list elements.
LEMMA ListGrows ==
  ASSUME TypeOK, HandsOK, Next, ~Relink
  PROVE  \A x : Contains(list, x) => Contains(list', x)
<1>1. CASE AddClosed
  <2>1. list' = Listing(peer[nt.link]) /\ peer[nt.link] \in Elems
    BY <1>1 DEF AddClosed, NtAt, HandsOK
  <2> QED
    BY <2>1, ListingFact
<1>2. ASSUME NEW c \in Clients, AddFailed(c) PROVE \A x : Contains(list, x) => Contains(list', x)
  <2>1. cl[c].d \in Elems /\ (list' = list \/ list' = Listing(cl[c].d))
    BY <1>2, SomeElems DEF AddFailed, At, HandsOK, CallOK
  <2> QED
    BY <2>1, ListingFact
<1>3. ASSUME NEW c \in Clients, Publish(c) PROVE \A x : Contains(list, x) => Contains(list', x)
  BY <1>3, PublishFact
<1>4. CASE ~AddClosed /\ \A c \in Clients : ~AddFailed(c) /\ ~Publish(c)
  <2>1. list' = list
    BY <1>4 DEF Next, Notify, ServersAnswer, TenMinutes, Logout, LoggedOut, Break, LinkClosed,
       FindSession, Call, Connect, ConnectFails, Accepted, Refused, LinkOpened, LinkFails,
       EraseRoute, InsertRoute, Refresh, UseLink
  <2> QED
    BY <2>1
<1> QED
  BY <1>1, <1>2, <1>3, <1>4

LEMMA PhaseFact ==
  ASSUME TypeOK, HandsOK, HeldOK, Next, phase' = "in"
  PROVE  phase = "in" /\ gone \subseteq gone' /\ crowded \subseteq crowded' /\ (~Relink => rt' = rt)
         /\ ~LoggedOut
<1>1. CASE OtherStep
  BY <1>1, OtherWays DEF OtherWay, LoggedOut
<1>2. CASE Relink
  BY <1>2, RelinkWays DEF RelinkWay, LoggedOut
<1>3. CASE \E c \in Clients : Call(c) \/ Refresh(c) \/ \E d \in Domains : UseLink(c, d)
  BY <1>3, CallWays DEF CallWay, LoggedOut
<1> QED
  BY <1>1, <1>2, <1>3, NextWays

LEMMA ClockStep ==
  ASSUME TypeOK, HandsOK, HeldOK, ClockIsRight, Next
  PROVE  ClockIsRight'
<1> USE DEF netVars, countVars, histVars, RtAt
<1> SUFFICES ASSUME phase' = "in", clock' # "off", Home \notin gone'
             PROVE  Pending(Home)' \/ rt'.cur = Home
  BY DEF ClockIsRight, InPass, Pending
<1>1. phase = "in" /\ gone \subseteq gone' /\ (~Relink => rt' = rt) /\ Home \in Elems
  BY PhaseFact, SomeElems
<1>2. clock # "off" => Pending(Home) \/ rt.cur = Home
  BY <1>1 DEF ClockIsRight, InPass, Pending
<1>3. CASE ~Relink
  <2>1. clock # "off"
    BY <1>3 DEF Next, Notify, ServersAnswer, TenMinutes, Logout, LoggedOut, Break, LinkClosed,
       FindSession, AddClosed, Call, Connect, ConnectFails, Accepted, Refused, LinkOpened, LinkFails,
       AddFailed, EraseRoute, InsertRoute, Publish, Refresh, UseLink
  <2> QED
    BY <1>1, <1>2, <1>3, <2>1, ListGrows DEF Pending
<1>4. CASE RtConnect \/ RtConnectFails
  <2>1. clock' = Started
    BY <1>4 DEF RtConnect, RtConnectFails
  <2>2. clock # "off" \/ rt.cur = Home
    BY <2>1 DEF Started
  <2>3. rt'.cur = rt.cur
    BY <1>4 DEF RtConnect, RtConnectFails, TypeOK
  <2> QED
    BY <1>1, <1>2, <1>4, <2>2, <2>3, PendingRelink DEF Relink
<1>5. CASE Relink /\ ~RtConnect /\ ~RtConnectFails
  <2>1. clock # "off"
    BY <1>5 DEF Relink, Trigger, PassEnds, Drop, Take, NotFound, LoggedIn, LoginFails, RefreshLink,
       UpdateLink, Relinked, GiveUp, RelinkFails, BackToList, PassDone
  <2>2. CASE Pending(Home) \/ (RelinkFails /\ rt.cur = Home)
    BY <1>1, <1>5, <2>2, PendingRelink
  <2>3. CASE rt.cur = Home /\ ~RelinkFails
    <3>1. ~Relinked /\ ~GiveUp
      BY <2>3 DEF Relinked, GiveUp
    <3>2. rt.at \notin {"next", "idle", "back"}
      BY <1>1, <2>3, SomeElems DEF HandsOK, PassOK, Resting
    <3>3. rt'.cur = rt.cur
      BY <1>5, <2>3, <3>1, <3>2 DEF Relink, Trigger, PassEnds, Drop, Take, NotFound, LoggedIn,
         LoginFails, RefreshLink, UpdateLink, BackToList, PassDone, TypeOK
    <3> QED
      BY <2>3, <3>3
  <2> QED
    BY <1>2, <2>1, <2>2, <2>3
<1> QED
  BY <1>3, <1>4, <1>5
-----------------------------------------------------------------------------
(* What is open will not be lost unseen.                                   *)

LEMMA PeerStays ==
  ASSUME TypeOK, HandsOK, HeldOK, Next, nt.at # "idle"
  PROVE  peer'[nt.link] = peer[nt.link] /\ nt.link \in Links
<1>1. nt.link \in Links
  BY DEF HandsOK
<1>2. ASSUME NEW k \in Links, NEW e \in Elems, Create(k, e) PROVE peer'[nt.link] = peer[nt.link]
  BY <1>1, <1>2, CreateKeepsOthers
<1>3. CASE OtherStep
  BY <1>1, <1>3, OtherWays DEF OtherWay
<1>4. CASE Relink
  BY <1>1, <1>2, <1>4, RelinkWays DEF RelinkWay
<1>5. ASSUME NEW c \in Clients, Call(c) \/ Refresh(c) \/ \E d \in Domains : UseLink(c, d)
      PROVE  peer'[nt.link] = peer[nt.link]
  BY <1>1, <1>2, <1>5, CallWays DEF CallWay
<1> QED
  BY <1>1, <1>3, <1>4, <1>5, NextWays

\* Only the notification thread moves itself.
LEMMA NotifyWays ==
  ASSUME TypeOK, Next
  PROVE  \/ nt' = nt
         \/ AddClosed /\ nt.at = "add" /\ nt'.at = "idle"
         \/ /\ FindSession /\ nt.at = "find"
            /\ IF \E e \in Elems : route[e].link = nt.link
               THEN nt'.at = "add" /\ nt'.link = nt.link ELSE nt'.at = "idle" /\ nt.link \in unseen'
         \/ \E k \in Links : LinkClosed(k) /\ nt.at = "idle" /\ nt'.at = "find" /\ nt'.link = k
<1> USE DEF netVars, countVars, histVars, NtAt
<1>1. CASE AddClosed
  BY <1>1 DEF AddClosed, Silent
<1>2. CASE FindSession
  BY <1>2 DEF FindSession, Silent, TypeOK
<1>3. ASSUME NEW k \in Links, LinkClosed(k) PROVE nt.at = "idle" /\ nt'.at = "find" /\ nt'.link = k
  BY <1>3 DEF LinkClosed
<1>4. CASE ~Notify
  BY <1>4 DEF Next, ServersAnswer, TenMinutes, Logout, LoggedOut, Break, Relink, Trigger, PassEnds,
     Drop, Take, NotFound, RtConnect, RtConnectFails, LoggedIn, LoginFails, RefreshLink, UpdateLink,
     Relinked, GiveUp, RelinkFails, BackToList, PassDone, Call, Connect, ConnectFails, Accepted,
     Refused, LinkOpened, LinkFails, AddFailed, EraseRoute, InsertRoute, Publish, Refresh, UseLink
<1> QED
  BY <1>1, <1>2, <1>3, <1>4 DEF Notify

LEMMA KeptStays ==
  ASSUME TypeOK, HandsOK, HeldOK, Next, phase' = "in", NEW e \in Elems, e \notin gone',
         Kept(e) \/ (RelinkFails /\ e = rt.cur)
  PROVE  Kept(e)' \/ (rt'.cur = e /\ rt'.at = "connect")
<1>1. phase = "in" /\ (~Relink => rt' = rt)
  BY PhaseFact
<1>2. CASE Pending(e) \/ (RelinkFails /\ e = rt.cur)
  <2>1. CASE Relink
    BY <1>1, <1>2, <2>1, PendingRelink DEF Kept
  <2>2. CASE ~Relink
    <3>1. Pending(e)
      BY <1>2, <2>2 DEF Relink
    <3> QED
      BY <1>1, <2>2, <3>1, ListGrows DEF Kept, Pending
  <2> QED
    BY <2>1, <2>2
<1>3. CASE nt.at = "add" /\ peer[nt.link] = e
  <2>1. CASE AddClosed
    <3>1. list' = Listing(e)
      BY <1>3, <2>1 DEF AddClosed
    <3> QED
      BY <3>1, ListingFact DEF Kept, Pending
  <2>2. CASE ~AddClosed
    <3>1. nt' = nt
      BY <1>3, <2>2, NotifyWays
    <3> QED
      BY <1>3, <3>1, PeerStays DEF Kept
  <2> QED
    BY <2>1, <2>2
<1>4. ASSUME NEW c \in Clients, cl[c].at = "add", cl[c].d = e PROVE Kept(e)'
  <2>1. CASE AddFailed(c)
    <3>1. list' = Listing(e)
      BY <1>4, <2>1 DEF AddFailed
    <3> QED
      BY <3>1, ListingFact DEF Kept, Pending
  <2>2. CASE ~AddFailed(c)
    <3>1. cl'[c] = cl[c]
      <4>1. CASE OtherStep
        BY <4>1, OtherWays DEF OtherWay
      <4>2. CASE Relink
        BY <4>2, RelinkWays DEF RelinkWay
      <4>3. ASSUME NEW b \in Clients, Call(b) \/ Refresh(b) \/ \E d \in Domains : UseLink(b, d)
            PROVE  cl'[c] = cl[c]
        BY <1>4, <2>2, <4>3, CallMoves
      <4> QED
        BY <4>1, <4>2, <4>3, NextWays
    <3> QED
      BY <1>4, <3>1 DEF Kept, At
  <2> QED
    BY <2>1, <2>2
<1> QED
  BY <1>2, <1>3, <1>4 DEF Kept, At

\* What becomes of a link somebody holds.
LEMMA SeenStays ==
  ASSUME TypeOK, HandsOK, HeldOK, PeersOK, AloneOK, Next, phase' = "in",
         NEW k \in Links, Held(k), Seen(k), NEW e \in Elems, e = peer[k], e \notin gone' \cup crowded'
  PROVE  Seen(k)' \/ Kept(e)' \/ (LoginFails /\ e = rt.cur)
<1>1. /\ phase = "in" /\ gone \subseteq gone' /\ crowded \subseteq crowded' /\ ~LoggedOut
      /\ up \subseteq Links /\ None \notin Links
  BY PhaseFact, SomeElems DEF TypeOK
<1> USE DEF netVars, countVars, histVars
<1>2. ASSUME k \in up \cup unseen, ~(k \in up' \cup unseen' \cup lost')
      PROVE  Kept(e)' \/ (LoginFails /\ e = rt.cur)
  <2>1. CASE OtherStep
    BY <1>1, <1>2, <2>1 DEF OtherStep, Notify, ServersAnswer, TenMinutes, Logout, Break, LinkClosed,
       FindSession, AddClosed
  <2>2. CASE Relink
    <3>1. RelinkWay
      BY <2>2, RelinkWays
    <3>2. ASSUME NEW f \in Links, NEW x \in Elems, Create(f, x) PROVE FALSE
      <4>1. f # k
        BY <3>2 DEF Create, Free
      <4> QED
        BY <1>2, <3>2, <4>1, CreateKeepsOthers
    <3>3. unseen' = unseen /\ k \in up /\ k \notin up'
      BY <1>2, <3>1, <3>2 DEF RelinkWay
    <3>4. CASE RtConnectFails
      <4>1. DeleteByAddr(rt.cur) /\ rt.link = None
        BY <3>4 DEF RtConnectFails, HeldOK, RtAt
      <4>2. e = rt.cur
        BY <3>3, <4>1 DEF DeleteByAddr
      <4>3. k = rt.link
        BY <1>1, <3>3, <4>2 DEF AloneOK, Lone
      <4> QED
        BY <1>1, <4>1, <4>3
    <3>5. CASE LoginFails
      <4>1. k = rt.link /\ rt.at = "login"
        BY <3>3, <3>5 DEF LoginFails, RtAt
      <4> QED
        BY <3>5, <4>1 DEF PeersOK
    <3>6. CASE GiveUp
      BY <3>3, <3>6 DEF GiveUp, DeleteByAddr
    <3>7. CASE RelinkFails
      <4>1. e = rt.cur /\ rt'.failed = Append(rt.failed, rt.cur) /\ rt.failed \in Seq(Elems)
        BY <3>3, <3>7 DEF RelinkFails, DeleteByAddr, NextItem, Resting, TypeOK
      <4> QED
        BY <4>1, AppendFact DEF Kept, Pending
    <3>8. CASE ~RtConnectFails /\ ~LoginFails /\ ~GiveUp /\ ~RelinkFails
      <4>1. up' = up
        <5>1. ~RtConnect
          <6>1. RtConnect => \E f \in Links : Create(f, rt.cur) /\ rt.cur \in Elems
            BY DEF RtConnect, RtAt, HandsOK, PassOK
          <6> QED
            BY <3>2, <6>1
        <5> QED
          BY <2>2, <3>8, <5>1 DEF Relink, Trigger, PassEnds, Drop, Take, NotFound, LoggedIn,
             RefreshLink, UpdateLink, Relinked, BackToList, PassDone
      <4> QED
        BY <3>3, <4>1
    <3> QED
      BY <3>4, <3>5, <3>6, <3>7, <3>8
  <2>3. ASSUME NEW c \in Clients, Call(c) \/ Refresh(c) \/ \E d \in Domains : UseLink(c, d)
        PROVE  Kept(e)'
    <3>1. CallWay(c)
      BY <2>3, CallWays
    <3>2. ASSUME NEW f \in Links, NEW x \in Elems, Create(f, x) PROVE FALSE
      <4>1. f # k
        BY <3>2 DEF Create, Free
      <4> QED
        BY <1>2, <3>2, <4>1, CreateKeepsOthers
    <3>3. unseen' = unseen /\ k \in up /\ k \notin up'
      BY <1>2, <3>1, <3>2 DEF CallWay
    <3>4. CASE ConnectFails(c)
      <4>1. cl[c].d = e /\ cl[c].link = None
        BY <3>3, <3>4 DEF ConnectFails, DeleteByAddr, HeldOK, At
      <4>2. k = cl[c].link
        BY <1>1, <3>3, <4>1 DEF AloneOK, Lone
      <4> QED
        BY <1>1, <4>1, <4>2
    <3>5. CASE AddFailed(c)
      <4>1. k = cl[c].link /\ list' = Listing(cl[c].d)
        BY <3>3, <3>5 DEF AddFailed
      <4>2. cl[c].d = e
        BY <1>1, <4>1 DEF HeldOK
      <4> QED
        BY <4>1, <4>2, ListingFact DEF Kept, Pending
    <3>6. CASE ~ConnectFails(c) /\ ~AddFailed(c)
      <4>1. ~Connect(c)
        <5>1. Connect(c) => \E f \in Links : Create(f, cl[c].d) /\ cl[c].d \in Domains
          BY DEF Connect, At, HandsOK, CallOK
        <5> QED
          BY <3>2, <5>1, SomeElems
      <4>2. up' = up
        BY <2>3, <3>6, <4>1 DEF Call, Accepted, Refused, LinkOpened, LinkFails, EraseRoute,
           InsertRoute, Publish, Refresh, UseLink
      <4> QED
        BY <3>3, <4>2
    <3> QED
      BY <3>4, <3>5, <3>6
  <2> QED
    BY <2>1, <2>2, <2>3, NextWays
<1>3. CASE k \in up \cup unseen
  BY <1>2, <1>3 DEF Seen
<1>4. CASE k \in lost
  <2>1. CASE LinkClosed(k)
    BY <2>1 DEF LinkClosed, Seen
  <2>2. CASE ~LinkClosed(k)
    <3>1. k \in lost'
      <4>1. CASE OtherStep
        BY <1>1, <1>4, <2>2, <4>1 DEF OtherStep, Notify, ServersAnswer, TenMinutes, Logout, Break,
           LinkClosed, FindSession, AddClosed
      <4>2. CASE Relink
        BY <1>4, <4>2, RelinkWays DEF RelinkWay
      <4>3. CASE \E c \in Clients : Call(c) \/ Refresh(c) \/ \E d \in Domains : UseLink(c, d)
        BY <1>4, <4>3, CallWays DEF CallWay
      <4> QED
        BY <4>1, <4>2, <4>3, NextWays
    <3> QED
      BY <3>1 DEF Seen
  <2> QED
    BY <2>1, <2>2
<1>5. CASE nt.at = "find" /\ nt.link = k
  <2>1. \/ nt' = nt
        \/ nt'.at = "add" /\ nt'.link = k
        \/ k \in unseen'
    BY <1>5, NotifyWays
  <2> QED
    BY <1>5, <2>1, PeerStays DEF Seen, Kept
<1> QED
  BY <1>3, <1>4, <1>5 DEF Seen

LEMMA OpenStep ==
  ASSUME TypeOK, HandsOK, HeldOK, PeersOK, RoutedOK, AloneOK, OpenOK, Next
  PROVE  OpenOK'
<1> SUFFICES ASSUME phase' = "in"
             PROVE  /\ \A e \in Elems \ (gone' \cup crowded') : RouteOpen(e)'
                    /\ PassOpen'
                    /\ \A c \in Clients : CallOpen(c)'
  BY DEF OpenOK
<1>1. /\ phase = "in" /\ gone \subseteq gone' /\ crowded \subseteq crowded' /\ (~Relink => rt' = rt)
      /\ ~LoggedOut
  BY PhaseFact
<1>2. /\ \A e \in Elems \ (gone \cup crowded) : RouteOpen(e)
      /\ PassOpen /\ \A c \in Clients : CallOpen(c)
  BY <1>1 DEF OpenOK
<1>3. /\ rt \in Passes /\ PassOK(rt) /\ None \notin Links /\ Domains \subseteq Elems
      /\ up \subseteq Links /\ lost \subseteq Links /\ unseen \subseteq Links
      /\ nt.at = "find" => nt.link \in Links
  BY SomeElems DEF TypeOK, Passes, HandsOK
<1>4. \A k : Seen(k) => k \in Links
  BY <1>3 DEF Seen
\* The relink thread puts its link into the route.
<1>5. ASSUME RefreshLink \/ UpdateLink, NEW k, k = rt.link, NEW e, e = rt.cur,
             e \notin gone' \cup crowded'
      PROVE  Seen(k)' \/ Sure(e)'
  <2>1. /\ rt.at \in {"refresh", "update"} /\ rt'.cur = rt.cur /\ rt'.ret = rt.ret
        /\ UNCHANGED <<up, lost, unseen, nt, list, peer, cl>>
        /\ rt'.todo = rt.todo /\ rt'.failed = rt.failed
    BY <1>3, <1>5 DEF RefreshLink, UpdateLink, RtAt, Passes, netVars, histVars
  <2>2. CASE rt.ret \in {"ok", "needmod"}
    <3>1. Seen(k) \/ Kept(e)
      BY <1>1, <1>2, <1>5, <2>1, <2>2 DEF PassOpen
    <3> QED
      BY <2>1, <3>1 DEF Seen, Kept, Pending, Sure, At
  <2>3. CASE rt.ret \notin {"ok", "needmod"}
    BY <1>5, <2>1, <2>3 DEF Sure, Succeeded
  <2> QED
    BY <2>2, <2>3
<1>6. ASSUME NEW e \in Elems, e \notin gone' \cup crowded', Sure(e),
             ~((RefreshLink \/ UpdateLink) /\ e = rt.cur)
      PROVE  Sure(e)'
  <2>1. CASE Kept(e) \/ (RelinkFails /\ e = rt.cur)
    BY <1>6, <2>1, KeptStays DEF Sure, Succeeded
  <2>2. CASE rt.cur = e /\ ~Succeeded /\ ~RelinkFails
    <3>1. CASE ~Relink
      BY <1>1, <2>2, <3>1 DEF Sure, Succeeded
    <3>2. CASE Relink
      <4>1. rt.at \notin {"idle", "next", "back"}
        BY <1>3, <2>2, SomeElems DEF PassOK, Resting
      <4>2. ~Relinked /\ ~GiveUp
        BY <1>6, <2>2 DEF Relinked, GiveUp, IsDone, Abandoned, Hopeless, Succeeded, RtAt
      <4>3. rt.at # "done" /\ ~Take
        BY <2>2, <3>2, <4>1, <4>2 DEF Relink, Trigger, PassEnds, Drop, Take, NotFound, RtConnect,
           RtConnectFails, LoggedIn, LoginFails, RefreshLink, UpdateLink, BackToList, PassDone, RtAt
      <4>4. rt'.at \notin {"idle", "next", "back"}
        BY <1>3, <2>2, <3>2, <4>1, <4>2 DEF Relink, Trigger, PassEnds, Drop, Take, NotFound, RtConnect,
           RtConnectFails, LoggedIn, LoginFails, RefreshLink, UpdateLink, BackToList, PassDone, RtAt,
           Passes
      <4>5. rt'.cur = rt.cur /\ ~Succeeded'
        BY <1>6, <2>2, <3>2, <4>3, <4>4, RelinkWays DEF RelinkWay, Succeeded
      <4> QED
        BY <2>2, <4>5 DEF Sure
    <3> QED
      BY <3>1, <3>2
  <2> QED
    BY <1>6, <2>1, <2>2 DEF Sure
<1>7. ASSUME LoginFails
      PROVE  rt'.cur = rt.cur /\ ~Succeeded' /\ rt'.ret \notin {"ok", "needmod"} /\ rt'.at # "login"
  <2>1. PICK r \in Denials :
          rt' = [rt EXCEPT !.ret = r, !.at = IF r = "first" THEN "update" ELSE "done"]
    BY <1>7 DEF LoginFails
  <2> QED
    BY <1>3, <2>1 DEF Denials, Succeeded, Passes
\* A link that is held, of an element that is not crowded.
<1>8. ASSUME NEW e \in Elems, e \notin gone' \cup crowded', NEW k, Held(k), k # None => peer[k] = e,
             Seen(k) \/ Sure(e), ~((RefreshLink \/ UpdateLink) /\ e = rt.cur)
      PROVE  Seen(k)' \/ Sure(e)'
  <2>1. CASE Seen(k)
    <3>1. k \in Links /\ peer[k] = e
      BY <1>3, <1>4, <1>8, <2>1
    <3> QED
      BY <1>7, <1>8, <2>1, <3>1, SeenStays DEF Sure
  <2> QED
    BY <1>6, <1>8, <2>1
<1>9. ASSUME NEW e \in Elems, e \notin gone' \cup crowded' PROVE RouteOpen(e)'
  <2> SUFFICES ASSUME NEW k, k = route'[e].link, route'[e].status = "opened"
               PROVE  Seen(k)' \/ Sure(e)'
    BY DEF RouteOpen
  <2>1. RouteWay(e)
    BY RouteWays
  <2>2. CASE (RefreshLink \/ UpdateLink) /\ e = rt.cur
    <3>1. SetRoute(rt.cur, Opened(rt.link))
      BY <2>2 DEF RefreshLink, UpdateLink
    <3>2. k = rt.link
      BY <2>2, <3>1, RouteFields DEF SetRoute, TypeOK
    <3> QED
      BY <1>5, <1>9, <2>2, <3>2
  <2>3. CASE route'[e] = route[e] /\ ~((RefreshLink \/ UpdateLink) /\ e = rt.cur)
    <3>1. Seen(k) \/ Sure(e)
      BY <1>1, <1>2, <1>9, <2>3 DEF RouteOpen
    <3>2. Held(k) /\ (k # None => peer[k] = e)
      BY <2>3 DEF Held, PeersOK
    <3> QED
      BY <1>8, <1>9, <2>3, <3>1, <3>2
  <2>4. ASSUME NEW c \in Clients, e = cl[c].d, LinkOpened(c), route'[e] = Opened(cl[c].link)
        PROVE  Seen(k)' \/ Sure(e)'
    <3>1. /\ cl[c].at = "open" /\ UNCHANGED <<up, lost, unseen, nt, list, peer, rt>>
          /\ \A x \in Clients : x # c => cl'[x] = cl[x]
      BY <2>4 DEF LinkOpened, At, netVars, histVars
    <3>2. Seen(k) \/ Sure(e)
      BY <1>1, <1>2, <1>9, <2>4, <3>1, RouteFields DEF CallOpen
    <3>3. Kept(e) => Kept(e)'
      BY <3>1 DEF Kept, Pending, At
    <3> QED
      BY <3>1, <3>2, <3>3 DEF Seen, Sure, Succeeded
  <2> QED
    BY <1>1, <2>1, <2>2, <2>3, <2>4, RouteFields DEF RouteWay
<1>10. PassOpen'
  <2> SUFFICES ASSUME NEW k, k = rt'.link, NEW e, e = rt'.cur, e \notin gone' \cup crowded',
                      \/ rt'.at = "login"
                      \/ rt'.at \in {"refresh", "update"} /\ rt'.ret \in {"ok", "needmod"}
               PROVE  Seen(k)' \/ Kept(e)'
    BY DEF PassOpen
  <2>1. CASE Relink /\ rt'.at = "login"
    <3>1. Create(k, rt.cur)
      BY <2>1, RelinkWays DEF RelinkWay
    <3> QED
      BY <3>1 DEF Create, Seen
  <2>2. CASE ~(Relink /\ rt'.at = "login")
    <3>1. rt.at \in {"login", "refresh", "update"} /\ rt.link = k /\ rt.cur = e
      <4>1. CASE Relink
        BY <2>2, <4>1, RelinkWays DEF RelinkWay
      <4> QED
        BY <1>1, <4>1
    <3>2. rt.at = "login" \/ rt.ret \in {"ok", "needmod"}
      <4>1. CASE Relink
        <5>1. rt.at \in {"refresh", "update"} => RefreshLink \/ UpdateLink
          BY <3>1, <4>1 DEF Relink, Trigger, PassEnds, Drop, Take, NotFound, RtConnect, RtConnectFails,
             LoggedIn, LoginFails, Relinked, GiveUp, RelinkFails, BackToList, PassDone, RtAt
        <5>2. RefreshLink \/ UpdateLink => rt'.ret = rt.ret
          BY <1>3 DEF RefreshLink, UpdateLink, Passes
        <5> QED
          BY <2>2, <3>1, <4>1, <5>1, <5>2
      <4> QED
        BY <1>1, <4>1
    <3>3. Seen(k) \/ Kept(e)
      BY <1>1, <1>2, <3>1, <3>2 DEF PassOpen
    <3>4. e \in Elems /\ k \in Links /\ peer[k] = e /\ Held(k)
      BY <1>3, <3>1 DEF PassOK, PeersOK, Held
    <3>5. Kept(e) => Kept(e)'
      <4>1. Kept(e) => Kept(e)' \/ rt'.at = "connect"
        BY <3>4, KeptStays
      <4> QED
        BY <4>1
    <3>6. Seen(k) => Seen(k)' \/ Kept(e)'
      BY <1>7, <3>4, SeenStays
    <3> QED
      BY <3>3, <3>5, <3>6
  <2> QED
    BY <2>1, <2>2
<1>11. ASSUME NEW c \in Clients PROVE CallOpen(c)'
  <2> SUFFICES ASSUME NEW k, k = cl'[c].link, NEW e, e = cl'[c].d, e \notin gone' \cup crowded',
                      cl'[c].at \in {"auth", "open"}
               PROVE  Seen(k)' \/ Sure(e)'
    BY DEF CallOpen
  <2>1. \/ /\ cl[c].at \in {"auth", "open"} /\ k = cl[c].link /\ e = cl[c].d
           /\ k \in Links /\ e \in Domains
        \/ Create(k, cl[c].d)
    <3>1. cl[c].at \in {"auth", "open"} => cl[c].link \in Links /\ cl[c].d \in Domains
      BY DEF HandsOK, CallOK
    <3>2. CASE OtherStep
      BY <3>1, <3>2, OtherWays DEF OtherWay
    <3>3. CASE Relink
      BY <3>1, <3>3, RelinkWays DEF RelinkWay
    <3>4. ASSUME NEW b \in Clients, Call(b) \/ Refresh(b) \/ \E d \in Domains : UseLink(b, d)
          PROVE  \/ /\ cl[c].at \in {"auth", "open"} /\ k = cl[c].link /\ e = cl[c].d
                    /\ k \in Links /\ e \in Domains
                 \/ Create(k, cl[c].d)
      BY <3>1, <3>4, CallWays DEF CallWay
    <3> QED
      BY <3>2, <3>3, <3>4, NextWays
  <2>2. CASE Create(k, cl[c].d)
    BY <2>2 DEF Create, Seen
  <2>3. CASE /\ cl[c].at \in {"auth", "open"} /\ k = cl[c].link /\ e = cl[c].d
             /\ k \in Links /\ e \in Domains
    <3>1. Seen(k) \/ Sure(e)
      BY <1>1, <1>2, <2>3 DEF CallOpen
    <3>2. Held(k) /\ peer[k] = e /\ e \in Elems
      BY <1>3, <2>3 DEF Held, PeersOK
    <3>3. rt.cur # e
      BY <1>1, <2>3, <3>2 DEF AloneOK, Lone
    <3> QED
      BY <1>8, <3>1, <3>2, <3>3
  <2> QED
    BY <2>1, <2>2, <2>3
<1> QED
  BY <1>9, <1>10, <1>11
-----------------------------------------------------------------------------
(* The inductive invariant.                                                *)

LEMMA Initially == Init => IInv
<1> SUFFICES ASSUME Init PROVE IInv
  OBVIOUS
<1> USE SomeElems
<1> DEFINE h == CHOOSE k \in Links : TRUE
           o == CHOOSE k \in Links \ {h} : TRUE
<1> HIDE DEF h, o
<1>1. h \in Links /\ o \in Links /\ o # h
  <2>1. h \in Links
    BY LinkAssumption DEF h
  <2>2. \E k : k \in Links \ {h}
    BY <2>1, LinkAssumption
  <2>3. o \in Links \ {h}
    BY <2>2 DEF o
  <2> QED
    BY <2>1, <2>3
<1>2. PICK r \in [Domains \ {Home} -> {NoRoute, Enabled}] :
        /\ route = [e \in Elems |-> CASE e = Home -> Opened(h) [] e = Omu -> Opened(o)
                                      [] OTHER -> r[e]]
        /\ peer = [k \in Links |-> CASE k = h -> Home [] k = o -> Omu [] OTHER -> None]
        /\ up = {h, o} /\ lost = {}
  BY DEF Init, h, o
<1>3. /\ phase = "in" /\ known = Domains /\ list = <<>> /\ clock = "off"
      /\ nt = Silent /\ rt = Resting /\ cl = [c \in Clients |-> Idle]
      /\ breaks = 0 /\ refreshes = 0 /\ serving = FALSE
      /\ gone = {} /\ crowded = {} /\ unseen = {}
  BY DEF Init
<1>4. Home # Omu
  BY LinkAssumption
<1>5. /\ route \in [Elems -> Routes]
      /\ \A e \in Elems : \/ e = Home /\ route[e] = Opened(h)
                          \/ e = Omu /\ route[e] = Opened(o)
                          \/ e \notin {Home, Omu} /\ route[e] \in {NoRoute, Enabled}
  <2>1. {Opened(h), Opened(o), NoRoute, Enabled} \subseteq Routes
    BY <1>1 DEF Opened, NoRoute, Enabled, Routes
  <2>2. route = [e \in Elems |-> IF e = Home THEN Opened(h) ELSE IF e = Omu THEN Opened(o) ELSE r[e]]
    BY <1>2, <1>4
  <2>3. \A e \in Elems : e \notin {Home, Omu} => r[e] \in {NoRoute, Enabled}
    BY DEF Elems
  <2>4. \A e \in Elems : \/ e = Home /\ route[e] = Opened(h)
                         \/ e = Omu /\ route[e] = Opened(o)
                         \/ e \notin {Home, Omu} /\ route[e] \in {NoRoute, Enabled}
    <3> TAKE e \in Elems
    <3>1. route[e] = IF e = Home THEN Opened(h) ELSE IF e = Omu THEN Opened(o) ELSE r[e]
      BY <2>2
    <3> QED
      BY <1>4, <2>3, <3>1
  <2>5. \A e \in Elems : route[e] \in Routes
    BY <2>1, <2>4
  <2> QED
    BY <2>2, <2>4, <2>5
<1>6. \A e \in Elems : /\ route[e].status # "closed"
                      /\ route[e].link = IF e = Home THEN h ELSE IF e = Omu THEN o ELSE None
  BY <1>4, <1>5 DEF Opened, NoRoute, Enabled
<1>7. TypeOK
  <2>1. route \in [Elems -> Routes] /\ peer \in [Links -> Elems \cup {None}]
    BY <1>2, <1>5
  <2>2. cl \in [Clients -> Calls] /\ rt \in Passes
    BY <1>3, EmptyFact DEF Calls, Passes, Idle, Resting
  <2>3. /\ nt \in [at : {"idle", "find", "add"}, link : Links \cup {None}]
        /\ list \in Seq(Elems) /\ IsInjective(list) /\ breaks \in 0..MaxBreaks
        /\ refreshes \in 0..MaxRefresh /\ up \subseteq Links /\ lost \subseteq Links \ up
    BY <1>1, <1>2, <1>3, EmptyFact, LinkAssumption DEF Silent
  <2> QED
    BY <1>3, <2>1, <2>2, <2>3 DEF TypeOK, Routes, Calls, Passes
<1>8. HandsOK /\ PeersOK
  BY <1>1, <1>2, <1>3, <1>4, <1>6
  DEF HandsOK, PassOK, CallOK, PeersOK, Silent, Resting, Idle
<1>9. ClosedOK
  BY <1>6 DEF ClosedOK
<1>10. /\ \A c \in Clients : cl[c].at = "idle" /\ cl[c].d = None /\ cl[c].link = None
       /\ rt.at = "idle" /\ rt.cur = None /\ rt.link = None /\ rt.todo = <<>> /\ rt.failed = <<>>
       /\ nt.at = "idle"
  BY <1>3 DEF Idle, Resting, Silent
<1>11. HeldOK /\ AloneOK /\ MadeOK
  BY <1>3, <1>10 DEF HeldOK, AloneOK, Lone, MadeOK, Succeeded
<1>12. RoutedOK
  <2>1. \A e \in Elems : ~Named(e)
    BY <1>3, <1>10, EmptyFact DEF Named
  <2>2. \A e \in Elems : route[e].status = "none" => route[e].link = None
    BY <1>5 DEF Opened, NoRoute, Enabled
  <2> QED
    BY <2>1, <2>2 DEF RoutedOK
<1>13. LinksOwned
  <2>1. route[Home].link = h /\ route[Omu].link = o /\ peer[h] = Home /\ peer[o] = Omu
    BY <1>1, <1>2, <1>4, <1>6
  <2> QED
    BY <1>2, <2>1 DEF LinksOwned
<1>14. ClockIsRight
  BY <1>3 DEF ClockIsRight
<1>15. OpenOK
  <2>1. \A e \in Elems : RouteOpen(e)
    BY <1>2, <1>5, <1>6 DEF RouteOpen, Seen, NoRoute, Enabled
  <2> QED
    BY <1>10, <2>1 DEF OpenOK, PassOpen, CallOpen
<1> QED
  BY <1>7, <1>8, <1>9, <1>11, <1>12, <1>13, <1>14, <1>15 DEF IInv

LEMMA Inductive == IInv /\ [Next]_vars => IInv'
<1> SUFFICES ASSUME IInv, [Next]_vars PROVE IInv'
  OBVIOUS
<1>1. CASE Next
  <2>1. /\ TypeOK /\ HandsOK /\ PeersOK /\ ClosedOK /\ HeldOK /\ RoutedOK /\ AloneOK /\ MadeOK
        /\ LinksOwned /\ ClockIsRight /\ OpenOK
    BY DEF IInv
  <2>2. TypeOK' /\ HandsOK' /\ PeersOK' /\ ClosedOK'
    <3>1. CASE OtherStep
      BY <2>1, <3>1, TypeNotify, PeersNotify, ClosedNotify DEF OtherStep
    <3>2. CASE Relink
      BY <2>1, <3>2, TypeRelink, PeersRelink, ClosedRelink
    <3>3. ASSUME NEW c \in Clients, Call(c) \/ Refresh(c) \/ \E d \in Domains : UseLink(c, d)
          PROVE  TypeOK' /\ HandsOK' /\ PeersOK' /\ ClosedOK'
      BY <2>1, <3>3, TypeCall, PeersCall, ClosedCall
    <3> QED
      BY <1>1, <3>1, <3>2, <3>3, NextWays
  <2>3. HeldOK' /\ RoutedOK' /\ AloneOK' /\ MadeOK'
    BY <1>1, <2>1, HeldStep, RoutedStep, AloneStep, MadeStep
  <2>4. LinksOwned' /\ ClockIsRight' /\ OpenOK'
    BY <1>1, <2>1, OwnedStep, ClockStep, OpenStep
  <2> QED
    BY <2>2, <2>3, <2>4 DEF IInv
<1>2. CASE UNCHANGED vars
  <2> USE DEF vars, netVars, countVars, histVars, IInv
  <2>1. TypeOK' /\ HandsOK' /\ PeersOK' /\ ClosedOK'
    BY <1>2 DEF TypeOK, HandsOK, PassOK, CallOK, PeersOK, ClosedOK, Remembered, At
  <2>2. HeldOK' /\ RoutedOK' /\ AloneOK' /\ MadeOK'
    BY <1>2 DEF HeldOK, RoutedOK, Named, AloneOK, Lone, MadeOK, Succeeded
  <2>3. LinksOwned' /\ ClockIsRight'
    BY <1>2 DEF LinksOwned, ClockIsRight, InPass
  <2>4. OpenOK'
    BY <1>2 DEF OpenOK, RouteOpen, PassOpen, CallOpen, Seen, Sure, Kept, Pending, Succeeded, At
  <2> QED
    BY <2>1, <2>2, <2>3, <2>4
<1> QED
  BY <1>1, <1>2

LEMMA Always == Spec => []IInv
  BY Initially, Inductive, PTL DEF Spec

\* The variables have their types, and no element is listed twice, though three
\* threads list elements and one takes them.
THEOREM TypeCorrect == Spec => []TypeOK
<1>1. IInv => TypeOK
  BY DEF IInv
<1> QED
  BY <1>1, Always, PTL

\* However the notification thread, the relink thread and the clients meet, an
\* element whose route is closed is in the list, or in the hands of a thread
\* that will put it there or relink it, as long as the session lasts and its
\* relinking has not been given up.
THEOREM NoneForgotten == Spec => []ClosedIsListed
<1>1. IInv => ClosedIsListed
  <2> SUFFICES ASSUME IInv, phase = "in", NEW e \in Elems \ gone, route[e].status = "closed"
               PROVE  OnItsWay(e)
    BY DEF ClosedIsListed
  <2>1. Remembered(e)
    BY DEF IInv, ClosedOK
  <2>2. nt.at # "idle" => nt.link # None
    BY SomeElems DEF IInv, HandsOK
  <2> QED
    BY <2>1, <2>2 DEF Remembered, OnItsWay, InPass
<1> QED
  BY <1>1, Always, PTL

\* Every link that is open is in the route of its element, or with the thread
\* that is logging in over it: none is left behind, whichever login fails, and
\* none survives the session, but where two logins met or a relink was given up.
THEOREM OwnersCorrect == Spec => []LinksOwned
<1>1. IInv => LinksOwned
  BY DEF IInv
<1> QED
  BY <1>1, Always, PTL

\* A route is not left open over a link that is gone: its loss will still be
\* reported, or the element is on its way to be relinked.
THEOREM OpenCorrect == Spec => []OpenedIsUp
<1>1. IInv => OpenedIsUp
  <2> SUFFICES ASSUME IInv, phase = "in", NEW e \in Elems \ (gone \cup crowded),
                      route[e].status = "opened"
               PROVE  route[e].link \in up \cup lost \cup unseen \/ OnItsWay(e)
    BY DEF OpenedIsUp
  <2>1. Seen(route[e].link) \/ Sure(e)
    BY DEF IInv, OpenOK, RouteOpen
  <2>2. nt.at # "idle" => nt.link # None
    BY SomeElems DEF IInv, HandsOK
  <2>3. nt.at = "find" /\ nt.link = route[e].link => peer[nt.link] = e
    BY <2>2 DEF IInv, PeersOK
  <2> QED
    BY <2>1, <2>2, <2>3 DEF Seen, Sure, Kept, Pending, OnItsWay, InPass
<1> QED
  BY <1>1, Always, PTL

\* The ten minutes of a single sign-on are counted only while the login waits to
\* be relinked.
THEOREM ClockCorrect == Spec => []ClockIsRight
<1>1. IInv => ClockIsRight
  BY DEF IInv
<1> QED
  BY <1>1, Always, PTL
=============================================================================
