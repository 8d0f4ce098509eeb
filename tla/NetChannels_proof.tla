------------------------- MODULE NetChannels_proof -------------------------
(***************************************************************************)
(* For every number of clients, ports and channels: no port is given to    *)
(* two channels or lost, the ports are a pool, and a receiving thread      *)
(* never outlives what it uses.                                            *)
(***************************************************************************)
EXTENDS NetChannels, SequenceTheorems, FiniteSetTheorems, TLAPS

\* What is owned is busy, and has one owner and one use.
OwnedOK ==
  /\ \A c \in Clients : Owned(c) \subseteq busy
  /\ \A c, d \in Clients : c # d => Owned(c) \cap Owned(d) = {}
  /\ \A c \in Clients : video[c] = audio[c] => video[c] \notin Ports

\* A channel exists while its client is busy with it; a new one has no ports.
StageOK ==
  \A c \in Clients :
    /\ at[c] # "idle" => c \in chans
    /\ c \notin chans \/ at[c] = "video" => video[c] = 0 /\ audio[c] = 0
    /\ at[c] = "audio" => proto[c] = "udp" /\ audio[c] = 0 /\ sock[c] \subseteq Ports
    /\ proto[c] = "tcp" => audio[c] = 0
    /\ at[c] \in {"audio", "setup", "open", "groupVideo", "groupAudio", "key",
                  "start", "play"} => sock[c] # {}
    /\ at[c] \in {"groupVideo", "groupAudio"} => proto[c] = "udp" /\ sock[c] \subseteq Groups

\* The thread runs from StartRecvStream until its client has waited for it.
RunOK ==
  \A c \in Clients :
    /\ rcv[c] # "off" =>
         /\ c \in chans /\ sock[c] # {}
         /\ src[c] = IF at[c] = "join" THEN "killed" ELSE "run"
         /\ at[c] \in {"play", "idle", "close", "closeAudio", "stop", "join"}
    /\ mchan = c => at[c] = "freeing"

\* The connections of an open channel are bound to its local ports,
NamedOK == \A c \in Clients : Holds(c) => Named(c) \subseteq sock[c]

\* and a socket is closed behind its connection's back by the thread of the channel
\* only, or under a handle that is shared.
DeadOK ==
  \A c \in Clients :
    /\ dead[c] \subseteq sock[c]
    /\ c \notin chans \/ at[c] \in {"video", "freeing"} => sock[c] = {}
    /\ dead[c] # {} =>
         \/ c \in reused
         \/ proto[c] = "tcp" /\ (rcv[c] # "off" \/ at[c] \in {"join", "free"})

IInv ==
  /\ TypeOK /\ PortsOnce /\ OwnedOK /\ PortsAccounted
  /\ StageOK /\ NamedOK /\ DeadOK /\ RunOK
-----------------------------------------------------------------------------
(* What the calls make of the list of free ports.                          *)

LEMMA IsSeq ==
  ASSUME NEW S, NEW n \in Nat, NEW f \in [1..n -> S]
  PROVE  f \in Seq(S) /\ DOMAIN f = 1..n
  OBVIOUS

LEMMA FreeSeq ==
  ASSUME TypeOK
  PROVE  /\ Len(free) \in Nat /\ DOMAIN free = 1..Len(free)
         /\ \A i \in 1..Len(free) : free[i] \in 0..N
<1>1. free \in Seq(0..N)
  BY DEF TypeOK
<1> QED
  BY <1>1, LenProperties, ElementOfSeq

FreeOK(s, b) ==
  /\ \A i, j \in DOMAIN s : i # j /\ s[i] # 0 => s[i] # s[j]
  /\ \A i \in DOMAIN s : s[i] \notin b

\* The port that is taken leaves the list.
LEMMA TakenList ==
  ASSUME TypeOK, PortsOnce, NEW pr, NEW k \in DOMAIN free, free[k] \in Ports
  PROVE  /\ After(pr, k) \in Seq(0..N)
         /\ FreeOK(After(pr, k), busy \cup {free[k]})
<1> DEFINE n == Len(free)
           s == After(pr, k)
<1>1. /\ n \in Nat /\ DOMAIN free = 1..n /\ k \in 1..n
      /\ \A i \in 1..n : free[i] \in 0..N
  BY FreeSeq
<1>7. n - 1 \in Nat
  BY <1>1
<1>8. 0 \notin busy /\ 0 # free[k]
  BY NetAssumption DEF TypeOK, Ports
<1>2. DOMAIN s = 1..(n - 1)
  BY DEF After
<1>3. ASSUME NEW i \in 1..(n - 1)
      PROVE  /\ i + k <= n => s[i] = free[i + k] /\ i + k \in 1..n
             /\ ~(i + k <= n) =>
                  /\ i + k - n \in 1..n /\ i + k - n # k
                  /\ s[i] = 0 \/ s[i] = free[i + k - n]
  BY <1>1 DEF After, Passed
<1>4. ASSUME NEW i \in 1..(n - 1)
      PROVE  s[i] \in 0..N /\ s[i] \notin busy \cup {free[k]}
  <2>1. ASSUME NEW m \in 1..n, m # k
        PROVE  free[m] \in 0..N /\ (free[m] = 0 \/ free[m] \notin busy \cup {free[k]})
    BY <1>1, <2>1 DEF PortsOnce
  <2>2. 0 \in 0..N
    BY NetAssumption
  <2>3. CASE i + k <= n
    <3>1. i + k \in 1..n /\ i + k # k /\ s[i] = free[i + k]
      BY <1>1, <1>3, <2>3
    <3> QED
      BY <3>1, <2>1, <1>8
  <2>4. CASE ~(i + k <= n)
    BY <1>3, <2>1, <2>2, <2>4, <1>8
  <2> QED
    BY <2>3, <2>4
<1>5. ASSUME NEW i \in 1..(n - 1), NEW j \in 1..(n - 1), i # j, s[i] # 0
      PROVE  s[i] # s[j]
  <2> DEFINE m(x) == IF x + k <= n THEN x + k ELSE x + k - n
  <2>1. m(i) \in 1..n /\ m(j) \in 1..n
    BY <1>1, <1>3
  <2>3. m(i) # m(j)
    BY <1>1, <1>5
  <2>2. s[i] = free[m(i)] /\ (s[j] = 0 \/ s[j] = free[m(j)])
    BY <1>3, <1>5
  <2> QED
    BY <1>1, <1>5, <2>1, <2>2, <2>3 DEF PortsOnce
<1>6. s \in [1..(n - 1) -> 0..N]
  BY <1>2, <1>4 DEF After
<1> QED
  BY <1>2, <1>4, <1>5, <1>6, <1>7, IsSeq DEF FreeOK

\* Nothing is taken.
LEMMA PassedList ==
  ASSUME TypeOK, PortsOnce, NEW pr
  PROVE  AfterNone(pr) \in Seq(0..N) /\ FreeOK(AfterNone(pr), busy)
<1>1. /\ Len(free) \in Nat /\ DOMAIN free = 1..Len(free)
      /\ \A i \in 1..Len(free) : free[i] \in 0..N
  BY FreeSeq
<1>2. AfterNone(pr) \in [1..Len(free) -> 0..N]
  BY <1>1, NetAssumption DEF AfterNone, Passed
<1>3. \A i \in 1..Len(free) : AfterNone(pr)[i] = 0 \/ AfterNone(pr)[i] = free[i]
  BY <1>1 DEF AfterNone, Passed
<1>4. AfterNone(pr) \in Seq(0..N) /\ DOMAIN AfterNone(pr) = 1..Len(free)
  BY <1>1, <1>2, IsSeq
<1>5. 0 \notin busy
  BY NetAssumption DEF TypeOK, Ports
<1> QED
  BY <1>1, <1>3, <1>4, <1>5 DEF PortsOnce, FreeOK

\* A busy port is freed.
LEMMA FreedList ==
  ASSUME TypeOK, PortsOnce, NEW p, p \in Ports => p \in busy, FreePort(p)
  PROVE  /\ free' \in Seq(0..N) /\ busy' \subseteq Ports
         /\ FreeOK(free', busy')
<1>1. /\ Len(free) \in Nat /\ DOMAIN free = 1..Len(free)
      /\ \A i \in 1..Len(free) : free[i] \in 0..N
  BY FreeSeq
<1>2. CASE p \in Ports
  <2>1. /\ p \in 0..N /\ p \in busy
        /\ free' = Append(free, p) /\ busy' = busy \ {p}
    BY <1>2, NetAssumption DEF FreePort, Ports
  <2>2. /\ free' \in Seq(0..N) /\ DOMAIN free' = 1..(Len(free) + 1)
        /\ \A i \in 1..Len(free) : free'[i] = free[i]
        /\ free'[Len(free) + 1] = p
    BY <2>1, <1>1 DEF TypeOK
  <2>3. \A i \in 1..Len(free) : free[i] # p
    BY <1>1, <2>1 DEF PortsOnce
  <2>4. \A i \in DOMAIN free' : i \in 1..Len(free) \/ i = Len(free) + 1
    BY <1>1, <2>2
  <2> QED
    BY <1>1, <2>1, <2>2, <2>3, <2>4 DEF TypeOK, PortsOnce, FreeOK
<1>3. CASE p \notin Ports
  BY <1>3 DEF FreePort, TypeOK, PortsOnce, FreeOK
<1> QED
  BY <1>2, <1>3
-----------------------------------------------------------------------------
(* What shutting a channel's connections down makes of the sockets.        *)

LEMMA StruckOnly ==
  ASSUME NEW c \in Clients, NEW X \in SUBSET Aliases(c), NEW d \in Clients
  PROVE  /\ dead[d] \subseteq Struck(d, X) /\ Struck(d, X) \subseteq dead[d] \cup sock[d]
         /\ Struck(d, X) = dead[d] \/ d \in reused \ {c}
<1>1. ASSUME NEW x \in X, x[1] = d
      PROVE  x[2] \in sock[d] /\ d \in reused \ {c}
  BY <1>1 DEF Aliases
<1> QED
  BY <1>1 DEF Struck

LEMMA Shut ==
  ASSUME TypeOK, NEW c \in Clients, NEW P \in SUBSET (Ports \cup Groups), ShutDown(c, P)
  PROVE  /\ sock' = [sock EXCEPT ![c] = P]
         /\ sock' \in [Clients -> SUBSET (Ports \cup Groups)]
         /\ dead' \in [Clients -> SUBSET (Ports \cup Groups)] /\ reused' \subseteq Clients
         /\ dead'[c] = {}
         /\ \A d \in Clients \ {c} :
              /\ dead'[d] \subseteq dead[d] \cup sock[d]
              /\ dead'[d] = dead[d] \/ d \in reused
              /\ d \in reused => d \in reused'
<1>1. PICK X \in SUBSET Aliases(c) :
        dead' = [d \in Clients |-> IF d = c THEN {} ELSE Struck(d, X)]
  BY DEF ShutDown
<1>2. \A d \in Clients :
        /\ Struck(d, X) \subseteq dead[d] \cup sock[d]
        /\ Struck(d, X) = dead[d] \/ d \in reused
  BY StruckOnly
<1>3. \A d \in Clients : Struck(d, X) \in SUBSET (Ports \cup Groups)
  BY <1>2 DEF TypeOK
<1>4. reused' \subseteq Clients /\ \A d \in reused \ {c} : d \in reused'
  BY DEF ShutDown, TypeOK
<1>5. sock' = [sock EXCEPT ![c] = P] /\ sock' \in [Clients -> SUBSET (Ports \cup Groups)]
  BY DEF ShutDown, TypeOK
<1> QED
  BY <1>1, <1>2, <1>3, <1>4, <1>5

LEMMA ShutSock ==
  ASSUME TypeOK, NEW c \in Clients, NEW P, ShutDown(c, P)
  PROVE  sock' = [d \in Clients |-> IF d = c THEN P ELSE sock[d]]
BY DEF ShutDown, TypeOK

LEMMA Gets ==
  ASSUME TypeOK, NEW c \in Clients, NewSocket(c)
  PROVE  reused' \subseteq Clients /\ reused \subseteq reused'
BY DEF NewSocket, TypeOK

-----------------------------------------------------------------------------
(* Every step keeps the types.                                             *)

LEMMA TypeStart ==
  ASSUME TypeOK, PortsOnce, OwnedOK, StageOK, NEW c \in Clients, Start(c)
  PROVE  TypeOK'
<1> USE DEF TypeOK, Go, At, portVars, chanVars, connVars, threadVars
<1>1. ASSUME NEW pr \in Protocols, GetChannel(c, pr) PROVE TypeOK'
  BY <1>1, NetAssumption DEF GetChannel
<1>2. ASSUME NEW k \in DOMAIN free, TakeVideoPort(c, k) PROVE TypeOK'
  <2>1. free[k] \in Ports /\ free' \in Seq(0..N)
    BY <1>2, TakenList DEF TakeVideoPort, FirstFit, Unbound
  <2>2. reused' \subseteq Clients
    BY <1>2, Gets DEF TakeVideoPort
  <2> QED
    BY <1>2, <2>1, <2>2 DEF TakeVideoPort
<1>3. CASE NoVideoPort(c)
  <2>1. free' \in Seq(0..N)
    BY <1>3, PassedList DEF NoVideoPort
  <2> QED
    BY <1>3, <2>1 DEF NoVideoPort
<1>4. ASSUME NEW k \in DOMAIN free, TakeAudioPort(c, k) PROVE TypeOK'
  <2>1. free[k] \in Ports /\ free' \in Seq(0..N)
    BY <1>4, TakenList DEF TakeAudioPort, FirstFit, Unbound
  <2>2. reused' \subseteq Clients
    BY <1>4, Gets DEF TakeAudioPort
  <2> QED
    BY <1>4, <2>1, <2>2 DEF TakeAudioPort
<1>5. CASE NoAudioPort(c)
  <2>1. free' \in Seq(0..N)
    BY <1>5, PassedList DEF NoAudioPort
  <2>2. lost' \subseteq Ports
    BY <1>5 DEF NoAudioPort, StageOK
  <2> QED
    BY <1>5, <2>1, <2>2 DEF NoAudioPort
<1>6. CASE Setup(c)
  BY <1>6 DEF Setup
<1>7. CASE OpenUnicast(c)
  BY <1>7 DEF OpenUnicast
<1>8. CASE OpenFails(c)
  BY <1>8, Shut DEF OpenFails
<1>9. ASSUME NEW g \in Groups, OpenMulticast(c, g) PROVE TypeOK'
  BY <1>9, Shut DEF OpenMulticast
<1>10. CASE GroupFreesVideo(c)
  <2>1. free' \in Seq(0..N) /\ busy' \subseteq Ports
    <3>1. video[c] \in Ports => video[c] \in busy
      BY <1>10 DEF GroupFreesVideo, OwnedOK, Owned
    <3> QED
      BY <1>10, <3>1, FreedList DEF GroupFreesVideo
  <2> QED
    BY <1>10, <2>1 DEF GroupFreesVideo, FreePort
<1>11. CASE GroupFreesAudio(c)
  <2>1. free' \in Seq(0..N) /\ busy' \subseteq Ports
    <3>1. audio[c] \in Ports => audio[c] \in busy
      BY <1>11 DEF GroupFreesAudio, OwnedOK, Owned, Holds
    <3> QED
      BY <1>11, <3>1, FreedList DEF GroupFreesAudio
  <2>2. PICK g \in sock[c] :
          video' = [video EXCEPT ![c] = g] /\ audio' = [audio EXCEPT ![c] = g]
    BY <1>11 DEF GroupFreesAudio
  <2>3. g \in Ports \cup Groups
    BY <2>2
  <2>4. /\ video' \in [Clients -> Ports \cup Groups \cup {0}]
        /\ audio' \in [Clients -> Ports \cup Groups \cup {0}]
    BY <2>2, <2>3
  <2>5. /\ src' \in [Clients -> {"none", "idle", "run", "killed"}]
        /\ sock' \in [Clients -> SUBSET (Ports \cup Groups)]
        /\ dead' \in [Clients -> SUBSET (Ports \cup Groups)] /\ reused' \subseteq Clients
    BY <1>11, Shut DEF GroupFreesAudio
  <2>6. at' \in [Clients -> {"idle", "video", "audio", "setup", "open", "groupVideo",
                         "groupAudio", "key", "start", "play", "close",
                         "closeAudio", "stop", "join", "free", "freeing"}]
    BY <1>11 DEF GroupFreesAudio
  <2> QED
    BY <1>11, <2>1, <2>4, <2>5, <2>6 DEF GroupFreesAudio, FreePort
<1>12. CASE WaitForKey(c)
  BY <1>12 DEF WaitForKey
<1>13. CASE StartRecvStream(c)
  BY <1>13 DEF StartRecvStream
<1>14. CASE PlayerFails(c)
  BY <1>14 DEF PlayerFails
<1>15. CASE SendPlay(c)
  BY <1>15 DEF SendPlay
<1> QED
  BY <1>1, <1>2, <1>3, <1>4, <1>5, <1>6, <1>7, <1>8, <1>9, <1>10, <1>11, <1>12,
     <1>13, <1>14, <1>15 DEF Start

LEMMA TypeRest ==
  ASSUME TypeOK, PortsOnce, OwnedOK, NEW c \in Clients,
         Stop(c) \/ Finish(c) \/ Fails(c) \/ Receive(c)
  PROVE  TypeOK'
<1> USE DEF TypeOK, Go, At, portVars, chanVars, connVars, threadVars
<1>1. CASE Stop(c)
  BY <1>1 DEF Stop
<1>2. CASE CloseFreesVideo(c)
  <2>1. free' \in Seq(0..N) /\ busy' \subseteq Ports
    <3>1. video[c] \in Ports => video[c] \in busy
      BY <1>2 DEF CloseFreesVideo, OwnedOK, Owned
    <3> QED
      BY <1>2, <3>1, FreedList DEF CloseFreesVideo
  <2> QED
    BY <1>2, <2>1 DEF CloseFreesVideo, FreePort
<1>3. CASE CloseFreesAudio(c)
  <2>1. free' \in Seq(0..N) /\ busy' \subseteq Ports
    <3>1. audio[c] \in Ports => audio[c] \in busy
      BY <1>3 DEF CloseFreesAudio, OwnedOK, Owned, Holds
    <3> QED
      BY <1>3, <3>1, FreedList DEF CloseFreesAudio
  <2> QED
    BY <1>3, <2>1 DEF CloseFreesAudio, FreePort
<1>4. CASE StopSource(c)
  BY <1>4 DEF StopSource
<1>5. CASE Join(c)
  BY <1>5 DEF Join
<1>6. CASE FreeChannel(c)
  BY <1>6, Shut DEF FreeChannel
<1>7. CASE ChannelDeleted(c)
  BY <1>7 DEF ChannelDeleted
<1>8. CASE LoopEnds(c)
  BY <1>8 DEF LoopEnds, Thread
<1>9. CASE NoData(c)
  BY <1>9 DEF NoData, Thread
<1>12. CASE RecvCloses(c)
  <2>1. dead' \in [Clients -> SUBSET (Ports \cup Groups)]
    <3>1. CASE dead[c] = {}
      BY <1>12, <3>1 DEF RecvCloses
    <3>2. CASE dead[c] # {}
      <4>1. PICK x \in Aliases(c) : dead' = [d \in Clients |-> Struck(d, {x})]
        BY <1>12, <3>2 DEF RecvCloses
      <4>2. \A d \in Clients : Struck(d, {x}) \in SUBSET (Ports \cup Groups)
        BY StruckOnly
      <4> QED
        BY <4>1, <4>2
    <3> QED
      BY <3>1, <3>2
  <2> QED
    BY <1>12, <2>1 DEF RecvCloses
<1>10. CASE Report(c)
  BY <1>10 DEF Report, Thread
<1>11. CASE Reported(c)
  BY <1>11 DEF Reported, Thread
<1> QED
  BY <1>1, <1>2, <1>3, <1>4, <1>5, <1>6, <1>7, <1>8, <1>9, <1>10, <1>11,
     <1>12 DEF Finish, Fails, Receive
-----------------------------------------------------------------------------
(* Every step keeps the lists apart and what is owned busy.                *)

\* A client that does nothing owns what it owned.
LEMMA Others ==
  ASSUME NEW d, at'[d] = at[d], video'[d] = video[d], audio'[d] = audio[d],
         d \in chans' <=> d \in chans
  PROVE  Owned(d)' = Owned(d)
BY DEF Owned, Holds

\* Nobody owns more, and the lists do not change.
LEMMA SameLists ==
  ASSUME PortsOnce, OwnedOK, free' = free, busy' = busy,
         \A d \in Clients : Owned(d)' \subseteq Owned(d),
         \A d \in Clients :
           (video[d] = audio[d] => video[d] \notin Ports) =>
             (video'[d] = audio'[d] => video'[d] \notin Ports)
  PROVE  PortsOnce' /\ OwnedOK'
<1>1. PortsOnce'
  BY DEF PortsOnce
<1>2. \A d \in Clients : Owned(d)' \subseteq busy'
  BY DEF OwnedOK
<1>3. \A d, e \in Clients : d # e => Owned(d)' \cap Owned(e)' = {}
  BY DEF OwnedOK
<1>4. \A d \in Clients : video'[d] = audio'[d] => video'[d] \notin Ports
  BY DEF OwnedOK
<1> QED
  BY <1>1, <1>2, <1>3, <1>4 DEF OwnedOK, Ports

\* A client takes a port from the list, or finds none.
LEMMA Takes ==
  ASSUME OwnedOK, NEW c \in Clients, NEW P, P \cap busy = {}, P \subseteq Ports,
         FreeOK(free', busy'), busy' = busy \cup P,
         Owned(c)' \subseteq Owned(c) \cup P,
         \A d \in Clients \ {c} : Owned(d)' = Owned(d),
         \A d \in Clients : video'[d] = audio'[d] => video'[d] \notin Ports
  PROVE  PortsOnce' /\ OwnedOK'
<1>1. PortsOnce'
  BY DEF PortsOnce, FreeOK
<1>2. \A d \in Clients : Owned(d)' \subseteq busy'
  BY DEF OwnedOK
<1>3. \A d, e \in Clients : d # e => Owned(d)' \cap Owned(e)' = {}
  BY DEF OwnedOK
<1> QED
  BY <1>1, <1>2, <1>3 DEF OwnedOK, Ports

\* A client gives back a port that it owns, or a port that is in no list.
LEMMA Frees ==
  ASSUME TypeOK, PortsOnce, OwnedOK, NEW c \in Clients, NEW p,
         p \in Ports => p \in Owned(c), FreePort(p),
         Owned(c)' \subseteq Owned(c) \ {p},
         \A d \in Clients \ {c} : Owned(d)' = Owned(d),
         \A d \in Clients : video'[d] = audio'[d] => video'[d] \notin Ports
  PROVE  PortsOnce' /\ OwnedOK'
<1>1. FreeOK(free', busy')
  BY FreedList DEF OwnedOK
<1>2. PortsOnce'
  BY <1>1 DEF PortsOnce, FreeOK
<1>3. busy' = busy \ {p} /\ \A d \in Clients : Owned(d) \subseteq Ports
  BY DEF FreePort, Owned
<1>4. \A d \in Clients : Owned(d)' \subseteq busy'
  <2> SUFFICES ASSUME NEW d \in Clients, NEW q \in Owned(d)' PROVE q \in busy'
    OBVIOUS
  <2>1. CASE d = c
    BY <1>3, <2>1 DEF OwnedOK
  <2>2. CASE d # c
    BY <1>3, <2>2 DEF OwnedOK
  <2> QED
    BY <2>1, <2>2
<1>5. \A d, e \in Clients : d # e => Owned(d)' \cap Owned(e)' = {}
  BY DEF OwnedOK
<1> QED
  BY <1>2, <1>4, <1>5 DEF OwnedOK, Ports

LEMMA ListStart ==
  ASSUME TypeOK, PortsOnce, OwnedOK, StageOK, NEW c \in Clients, Start(c)
  PROVE  PortsOnce' /\ OwnedOK'
<1> USE DEF Go, At, portVars, chanVars, connVars, threadVars
<1>0. ASSUME at' = [at EXCEPT ![c] = at'[c]], chans' = chans \/ chans' = chans \cup {c},
             \A d \in Clients \ {c} : video'[d] = video[d] /\ audio'[d] = audio[d]
      PROVE  \A d \in Clients \ {c} : Owned(d)' = Owned(d)
  BY <1>0, Others DEF TypeOK
<1>1. ASSUME NEW pr \in Protocols, GetChannel(c, pr)
      PROVE  PortsOnce' /\ OwnedOK'
  <2>1. Owned(c)' = {}
    BY <1>1 DEF GetChannel, Owned, Holds, TypeOK
  <2> QED
    BY <1>0, <1>1, <2>1, SameLists DEF GetChannel, TypeOK
<1>2. ASSUME NEW k \in DOMAIN free, TakeVideoPort(c, k)
      PROVE  PortsOnce' /\ OwnedOK'
  <2>1. free[k] \in Ports /\ free[k] \notin busy /\ free[k] # 0
    BY <1>2, NetAssumption DEF TakeVideoPort, FirstFit, Unbound, PortsOnce, Ports
  <2>2. FreeOK(free', busy')
    BY <1>2, <2>1, TakenList DEF TakeVideoPort
  <2>3. video'[c] = free[k] /\ audio'[c] = 0 /\ 0 \notin Ports
    BY <1>2, NetAssumption DEF TakeVideoPort, StageOK, TypeOK, Ports
  <2>4. Owned(c)' \subseteq {free[k]}
    BY <2>3 DEF Owned, Ports
  <2>5. \A d \in Clients : video'[d] = audio'[d] => video'[d] \notin Ports
    BY <1>2, <2>1, <2>3 DEF TakeVideoPort, OwnedOK, TypeOK
  <2>6. \A d \in Clients \ {c} : Owned(d)' = Owned(d)
    BY <1>0, <1>2 DEF TakeVideoPort, TypeOK
  <2>7. busy' = busy \cup {free[k]} /\ {free[k]} \cap busy = {} /\ {free[k]} \subseteq Ports
    BY <1>2, <2>1 DEF TakeVideoPort
  <2> QED
    BY <2>2, <2>4, <2>5, <2>6, <2>7, Takes
<1>3. CASE NoVideoPort(c)
  <2>1. FreeOK(free', busy')
    BY <1>3, PassedList DEF NoVideoPort
  <2>2. Owned(c)' = {}
    BY <1>3 DEF NoVideoPort, Owned, Holds, TypeOK
  <2>3. \A d \in Clients : video'[d] = audio'[d] => video'[d] \notin Ports
    BY <1>3 DEF NoVideoPort, OwnedOK
  <2> QED
    BY <1>0, <1>3, <2>1, <2>2, <2>3, Takes DEF NoVideoPort, TypeOK
<1>4. ASSUME NEW k \in DOMAIN free, TakeAudioPort(c, k)
      PROVE  PortsOnce' /\ OwnedOK'
  <2>1. free[k] \in Ports /\ free[k] \notin busy /\ free[k] # 0
    BY <1>4, NetAssumption DEF TakeAudioPort, FirstFit, Unbound, PortsOnce, Ports
  <2>2. FreeOK(free', busy')
    BY <1>4, <2>1, TakenList DEF TakeAudioPort
  <2>3. audio'[c] = free[k] /\ video'[c] = video[c]
    BY <1>4 DEF TakeAudioPort, TypeOK
  <2>4. Ports \cap {video[c]} \subseteq Owned(c)
    BY <1>4 DEF TakeAudioPort, Owned, Holds
  <2>5. Owned(c)' \subseteq Owned(c) \cup {free[k]}
    BY <2>3, <2>4 DEF Owned, Ports
  <2>6. video[c] # free[k]
    BY <2>1, <2>4 DEF OwnedOK
  <2>7. \A d \in Clients : video'[d] = audio'[d] => video'[d] \notin Ports
    BY <1>4, <2>3, <2>6 DEF TakeAudioPort, OwnedOK, TypeOK
  <2>8. \A d \in Clients \ {c} : Owned(d)' = Owned(d)
    BY <1>0, <1>4 DEF TakeAudioPort, TypeOK
  <2>9. busy' = busy \cup {free[k]} /\ {free[k]} \cap busy = {} /\ {free[k]} \subseteq Ports
    BY <1>4, <2>1 DEF TakeAudioPort
  <2> QED
    BY <2>2, <2>5, <2>7, <2>8, <2>9, Takes
<1>5. CASE NoAudioPort(c)
  <2>1. FreeOK(free', busy')
    BY <1>5, PassedList DEF NoAudioPort
  <2>2. Owned(c)' = {}
    BY <1>5 DEF NoAudioPort, Owned, Holds, TypeOK
  <2>3. \A d \in Clients : video'[d] = audio'[d] => video'[d] \notin Ports
    BY <1>5 DEF NoAudioPort, OwnedOK
  <2> QED
    BY <1>0, <1>5, <2>1, <2>2, <2>3, Takes DEF NoAudioPort, TypeOK
<1>6. CASE GroupFreesVideo(c)
  <2>1. video'[c] = video[c] /\ audio'[c] = audio[c] /\ at'[c] = "groupAudio"
    BY <1>6 DEF GroupFreesVideo, TypeOK
  <2>2. Owned(c) = Ports \cap {video[c], audio[c]} /\ Owned(c)' = Ports \cap {audio[c]}
    BY <1>6, <2>1 DEF GroupFreesVideo, Owned, Holds, Ports
  <2>3. Owned(c)' \subseteq Owned(c) \ {video[c]}
    BY <2>2 DEF OwnedOK
  <2>4. \A d \in Clients : video'[d] = audio'[d] => video'[d] \notin Ports
    BY <1>6 DEF GroupFreesVideo, OwnedOK
  <2> QED
    BY <1>0, <1>6, <2>2, <2>3, <2>4, Frees DEF GroupFreesVideo, TypeOK
<1>7. CASE GroupFreesAudio(c)
  <2>1. PICK g \in sock[c] :
          video' = [video EXCEPT ![c] = g] /\ audio' = [audio EXCEPT ![c] = g]
    BY <1>7 DEF GroupFreesAudio
  <2>2. Owned(c) = Ports \cap {audio[c]} /\ at'[c] \in {"key", "close"}
    BY <1>7 DEF GroupFreesAudio, Owned, Holds, TypeOK
  <2>3. g \notin Ports /\ video'[c] = g /\ audio'[c] = g
    BY <1>7, <2>1, NetAssumption DEF GroupFreesAudio, StageOK, TypeOK, Ports
  <2>4. Owned(c)' = {}
    BY <2>3 DEF Owned, Ports
  <2>5. \A d \in Clients : video'[d] = audio'[d] => video'[d] \notin Ports
    BY <2>1, <2>3 DEF OwnedOK, TypeOK
  <2>6. \A d \in Clients \ {c} : Owned(d)' = Owned(d)
    BY <1>0, <1>7, <2>1 DEF GroupFreesAudio, TypeOK
  <2>7. FreePort(audio[c])
    BY <1>7 DEF GroupFreesAudio
  <2> QED
    BY <2>2, <2>4, <2>5, <2>6, <2>7, Frees
<1>8. CASE Setup(c) \/ OpenUnicast(c) \/ OpenFails(c) \/ (\E g \in Groups : OpenMulticast(c, g))
             \/ WaitForKey(c) \/ StartRecvStream(c) \/ PlayerFails(c) \/ SendPlay(c)
  <2>1. /\ free' = free /\ busy' = busy
        /\ chans' = chans /\ video' = video /\ audio' = audio
        /\ at' = [at EXCEPT ![c] = at'[c]]
    BY <1>8 DEF Setup, OpenUnicast, OpenFails, OpenMulticast, WaitForKey,
                StartRecvStream, PlayerFails, SendPlay, TypeOK
  <2>2. Holds(c)
    BY <1>8 DEF Setup, OpenUnicast, OpenFails, OpenMulticast, WaitForKey,
                StartRecvStream, PlayerFails, SendPlay, Holds
  <2>3. Owned(c)' \subseteq Owned(c)
    BY <2>1, <2>2 DEF Owned, Ports
  <2> QED
    BY <1>0, <2>1, <2>3, SameLists
<1> QED
  BY <1>1, <1>2, <1>3, <1>4, <1>5, <1>6, <1>7, <1>8 DEF Start

LEMMA ListRest ==
  ASSUME TypeOK, PortsOnce, OwnedOK, NEW c \in Clients,
         Stop(c) \/ Finish(c) \/ Fails(c) \/ Receive(c)
  PROVE  PortsOnce' /\ OwnedOK'
<1> USE DEF Go, At, portVars, chanVars, connVars, threadVars
<1>1. CASE CloseFreesVideo(c)
  <2>1. /\ chans' = chans /\ video' = video /\ audio' = audio
        /\ at' = [at EXCEPT ![c] = at'[c]]
        /\ at'[c] \in {"closeAudio", "stop"}
    BY <1>1 DEF CloseFreesVideo, TypeOK
  <2>2. Owned(c) = Ports \cap {video[c], audio[c]} /\ Owned(c)' \subseteq {audio[c]}
    BY <1>1, <2>1 DEF CloseFreesVideo, Owned, Holds, Ports
  <2>3. Owned(c)' \subseteq Owned(c) \ {video[c]}
    BY <2>1, <2>2 DEF OwnedOK, Owned, Ports
  <2>4. \A d \in Clients \ {c} : Owned(d)' = Owned(d)
    BY <2>1, Others DEF TypeOK
  <2> QED
    BY <1>1, <2>1, <2>2, <2>3, <2>4, Frees DEF CloseFreesVideo, OwnedOK
<1>2. CASE CloseFreesAudio(c)
  <2>1. /\ chans' = chans /\ video' = video /\ audio' = audio
        /\ at' = [at EXCEPT ![c] = "stop"]
    BY <1>2 DEF CloseFreesAudio, TypeOK
  <2>2. Owned(c) = Ports \cap {audio[c]} /\ Owned(c)' = {}
    BY <1>2, <2>1 DEF CloseFreesAudio, Owned, Holds, TypeOK, Ports
  <2>3. \A d \in Clients \ {c} : Owned(d)' = Owned(d)
    BY <2>1, Others DEF TypeOK
  <2> QED
    BY <1>2, <2>1, <2>2, <2>3, Frees DEF CloseFreesAudio, OwnedOK
<1>3. CASE ChannelDeleted(c)
  <2>1. /\ free' = free /\ busy' = busy
        /\ Owned(c)' = {} /\ video'[c] = 0 /\ 0 \notin Ports
        /\ \A d \in Clients \ {c} :
             /\ at'[d] = at[d] /\ video'[d] = video[d] /\ audio'[d] = audio[d]
             /\ d \in chans' <=> d \in chans
    BY <1>3, NetAssumption DEF ChannelDeleted, Owned, Holds, TypeOK, Ports
  <2>2. \A d \in Clients \ {c} : Owned(d)' = Owned(d)
    BY <2>1, Others
  <2> QED
    BY <2>1, <2>2, SameLists
<1>4. CASE Stop(c) \/ StopSource(c) \/ Join(c) \/ FreeChannel(c)
  <2>1. /\ free' = free /\ busy' = busy
        /\ chans' = chans /\ video' = video /\ audio' = audio
        /\ at' = [at EXCEPT ![c] = at'[c]]
    BY <1>4 DEF Stop, StopSource, Join, FreeChannel, TypeOK
  <2>2. Owned(c)' \subseteq Owned(c)
    <3>1. CASE Stop(c)
      BY <2>1, <3>1 DEF Stop, Owned, Holds, Ports
    <3>2. CASE StopSource(c) \/ Join(c) \/ FreeChannel(c)
      BY <2>1, <3>2 DEF StopSource, Join, FreeChannel, Owned, Holds, TypeOK, Ports
    <3> QED
      BY <1>4, <3>1, <3>2
  <2>3. \A d \in Clients \ {c} : Owned(d)' = Owned(d)
    BY <2>1, Others DEF TypeOK
  <2> QED
    BY <2>1, <2>2, <2>3, SameLists
<1>5. CASE Fails(c) \/ Receive(c)
  <2>1. /\ free' = free /\ busy' = busy /\ at' = at
        /\ chans' = chans /\ video' = video /\ audio' = audio
    BY <1>5 DEF Fails, RecvCloses, NoData, Receive, LoopEnds, Report, Reported
  <2> QED
    BY <2>1, Others, SameLists
<1> QED
  BY <1>1, <1>2, <1>3, <1>4, <1>5 DEF Finish
-----------------------------------------------------------------------------
(* The stages of a channel, its sockets and its thread.                    *)

LEMMA StageStep ==
  ASSUME TypeOK, PortsOnce, StageOK, RunOK, NEW c \in Clients,
         Start(c) \/ Stop(c) \/ Finish(c) \/ Fails(c) \/ Receive(c)
  PROVE  StageOK'
<1> USE DEF Go, At, portVars, chanVars, connVars, threadVars, TypeOK, StageOK
<1>1. ASSUME NEW pr \in Protocols, GetChannel(c, pr) PROVE StageOK'
  BY <1>1 DEF GetChannel
<1>2. ASSUME NEW k \in DOMAIN free, TakeVideoPort(c, k) PROVE StageOK'
  <2>1. free[k] \in Ports
    BY <1>2 DEF TakeVideoPort, FirstFit, Unbound
  <2> QED
    BY <1>2, <2>1 DEF TakeVideoPort
<1>3. CASE NoVideoPort(c)
  BY <1>3 DEF NoVideoPort
<1>4. ASSUME NEW k \in DOMAIN free, TakeAudioPort(c, k) PROVE StageOK'
  BY <1>4 DEF TakeAudioPort
<1>5. CASE NoAudioPort(c)
  BY <1>5 DEF NoAudioPort
<1>6. CASE Setup(c) \/ OpenUnicast(c)
  BY <1>6 DEF Setup, OpenUnicast
<1>14. CASE OpenFails(c)
  BY <1>14, ShutSock DEF OpenFails
<1>7. ASSUME NEW g \in Groups, OpenMulticast(c, g) PROVE StageOK'
  <2>1. sock' = [d \in Clients |-> IF d = c THEN {g} ELSE sock[d]]
    BY <1>7, ShutSock DEF OpenMulticast
  <2>2. /\ at' = [at EXCEPT ![c] = "groupVideo"] /\ at[c] = "open" /\ proto[c] = "udp"
        /\ chans' = chans /\ proto' = proto /\ video' = video /\ audio' = audio
    BY <1>7 DEF OpenMulticast
  <2> QED
    BY <2>1, <2>2, <1>7
<1>8. CASE GroupFreesVideo(c)
  BY <1>8 DEF GroupFreesVideo
<1>9. CASE GroupFreesAudio(c)
  <2>1. CASE ShutDown(c, {}) /\ Go(c, "close")
    BY <1>9, <2>1, ShutSock DEF GroupFreesAudio
  <2>2. CASE Go(c, "key") /\ UNCHANGED connVars
    BY <1>9, <2>2 DEF GroupFreesAudio
  <2> QED
    BY <1>9, <2>1, <2>2 DEF GroupFreesAudio
<1>10. CASE WaitForKey(c) \/ StartRecvStream(c) \/ PlayerFails(c) \/ SendPlay(c)
  BY <1>10 DEF WaitForKey, StartRecvStream, PlayerFails, SendPlay
<1>11. CASE Stop(c) \/ CloseFreesVideo(c) \/ CloseFreesAudio(c) \/ StopSource(c) \/ Join(c)
  BY <1>11 DEF Stop, CloseFreesVideo, CloseFreesAudio, StopSource, Join
<1>12. CASE FreeChannel(c)
  BY <1>12, ShutSock DEF FreeChannel
<1>15. CASE ChannelDeleted(c)
  BY <1>15 DEF ChannelDeleted
<1>13. CASE Fails(c) \/ Receive(c)
  BY <1>13 DEF Fails, RecvCloses, NoData, Receive, LoopEnds, Report, Reported
<1> QED
  BY <1>1, <1>2, <1>3, <1>4, <1>5, <1>6, <1>7, <1>8, <1>9, <1>10, <1>11, <1>12,
     <1>13, <1>14, <1>15 DEF Start, Finish

LEMMA BoundStep ==
  ASSUME TypeOK, StageOK, NamedOK, NEW c \in Clients,
         Start(c) \/ Stop(c) \/ Finish(c) \/ Fails(c) \/ Receive(c)
  PROVE  NamedOK'
<1> USE DEF Go, At, portVars, chanVars, connVars, threadVars, TypeOK, NamedOK, Named, Holds
<1>1. CASE Start(c)
  <2>1. ASSUME NEW pr \in Protocols, GetChannel(c, pr) PROVE NamedOK'
    BY <2>1 DEF GetChannel
  <2>2. ASSUME NEW k \in DOMAIN free, TakeVideoPort(c, k) PROVE NamedOK'
    BY <2>2 DEF TakeVideoPort, StageOK
  <2>3. CASE NoVideoPort(c) \/ NoAudioPort(c)
    BY <2>3 DEF NoVideoPort, NoAudioPort
  <2>4. ASSUME NEW k \in DOMAIN free, TakeAudioPort(c, k) PROVE NamedOK'
    BY <2>4 DEF TakeAudioPort, StageOK
  <2>5. CASE Setup(c) \/ OpenUnicast(c)
    BY <2>5 DEF Setup, OpenUnicast
  <2>10. CASE OpenFails(c)
    BY <2>10, ShutSock DEF OpenFails
  <2>6. ASSUME NEW g \in Groups, OpenMulticast(c, g) PROVE NamedOK'
    BY <2>6, ShutSock DEF OpenMulticast
  <2>7. CASE GroupFreesVideo(c)
    BY <2>7 DEF GroupFreesVideo
  <2>8. CASE GroupFreesAudio(c)
    <3>1. CASE ShutDown(c, {}) /\ Go(c, "close")
      BY <2>8, <3>1, ShutSock DEF GroupFreesAudio
    <3>2. CASE Go(c, "key") /\ UNCHANGED connVars
      BY <2>8, <3>2 DEF GroupFreesAudio, StageOK
    <3> QED
      BY <2>8, <3>1, <3>2 DEF GroupFreesAudio
  <2>9. CASE WaitForKey(c) \/ StartRecvStream(c) \/ PlayerFails(c) \/ SendPlay(c)
    BY <2>9 DEF WaitForKey, StartRecvStream, PlayerFails, SendPlay
  <2> QED
    BY <1>1, <2>1, <2>2, <2>3, <2>4, <2>5, <2>6, <2>7, <2>8, <2>9, <2>10 DEF Start
<1>2. CASE Stop(c) \/ Finish(c)
  <2>1. CASE FreeChannel(c)
    BY <2>1, ShutSock DEF FreeChannel
  <2>2. CASE Stop(c) \/ CloseFreesVideo(c) \/ CloseFreesAudio(c) \/ StopSource(c) \/ Join(c)
    BY <2>2 DEF Stop, CloseFreesVideo, CloseFreesAudio, StopSource, Join
  <2>3. CASE ChannelDeleted(c)
    BY <2>3 DEF ChannelDeleted
  <2> QED
    BY <1>2, <2>1, <2>2, <2>3 DEF Finish
<1>3. CASE Fails(c) \/ Receive(c)
  BY <1>3 DEF Fails, RecvCloses, NoData, Receive, LoopEnds, Report, Reported
<1> QED
  BY <1>1, <1>2, <1>3

LEMMA DeadStep ==
  ASSUME TypeOK, StageOK, RunOK, DeadOK, NEW c \in Clients,
         Start(c) \/ Stop(c) \/ Finish(c) \/ Fails(c) \/ Receive(c)
  PROVE  DeadOK'
<1> USE DEF Go, At, portVars, chanVars, connVars, threadVars, TypeOK, DeadOK
<1>1. CASE Start(c)
  <2>1. ASSUME NEW pr \in Protocols, GetChannel(c, pr) PROVE DeadOK'
    BY <2>1 DEF GetChannel
  <2>2. ASSUME NEW k \in DOMAIN free, TakeVideoPort(c, k) PROVE DeadOK'
    <3>1. /\ reused \subseteq reused' /\ reused' \subseteq Clients
          /\ dead' = dead /\ proto' = proto /\ rcv' = rcv /\ chans' = chans
          /\ \A d \in Clients \ {c} : at'[d] = at[d] /\ sock'[d] = sock[d]
      BY <2>2, Gets DEF TakeVideoPort
    <3>2. dead[c] \subseteq sock'[c] /\ c \in chans /\ at'[c] \in {"audio", "setup"}
      BY <2>2 DEF TakeVideoPort, StageOK
    <3>3. ~(at[c] \in {"join", "free"})
      BY <2>2 DEF TakeVideoPort
    <3> QED
      BY <3>1, <3>2, <3>3
  <2>3. CASE NoVideoPort(c) \/ NoAudioPort(c)
    BY <2>3 DEF NoVideoPort, NoAudioPort
  <2>4. ASSUME NEW k \in DOMAIN free, TakeAudioPort(c, k) PROVE DeadOK'
    <3>1. /\ reused \subseteq reused' /\ reused' \subseteq Clients
          /\ dead' = dead /\ proto' = proto /\ rcv' = rcv /\ chans' = chans
          /\ \A d \in Clients \ {c} : at'[d] = at[d] /\ sock'[d] = sock[d]
      BY <2>4, Gets DEF TakeAudioPort
    <3>2. dead[c] \subseteq sock'[c] /\ c \in chans /\ at'[c] \in {"audio", "setup"}
      BY <2>4 DEF TakeAudioPort, StageOK
    <3>3. ~(at[c] \in {"join", "free"})
      BY <2>4 DEF TakeAudioPort
    <3> QED
      BY <3>1, <3>2, <3>3
  <2>5. CASE Setup(c) \/ OpenUnicast(c)
    BY <2>5 DEF Setup, OpenUnicast
  <2>6. CASE OpenFails(c)
    BY <2>6, Shut DEF OpenFails
  <2>7. ASSUME NEW g \in Groups, OpenMulticast(c, g) PROVE DeadOK'
    BY <2>7, Shut DEF OpenMulticast, StageOK
  <2>8. CASE GroupFreesVideo(c)
    BY <2>8 DEF GroupFreesVideo
  <2>9. CASE GroupFreesAudio(c)
    BY <2>9, Shut DEF GroupFreesAudio
  <2>10. CASE WaitForKey(c) \/ StartRecvStream(c) \/ PlayerFails(c) \/ SendPlay(c)
    BY <2>10 DEF WaitForKey, StartRecvStream, PlayerFails, SendPlay
  <2> QED
    BY <1>1, <2>1, <2>2, <2>3, <2>4, <2>5, <2>6, <2>7, <2>8, <2>9, <2>10 DEF Start
<1>2. CASE Stop(c) \/ CloseFreesVideo(c) \/ CloseFreesAudio(c) \/ StopSource(c) \/ Join(c)
  BY <1>2 DEF Stop, CloseFreesVideo, CloseFreesAudio, StopSource, Join, RunOK
<1>3. CASE FreeChannel(c)
  BY <1>3, Shut DEF FreeChannel
<1>4. CASE ChannelDeleted(c)
  BY <1>4 DEF ChannelDeleted
<1>5. CASE RecvCloses(c)
  <2>1. CASE dead[c] = {}
    BY <1>5, <2>1 DEF RecvCloses
  <2>2. CASE dead[c] # {}
    <3>1. PICK x \in Aliases(c) : dead' = [d \in Clients |-> Struck(d, {x})]
      BY <1>5, <2>2 DEF RecvCloses
    <3>2. ASSUME NEW d \in Clients
          PROVE  /\ Struck(d, {x}) \subseteq dead[d] \cup sock[d]
                 /\ Struck(d, {x}) = dead[d] \/ d \in reused
      <4>1. {x} \in SUBSET Aliases(c)
        BY <3>1
      <4> HIDE DEF TypeOK, DeadOK
      <4> QED
        BY <4>1, StruckOnly
    <3> QED
      BY <1>5, <3>1, <3>2 DEF RecvCloses
  <2> QED
    BY <2>1, <2>2
<1>6. CASE NoData(c) \/ Receive(c)
  BY <1>6 DEF NoData, Receive, LoopEnds, Report, Reported, Thread, RunOK
<1> QED
  BY <1>1, <1>2, <1>3, <1>4, <1>5, <1>6 DEF Finish, Fails

LEMMA RunStep ==
  ASSUME TypeOK, StageOK, RunOK, NEW c \in Clients,
         Start(c) \/ Stop(c) \/ Finish(c) \/ Fails(c) \/ Receive(c)
  PROVE  RunOK'
<1> USE DEF Go, At, portVars, chanVars, connVars, threadVars, TypeOK, RunOK
<1>1. CASE Start(c)
  <2>1. ASSUME NEW pr \in Protocols, GetChannel(c, pr) PROVE RunOK'
    BY <2>1 DEF GetChannel
  <2>2. ASSUME NEW k \in DOMAIN free, TakeVideoPort(c, k) PROVE RunOK'
    BY <2>2 DEF TakeVideoPort
  <2>3. CASE NoVideoPort(c) \/ NoAudioPort(c)
    BY <2>3 DEF NoVideoPort, NoAudioPort
  <2>4. ASSUME NEW k \in DOMAIN free, TakeAudioPort(c, k) PROVE RunOK'
    BY <2>4 DEF TakeAudioPort
  <2>5. CASE Setup(c) \/ OpenUnicast(c)
    BY <2>5 DEF Setup, OpenUnicast
  <2>11. CASE OpenFails(c)
    BY <2>11, ShutSock DEF OpenFails
  <2>6. ASSUME NEW g \in Groups, OpenMulticast(c, g) PROVE RunOK'
    BY <2>6, ShutSock DEF OpenMulticast
  <2>7. CASE GroupFreesVideo(c)
    BY <2>7 DEF GroupFreesVideo
  <2>8. CASE GroupFreesAudio(c)
    <3>1. CASE ShutDown(c, {}) /\ Go(c, "close")
      BY <2>8, <3>1, ShutSock DEF GroupFreesAudio
    <3>2. CASE Go(c, "key") /\ UNCHANGED connVars
      BY <2>8, <3>2 DEF GroupFreesAudio
    <3> QED
      BY <2>8, <3>1, <3>2 DEF GroupFreesAudio
  <2>9. CASE WaitForKey(c) \/ PlayerFails(c) \/ SendPlay(c)
    BY <2>9 DEF WaitForKey, PlayerFails, SendPlay
  <2>10. CASE StartRecvStream(c)
    BY <2>10 DEF StartRecvStream, StageOK
  <2> QED
    BY <1>1, <2>1, <2>2, <2>3, <2>4, <2>5, <2>6, <2>7, <2>8, <2>9, <2>10, <2>11 DEF Start
<1>2. CASE Stop(c) \/ CloseFreesVideo(c) \/ CloseFreesAudio(c) \/ StopSource(c) \/ Join(c)
  BY <1>2 DEF Stop, CloseFreesVideo, CloseFreesAudio, StopSource, Join
<1>3. CASE FreeChannel(c)
  BY <1>3, NetAssumption, ShutSock DEF FreeChannel
<1>5. CASE ChannelDeleted(c)
  BY <1>5, NetAssumption DEF ChannelDeleted
<1>4. CASE Fails(c) \/ Receive(c)
  BY <1>4 DEF Fails, RecvCloses, NoData, Receive, LoopEnds, Report, Reported, Thread
<1> QED
  BY <1>1, <1>2, <1>3, <1>4, <1>5 DEF Finish
-----------------------------------------------------------------------------
(* No port vanishes from both lists.                                       *)

LEMMA BusyFinite ==
  ASSUME TypeOK
  PROVE  IsFiniteSet(busy) /\ Cardinality(busy) \in Nat /\ Len(free) \in Nat
<1>1. IsFiniteSet(Ports)
  BY NetAssumption, FS_Interval DEF Ports
<1>2. busy \subseteq Ports
  BY DEF TypeOK
<1>3. IsFiniteSet(busy)
  BY <1>1, <1>2, FS_Subset
<1> QED
  BY <1>3, FS_CardinalityType, FreeSeq

\* A port goes from the free list to the busy one,
LEMMA CountTaken ==
  ASSUME TypeOK, PortsOnce, PortsAccounted, NEW pr, NEW k \in DOMAIN free, free[k] \in Ports,
         free' = After(pr, k), busy' = busy \cup {free[k]}
  PROVE  PortsAccounted'
<1>1. Len(free) \in Nat /\ k \in 1..Len(free) /\ free[k] \notin busy
  BY FreeSeq DEF PortsOnce
<1>2. Cardinality(busy') = Cardinality(busy) + 1 /\ Cardinality(busy) \in Nat
  BY <1>1, BusyFinite, FS_AddElement
<1>3. Len(free') = Len(free) - 1
  <2>1. After(pr, k) \in Seq(0..N) /\ DOMAIN After(pr, k) = 1..(Len(free) - 1)
    BY TakenList DEF After
  <2>2. Len(After(pr, k)) \in Nat /\ DOMAIN After(pr, k) = 1..Len(After(pr, k))
    BY <2>1, LenProperties
  <2>3. Len(free) - 1 \in Nat
    BY <1>1
  <2>4. \A m, n \in Nat : 1..m = 1..n => m = n
    OBVIOUS
  <2>5. Len(After(pr, k)) = Len(free) - 1
    BY <2>1, <2>2, <2>3, <2>4
  <2> QED
    BY <2>5
<1> QED
  BY <1>1, <1>2, <1>3 DEF PortsAccounted

\* and back, unless it lies outside the range;
LEMMA CountFreed ==
  ASSUME TypeOK, PortsAccounted, NEW p, p \in Ports => p \in busy, FreePort(p)
  PROVE  PortsAccounted'
<1>1. Cardinality(busy) \in Nat /\ Len(free) \in Nat /\ IsFiniteSet(busy)
  BY BusyFinite
<1>2. CASE p \in Ports
  <2>1. free' = Append(free, p) /\ busy' = busy \ {p} /\ p \in busy
    BY <1>2 DEF FreePort
  <2>2. p \in 0..N /\ free \in Seq(0..N)
    BY <1>2, NetAssumption DEF Ports, TypeOK
  <2>3. Len(Append(free, p)) = Len(free) + 1
    BY <2>2, AppendProperties
  <2>4. Cardinality(busy \ {p}) = Cardinality(busy) - 1
    BY <1>1, <2>1, FS_RemoveElement
  <2>5. Len(free') = Len(free) + 1 /\ Cardinality(busy') = Cardinality(busy) - 1
    BY <2>1, <2>3, <2>4
  <2> QED
    BY <1>1, <2>5 DEF PortsAccounted
<1>3. CASE p \notin Ports
  <2>1. free' = free /\ busy' = busy
    BY <1>3 DEF FreePort, TypeOK
  <2> QED
    BY <2>1 DEF PortsAccounted
<1> QED
  BY <1>2, <1>3

\* a list of which no port can be bound keeps its length.
LEMMA CountPassed ==
  ASSUME TypeOK, PortsOnce, PortsAccounted, NEW pr, free' = AfterNone(pr), busy' = busy
  PROVE  PortsAccounted'
<1>1. Len(free) \in Nat /\ DOMAIN free = 1..Len(free)
  BY FreeSeq
<1>2. AfterNone(pr) \in Seq(0..N) /\ DOMAIN AfterNone(pr) = 1..Len(free)
  BY <1>1, PassedList DEF AfterNone
<1>3. Len(AfterNone(pr)) \in Nat /\ DOMAIN AfterNone(pr) = 1..Len(AfterNone(pr))
  BY <1>2, LenProperties
<1>4. \A m, n \in Nat : 1..m = 1..n => m = n
  OBVIOUS
<1>5. Len(AfterNone(pr)) = Len(free)
  BY <1>1, <1>2, <1>3, <1>4
<1> QED
  BY <1>5 DEF PortsAccounted

LEMMA CountStep ==
  ASSUME TypeOK, PortsOnce, OwnedOK, PortsAccounted, NEW c \in Clients,
         Start(c) \/ Stop(c) \/ Finish(c) \/ Fails(c) \/ Receive(c)
  PROVE  PortsAccounted'
<1> USE DEF portVars, chanVars, connVars, threadVars
<1>1. ASSUME NEW k \in DOMAIN free, TakeVideoPort(c, k) \/ TakeAudioPort(c, k)
      PROVE  PortsAccounted'
  <2>1. /\ free[k] \in Ports /\ busy' = busy \cup {free[k]}
        /\ free' = After(proto[c], k) \/ free' = After("udp", k)
    BY <1>1 DEF TakeVideoPort, TakeAudioPort, FirstFit, Unbound
  <2> QED
    BY <2>1, CountTaken
<1>2. CASE NoVideoPort(c) \/ NoAudioPort(c)
  <2>1. busy' = busy /\ (free' = AfterNone(proto[c]) \/ free' = AfterNone("udp"))
    BY <1>2 DEF NoVideoPort, NoAudioPort
  <2> QED
    BY <2>1, CountPassed
<1>3. CASE GroupFreesVideo(c) \/ CloseFreesVideo(c)
  <2>1. FreePort(video[c]) /\ at[c] \in {"groupVideo", "close"}
    BY <1>3 DEF GroupFreesVideo, CloseFreesVideo, At
  <2>2. video[c] \in Ports => video[c] \in busy
    BY <2>1 DEF OwnedOK, Owned
  <2> QED
    BY <2>1, <2>2, CountFreed
<1>4. CASE GroupFreesAudio(c) \/ CloseFreesAudio(c)
  <2>1. FreePort(audio[c]) /\ at[c] \in {"groupAudio", "closeAudio"}
    BY <1>4 DEF GroupFreesAudio, CloseFreesAudio, At
  <2>2. audio[c] \in Ports => audio[c] \in busy
    BY <2>1 DEF OwnedOK, Owned, Holds
  <2> QED
    BY <2>1, <2>2, CountFreed
<1>5. CASE \/ \E pr \in Protocols : GetChannel(c, pr)
           \/ Setup(c) \/ OpenUnicast(c) \/ OpenFails(c)
           \/ \E g \in Groups : OpenMulticast(c, g)
           \/ WaitForKey(c) \/ StartRecvStream(c) \/ PlayerFails(c) \/ SendPlay(c)
  <2>1. free' = free /\ busy' = busy
    BY <1>5 DEF GetChannel, Setup, OpenUnicast, OpenFails, OpenMulticast, WaitForKey,
                StartRecvStream, PlayerFails, SendPlay
  <2> QED
    BY <2>1 DEF PortsAccounted
<1>6. CASE \/ Stop(c) \/ StopSource(c) \/ Join(c) \/ FreeChannel(c) \/ ChannelDeleted(c)
           \/ Fails(c) \/ Receive(c)
  <2>1. free' = free /\ busy' = busy
    BY <1>6 DEF Stop, StopSource, Join, FreeChannel, ChannelDeleted,
                Fails, RecvCloses, NoData, Receive, LoopEnds, Report, Reported
  <2> QED
    BY <2>1 DEF PortsAccounted
<1> QED
  BY <1>1, <1>2, <1>3, <1>4, <1>5, <1>6 DEF Start, Finish
-----------------------------------------------------------------------------
(* The ports are a pool.                                                   *)

Listed == {free[i] : i \in DOMAIN free} \ {0}

\* A step of the pool, from what the client c has before and after it.
LEMMA PoolTake ==
  ASSUME NEW c \in Clients, NEW p \in Ports, p \in Listed, Listed' \subseteq Listed \ {p},
         Owned(c)' = Owned(c) \cup {p}, \A d \in Clients \ {c} : Owned(d)' = Owned(d)
  PROVE  Pool!Next
<1>1. Pool!Take(c, p)
  BY DEF Pool!Take, Listed
<1> QED
  BY <1>1 DEF Pool!Next

LEMMA PoolGive ==
  ASSUME NEW c \in Clients, NEW p \in Ports, p \in Owned(c), Listed' = Listed \cup {p},
         Owned(c)' = Owned(c) \ {p}, \A d \in Clients \ {c} : Owned(d)' = Owned(d)
  PROVE  Pool!Next
<1>1. Pool!Give(c, p)
  BY DEF Pool!Give, Listed
<1> QED
  BY <1>1 DEF Pool!Next

LEMMA PoolLose ==
  ASSUME Listed' \subseteq Listed, \A d \in Clients : Owned(d)' \subseteq Owned(d)
  PROVE  Pool!Next
<1>1. \A d \in Clients : Owned(d)' \subseteq Ports
  BY DEF Owned, Ports
<1>2. Pool!Lose
  BY <1>1 DEF Pool!Lose, Listed
<1> QED
  BY <1>2 DEF Pool!Next

LEMMA ListedTaken ==
  ASSUME TypeOK, PortsOnce, NEW pr, NEW k \in DOMAIN free, free[k] \in Ports,
         free' = After(pr, k)
  PROVE  free[k] \in Listed /\ Listed' \subseteq Listed \ {free[k]}
<1>1. Len(free) \in Nat /\ DOMAIN free = 1..Len(free) /\ free[k] # 0
  BY FreeSeq, NetAssumption DEF Ports
<1>2. DOMAIN free' = 1..(Len(free) - 1)
  BY DEF After
<1>3. \A i \in 1..(Len(free) - 1) :
        free'[i] = 0 \/ \E j \in DOMAIN free : free'[i] = free[j]
  <2> TAKE i \in 1..(Len(free) - 1)
  <2>1. CASE i + k <= Len(free)
    BY <1>1, <2>1 DEF After
  <2>2. CASE ~(i + k <= Len(free))
    <3>1. i + k - Len(free) \in DOMAIN free
      BY <1>1, <2>2
    <3> QED
      BY <1>1, <2>2, <3>1 DEF After, Passed
  <2> QED
    BY <2>1, <2>2
<1>4. \A i \in DOMAIN free' : free'[i] # free[k]
  BY TakenList DEF FreeOK
<1> QED
  BY <1>1, <1>2, <1>3, <1>4 DEF Listed

LEMMA ListedPassed ==
  ASSUME NEW pr, free' = AfterNone(pr)
  PROVE  Listed' \subseteq Listed
  BY DEF Listed, AfterNone, Passed

LEMMA ListedFreed ==
  ASSUME TypeOK, NEW p, FreePort(p)
  PROVE  p \in Ports => Listed' = Listed \cup {p}
<1> SUFFICES ASSUME p \in Ports PROVE Listed' = Listed \cup {p}
  OBVIOUS
<1>1. free' = Append(free, p) /\ p \in 0..N /\ p # 0
  BY NetAssumption DEF FreePort, Ports
<1>2. Len(free) \in Nat /\ DOMAIN free = 1..Len(free)
  BY FreeSeq
<1>3. /\ DOMAIN free' = 1..(Len(free) + 1)
      /\ \A i \in 1..Len(free) : free'[i] = free[i]
      /\ free'[Len(free) + 1] = p
  BY <1>1, <1>2 DEF TypeOK
<1>4. \A i \in 1..(Len(free) + 1) : i \in 1..Len(free) \/ i = Len(free) + 1
  BY <1>2
<1>5. \A i \in 1..Len(free) : i \in 1..(Len(free) + 1)
  BY <1>2
<1>6. Len(free) + 1 \in 1..(Len(free) + 1)
  BY <1>2
<1> QED
  BY <1>1, <1>2, <1>3, <1>4, <1>5, <1>6 DEF Listed

\* FreePort of a port that the client has, or of one outside the range.
LEMMA PoolFrees ==
  ASSUME TypeOK, NEW c \in Clients, NEW p, FreePort(p), p \in Ports => p \in Owned(c),
         Owned(c)' = Owned(c) \ {p}, \A d \in Clients \ {c} : Owned(d)' = Owned(d)
  PROVE  Pool!Next
<1>1. CASE p \in Ports
  BY <1>1, ListedFreed, PoolGive
<1>2. CASE p \notin Ports
  <2>1. Listed' = Listed
    BY <1>2 DEF FreePort, Listed
  <2> QED
    BY <2>1, PoolLose
<1> QED
  BY <1>1, <1>2

\* A step takes one port for one client, gives back one that its client has, or
\* gives nobody anything.
LEMMA PoolStart ==
  ASSUME TypeOK, PortsOnce, OwnedOK, StageOK, NEW c \in Clients, Start(c)
  PROVE  Pool!Next
<1> USE DEF Go, At, portVars, chanVars, connVars, threadVars
<1>0. ASSUME at' = [at EXCEPT ![c] = at'[c]], chans' = chans \/ chans' = chans \cup {c},
             \A d \in Clients \ {c} : video'[d] = video[d] /\ audio'[d] = audio[d]
      PROVE  \A d \in Clients \ {c} : Owned(d)' = Owned(d)
  BY <1>0, Others DEF TypeOK
<1>1. ASSUME NEW pr \in Protocols, GetChannel(c, pr) PROVE Pool!Next
  <2>1. Owned(c)' = {} /\ Listed' = Listed
    BY <1>1 DEF GetChannel, Owned, Holds, TypeOK, Listed
  <2> QED
    BY <1>0, <1>1, <2>1, PoolLose DEF GetChannel, TypeOK
<1>2. ASSUME NEW k \in DOMAIN free, TakeVideoPort(c, k) PROVE Pool!Next
  <2>1. free[k] \in Ports
    BY <1>2 DEF TakeVideoPort, FirstFit, Unbound
  <2>2. free[k] \in Listed /\ Listed' \subseteq Listed \ {free[k]}
    BY <1>2, <2>1, ListedTaken DEF TakeVideoPort
  <2>3. /\ video'[c] = free[k] /\ audio'[c] = 0 /\ 0 \notin Ports /\ at[c] = "video"
        /\ at'[c] \in {"audio", "setup"}
    BY <1>2, NetAssumption DEF TakeVideoPort, StageOK, TypeOK, Ports
  <2>4. Owned(c) = {}
    BY <2>3 DEF Owned, Holds
  <2>5. Owned(c)' = {free[k]}
    BY <2>1, <2>3 DEF Owned, Holds, Ports
  <2>6. \A d \in Clients \ {c} : Owned(d)' = Owned(d)
    BY <1>0, <1>2 DEF TakeVideoPort, TypeOK
  <2> QED
    BY <2>1, <2>2, <2>4, <2>5, <2>6, PoolTake
<1>3. ASSUME NEW k \in DOMAIN free, TakeAudioPort(c, k) PROVE Pool!Next
  <2>1. free[k] \in Ports
    BY <1>3 DEF TakeAudioPort, FirstFit, Unbound
  <2>2. free[k] \in Listed /\ Listed' \subseteq Listed \ {free[k]}
    BY <1>3, <2>1, ListedTaken DEF TakeAudioPort
  <2>3. /\ video'[c] = video[c] /\ audio'[c] = free[k] /\ audio[c] = 0 /\ 0 \notin Ports
        /\ at[c] = "audio" /\ at'[c] = "setup"
    BY <1>3, NetAssumption DEF TakeAudioPort, StageOK, TypeOK, Ports
  <2>4. Owned(c) = Ports \cap {video[c]}
    BY <2>3 DEF Owned, Holds
  <2>5. Owned(c)' = Ports \cap {video[c], free[k]}
    BY <2>3 DEF Owned, Holds, Ports
  <2>6. \A d \in Clients \ {c} : Owned(d)' = Owned(d)
    BY <1>0, <1>3 DEF TakeAudioPort, TypeOK
  <2>7. Owned(c)' = Owned(c) \cup {free[k]}
    BY <2>1, <2>4, <2>5
  <2> QED
    BY <2>1, <2>2, <2>6, <2>7, PoolTake
<1>4. CASE NoVideoPort(c) \/ NoAudioPort(c)
  <2>1. /\ free' = AfterNone(proto[c]) \/ free' = AfterNone("udp")
        /\ chans' = chans /\ video' = video /\ audio' = audio
        /\ at' = [at EXCEPT ![c] = "free"] /\ at'[c] = "free"
    BY <1>4 DEF NoVideoPort, NoAudioPort, TypeOK
  <2>2. Owned(c)' = {}
    BY <2>1 DEF Owned, Holds
  <2>3. \A d \in Clients \ {c} : Owned(d)' = Owned(d)
    BY <2>1, <1>0
  <2> QED
    BY <2>1, <2>2, <2>3, ListedPassed, PoolLose
<1>5. CASE GroupFreesVideo(c)
  <2>1. video'[c] = video[c] /\ audio'[c] = audio[c] /\ at'[c] = "groupAudio"
    BY <1>5 DEF GroupFreesVideo, TypeOK
  <2>2. Owned(c) = Ports \cap {video[c], audio[c]} /\ Owned(c)' = Ports \cap {audio[c]}
    BY <1>5, <2>1 DEF GroupFreesVideo, Owned, Holds, Ports
  <2>3. Owned(c)' = Owned(c) \ {video[c]}
    BY <2>2 DEF OwnedOK
  <2>4. \A d \in Clients \ {c} : Owned(d)' = Owned(d)
    BY <1>0, <1>5 DEF GroupFreesVideo, TypeOK
  <2>5. FreePort(video[c])
    BY <1>5 DEF GroupFreesVideo
  <2> QED
    BY <2>2, <2>3, <2>4, <2>5, PoolFrees
<1>6. CASE GroupFreesAudio(c)
  <2>1. PICK g \in sock[c] :
          video' = [video EXCEPT ![c] = g] /\ audio' = [audio EXCEPT ![c] = g]
    BY <1>6 DEF GroupFreesAudio
  <2>2. Owned(c) = Ports \cap {audio[c]}
    BY <1>6 DEF GroupFreesAudio, Owned, Holds, TypeOK
  <2>3. g \notin Ports /\ video'[c] = g /\ audio'[c] = g
    BY <1>6, <2>1, NetAssumption DEF GroupFreesAudio, StageOK, TypeOK, Ports
  <2>4. Owned(c)' = Owned(c) \ {audio[c]}
    BY <2>2, <2>3 DEF Owned, Ports
  <2>5. \A d \in Clients \ {c} : Owned(d)' = Owned(d)
    BY <1>0, <1>6, <2>1 DEF GroupFreesAudio, TypeOK
  <2>6. FreePort(audio[c])
    BY <1>6 DEF GroupFreesAudio
  <2> QED
    BY <2>2, <2>4, <2>5, <2>6, PoolFrees
<1>7. CASE Setup(c) \/ OpenUnicast(c) \/ OpenFails(c) \/ (\E g \in Groups : OpenMulticast(c, g))
             \/ WaitForKey(c) \/ StartRecvStream(c) \/ PlayerFails(c) \/ SendPlay(c)
  <2>1. /\ free' = free /\ chans' = chans /\ video' = video /\ audio' = audio
        /\ at' = [at EXCEPT ![c] = at'[c]]
    BY <1>7 DEF Setup, OpenUnicast, OpenFails, OpenMulticast, WaitForKey,
                StartRecvStream, PlayerFails, SendPlay, TypeOK
  <2>2. Holds(c)
    BY <1>7 DEF Setup, OpenUnicast, OpenFails, OpenMulticast, WaitForKey,
                StartRecvStream, PlayerFails, SendPlay, Holds
  <2>3. Owned(c)' \subseteq Owned(c) /\ Listed' = Listed
    BY <2>1, <2>2 DEF Owned, Ports, Listed
  <2> QED
    BY <1>0, <2>1, <2>3, PoolLose
<1> QED
  BY <1>1, <1>2, <1>3, <1>4, <1>5, <1>6, <1>7 DEF Start

LEMMA PoolRest ==
  ASSUME TypeOK, OwnedOK, StageOK, NEW c \in Clients,
         Stop(c) \/ Finish(c) \/ Fails(c) \/ Receive(c)
  PROVE  Pool!Next
<1> USE DEF Go, At, portVars, chanVars, connVars, threadVars
<1>1. CASE CloseFreesVideo(c)
  <2>1. /\ chans' = chans /\ video' = video /\ audio' = audio
        /\ at' = [at EXCEPT ![c] = at'[c]]
        /\ at'[c] = IF proto[c] = "udp" THEN "closeAudio" ELSE "stop"
    BY <1>1 DEF CloseFreesVideo, TypeOK
  <2>2. Owned(c) = Ports \cap {video[c], audio[c]}
    BY <1>1 DEF CloseFreesVideo, Owned, Holds
  <2>3. Owned(c)' = Ports \cap {audio[c]}
    <3>1. CASE proto[c] = "udp"
      BY <2>1, <3>1 DEF Owned, Holds, Ports
    <3>2. CASE proto[c] = "tcp"
      <4>1. Ports \cap {audio[c]} = {}
        BY <3>2, NetAssumption DEF StageOK, Ports
      <4> QED
        BY <2>1, <3>2, <4>1 DEF Owned, Holds, Ports
    <3> QED
      BY <3>1, <3>2 DEF TypeOK
  <2>4. Owned(c)' = Owned(c) \ {video[c]}
    BY <2>2, <2>3 DEF OwnedOK
  <2>5. \A d \in Clients \ {c} : Owned(d)' = Owned(d)
    BY <2>1, Others DEF TypeOK
  <2>6. FreePort(video[c])
    BY <1>1 DEF CloseFreesVideo
  <2> QED
    BY <2>2, <2>4, <2>5, <2>6, PoolFrees
<1>2. CASE CloseFreesAudio(c)
  <2>1. /\ chans' = chans /\ video' = video /\ audio' = audio
        /\ at' = [at EXCEPT ![c] = "stop"]
    BY <1>2 DEF CloseFreesAudio, TypeOK
  <2>2. Owned(c) = Ports \cap {audio[c]} /\ Owned(c)' = {}
    BY <1>2, <2>1 DEF CloseFreesAudio, Owned, Holds, TypeOK, Ports
  <2>3. \A d \in Clients \ {c} : Owned(d)' = Owned(d)
    BY <2>1, Others DEF TypeOK
  <2>4. FreePort(audio[c])
    BY <1>2 DEF CloseFreesAudio
  <2> QED
    BY <2>2, <2>3, <2>4, PoolFrees
<1>3. CASE ChannelDeleted(c)
  <2>1. /\ free' = free /\ Owned(c)' = {}
        /\ \A d \in Clients \ {c} :
             /\ at'[d] = at[d] /\ video'[d] = video[d] /\ audio'[d] = audio[d]
             /\ d \in chans' <=> d \in chans
    BY <1>3 DEF ChannelDeleted, Owned, Holds, TypeOK
  <2>2. Listed' = Listed /\ \A d \in Clients \ {c} : Owned(d)' = Owned(d)
    BY <2>1, Others DEF Listed
  <2> QED
    BY <2>1, <2>2, PoolLose
<1>4. CASE Stop(c) \/ StopSource(c) \/ Join(c) \/ FreeChannel(c)
  <2>1. /\ free' = free /\ chans' = chans /\ video' = video /\ audio' = audio
        /\ at' = [at EXCEPT ![c] = at'[c]]
    BY <1>4 DEF Stop, StopSource, Join, FreeChannel, TypeOK
  <2>2. Owned(c)' \subseteq Owned(c)
    <3>1. CASE Stop(c)
      BY <2>1, <3>1 DEF Stop, Owned, Holds, Ports
    <3>2. CASE StopSource(c) \/ Join(c) \/ FreeChannel(c)
      BY <2>1, <3>2 DEF StopSource, Join, FreeChannel, Owned, Holds, TypeOK, Ports
    <3> QED
      BY <1>4, <3>1, <3>2
  <2>3. Listed' = Listed /\ \A d \in Clients \ {c} : Owned(d)' = Owned(d)
    BY <2>1, Others DEF TypeOK, Listed
  <2> QED
    BY <2>2, <2>3, PoolLose
<1>5. CASE Fails(c) \/ Receive(c)
  <2>1. /\ free' = free /\ at' = at /\ chans' = chans /\ video' = video /\ audio' = audio
    BY <1>5 DEF Fails, RecvCloses, NoData, Receive, LoopEnds, Report, Reported
  <2>2. Listed' = Listed
    BY <2>1 DEF Listed
  <2> QED
    BY <2>1, <2>2, Others, PoolLose
<1> QED
  BY <1>1, <1>2, <1>3, <1>4, <1>5 DEF Finish
-----------------------------------------------------------------------------
(* The inductive invariant.                                                *)

LEMMA Initially == Init => IInv
<1> SUFFICES ASSUME Init PROVE IInv
  OBVIOUS
<1> USE DEF Init
<1>1. free \in Seq(0..N) /\ DOMAIN free = 1..N /\ \A i \in 1..N : free[i] = i
  <2>1. free \in [1..N -> 0..N]
    BY NetAssumption
  <2> QED
    BY <2>1, IsSeq, NetAssumption
<1>2. TypeOK
  BY <1>1 DEF TypeOK
<1>3. PortsOnce
  BY <1>1 DEF PortsOnce
<1>4. OwnedOK /\ StageOK /\ NamedOK /\ DeadOK /\ RunOK
  BY NetAssumption DEF OwnedOK, Owned, Holds, StageOK, NamedOK, Named, DeadOK, RunOK, Ports
<1>5. PortsAccounted
  <2>1. Len(free) = N
    BY NetAssumption, LenProperties
  <2> QED
    BY <2>1, NetAssumption, FS_EmptySet DEF PortsAccounted
<1> QED
  BY <1>2, <1>3, <1>4, <1>5 DEF IInv

LEMMA Inductive == IInv /\ [Next]_vars => IInv'
<1> SUFFICES ASSUME IInv, [Next]_vars PROVE IInv'
  OBVIOUS
<1>1. CASE Next
  <2>1. PICK c \in Clients : Start(c) \/ Stop(c) \/ Finish(c) \/ Fails(c) \/ Receive(c)
    BY <1>1 DEF Next
  <2>2. TypeOK' /\ PortsOnce' /\ OwnedOK'
    BY <2>1, TypeStart, TypeRest, ListStart, ListRest DEF IInv
  <2> QED
    BY <2>1, <2>2, CountStep, StageStep, BoundStep, DeadStep, RunStep DEF IInv
<1>2. CASE UNCHANGED vars
  BY <1>2 DEF vars, portVars, chanVars, connVars, threadVars, IInv, TypeOK, PortsOnce, OwnedOK,
     PortsAccounted, Owned, Holds, StageOK, NamedOK, Named, DeadOK, RunOK, Ports
<1> QED
  BY <1>1, <1>2

LEMMA Always == Spec => []IInv
  BY Initially, Inductive, PTL DEF Spec

\* The variables have their types, whatever the clients do.
THEOREM TypeCorrect == Spec => []TypeOK
<1>1. IInv => TypeOK
  BY DEF IInv
<1> QED
  BY <1>1, Always, PTL

\* A port of the range is never in the list of free ports twice, nor there while it is
\* busy or while an open channel uses it, and no two open channels use the same one.
THEOREM PortsNeverShared == Spec => [](PortsOnce /\ PortsHeld)
<1>1. IInv => PortsOnce /\ PortsHeld
  <2> SUFFICES ASSUME IInv PROVE PortsHeld
    BY DEF IInv
  <2>1. \A c \in Clients : Holds(c) => Owned(c) = Local(c)
    BY DEF Owned, Local
  <2>2. \A c \in Clients : Owned(c) \subseteq busy
    BY DEF IInv, OwnedOK
  <2>3. \A c, d \in Clients : c # d => Owned(c) \cap Owned(d) = {}
    BY DEF IInv, OwnedOK
  <2>4. \A i \in DOMAIN free : free[i] \notin busy
    BY DEF IInv, PortsOnce
  <2> QED
    BY <2>1, <2>2, <2>3, <2>4 DEF PortsHeld
<1> QED
  BY <1>1, Always, PTL

\* A port never vanishes from both lists, however ports are taken, passed over and
\* given back: the two lists together always have the length of the range.
THEOREM AllPortsAccounted == Spec => []PortsAccounted
<1>1. IInv => PortsAccounted
  BY DEF IInv
<1> QED
  BY <1>1, Always, PTL

\* The ports named to the server stay bound until the channel begins to close, unless
\* the thread of the channel closes its own socket, as it does over TCP, or a socket of
\* the channel shares its handle with one that was so closed.
THEOREM PortsStayBound == Spec => []PortsBound
<1>1. IInv => PortsBound
  BY DEF IInv, NamedOK, Named, DeadOK, PortsBound, Holds
<1> QED
  BY <1>1, Always, PTL

\* A receiving thread never outlives its channel, nobody shuts its connections down
\* under it, and nobody waits for it while holding the mutex that it needs.
THEOREM ThreadsAreSafe == Spec => []ThreadSafe
<1>1. IInv => ThreadSafe
  BY DEF IInv, DeadOK, ThreadSafe, RunOK
<1> QED
  BY <1>1, Always, PTL

\* The ports are a pool: a port goes from the free list to one client and from that
\* client back, through every failure between taking ports and closing the channel.
THEOREM PoolIsKept == Spec => KeepsPool
<1>1. Init => Pool!Init
  <2> SUFFICES ASSUME Init PROVE Pool!Init
    OBVIOUS
  <2>1. {free[i] : i \in DOMAIN free} \ {0} = Ports
    BY NetAssumption DEF Init, Ports
  <2>2. \A c \in Clients : Owned(c) = {}
    BY NetAssumption DEF Init, Owned, Holds, Ports
  <2> QED
    BY <2>1, <2>2 DEF Pool!Init
<1>2. IInv /\ [Next]_vars => [Pool!Next]_(Pool!vars)
  <2> SUFFICES ASSUME IInv, [Next]_vars PROVE [Pool!Next]_(Pool!vars)
    OBVIOUS
  <2>1. CASE Next
    <3>1. PICK c \in Clients : Start(c) \/ Stop(c) \/ Finish(c) \/ Fails(c) \/ Receive(c)
      BY <2>1 DEF Next
    <3> QED
      BY <3>1, PoolStart, PoolRest DEF IInv
  <2>2. CASE UNCHANGED vars
    BY <2>2 DEF vars, portVars, chanVars, Pool!vars, Owned, Holds, Ports
  <2> QED
    BY <2>1, <2>2
<1> QED
  BY <1>1, <1>2, Always, PTL DEF Spec, KeepsPool, Pool!Spec
=============================================================================
