---------------------------- MODULE NetChannels ----------------------------
(***************************************************************************)
(* The channels of the network source library (IVS_Netsource): the ports   *)
(* they take from the list of free ports, the sockets they bind, and the   *)
(* thread that receives the stream.                                        *)
(*                                                                         *)
(* A client is a media object of the SDK (CMediaBase).  Its own calls are  *)
(* serialised by m_pMediaMutex, and it has at most one channel, so that a  *)
(* channel is named after its client.  The order of the calls, and which   *)
(* of them follow a failure, is that of CMediaBase.                        *)
(*                                                                         *)
(* Port i stands for a pair of ports, RTP and RTCP, from the range of the  *)
(* library; 0 is no port.  A group stands for the ports of a multicast     *)
(* stream, which lie outside that range.  m_lstBusyPort is written and     *)
(* never read, so its update is joined to that of the free list.           *)
(*                                                                         *)
(* The receiving thread of a TCP channel closes the socket when it fails   *)
(* and keeps its handle.  The system may give that handle to a socket that *)
(* is opened later, and then whoever closes the handle a second time       *)
(* closes that socket.  Which handle a new socket gets is left open.       *)
(***************************************************************************)
EXTENDS Naturals, Sequences, FiniteSets

CONSTANTS
  Clients,
  N,           \* number of ports between NET_SOURCE_BEGIN_PORT and _END_PORT
  MaxChannels, \* NET_SOURCE_TOTAL_CHANNEL_NUM
  Protocols,   \* subset of {"udp", "tcp"}
  Groups,      \* ports of multicast streams
  Foreign,     \* ports that other programs may hold
  None         \* not a client

ASSUME NetAssumption ==
  /\ N \in Nat /\ MaxChannels \in Nat
  /\ Protocols \subseteq {"udp", "tcp"}
  /\ Groups \subseteq Nat /\ Groups \cap 0..N = {}
  /\ None \notin Clients

VARIABLES
  free,   \* m_lstFreePort
  busy,   \* m_lstBusyPort
  chans,  \* m_mapNetChannel
  proto,  \* protocol of a channel
  video,  \* its local video port
  audio,  \* its local audio port
  sock,   \* the ports its connections are bound to
  dead,   \* those of them whose sockets were closed, but not by ShutDown
  reused, \* channels with a socket whose handle another connection has as well
  src,    \* its source: "none", "idle", "run", or "killed" (not m_bRun)
  rcv,    \* the thread of the source
  lost,   \* ports bound by UDP connections that nothing points to any more
  mchan,  \* holder of m_mutexChannel while a channel is deleted
  exc,    \* holder of m_mutexExceptionCallback
  at      \* what a client does next

portVars == <<free, busy, lost>>
connVars == <<sock, dead, reused>>
chanVars == <<chans, proto, video, audio, connVars>>
threadVars == <<src, rcv, exc>>
vars == <<portVars, chanVars, threadVars, mchan, at>>

Ports == 1..N

Init ==
  /\ free = [i \in 1..N |-> i] /\ busy = {} /\ lost = {}
  /\ chans = {} /\ proto = [c \in Clients |-> "udp"]
  /\ video = [c \in Clients |-> 0] /\ audio = [c \in Clients |-> 0]
  /\ sock = [c \in Clients |-> {}] /\ dead = [c \in Clients |-> {}] /\ reused = {}
  /\ src = [c \in Clients |-> "none"] /\ rcv = [c \in Clients |-> "off"]
  /\ mchan = None /\ exc = None
  /\ at = [c \in Clients |-> "idle"]

Go(c, step) == at' = [at EXCEPT ![c] = step]
At(c, step) == at[c] = step

\* GetChannelByID, with which every call on a channel begins.
FindsChannel(c) == c \in chans /\ mchan = None

-----------------------------------------------------------------------------
(* The lists of ports.                                                     *)

\* Ports that no socket of this process is bound to; one of the two sockets of a
\* dead port may still be open.
Unbound(pr) ==
  Ports \ (UNION {sock[d] \ dead[d] : d \in {d \in Clients : proto[d] = pr}}
             \cup IF pr = "udp" THEN lost ELSE {})

Bindable(pr) == Unbound(pr) \ (Foreign \cup UNION {dead[d] : d \in Clients})

\* The k-th port of the list is the first that can be bound.
FirstFit(pr, k) ==
  /\ free[k] \in Unbound(pr)
  /\ \A j \in 1..(k - 1) : free[j] \notin Bindable(pr)

NoneFits(pr) == \A j \in DOMAIN free : free[j] \notin Bindable(pr)

\* What is pushed to the end of the list for a port that could not be bound:
\* the port itself in GetUdpSocketPort, uiPort, still 0, in GetTcpSocketPort.
Passed(pr, p) == IF pr = "udp" THEN p ELSE 0

\* (bug) The port that was bound is pushed to the end of the list as well.
AfterKeeping(pr, k) ==
  [i \in DOMAIN free |-> IF i + k <= Len(free) THEN free[i + k]
                         ELSE free[i + k - Len(free)]]

\* The list without its first k ports, followed by those passed over.
After(pr, k) ==
  [i \in 1..(Len(free) - 1) |-> IF i + k <= Len(free) THEN free[i + k]
                                ELSE Passed(pr, free[i + k - Len(free)])]

\* (bug) The ports that could not be bound are gone.
AfterNoneDrops(pr) == <<>>

AfterNone(pr) == [i \in DOMAIN free |-> Passed(pr, free[i])]

\* FreePortfromList.
FreePort(p) ==
  /\ busy' = busy \ {p}
  /\ free' = IF p \in Ports THEN Append(free, p) ELSE free
  /\ UNCHANGED lost

-----------------------------------------------------------------------------
(* The sockets.                                                            *)

\* The client c gets a socket. Its handle may be one that another connection
\* still has.
NewSocket(c) ==
  \/ UNCHANGED reused
  \/ (\E d \in Clients \ {c} : dead[d] # {}) /\ reused' = reused \cup {c}

\* The open sockets of other channels that the closed handles of c may refer to.
Aliases(c) ==
  {x \in (reused \ {c}) \X (Ports \cup Groups) :
     dead[c] # {} /\ x[2] \in sock[x[1]] \ dead[x[1]]}

\* The sockets X are closed behind the back of their connections.
Struck(d, X) == dead[d] \cup {x[2] : x \in {x \in X : x[1] = d}}

\* The connections of c are shut down, and bound again to the ports P.
ShutDown(c, P) ==
  /\ sock' = [sock EXCEPT ![c] = P]
  /\ \E X \in SUBSET Aliases(c) :
       dead' = [d \in Clients |-> IF d = c THEN {} ELSE Struck(d, X)]
  /\ \/ reused' = reused \ {c}
     \/ P # {} /\ (\E d \in Clients : dead'[d] # {}) /\ reused' = reused \cup {c}

-----------------------------------------------------------------------------
(* Starting a stream: CMediaBase::StartPlay and ReStartStream.             *)

\* A client that plays, or has a channel left from an earlier start, closes it
\* first (Stop).
GetChannel(c, pr) ==
  /\ At(c, "idle") /\ c \notin chans /\ mchan = None
  /\ Cardinality(chans) < MaxChannels
  /\ chans' = chans \cup {c}
  /\ proto' = [proto EXCEPT ![c] = pr]
  /\ Go(c, "video")
  /\ UNCHANGED <<video, audio, connVars, portVars, threadVars, mchan>>

TakeVideoPort(c, k) ==
  /\ At(c, "video") /\ FindsChannel(c)
  /\ FirstFit(proto[c], k)
  /\ free' = After(proto[c], k) /\ busy' = busy \cup {free[k]}
  /\ video' = [video EXCEPT ![c] = free[k]]
  /\ sock' = [sock EXCEPT ![c] = {free[k]}] /\ NewSocket(c)
  /\ Go(c, IF proto[c] = "udp" THEN "audio" ELSE "setup")
  /\ UNCHANGED <<lost, chans, proto, audio, dead, threadVars, mchan>>

NoVideoPort(c) ==
  /\ At(c, "video") /\ FindsChannel(c)
  /\ NoneFits(proto[c])
  /\ free' = AfterNone(proto[c])
  /\ Go(c, "free")
  /\ UNCHANGED <<busy, lost, chanVars, threadVars, mchan>>

TakeAudioPort(c, k) ==
  /\ At(c, "audio")
  /\ FirstFit("udp", k)
  /\ free' = After("udp", k) /\ busy' = busy \cup {free[k]}
  /\ audio' = [audio EXCEPT ![c] = free[k]]
  /\ sock' = [sock EXCEPT ![c] = @ \cup {free[k]}] /\ NewSocket(c)
  /\ Go(c, "setup")
  /\ UNCHANGED <<lost, chans, proto, video, dead, threadVars, mchan>>

\* The connections of the video port are neither closed nor stored; the port stays
\* in the list of busy ports, so that it does not matter who closes its sockets.
NoAudioPort(c) ==
  /\ At(c, "audio")
  /\ NoneFits("udp")
  /\ free' = AfterNone("udp")
  /\ lost' = lost \cup sock[c]
  /\ sock' = [sock EXCEPT ![c] = {}] /\ dead' = [dead EXCEPT ![c] = {}]
  /\ reused' = reused \ {c}
  /\ Go(c, "free")
  /\ UNCHANGED <<busy, chans, proto, video, audio, threadVars, mchan>>

\* SETUP names the ports to the server. When it fails the channel is freed and
\* not closed: its ports stay in the list of busy ports.
Setup(c) ==
  /\ At(c, "setup")
  /\ \E ok \in BOOLEAN : Go(c, IF ok THEN "open" ELSE "free")
  /\ UNCHANGED <<portVars, chanVars, threadVars, mchan>>

OpenUnicast(c) ==
  /\ At(c, "open") /\ FindsChannel(c)
  /\ src' = [src EXCEPT ![c] = "idle"]
  /\ Go(c, "key")
  /\ UNCHANGED <<portVars, chanVars, rcv, exc, mchan>>

\* (bug) The failure is not noticed.
OpenFailsUnseen(c) ==
  /\ At(c, "open") /\ FindsChannel(c)
  /\ ShutDown(c, {})
  /\ Go(c, "key")
  /\ UNCHANGED <<portVars, chans, proto, video, audio, threadVars, mchan>>

\* Init of the source, or a bind of BindMulticastPort, fails.
OpenFails(c) ==
  /\ At(c, "open") /\ FindsChannel(c)
  /\ ShutDown(c, {})
  /\ Go(c, "close")
  /\ UNCHANGED <<portVars, chans, proto, video, audio, threadVars, mchan>>

\* BindMulticastPort binds the connections again, to the ports of the group.
OpenMulticast(c, g) ==
  /\ At(c, "open") /\ FindsChannel(c)
  /\ proto[c] = "udp"
  /\ \A d \in Clients \ {c} : g \notin sock[d] \ dead[d]
  /\ ShutDown(c, {g})
  /\ Go(c, "groupVideo")
  /\ UNCHANGED <<portVars, chans, proto, video, audio, threadVars, mchan>>

GroupFreesVideo(c) ==
  /\ At(c, "groupVideo")
  /\ FreePort(video[c])
  /\ Go(c, "groupAudio")
  /\ UNCHANGED <<chanVars, threadVars, mchan>>

\* The ports of the group become the local ports; Init of the source may fail.
GroupFreesAudio(c) ==
  /\ At(c, "groupAudio")
  /\ FreePort(audio[c])
  /\ \E g \in sock[c] :
       video' = [video EXCEPT ![c] = g] /\ audio' = [audio EXCEPT ![c] = g]
  /\ \/ /\ src' = [src EXCEPT ![c] = "idle"]
        /\ Go(c, "key")
        /\ UNCHANGED connVars
     \/ /\ ShutDown(c, {})
        /\ Go(c, "close")
        /\ UNCHANGED src
  /\ UNCHANGED <<chans, proto, rcv, exc, mchan>>

\* Without a key StartPlay closes the channel; ReStartStream returns and leaves
\* it to the next call.
WaitForKey(c) ==
  /\ At(c, "key")
  /\ \E step \in {"start", "close", "idle"} : Go(c, step)
  /\ UNCHANGED <<portVars, chanVars, threadVars, mchan>>

StartRecvStream(c) ==
  /\ At(c, "start") /\ FindsChannel(c)
  /\ src' = [src EXCEPT ![c] = "run"] /\ rcv' = [rcv EXCEPT ![c] = "recv"]
  /\ Go(c, "play")
  /\ UNCHANGED <<portVars, chanVars, exc, mchan>>

\* The player does not open or start.
PlayerFails(c) ==
  /\ At(c, "start")
  /\ Go(c, "close")
  /\ UNCHANGED <<portVars, chanVars, threadVars, mchan>>

SendPlay(c) ==
  /\ At(c, "play")
  /\ \E ok \in BOOLEAN : Go(c, IF ok THEN "idle" ELSE "close")
  /\ UNCHANGED <<portVars, chanVars, threadVars, mchan>>

-----------------------------------------------------------------------------
(* Stopping it: StopPlay, StopStream, and what follows a failure.          *)

Stop(c) ==
  /\ At(c, "idle") /\ c \in chans
  /\ Go(c, "close")
  /\ UNCHANGED <<portVars, chanVars, threadVars, mchan>>

CloseFreesVideo(c) ==
  /\ At(c, "close") /\ FindsChannel(c)
  /\ FreePort(video[c])
  /\ Go(c, IF proto[c] = "udp" THEN "closeAudio" ELSE "stop")
  /\ UNCHANGED <<chanVars, threadVars, mchan>>

CloseFreesAudio(c) ==
  /\ At(c, "closeAudio")
  /\ FreePort(audio[c])
  /\ Go(c, "stop")
  /\ UNCHANGED <<chanVars, threadVars, mchan>>

\* (bug) CloseNetStream does not stop the thread.
StopSourceLeavesThread(c) ==
  /\ At(c, "stop")
  /\ Go(c, "free")
  /\ UNCHANGED <<portVars, chanVars, threadVars, mchan>>

\* (bug) The thread is waited for and not told to end.
StopSourceWaits(c) ==
  /\ At(c, "stop")
  /\ Go(c, IF src[c] = "run" THEN "join" ELSE "free")
  /\ UNCHANGED <<portVars, chanVars, threadVars, mchan>>

\* CNetChannel::CloseNetStream: deleting the thread kills it and waits for it.
StopSource(c) ==
  /\ At(c, "stop")
  /\ IF src[c] = "run"
       THEN src' = [src EXCEPT ![c] = "killed"] /\ Go(c, "join")
       ELSE UNCHANGED src /\ Go(c, "free")
  /\ UNCHANGED <<portVars, chanVars, rcv, exc, mchan>>

Join(c) ==
  /\ At(c, "join") /\ rcv[c] = "off"
  /\ Go(c, "free")
  /\ UNCHANGED <<portVars, chanVars, threadVars, mchan>>

\* FreeChannel deletes the channel under m_mutexChannel: its sockets are closed,
\* then its thread, if it still runs, is killed and waited for. The next channel
\* of the client starts with the values of the constructor.
FreeChannel(c) ==
  /\ At(c, "free") /\ FindsChannel(c)
  /\ mchan' = c
  /\ ShutDown(c, {})
  /\ src' = [src EXCEPT ![c] = IF @ = "run" THEN "killed" ELSE @]
  /\ Go(c, "freeing")
  /\ UNCHANGED <<portVars, chans, proto, video, audio, rcv, exc>>

ChannelDeleted(c) ==
  /\ At(c, "freeing") /\ rcv[c] = "off"
  /\ chans' = chans \ {c} /\ mchan' = None
  /\ src' = [src EXCEPT ![c] = "none"]
  /\ proto' = [proto EXCEPT ![c] = "udp"]
  /\ video' = [video EXCEPT ![c] = 0] /\ audio' = [audio EXCEPT ![c] = 0]
  /\ Go(c, "idle")
  /\ UNCHANGED <<portVars, connVars, rcv, exc>>

-----------------------------------------------------------------------------
(* The receiving thread: CNetSource::MainLoop.                             *)

Thread(c, from, to) == rcv[c] = from /\ rcv' = [rcv EXCEPT ![c] = to]

\* ProcessRecevData returns, and the loop ends if the thread was told to.
LoopEnds(c) ==
  /\ src[c] = "killed"
  /\ Thread(c, "recv", "off")
  /\ UNCHANGED <<portVars, chanVars, src, exc, mchan, at>>

\* CTcpConnection::RecvData closes its own socket when the server has closed, when
\* nothing came 28 times or on any other error, and keeps the handle: a later error
\* closes the socket, of another channel, that has got that handle.
RecvCloses(c) ==
  /\ proto[c] = "tcp" /\ rcv[c] = "recv"
  /\ IF dead[c] = {}
       THEN dead' = [dead EXCEPT ![c] = sock[c]]
       ELSE \E x \in Aliases(c) : dead' = [d \in Clients |-> Struck(d, {x})]
  /\ UNCHANGED <<portVars, chans, proto, video, audio, sock, reused, threadVars,
                 mchan, at>>

\* CheckTimeOut: no data for thirty seconds; HandleTimeOutEvent: no data over TCP, or
\* no socket any more.
NoData(c) ==
  /\ Thread(c, "recv", "report")
  /\ UNCHANGED <<portVars, chanVars, src, exc, mchan, at>>

\* CNetChannelMgr::DoExceptionCallBack: the callback is made if the channel is
\* still there. It only posts an event, so that its return ends the report.
Report(c) ==
  /\ exc = None
  /\ Thread(c, "report", "lookup") /\ exc' = c
  /\ UNCHANGED <<portVars, chanVars, src, mchan, at>>

Reported(c) ==
  /\ mchan = None
  /\ Thread(c, "lookup", IF src[c] = "killed" THEN "off" ELSE "recv") /\ exc' = None
  /\ UNCHANGED <<portVars, chanVars, src, mchan, at>>

-----------------------------------------------------------------------------
Start(c) ==
  \/ \E pr \in Protocols : GetChannel(c, pr)
  \/ \E k \in DOMAIN free : TakeVideoPort(c, k)
  \/ NoVideoPort(c)
  \/ \E k \in DOMAIN free : TakeAudioPort(c, k)
  \/ NoAudioPort(c)
  \/ Setup(c) \/ OpenUnicast(c) \/ OpenFails(c)
  \/ \E g \in Groups : OpenMulticast(c, g)
  \/ GroupFreesVideo(c) \/ GroupFreesAudio(c)
  \/ WaitForKey(c) \/ StartRecvStream(c) \/ PlayerFails(c) \/ SendPlay(c)

Finish(c) ==
  \/ CloseFreesVideo(c) \/ CloseFreesAudio(c) \/ StopSource(c) \/ Join(c)
  \/ FreeChannel(c) \/ ChannelDeleted(c)

Receive(c) ==
  LoopEnds(c) \/ Report(c) \/ Reported(c)

Fails(c) == RecvCloses(c) \/ NoData(c)

Next ==
  \E c \in Clients : Start(c) \/ Stop(c) \/ Finish(c) \/ Fails(c) \/ Receive(c)

Spec == Init /\ [][Next]_vars

\* Threads run; a mutex goes to a thread that waits for it again and again.
FairSpec ==
  /\ Spec
  /\ \A c \in Clients : SF_vars(Finish(c)) /\ SF_vars(Receive(c))

-----------------------------------------------------------------------------
\* The values of the variables.
TypeOK ==
  /\ free \in Seq(0..N) /\ busy \subseteq Ports /\ lost \subseteq Ports
  /\ chans \subseteq Clients /\ proto \in [Clients -> {"udp", "tcp"}]
  /\ video \in [Clients -> Ports \cup Groups \cup {0}]
  /\ audio \in [Clients -> Ports \cup Groups \cup {0}]
  /\ sock \in [Clients -> SUBSET (Ports \cup Groups)]
  /\ dead \in [Clients -> SUBSET (Ports \cup Groups)] /\ reused \subseteq Clients
  /\ src \in [Clients -> {"none", "idle", "run", "killed"}]
  /\ rcv \in [Clients -> {"off", "recv", "report", "lookup"}]
  /\ mchan \in Clients \cup {None} /\ exc \in Clients \cup {None}
  /\ at \in [Clients -> {"idle", "video", "audio", "setup", "open", "groupVideo",
                         "groupAudio", "key", "start", "play", "close",
                         "closeAudio", "stop", "join", "free", "freeing"}]

\* No port is twice in the list of free ports, or in both lists.
PortsOnce ==
  /\ \A i, j \in DOMAIN free : i # j /\ free[i] # 0 => free[i] # free[j]
  /\ \A i \in DOMAIN free : free[i] \notin busy

\* A port never vanishes from both lists: it is in one of them, or GetTcpSocketPort
\* has left a 0 in its place.
PortsAccounted == Len(free) + Cardinality(busy) = N

\* The local ports of a channel that has not begun to close are not in the list of
\* free ports, and are not those of another such channel.
Local(c) == {video[c], audio[c]} \cap Ports
Holds(c) == at[c] \in {"audio", "setup", "open", "key", "start", "play"}
              \/ (at[c] = "idle" /\ c \in chans)
PortsHeld ==
  \A c \in Clients : Holds(c) =>
    /\ \A i \in DOMAIN free : free[i] \notin Local(c)
    /\ \A d \in Clients \ {c} : Holds(d) => Local(c) \cap Local(d) = {}

\* The ports that a client has taken and will still give back.
Owned(c) ==
  Ports \cap
    IF Holds(c) \/ at[c] \in {"groupVideo", "close"} THEN {video[c], audio[c]}
    ELSE IF at[c] \in {"groupAudio", "closeAudio"} THEN {audio[c]}
    ELSE {}

\* The ports are a pool: whatever fails between taking the ports and closing the
\* channel, a port goes back from the client that took it, and from no other.
Pool == INSTANCE ResourcePool WITH
  Items <- Ports, Users <- Clients,
  free <- {free[i] : i \in DOMAIN free} \ {0}, held <- [c \in Clients |-> Owned(c)]
KeepsPool == Pool!Spec

\* The ports that SETUP named to the server are bound by the channel until it begins
\* to close, unless its own thread has closed the socket, which it does over TCP, or
\* a socket of the channel has the handle of one that such a thread has closed.
Named(c) == {video[c], audio[c]} \ {0}
PortsBound ==
  \A c \in Clients : Holds(c) =>
    /\ Named(c) \subseteq sock[c]
    /\ Named(c) \cap dead[c] # {} =>
         c \in reused \/ (proto[c] = "tcp" /\ rcv[c] # "off")

\* A thread receives for a channel that exists and whose connections nobody has shut
\* down; over UDP their sockets are open, unless they have got the handle of a closed
\* one. Nobody waits for the thread while holding m_mutexChannel, which its exception
\* callback needs.
ThreadSafe ==
  \A c \in Clients : rcv[c] # "off" =>
    /\ c \in chans /\ sock[c] # {} /\ src[c] \in {"run", "killed"}
    /\ dead[c] # {} => proto[c] = "tcp" \/ c \in reused
    /\ mchan # c

\* No client stays forever in the calls that close its channel, even when its thread
\* is about to report an exception.
Closing(c) == at[c] \in {"close", "closeAudio", "stop", "join", "free", "freeing"}
CloseReturns == \A c \in Clients : []<>~Closing(c)
=============================================================================
