# A verification project for the IVS SDK (Windows client)

The repository is the client SDK of a video surveillance system: a C API
(`IVS_SDK.cpp`) over services for login, live view, playback, download, voice,
events and a video wall. The code that is hard to get right is the code where
threads meet: the RTSP client library, the network source that receives media,
reconnection, timers, and the connections of the video wall. This project
models that code in TLA+, checks small instances with TLC and proves the
invariants that matter for all sizes with TLAPS.

## 1. The system

All paths are below `src/source`.

| component | where | state it keeps | operations | hard behaviour |
|---|---|---|---|---|
| RTSP session | `IVS_SDK/rtsp_client/source/RtspSession.cpp`, `rtsp_client_api.cpp`, `RtspSessionManager.cpp`, `RtspReactorManager.cpp` | per handle: status, pending message, CSeq, semaphore, result flag, two timers, socket; lists of sessions in two managers | create, SETUP, PLAY, PAUSE, OPTIONS, TEARDOWN, free; `handle_input`, `handle_timeout`, manager's one-second timer, sweep of the reactor loop | API threads wait on a semaphore that the reactor thread releases; timeouts race with late answers; deletion by a third thread; three locks and the reactor's token |
| RTSP receive stream | `handle_input`, `handleRecvedData` in `RtspSession.cpp`, `Static_PreAssign_Buf.h` | a 128 KB buffer and its length | receive, cut into packets and messages, move the rest to the front | chunks end anywhere; old bytes stay in the buffer; a full buffer |
| RTSP messages | `RtspMessage.cpp` and its subclasses | CSeq, method, fields | encode, decode, match an answer | the table of statuses |
| Network source | `IVS_Netsource/IVS_NetSource` | channels with their source (TCP, UDP, multicast), RTP statistics and callbacks | get and free a channel, open and close a connection, receive packets | a channel is freed while its receiving thread calls back |
| Main control, users | `IVS_SDK/IVS_SDK/IVS` | the table of session numbers and the users behind them (no reference counts); per user its links, resume timer and list of business to resume | login, logout, lookup by every call | a user is freed while a call uses it; the exception callbacks are global, not per user |
| Domains and links | `service/LoginMgr`, `service/DomainRoute`, `AutoResume/ReLink.cpp`, `UserMgr.cpp`, `SDKMainctrl.cpp` | per session: the route to each element (the SMU of a domain, the OMU) with its status and link; the table of domains; the list of elements to relink; a clock of ten minutes | login to another domain, link closed, relink, refresh of the domains, logout | three threads between short locks; a table without one; logins that fail in six ways |
| Live view | `service/RealPlay`, `AutoResume/AutoResume.cpp`, `service/Event` | play objects with their references and status, the map of handles, the queue of events, the list of views to resume | start, stop, stop of all; event and restart of a broken stream | the steps of a start can each fail and must be undone; stopping races with restarting; an object is deleted with its last reference |
| Playback, download | `service/PlayBack`, `service/Download` | sessions with their speed, state and queue | start, pause, seek, stop | as live view; end of stream |
| Voice | `service/Voice` | a map of talk handles and their audio objects | start, stop | as live view |
| Timers | `inc/common/SDKTimer.cpp`, `IVS_SDKTVWall/common/NVSTimer.cpp` | a multimap of items by the time they are due, pointers from triggers to items and back | register, cancel, scan, run the callbacks, clear, exit | a callback runs while its trigger is cancelled; the item is marked without the lock |
| Video wall | `service/TVWallMgr`, `IVS_SDKTVWall` | connection handles of decoders with their references (`RemoteDecoderMgr`, `ConnMgr`); packets of requests that wait for an answer; threads and queues of business (`ControlBus`) | connect, send, receive, time out, register; call, queue, ask, answer, report | one thread selects over connections others remove; packets and handles are used again while somebody still waits |
| Network keyboard | `IVS_SDKNetKeyBoard` | a ring buffer, the clients of a socket | accept, receive, parse | the ring buffer at its limit |
| OCX player, drawing, archives, XML, logs | `IVS_OCXPlayer`, `IVS_IADraw`, `ThirdParty`, `*XMLProcess*`, `log` | windows; none | user interface, drawing, formatting | outside the scope: user interface and data conversion |

The services call the RTSP library through handles (`MediaBase`, `Playback`,
`AudioObj`, `DecoderChannel`, `TPPlayChannel`: one SETUP on a handle, TEARDOWN
and FREE at the end or after a failure). The library calls back with media data
and with exceptions (`EventMgr`), on the reactor thread; the event thread turns
an exception of a live view into an entry of the list that the resume timer
works off. The network source calls back with media on its own threads. The
links of a session are those of a network library (NSS) that reports a closed
link on a thread of its own. The timer drives the resumption of views and of
links, the heartbeats of decoders and the connect timeouts. A call on the video
wall becomes a business in the queue of a decoder's thread, which has the event
thread of `RemoteDecoderMgr` send its packet.

What makes each component correct, and what the properties below are about:

- *RTSP session*: a call returns, with the server's answer to that very request;
  a freed session is deleted once, and nothing refers to it then.
- *Receive stream*: each byte is handed on once and in order, cut where the
  server cut it.
- *Network source*: no port belongs to two channels, none is lost, and a thread
  does not outlive its sockets.
- *Remote decoders*: a connection handle is in one place, its references are
  the events that refer to it, and it comes back to the pool.
- *Requests to decoders*: a request has a packet of its own, reaches its decoder,
  and gets the answer to itself; no call is lost or done twice.
- *Live view*: a view that is stopped stays stopped, one that broke is on its way
  back, and nobody uses a view that is deleted.
- *Links*: what was lost is relinked, and no link is left over.
- *Timers*: no callback runs after its trigger was cancelled; what is due fires.

## 2. Modules

| module | what | the code it stands for |
|---|---|---|
| `RtspSession` | one session, its callers, reactor, timers, lists, server | `RtspSession.cpp`, `rtsp_client_api.cpp`, both managers |
| `MCRtspSession` | symmetry of callers for the runs | |
| `RtspSession_proof` | typing; deletion; answers, tokens, status and freed sessions | |
| `RtspStream` | the receive buffer and the parsers | `handle_input` to `isRtspMessage` in `RtspSession.cpp`, `Static_PreAssign_Buf.h` |
| `RtspStream_proof` | order of bytes and frames | |
| `NetChannels` | channels, ports, receiving threads, and the media object that drives them | `IVS_NetSource/src`, `MediaBase.cpp` |
| `NetChannels_proof` | ports, their count and their pool, threads | |
| `DecoderConns` | connection handles, event queue, event thread of the video wall | `RemoteDecoderMgr.cpp`, `ConnMgr.cpp`, `SyncQueue.h` |
| `DecoderConns_proof` | the pool, the links, the references | |
| `DecoderRequests` | calls, threads, packets, numbers and answers of the video wall | `ControlBus.cpp`, `CumwStatusClasses.cpp`, `SendReqMsg` and the packets in `RemoteDecoderMgr.cpp` |
| `MCDecoderRequests` | symmetry of decoders | |
| `DecoderRequests_proof` | packets and their pool, the place of a call, its way to its decoder and back | |
| `ResourcePool` | abstract specification: things that go from a pool to one user and back; the ports of `NetChannels` and the packets of `DecoderRequests` are shown to implement it | the free list of `NetChannelMgr.cpp` |
| `LiveView` | views, their events, the list to resume, logout | `RealPlayMgr.cpp`, `RealPlay.cpp`, `EventMgr.cpp`, `EventCallBackJob.cpp`, `AutoResume.cpp` |
| `LiveView_proof` | references, stopped views, broken views | |
| `LinkRoutes` | links, routes, the relink list, logins, refresh, logout | `ReLink.cpp`, `LinkRouteMgr.cpp`, `LoginMgr.cpp`, `DomainRouteMgr.cpp`, `UserMgr.cpp`, `SDKMainctrl.cpp` |
| `LinkRoutes_proof` | closed and open routes, owners of links, the clock | |
| `SdkTimer` | items, triggers, clients and the scan of the timer | `SDKTimer.cpp`, `SDKTimer.h` |
| `TimerPromise` | abstract specification: what the timer promises; `SdkTimer` is shown to implement it | the interface in `SDKTimer.h` |
| `MCSdkTimer` | the periods of the run | |
| `SdkTimer_proof` | cancellation, the order of the list, and the promise | |

The modules are independent of each other: each ends where its component calls
the next one, and what lies behind that call is a choice. `Setup` of
`NetChannels` stands for a SETUP through `RtspSession`; a unit that `RtspStream`
hands on is an `answer` of `RtspSession`; `StreamEnds` of `LiveView` is an
exception of `RtspSession` or the report of a thread of `NetChannels`; `Trigger`
of `LiveView` and of `LinkRoutes` is a callback of `SdkTimer`, and their
`CancelTimer` and `LoggedOut` wait for it as its `Barrier` does; `Leave` of
`DecoderRequests` is a decoder's disconnection in `DecoderConns`, and the choice
`found` there is `FindRDAPacket` here. Composing them is part of the plan.
An operator whose comment begins with `(bug)` is a wrong variant of the one
below it. It is used by no specification: it shows which mistake in the code
the properties would find.

### 2.1 RtspSession

State is that of `CRtspSession` under the names of the code's members (the
comments of the declarations give them), the two lists that hold the session
(`inList`, `regs`), the connection with the messages in it, and where each
thread stands. A call is a sequence of steps: `Find` (findSession), `Lock`
(m_SessionMutex), `Create` / `Decline` (createRtspMessage after the checks of
the status, which OPTIONS does not have: it replaces the pending message and is
sent in `INIT` too, without a connection as well), `Connect` / `ConnectFails`,
`Send` / `SendBusy` / `SendBroken`, `ArmTimer` (asynchronous) or `Acquire` / `Expire`, `GiveUp` (the call that
timed out deletes the message under m_Mutex), `SetupReturns` / `CallReturns`.
`Input` is the start of handle_input, which holds m_Mutex until one of the
`Handle*` actions has dealt with the message; `InputClosed` is a receive that
fails. `TickAbnormal`, `TickUnflagged` and `TickDelete` are the manager's
timer, `Sweep` the loop of the reactor. The server answers (`Serve`), may say
100 Continue first (`ServeInterim`), pushes an ANNOUNCE and may close. Two
places are fine-grained on purpose: the step between the end of an acquire and
m_Mutex (`woken`, `late`), and the send that needs the reactor's token while
the reactor may need m_StreamMutex (`dropping`).

History variables (`last`, `granted`, `continued`, `late`, `setups`, `drops`,
`strays`) only record; the one guard that reads one is the bound on interim
answers, one for a request and `MaxContinue` in all.

### 2.2 RtspStream

A byte is its position in the stream. `cell` is the buffer with the bytes that
were there before, `len` its length, `pos` what the loop of handle_input has
passed. `Receive(n)` takes any number of bytes that fits; `RtpPacket`,
`RtspMessage`, `OtherData` and `Return` are the exits of `handleRecvedData`.
When a chunk ends inside the mark of an RTSP message, the comparison reads bytes
behind the data; whatever they are (they belong to earlier messages), both
outcomes are allowed (`tail`).

### 2.3 NetChannels

A client is a `CMediaBase` with its channel; `at` is its next call in the order
the media object makes them, its failures included. `GetChannel`,
`Take*Port`, `OpenUnicast`, `OpenMulticast`, `StartRecvStream` lead to a running
channel, `Close*`, `StopSource`, `Join`, `FreeChannel`, `ChannelDeleted` back.
`Receive` is the thread: data, no data for the limit (`NoData`), the report to
the exception callback, and the lookup of the channel by that callback, which
needs the mutex under which a channel is deleted. Over TCP the thread closes its
own socket on an error and goes on with the handle of it (`RecvCloses`): `dead`
has the ports whose sockets were closed so. The system may give that handle to the
next socket, of any connection (`NewSocket`, `reused`), and who closes the old one
a second time, the thread or `ShutDown`, then closes that socket (`Aliases`,
`Struck`). A port stands for the pair RTP and RTCP. `Pool` maps the ports to `ResourcePool`: what is free are the
ports in the free list, what a client has are those it will still give back
(`Owned`). A port whose entry became 0 and one whose start failed are lost.

### 2.4 DecoderConns

One variable for each field of a handle or decoder; `queue` is the event queue
with its capacity, `ev` the event thread between two steps, `acc` the handle in
the accept thread's hands (which then holds the lock of the connection list),
`client` a handle that a client has looked up and not yet referenced. `sock` is
`silent` when the peer has stopped without closing. A heartbeat may carry the name
of any decoder, and clears the count of that one, whatever connection it came
over; an answer clears the count of its own. `lost` records handles for
which the code keeps a reference that no event gives back (a full queue, a
socket that was closed by a failed send) and those that UNREGISTER releases
twice: the properties on references are about all others.

### 2.5 DecoderRequests

`biz` holds the calls (`CBusiness`), `owner` and `queue` the threads of
`CControlBus` and what is queued to them, `run` where each thread is in
`SendReqMsg`; `free`, `work` and `packet` are the packets, `events` the queue of
the event thread, `asked` the requests that a decoder has and has not answered.
A call is `FindThread` and `AddEvent`, which have different locks; `Read` and
`Write` draw a number from a counter without a lock; then `GetRDAPacket`,
`SetPacket`, `GetConnHandle`, `PostSend`, and `Wake` or `GiveUp`, `Decode` or
`Fails`. The event thread sends what the packet holds by then (`ProcSendMsg`),
and hands an answer over in three steps (`FindRDAPacket`, `Copy`,
`SetReadPacketEv`) with no lock between them. `Pool` maps the packets to
`ResourcePool`: a thread has a packet from `GetRDAPacket` to its release. Handles are given to the next
decoder at once; how they get there is the subject of `DecoderConns`.

### 2.6 LiveView

A view is an object at an address, and its handle is the address. `view` holds
its fields, `map` the handles, `stream` what delivers to it. `usr` is where each
client is: `StartWindow` or `StartCallback`, `Connect` with its outcomes, then
`StopBegins` to `Put`. `StreamEnds` posts an event; the event thread goes from
`GetRealPlayEx` to `ReleaseEvent` and lists the view; the resume thread goes from
`Trigger` through `TakeEntry` to `Restarted` or `RestartFails` and `BackToList`.
`Logout` to `CancelTimer` are the steps of a logout. A thread that would access a
deleted object is disabled for good, and `HeldIsLive` says where that can be.
`sole` records which objects have been made by a window start and have not met a
callback start, whose views are not counted; `blind` which the event thread
could not list, since their parameters were not saved yet, or need not, since
they had ended.

### 2.7 LinkRoutes

`route` is `m_LinkRouteMap`, `list` `m_listRelink`, `known` the table of domains;
`peer`, `up` and `lost` are the links as the network library sees them. The
notification thread is `LinkClosed`, `FindSession`, `AddClosed`; a client logs in
to a domain with `UseLink` to `AddFailed` and refreshes the domains with
`Refresh`, `EraseRoute`, `InsertRoute`, `Publish`; the relink thread is `Trigger`
to `PassDone`, with each way a login may end (`Welcome`, `Denials`). The codes
about passwords count as success for every SMU; of another domain they leave the
route closed and the link open (`Abandoned`). `Logout`
waits for the clients and `LoggedOut` for the relink thread.
`gone`, `crowded` and `unseen` record what the properties except, each a
behaviour of the code that section 6 describes.

### 2.8 SdkTimer and TimerPromise

`list` is the multimap in its order, `item` its items, `ptr` the pointer of each
trigger. `CancelTimer`, `Mark`, `Detach`, `ForgetItem` are the three unlocked
writes of `cancelTimer`, each of which reads the pointer anew, and `Barrier` the
lock that waits for a scan. The scan is `Lock`, then `EraseRemoved`, `NotYet`,
`OnTrigger` ... `PutBack` for each item, then `Unlock`. Two measures of time meet
in it: the key (`left`, counted in scales) says where an item stands, the ticks
of the system (`due`) whether it fires. `TimerPromise` has three variables: the
triggers that are armed, those that are being cancelled, and the one whose
callback runs. `Armed` and the substitution behind it map the timer to it. Its
constant `Stray`, which the timer sets to `Reuse`, says whether a cancellation
may disarm another trigger than its own: a client may then lose a registration,
which `timer_detach` shows. That a trigger is silent once its own cancellation has
returned is promised in both cases.

## 3. Runs

| run | instance | question and answer |
|---|---|---|
| `rtsp_safe` | 2 callers, synchronous and asynchronous, answers ok, refused and continue (1), 3 requests, 1 ANNOUNCE | Do calls return the answer to their own request, do client and server agree when all is quiet, is the pending message safe from deletion, is a freed session left alone? They do. |
| `rtsp_live` | 1 caller, both modes, answers ok, refused and continue (2), 2 requests, 1 ANNOUNCE, fair | Every call returns unless it and the reactor thread wait for each other (`Hung`, what `rtsp_stuck` is about); a freed session is deleted. |
| `rtsp_stuck` | 1 caller, 3 requests, 1 ANNOUNCE, fair | A failed send waits for the reactor, which waits for the sender's lock: *violated* (finding). |
| `stream` | buffer 7, prefix 2, mark 3, frames of 3 and 5 bytes, 3 frames, fair | Bytes are handed on once, in order, as frames, and all of them in the end. |
| `net` | 2 clients, 2 ports, 2 channels, UDP, TCP and one group, 1 port that another program may hold, fair | Ports are a pool (`ResourcePool`): each goes to one client and back; none is lost from both lists; a socket is closed by its channel, by its thread over TCP or through a handle it shares with a closed one, and by nobody else; threads end before their channel; closing returns, also while the thread reports an exception. |
| `decoder_conns` | 1 handle, 2 decoders, 1 client, queue of 2, retries 1, all four messages, 1 message in flight, references up to 1 by clients and heartbeats, fair | References are counted right, the pool and the links hold, no connection in use is left unwatched, handles come back. |
| `requests` | 2 decoders, 2 threads and packets, 2 handles, 3 calls, 2 registrations, queues of 1 and 2 | Packets are a pool, so that none serves two requests, whatever happens to the numbers; with distinct numbers none is lost, a request reaches its decoder and gets its own answer, with the exceptions named; every accepted call is done once. |
| `live_view` | 2 views, 1 client, queue of 1, 2 broken streams | References suffice, nobody meets a deleted view, a stopped view stays off, a broken one is on its way back. |
| `live_resume` | 1 view, 2 clients, queue of 1, 1 broken stream, fair | What is in the list plays again. |
| `timer` | a repeated and a one-shot trigger, 3 items, addresses used again, fair | A cancelled trigger is silent (the timer implements `TimerPromise`), every item can be cancelled, what is due is passed over at most once by each other item, and fires. |
| `timer_detach` | as `timer` | The item of a registered trigger is deleted: *violated* (finding). |
| `link_routes` | home domain with SMU and OMU, 1 further domain, 1 client, 6 links, 1 break, 1 refresh, single sign-on, fair | No closed route is forgotten, an open one has its link, no link is left over, the clock is right, and what is closed opens again. |

The type invariants are proved for every module (section 4), so no run repeats
them. `PortsHeld` and `NotShared`, that no port and no packet is with two users,
are what the pool is for; they are proved as well, and no run repeats them.

### Deadlock

A run that switches the check for deadlock off has an end that is no error: a
client that has used up its requests (`rtsp_safe`, `rtsp_live`, `rtsp_stuck`,
`requests`), a server that has sent its frames (`stream`), a session that has
been logged out (`live_view`, `live_resume`, `link_routes`), and in `timer` and
`timer_detach` a cancellation that meets its item deleted, which is undefined in
the code (section 6) and goes no further in the model.

### Bounds, and why they are enough

- *Requests 3, callers 2* (`rtsp_safe`): the shortest history in which one call
  gives up, a second is woken wrongly and a third sees the consequence. A second
  caller is what makes the locks matter; a third adds only waiting for the same
  lock. Callers are interchangeable, so the run uses their symmetry (it checks
  no liveness).
- *Interim answers* (`MaxContinue`): one request of three in `rtsp_safe` and each
  of two in `rtsp_live` may be answered by 100 Continue before its answer. For
  most requests the library takes the 100 for the answer (section 6), deletes the
  message and ignores the final one. The message of a synchronous SETUP stays until
  its call returns, so that its final answer is a second one and releases the
  semaphore a second time: `OkIsGranted`, `TokenBudget` and `MsgPinned` are about
  histories without that (`SetupFinal`), and `StatusAgrees` about those in which no
  interim answer was given; TLC refutes each of them without its condition.
  `FreedForGood` and `FreedIsQuiet` hold without any.
- *Buffer 7 with frames of 3 and 5*: frames shorter than half of the buffer and
  longer than it, so that two fit, one and a part fit, and a frame ends at the
  end of the buffer; mark 3 and prefix 2 let a chunk end inside either. The
  proofs hold for every size.
- *2 ports, 2 channels, 2 clients*: a channel has two ports at most, so one
  client fails for want of a port that the other holds, or that is unusable.
  The proofs of the safety properties hold for any number.
- *1 handle, 2 decoders*: the handle is used again by another decoder, which is
  what stale timers, stale requests and stale events get wrong, and the pool is
  empty while it is in use. The safety properties are proved for any number of
  handles, `Watched` among them, which matters with two: the heartbeat of one
  connection may then clear the count of the decoder of another. The liveness
  property is known for this instance only. With two handles (13 million states), and
  with two messages in flight, the safety properties were found to hold as well;
  they are not part of the runs because of their length.
- *MaxRefs 1* bounds what clients and heartbeats add to a handle. The other
  events are bounded by the code itself: one `recv` and one `timeout` at a time.
- *3 calls, 2 threads and packets* (`requests`): two calls hold a packet each and
  the third uses one of them again while its answer is late. Two registrations
  let a decoder leave and its thread and handle go to the other one. A queue of
  1 and an event queue of 2 are full with two calls. The numbers cannot run out
  within these bounds. The proof met the case: after 65536 requests a number is 0,
  which is the number of a packet that has never been used; `Unlucky` includes
  that case.
- *2 views, 2 broken streams, queue of 1*: the second exception drops the first
  from the queue, or comes for the same view while it is being restarted; a
  third view would be independent. `live_resume` has two clients because a
  callback start may take the view that another client's window start has made.
- *6 links* (`link_routes`): three elements, one link a refresh may leave over,
  one that a login answered with a password code leaves open, and a broken one that
  stays in its route until it is replaced. Two breaks, and
  two clients with a login that is not single sign-on, were found to satisfy the
  safety properties too; they are not part of the runs because of their length.
- *3 items for 2 triggers* (`timer`): the item of a cancelled trigger is still in
  the list when the trigger is registered again.

### Fairness

- `RtspSession`: threads inside the library, the reactor, the manager's ticks
  and the sweep go on (weak fairness). Nothing obliges a client to call, the
  server to answer or a connection to hold or break.
- `RtspStream`: the reactor is level-triggered, so a handle with bytes is
  dispatched (weak fairness of `HandleInput`).
- `NetChannels`: strong fairness of the steps of a client inside the library and
  of the thread, because they compete for two mutexes, which the system gives to
  a waiting thread that keeps asking. Nothing obliges a client to start or stop,
  or the stream to end.
- `DecoderConns`: weak fairness of the event thread, of the second half of an
  accept, of the select thread and of the connect timers; strong fairness of the
  heartbeat's tick. The timer ticks unconditionally in the code; in the model it
  waits for room and for `MaxRefs`, conditions that come and go.
- `SdkTimer`: weak fairness of the thread and of the passing of time, and of the
  steps of a cancellation; strong fairness of `Insert` and `Barrier`, which wait
  for the lock that the thread releases once a scale. Nothing obliges a client
  to register or to cancel. `DueFires` supposes that every pass ends.
- `LiveView`: weak fairness of the threads; strong fairness of `Restarted`: a
  server that is asked again and again grants once. Without it every trigger
  may fail for ever, and the code goes on trying for ever.
- `LinkRoutes`: weak fairness of the threads, and of `ServersAnswer`: from some
  moment on every connection and every relogin succeeds. Without it the code
  tries for ever too. Nothing obliges a link to break or a client to call.

## 4. Theorems

All are proved for every value of the constants that satisfies the module's
named assumption. Those say only that bounds are natural numbers, that sets are
of the right kind and `None` is no member of theirs, that a frame fits the
buffer, that ports of multicast groups lie outside the range of local ports, and
(`LinkAssumption`) that there are two links at least.

| module | theorem | states | by way of |
|---|---|---|---|
| `RtspSession_proof` | `TypeCorrect` | `TypeOK` | `TypeInv`: in addition, a call that has created a request is not a FREE |
| | `DeletedIsQuiet` | `FreedIsQuiet` | `LifeInv` |
| | `GrantedCorrect`, `PinnedCorrect`, `TokensCorrect`, `StatusCorrect` | `OkIsGranted`, `MsgPinned`, `TokenBudget`, `StatusAgrees` | `SetupFinal => SessionInv`, with `TypeInv` and `LifeInv` |
| | `FreedCorrect` | `FreedForGood`, an action property | `LockOK` and `WaitInv`, with `TypeInv` and `LifeInv` |
| `RtspStream_proof` | `TypeCorrect`, `BytesInOrder`, `WholeFrames` | `TypeOK`, `InOrder`, `FramesUntilData` | `Inv` |
| `NetChannels_proof` | `TypeCorrect`, `PortsNeverShared`, `PortsStayBound`, `ThreadsAreSafe`, `AllPortsAccounted` | `TypeOK`, `PortsOnce` and `PortsHeld`, `PortsBound`, `ThreadSafe`, `PortsAccounted` | `IInv` |
| | `PoolIsKept` | `KeepsPool` | `IInv`, and one step or stutter of `ResourcePool` for each action |
| `DecoderConns_proof` | `TypeCorrect`, `PoolIsClosed`, `AlwaysLinked`, `RefsAreEvents`, `AlwaysWatched` | `TypeOK`, `PooledIsClosed`, `Linked`, `RefsBalanced`, `Watched` | `IInv` |
| `DecoderRequests_proof` | `TypeCorrect`, `PacketsNotShared`, `NoCallLost` | `TypeOK`, `NotShared`, `Accounted` | `IInv` |
| | `PoolIsKept` | `KeepsPool` | `IInv`, and one step or stutter of `ResourcePool` for each action |
| | `PacketsCorrect`, `OwnAnswerCorrect`, `DeliveredCorrect` | `PacketsKept`, `OwnAnswer`, `Delivered` | `JInv` |
| `LiveView_proof` | `TypeCorrect`, `RefsCorrect`, `HeldCorrect`, `StoppedOffCorrect`, `StoppedListedCorrect` | `TypeOK`, `RefsEnough`, `HeldIsLive`, `StoppedIsOff`, `StoppedIsListed` | `IInv` |
| `LinkRoutes_proof` | `TypeCorrect`, `NoneForgotten`, `OwnersCorrect`, `OpenCorrect`, `ClockCorrect` | `TypeOK`, `ClosedIsListed`, `LinksOwned`, `OpenedIsUp`, `ClockIsRight` | `IInv` |
| `SdkTimer_proof` | `TypeCorrect`, `NothingEscapes` | `TypeOK`, `Cancellable` | `IInv` |
| | `PassedOnce` | `NeverTwice` | `IInv`, `OrderOK`, `JumpsOK` |
| | `PromiseIsKept` | `KeepsPromise` | `IInv`, and one step or stutter of `TimerPromise` for each action |

Why the invariants have to be stronger than what they prove:

- `LifeInv`: that nothing refers to a deleted session depends on how it got
  there. `LastCall` says that a FREE has no other call beside it and none after
  it (what the SDK's callers promise, see below), `LeavingOK` that a session is
  on its way out only after a FREE, and has neither connection nor timers once
  its status is DELETE, `LinkedOK` that the reactor works only for a session with
  a connection, `Untouched` that a session that never connected has no timer, no
  handle and no registration, and `DeadOK` is the conclusion.
- `SessionInv`: `Held` is the call that has m_SessionMutex, and everything is
  said of it. `LockOK` says that it is the only one beyond findSession, `InOrder`
  that requests, answers and the answer in hand are in the order of their
  numbers and none is there twice, `MessageOK` that the pending message is that of
  `Held`, `NamesOK` that no number is given to two requests, `AnswersOK` that a 200
  or a 100 in sight is the server's. `TokensOK` counts what may still raise the semaphore (an answer in sight,
  `Coming`) with its tokens: a bound on the tokens alone is not inductive. An answer in hand that is taken for
  one to a SETUP, with another still to come, counts twice (`Twice`). `PinOK`
  says that an answer in sight is the one `Held` waits for, `ResultOK` that the
  flag which the woken call reads is about its own request, `SetupOK` why SETUP,
  whose message stays, makes no second answer match. `AgreeOK` follows the
  server's status through the request, the answer on its way and the answer in
  hand. `PinOK` and `ResultOK` speak of the time before a token went astray,
  `AgreeOK` of that before a call gave up or a connection was lost.
- `WaitInv`: after an interim answer to a SETUP the final one matches the same
  message, so that `PinOK` fails and `SessionInv` with it. What is left is that no answer to the pending message
  is in sight once its call has been told of one (`SettledOK`), SETUP's until its
  call returns; a freed session has no call, hence nothing left to revive it.
- `Inv` of the stream: `BufferOK` says that the buffer holds the last `len` bytes
  received, which makes `InOrder` a matter of arithmetic, and `SentOK` that
  frames lie one behind the other, so that a unit that starts with a frame and
  has its length is that frame.
- `IInv` of the channels: `OwnedOK` says that the ports a client will still give
  back are busy and have one owner. Without it, giving a port back could put it
  on the free list twice. `StageOK` and `RunOK` tie the sockets and the thread
  of a channel to the step its client is at, and say that a client on TCP never
  gives an audio port back. `NamedOK` says that the ports a client has named are
  those its sockets are bound to, `DeadOK` that a socket which is closed behind its
  connection was closed by a TCP thread or has got the handle of such a one. `PortsAccounted` is inductive with `PortsOnce` and
  `OwnedOK`: what moves from one list to the other is in the one and not in the
  other, so that lengths and cardinalities change together. The pool needs no
  more: taking a port loses the ports that were passed over on TCP, and each
  failure gives back exactly what its client has.
- `IInv` of the decoders: `OnePlace` says that a handle is in the pool, in the
  accept thread's hands, in use, or on its way back, and only in one of them.
  `ReadingOK` says that the event thread reads messages of the connection the
  handle still has, which rests on UNREGISTER being the last message (after it
  the handle may be back in the pool while its messages are read on). `Watched`
  is inductive with `Linked`, `EventsOK` and `OnePlace`: the count of a decoder
  passes the limit only where its timeout is queued, clearing it over whatever
  connection only lowers it, and a handle that a full queue has left with neither is
  `lost`. `OwnHandle`
  makes a decoder that registers twice find its own name taken. `RefsBalanced`
  needs `NoHandleOK`: a check of the heartbeats names no handle, and a second
  release of one handle comes only after UNREGISTER (`lost`). The count of events
  is a cardinality of places in the queue, which `Append` and `Tail` change by one.
- `IInv` of the requests: `HandsOK` and `QueuesOK` say that a call is in one
  thread's hands or at one place of one queue, `PlacesOK` that it is somewhere;
  together they give the count in `Accounted`. `DataOK` keeps what is read
  between two locks within its type: the index of the thread a call has found,
  the packet a thread holds, the handle it has looked up, the request in a packet
  whose event is still queued, the packet of an answer. `NotShared` itself is
  inductive: every step leaves the packets where they are (`Stays`), takes the
  first that is free (`Takes`), or gives back the one it holds (`Gives`), and
  this does not depend on which entry of the list at work a release by number
  removes. That is also the step to the pool: each of the three is `Take`, `Give`
  or a stutter of `ResourcePool`, and a release that finds no number loses.
- `JInv` of the requests is `IInv` and, while the numbers are distinct, where the
  packets at work are (`WorkOK`) and where a request is (`AnswersOK`): posted,
  asked of its decoder, found by the event thread or answered, one of these at a
  time and only while its thread waits. This holds of requests whose packet no
  caller has given up (`tired`). `NumbersOK` and `SendsOK`, which hold in any case,
  tie a request, its number and its packet together. `RouteOK` follows the handle a request will be sent by: its decoder's,
  unless that one has left.
- `IInv` of the live views: `CountsOK` compares the references of a view with
  those who hold it (`Holders`), one of which the event thread may count late; of a
  deleted view nobody is left but that one, which is why nobody else can meet it.
  `OneClient` makes the client that puts a reference back the one that has it,
  `FinishedOK` keeps a stopped view out of the hands that could start it. For
  `StoppedIsListed` the weaker "on its way" is not inductive: the resume thread may
  have refused the view or started it already, and `WayOK` (`Awaited`) names who
  will still start it.
- `IInv` of the links: `ClosedOK` names who will list or relink a closed element
  (`Remembered`). The notification thread counts only while the link it looks
  for is the one in the route, which a relogin may have replaced; the relink
  thread is done with its element once the login succeeded. `PeersOK`, that a
  link leads to the element in whose route it is, is why the session that the
  notification finds is the one whose route it has closed. `LinksOwned` rests on
  `AloneOK`: an element that is not crowded is logged in to by one thread at a time,
  and then has no link but that of the login; `HeldOK` says what the threads have
  when they rest, `RoutedOK` that whatever is named has a route. `OpenOK` carries
  `OpenedIsUp` through a login: a link in a thread's hands is up, or its loss will
  be seen (`Seen`), or its element will be relinked by other means than the login
  that is under way (`Kept`); `MadeOK` says that the relink thread's success has
  put its link into the route.
- `IInv` of the timer: `RunOK` says that an item whose callback runs is in no
  list and that nothing else of its trigger may fire, `SilentOK` that from the
  mark on nothing of the trigger may fire but a one-shot item that is running,
  `NewOK` that a new item is its client's alone until it is inserted.
  `AddressOK`, that a pointer which leads to a living item leads to that of its
  trigger, holds only without `Reuse`. It gives that a trigger is disarmed by its own
  cancellation alone; with `Reuse`, `TimerPromise` allows for another's (`Stray`).
  Everything else holds in both cases, so that `PromiseIsKept` and the other theorems
  suppose nothing about addresses. `NeverTwice` needs
  `OrderOK`, that the list is in the order of the scales left, up to the place of
  an item that is about to be put back, and `JumpsOK`, that what was passed over is
  due and stands before the item that has passed it.

No theorem has a hypothesis beyond these assumptions on the constants.

Every safety property of the runs is proved: the invariants, `FreedForGood`,
and the three refinements. Only model-checked are the liveness properties
(`CallsReturn`, `FreedIsReclaimed`, `AllHandedOn`, `CloseReturns`,
`HandlesComeBack`, `ListedResumes`, `DueFires`, `ClosedOpens`).
Liveness under fairness and ENABLED are out of the prover's reach, and so are
induction over data and recursive operators; no module here uses the latter two.

## 5. What is left out

Of the modelled components:

- *RtspSession*: keep-alive bookkeeping; the text of messages; one session at a
  time, so no interplay of two sessions over the list lock and the reactors.
  `Find` assumes what the SDK's callers do: FREE comes last and alone on a
  handle. Without that a call may find the session and wait for its lock while
  another frees it and the timer deletes it (`rtsp_client_api.cpp:498`), which
  no property here would show. The counter of the data timer is abstracted: a data timeout may come
  at any tick.
- *RtspStream*: a frame longer than the buffer, which leaves it full for good
  (`RtspSession.cpp:519`). What the application does with a unit.
- *NetChannels*: `Init` and `UnInit` (a channel is deleted there with its thread
  running, `NetChannel.cpp:25`), an empty local address, several addresses of
  one host. Multicast groups lie outside the range of local ports: inside it,
  the group's port would be pushed to the free list without having been taken
  (`NetChannel.cpp:248`). The busy list is written and never read, so its
  update is joined to that of the free list.
- *DecoderConns*: the windows of 64 connections in which the select thread walks
  its list, and a socket number that is used again between select and the walk
  (`ConnMgr.cpp:1243`); the messages ErrorNotify; start and stop of the manager;
  the packets of clients that wait for an answer, which `DecoderRequests` models
  (here, whether an answer finds one is a choice). A decoder registers under its
  own name only (its heartbeats may carry any), and sends nothing after UNREGISTER. `CheckHeartBeat` pushes its
  events in one step.
- *DecoderRequests*: start and stop of the library, the numbers that heartbeats
  draw, a request that does not fit its packet, `PlayAudio` and `SetVolume`, what
  a business asks. One client calls, in order.
- *LiveView*: calls from inside the exception callback, two clients that stop one
  handle, calls under way during logout, a second login, an address that is used
  again while a forgotten stream delivers to it, the data race of the scans of
  the map without its lock, the lookup of the service type before that of the
  view, the branches of the video wall and of playback.
- *LinkRoutes*: domains that change their address or port, links to the SCU,
  requests on a link, calls under way during logout, the first login, the
  reports to the client, and the network library opening a link again by itself
  before the SDK deletes it.
- *SdkTimer*: registrations and cancellations from inside a callback; a callback
  that takes longer than its period is due again in the same pass, which
  `DueFires` excepts.

Of the system: see `PROJECT.json`, "components". Requests and answers without
state between calls, data conversion, logging and user interface are left out
for good; the other components are in the plan.

## 6. Where the code differs from what one expects

Two runs end in a violation of what a comment of the code says; the entries
"findings" in `PROJECT.json` quote the comments. Further differences were met
while modelling. The models contain them unless it is said here or above that
they are left out.

RTSP session

- `rtsp_client_api.cpp:361`, `RtspSession.cpp:539`: a SETUP whose connection is
  lost while it waits returns `m_iRetCode`, which is still 0, `RET_OK`, though
  the session is where it began (`rtsp_client_api.cpp:407` says "RET_OK-成功
  其他-失败"). `OkIsGranted` excepts it (`SETUP` with `drops > 0`).
- `rtsp_client_api.cpp:758`: the token of a call that timed out while its answer
  was being handled stays in the semaphore and wakes the next synchronous call at
  once; a PAUSE or OPTIONS then returns `RET_OK` without an answer. `TokenBudget`
  counts such tokens, `OkIsGranted` excepts the calls they wake.
- `rtsp_client_api.cpp:607`: an OPTIONS is created and sent in every state, where
  the other requests check it. During an asynchronous SETUP it deletes the pending
  message, so that the answer to SETUP finds none; answered in `INIT` it fails
  (`RtspSession.cpp:1127`, `:1146`), but releases the semaphore.
- `RtspSession.cpp:642`: a chunk that ends inside "RTSP/1.0" is taken for data
  and handed on, where the comment at 627 promises to wait for the rest.
- `RtspMessage.cpp:217`: 100 Continue has index 0 in the table of statuses, which
  is `RET_OK`; an interim answer to SETUP, PLAY, PAUSE counts as success. A synchronous
  SETUP keeps its message, so that its final answer is handled as well, and deletes
  it at its return without m_Mutex, perhaps while that answer is in hand.
- `RtspSession.cpp:1256`: a refused TEARDOWN closes the connection before its
  result is looked at.
- `RtspSession.cpp:258`: `m_bConnectFail` is never cleared, so that a handle that
  connects at a second try is deleted by FREE although it is registered
  (`rtsp_client_api.cpp:940`); a handle that connects twice is also twice in the
  list that the sweep deletes from (`RtspReactorManager.cpp:225`). The SDK
  connects a handle once; `FreedIsQuiet` is about that case.
- `RtspSession.h:71`: an asynchronous call deletes the pending message without the
  lock under which `handle_input` uses it. `MsgPinned` is about synchronous calls.
- `RtspSession.cpp:141`, `:463`: the timer of an asynchronous request is not
  cancelled when it expires, and the next request fails after it was sent.
- `RtspSessionManager.cpp:78`: the manager's timer may wait for a reactor's token
  while it holds the list lock (left out: it takes two sessions).
- `RtspSessionManager.cpp:85`: a session that never connected and was not marked
  as failed is taken off its list and never deleted.
- `RtspSession.cpp:1429`: all PLAY requests of a session share one data timer.

Network source

- `NetChannelMgr.cpp:763`: after a bind that failed `GetTcpSocketPort` puts 0 on
  the free list instead of the port (UDP does it right at 614).
- `MediaBase.cpp:821`: a start that fails between GetChannel and OpenNetStream
  leaves the ports busy for good.
- `NetChannelMgr.cpp:246`: when the audio port cannot be had, the two video
  connections are neither closed nor kept (`lost`).
- `TcpConnection.cpp:138`, `:156`, `:170`: on an error the receiving thread closes
  its socket and keeps the handle; it polls on, and it and `CloseConnection` close
  the handle again, which may be another channel's socket by then (`PortsBound` and
  `ThreadSafe` except channels that have got such a handle, `reused`).
- `BindMulticastPort` fails when the audio port is 0, which `MulticastSource.cpp:70`
  allows for.

Video wall, connections

- `RemoteDecoderMgr.cpp:533`: after a failed send, `ReleaseRef` returns early and
  the handle never comes back to the pool.
- `RemoteDecoderMgr.cpp:413`, `:497`, `:1158`, `:3606`: an event that is dropped
  because the queue is full keeps its reference.
- `RemoteDecoderMgr.cpp:1977`, `:3356`: UNREGISTER gives back two references for
  one event, so that the handle may go to the pool while another event points to
  it (`RefsBalanced` excepts these handles).
- `RemoteDecoderMgr.cpp:3570`: a request may reach another decoder, whose
  connection has been given the handle since.
- `RemoteDecoderMgr.cpp:1606`, `:1637`: a heartbeat clears the count of the decoder
  it names, whatever connection it came over, so that a silent decoder which another
  connection keeps naming is never dropped. `Watched` says that its count goes on.
- `RemoteDecoderMgr.cpp:3502`: a timeout that is queued before REGISTER is
  handled disconnects the decoder that has just registered.
- `RemoteDecoderMgr.cpp:432`: the connect timeout is 15 s by the name in
  `CumwTypes.h:54`, and 150 s as it is passed, 1500 scales of 100 ms.

Video wall, requests

- `RemoteDecoderMgr.cpp:3754`: two requests that get one number leak a packet,
  since the second release by number finds nothing, though the comment at 3643
  says that every exit releases it.
- `RemoteDecoderMgr.cpp:2054`: an answer that is handed over after its caller has
  stopped waiting wakes the next user of the packet, who may accept the answer to
  another's request. `OwnAnswer` excepts packets whose caller gave up (`tired`).
- `RemoteDecoderMgr.cpp:3429`: a send that is still queued when its caller gives
  up sends what the packet holds by then, perhaps to the wrong decoder.
- `RemoteDecoderMgr.cpp:2037`: an answer that comes too late fails, and if it is
  the last message received the decoder is disconnected.
- `ControlBus.cpp:716`: a call queued to the thread of a decoder that has left is
  executed by that thread, which may serve another decoder.
- `CumwStatusClasses.cpp:415`: when the queue is full the event that ends a thread
  is dropped, and the thread outlives the stop of the library; calls that the end
  of a thread drains are never reported (both left out).

Live view

- `AutoResume.cpp:140`: stopping a view that waits for its restart drops the
  entry without giving its reference back, and the object stays for ever.
- `EventMgr.cpp:783`: an event that comes before the start has saved the
  parameters lists an entry that names no view; its reference stays and the view
  is never resumed (`blind`).
- `EventMgr.cpp:796`: the entry is in the list before it has its reference.
- `EventCallBackJob.cpp:92`: a full queue drops its oldest event, and that view is
  not resumed.
- `RealPlay.cpp:218`: a start that fails at its window leaves the stream running;
  it delivers to an object that is deleted.
- `RealPlayMgr.cpp:44`: the search for a free view takes views that play in a
  window, which `RealPlayMgr.h:199` does not say.
- Views with a callback start without a reference, so that the end of an event
  deletes them while the map still has them; `HeldIsLive` is about views that no
  callback start has met (`sole`).
- `RealPlayMgr.cpp:456`: `StopAllRealPlay` does not stop views in windows, which
  the comment in the header (110) promises.
- `RealPlayMgr.cpp:144`: `GetMediaBase` hands out a pointer without a reference
  (left out: it takes two clients on one handle).
- `UserMgr.cpp:1326`: entries whose restart failed may return to the list after
  logout has cleared it.

Links and routes

- `LoginMgr.cpp:999`: a link that breaks between its creation and the moment it is
  recorded is never noticed: its route stays open (`unseen`).
- `ReLink.cpp:158`: "first login" is a success in `ReLoginSMU`
  (`LoginMgr.cpp:989`), which records the link, and a failure here, which deletes
  that link and tries for ever.
- A refresh that finds a domain offline relinks it though its link is open; the
  old link stays, also after logout. Two logins to an enabled domain at once
  (`UserMgr.cpp:728`) leave a link as well (`crowded`).
- `DomainRouteMgr.cpp:303`: the table of domains has no lock, and a refresh takes
  each domain out and puts it in again. A relink or a failed login that meets the
  gap forgets the domain for good (`gone`); with single sign-on a home domain that
  is lost between `ReLink.cpp:95` and `LoginMgr.cpp:965` is given up at once,
  because the clock is 0.
- `ReLink.cpp:113`: the codes about passwords end the relink of any element as a
  success. The route of another domain stays closed, its link stays open without an
  owner, and the domain is not relinked again (`gone`, `Abandoned`).
- An item of the list is found by address and port. For other domains that port is
  always 9900 (`DomainRouteMgr.cpp:251` and `UserMgr.cpp:778`, `DEFAULT_SMU_PORT`):
  the port in the server's answer is not read. Only the home domain is relinked with
  the port of the login (abstracted).
- The report that a link is back may come after that of a newer loss (left out
  with the reports).
- `UserMgr.cpp:1312`: the comment says 30 s, 100 scales of 100 ms are 10 s.
- `CloseLinkCount` and its list are filled by nothing.
- `OnLinkClosed` keeps a raw pointer to the user while logout may delete it (left
  out).

Timers

- `SDKTimer.cpp:413`: a cancellation writes to an item that the scan may have
  deleted (finding of `timer_detach`); between 413 and 415 a one-shot item may
  have gone and its pointer be null (in the model that cancellation stops).
- `SDKTimer.cpp:537`: a callback longer than its period fires again in the same
  pass, with the lock held.
- `SDKTimer.cpp:215`: the end of the timer joins its thread, so that a logout from
  a callback of this timer waits for itself (left out).
- A registration after `clearTimer` meets a null list.

Elsewhere, read and not modelled yet

- `SDKInterface.cpp:379`, `:596`: the session table is changed under one mutex and
  read under another; a second login takes the exception callbacks over.
- `UserMgr.cpp:437`: the lookup of a talk handle overwrites that of a playback.
- `RingCache.cpp:228`: a write that fills the ring exactly must be told from an
  empty ring.

## 7. Plan

Modules to come, by the worth of what they would show:

1. `SdkUsers`: session numbers, login, logout, lookup. Bounds: 2 users, 2 calls.
2. `Playback`: as `LiveView`, with speed, seek and end of stream. Bounds: 2 plays,
   1 broken stream.
3. `RingCache`: a ring of bytes, shown to implement a bounded queue by a
   refinement mapping.
4. The composition of `DecoderRequests` with `DecoderConns`: references and the
   lookup of a packet in one module, so that a handle comes back to the pool as
   it does in the code.
5. The first login, joined to `LinkRoutes`.

Abstract specifications worth stating, besides `TimerPromise` and `ResourcePool`:
a *call* (request, answer or timeout, return) that `RtspSession` and
`DecoderRequests` implement; a *byte stream* for `RtspStream` and `RingCache`; the
pool for the handles of `DecoderConns`, whose users are the places of `OnePlace`.

Theorems to come: those refinements, with the invariants of section 4, and the
facts about the composition of `DecoderRequests` with `DecoderConns`.
