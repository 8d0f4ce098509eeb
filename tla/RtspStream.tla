----------------------------- MODULE RtspStream -----------------------------
(***************************************************************************)
(* The receive path of a CRtspSession (IVS_SDK/rtsp_client).  The server   *)
(* sends frames, interleaved RTP packets and RTSP messages, over one TCP   *)
(* stream; handle_input receives as many bytes as there are, or as its     *)
(* buffer has room for, and handleRecvedData cuts them into units again:   *)
(* RTP packets, RTSP messages, and anything else, which it passes on whole.*)
(*                                                                         *)
(* A byte is its position in the stream, counted from 1. All of            *)
(* handle_input runs under m_Mutex in one thread; it is divided into steps *)
(* so that the server can go on sending.                                   *)
(***************************************************************************)
EXTENDS Naturals, Sequences

CONSTANTS
  Cap,       \* DEFAULT_BUFFER_SIZE, the size of m_pRecvBuffer
  Prefix,    \* RTP_INTERLEAVE_LENGTH: '$', the channel and the length
  Mark,      \* bytes that tell an RTSP message: those of "RTSP/1.0"
  Sizes,     \* sizes of frames
  MaxFrames  \* bound: frames sent

ASSUME StreamAssumption ==
  /\ Cap \in Nat /\ Prefix \in Nat \ {0} /\ Mark \in Nat \ {0}
  /\ Sizes \subseteq Nat
  /\ \A s \in Sizes : Prefix <= s /\ Mark <= s /\ s <= Cap
  /\ MaxFrames \in Nat

VARIABLES
  sent,   \* the frames sent, in order
  rcvd,   \* bytes received so far
  cell,   \* the bytes of m_pRecvBuffer; 0 is a byte never written
  len,    \* m_pRecvBuffer->length()
  pos,    \* processedSize
  at,     \* "idle", or "parse": in the loop of handle_input
  out     \* the units handed on, in order

vars == <<sent, rcvd, cell, len, pos, at, out>>

Frames == {sent[i] : i \in 1..Len(sent)}
Total  == IF sent = <<>> THEN 0 ELSE sent[Len(sent)].last

Init ==
  /\ sent = <<>> /\ rcvd = 0
  /\ cell = [i \in 1..Cap |-> 0]
  /\ len = 0 /\ pos = 0 /\ at = "idle" /\ out = <<>>

SendFrame(kind, size) ==
  /\ Len(sent) < MaxFrames
  /\ sent' = Append(sent, [kind |-> kind, first |-> Total + 1, last |-> Total + size])
  /\ UNCHANGED <<rcvd, cell, len, pos, at, out>>

-----------------------------------------------------------------------------
(* handle_input.                                                           *)

\* (bug) A new recv overwrites the bytes that are left over from the last one.
ReceiveOverwrites(n) ==
  /\ at = "idle"
  /\ n <= Cap - len /\ rcvd + n <= Total
  /\ cell' = [i \in 1..Cap |-> IF i \in 1..n THEN rcvd + i ELSE cell[i]]
  /\ rcvd' = rcvd + n
  /\ len' = n /\ pos' = 0 /\ at' = "parse"
  /\ UNCHANGED <<sent, out>>

\* recv returns some of the bytes that have arrived, no more than there is room
\* for. (A full buffer is parsed again without a recv, but a frame that fits the
\* buffer never leaves it full.)
Receive(n) ==
  /\ at = "idle"
  /\ n <= Cap - len /\ rcvd + n <= Total
  /\ cell' = [i \in 1..Cap |-> IF i \in (len + 1)..(len + n) THEN rcvd + i - len ELSE cell[i]]
  /\ rcvd' = rcvd + n
  /\ len' = len + n /\ pos' = 0 /\ at' = "parse"
  /\ UNCHANGED <<sent, out>>

\* The frame that starts with byte b.
StartsFrame(b, kind) == \E f \in Frames : f.kind = kind /\ f.first = b
FrameFrom(b) == CHOOSE f \in Frames : f.first = b

Next1 == cell[pos + 1]

\* pData[0] is '$'.
IsRtp == StartsFrame(Next1, "rtp")

\* isRtspMessage compares the whole mark, whatever has been received: bytes
\* beyond the data are left over in the buffer from before. Bytes beyond the
\* buffer (tail) are not the session's; any value.
IsRtsp(tail) ==
  \A i \in 1..Mark :
    IF pos + i <= Cap
    THEN \E f \in Frames : f.kind = "rtsp" /\ cell[pos + i] = f.first + i - 1
    ELSE tail

Unit(kind, n) == [kind |-> kind, first |-> Next1, last |-> cell[pos + n]]

\* One round of the loop that hands on the next n bytes.
HandOn(kind, n) ==
  /\ out' = Append(out, Unit(kind, n))
  /\ pos' = pos + n
  /\ UNCHANGED <<sent, rcvd, cell, len, at>>

\* (bug) Bytes that have not arrived are counted in.
WholeOrPrefix(b) == len - pos >= Prefix

\* All of the frame that starts with byte b has been received.
Whole(b) == FrameFrom(b).last - b < len - pos

SizeOf(b) == FrameFrom(b).last - b + 1

Parsing == at = "parse" /\ pos < len

\* parseRtpRtcpPacket: the length of the packet is in its prefix.
RtpPacket ==
  /\ Parsing /\ IsRtp
  /\ len - pos >= Prefix /\ Whole(Next1)
  /\ HandOn("rtp", SizeOf(Next1))

\* parseRtspPacket: the message ends at its end tag, or with its content.
RtspMessage ==
  /\ Parsing /\ ~IsRtp /\ \E tail \in BOOLEAN : IsRtsp(tail)
  /\ Whole(Next1)
  /\ HandOn("rtsp", SizeOf(Next1))

\* Anything else goes to the data callback in PLAYING, and is dropped otherwise.
OtherData ==
  /\ Parsing /\ ~IsRtp /\ \E tail \in BOOLEAN : ~IsRtsp(tail)
  /\ HandOn("data", len - pos)

\* The message in front is not complete.
Incomplete ==
  /\ Parsing
  /\ \/ IsRtp /\ (len - pos < Prefix \/ ~Whole(Next1))
     \/ ~IsRtp /\ (\E tail \in BOOLEAN : IsRtsp(tail)) /\ ~Whole(Next1)

\* (bug) The rest is not moved to the front of the buffer.
CompactInPlace ==
  /\ len' = len - pos
  /\ UNCHANGED cell

\* The rest is moved to the front; what lies behind it stays.
Compact ==
  /\ len' = len - pos
  /\ cell' = [i \in 1..Cap |-> IF i <= len - pos THEN cell[pos + i] ELSE cell[i]]

Return ==
  /\ at = "parse" /\ (pos = len \/ Incomplete)
  /\ Compact
  /\ pos' = 0 /\ at' = "idle"
  /\ UNCHANGED <<sent, rcvd, out>>

HandleInput ==
  \/ \E n \in 1..Cap : Receive(n)
  \/ RtpPacket \/ RtspMessage \/ OtherData \/ Return

Next == HandleInput \/ \E kind \in {"rtp", "rtsp"}, size \in Sizes : SendFrame(kind, size)

Spec == Init /\ [][Next]_vars

\* The reactor dispatches a handle as long as it has bytes.
FairSpec == Spec /\ WF_vars(HandleInput)

-----------------------------------------------------------------------------
Units(kinds) == [kind : kinds, first : Nat, last : Nat]

\* Every variable keeps its type.
TypeOK ==
  /\ sent \in Seq(Units({"rtp", "rtsp"}))
  /\ rcvd \in Nat /\ cell \in [1..Cap -> Nat]
  /\ len \in 0..Cap /\ pos \in 0..len /\ at \in {"idle", "parse"}
  /\ out \in Seq(Units({"rtp", "rtsp", "data"}))

HandedOn == IF out = <<>> THEN 0 ELSE out[Len(out)].last

\* Each byte of the stream is handed on once, in order, however the stream is
\* cut into chunks and whatever the buffer still holds from before: the units
\* follow on each other and what is in the buffer follows on the last.
InOrder ==
  /\ \A i \in 1..Len(out) : out[i].first = (IF i = 1 THEN 1 ELSE out[i - 1].last + 1)
  /\ HandedOn = rcvd - len + pos

\* Until bytes that are no frame are handed on, each unit is a frame of the
\* server: no packet is cut in two, none is joined to the next.
FramesUntilData ==
  (\A i \in 1..Len(out) : out[i].kind # "data") =>
    Len(out) <= Len(sent) /\ \A i \in 1..Len(out) : out[i] = sent[i]

\* All that is sent is handed on: no frame that fits the buffer wedges it.
AllHandedOn == \A n \in 1..MaxFrames :
  Len(sent) >= n ~> Len(sent) >= n /\ HandedOn >= sent[n].last
=============================================================================
