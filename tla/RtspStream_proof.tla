-------------------------- MODULE RtspStream_proof --------------------------
(***************************************************************************)
(* Proofs about RtspStream, for every size of the buffer and of the        *)
(* frames: bytes are handed on once and in order, and as frames until a    *)
(* chunk ends inside the mark of an RTSP message.                          *)
(***************************************************************************)
EXTENDS RtspStream, TLAPS

\* Frames lie one behind the other in the stream.
SentOK ==
  /\ \A i \in 1..Len(sent) : sent[i].first <= sent[i].last /\ sent[i].last <= Total
  /\ \A i \in 1..Len(sent) : sent[i].first = (IF i = 1 THEN 1 ELSE sent[i - 1].last + 1)
  /\ \A i, j \in 1..Len(sent) : i < j => sent[i].last < sent[j].first

\* The data in the buffer are the last len bytes received.
BufferOK ==
  /\ len <= rcvd /\ rcvd <= Total
  /\ at = "idle" => pos = 0
  /\ \A i \in 1..len : cell[i] = rcvd - len + i

Inv == TypeOK /\ SentOK /\ BufferOK /\ InOrder /\ FramesUntilData

LEMMA FrameFields ==
  ASSUME sent \in Seq(Units({"rtp", "rtsp"})), NEW i \in 1..Len(sent)
  PROVE  sent[i].first \in Nat /\ sent[i].last \in Nat
<1>1. sent[i] \in Units({"rtp", "rtsp"})
  OBVIOUS
<1> QED
  BY <1>1 DEF Units

LEMMA TotalNat == ASSUME sent \in Seq(Units({"rtp", "rtsp"})) PROVE Total \in Nat
<1>1. CASE sent = <<>>
  BY <1>1 DEF Total
<1>2. CASE sent # <<>>
  <2>1. Len(sent) \in 1..Len(sent)
    BY <1>2
  <2> QED
    BY <1>2, <2>1, FrameFields DEF Total
<1> QED
  BY <1>1, <1>2

\* The order of the frames is the order of their first bytes.
LEMMA FramesInOrder ==
  ASSUME sent \in Seq(Units({"rtp", "rtsp"})), SentOK,
         NEW i \in 1..Len(sent), NEW j \in 1..Len(sent),
         sent[i].first <= sent[j].first
  PROVE  i <= j
<1>1. i \in Nat /\ j \in Nat
  OBVIOUS
<1>2. /\ sent[i].first \in Nat /\ sent[i].last \in Nat
      /\ sent[j].first \in Nat /\ sent[j].last \in Nat
  BY FrameFields
<1>3. sent[j].first <= sent[j].last
  BY DEF SentOK
<1>4. ASSUME j < i PROVE FALSE
  <2>1. sent[j].last < sent[i].first
    BY <1>4 DEF SentOK
  <2> QED
    BY <1>2, <1>3, <2>1
<1> QED
  BY <1>1, <1>4

\* A frame is known by its first byte.
LEMMA FrameAt ==
  ASSUME TypeOK, SentOK, NEW k \in 1..Len(sent)
  PROVE  FrameFrom(sent[k].first) = sent[k]
<1>1. sent[k] \in Frames
  BY DEF Frames
<1>2. ASSUME NEW f \in Frames, f.first = sent[k].first PROVE f = sent[k]
  <2>1. PICK j \in 1..Len(sent) : f = sent[j]
    BY DEF Frames
  <2>2. sent[j].first \in Nat /\ sent[k].first \in Nat /\ sent[j].first = sent[k].first
    BY <1>2, <2>1, FrameFields DEF TypeOK
  <2>3. sent[j].first <= sent[k].first /\ sent[k].first <= sent[j].first
    BY <2>2
  <2>4. j <= k /\ k <= j
    BY <2>3, FramesInOrder DEF TypeOK
  <2> QED
    BY <2>1, <2>4
<1> QED
  BY <1>1, <1>2 DEF FrameFrom

LEMMA InitInv == Init => Inv
BY StreamAssumption DEF Init, Inv, TypeOK, SentOK, BufferOK, InOrder, HandedOn,
   FramesUntilData, Total, Units

LEMMA SendStep ==
  ASSUME Inv, NEW kind \in {"rtp", "rtsp"}, NEW size \in Sizes, SendFrame(kind, size)
  PROVE  Inv'
<1> DEFINE f == [kind |-> kind, first |-> Total + 1, last |-> Total + size]
<1> TypeOK /\ SentOK /\ BufferOK /\ InOrder /\ FramesUntilData
  BY DEF Inv
<1>1. Total \in Nat /\ size \in Nat /\ size > 0
  BY TotalNat, StreamAssumption DEF TypeOK
<1>2. f \in Units({"rtp", "rtsp"})
  BY <1>1 DEF Units
<1>3. sent' = Append(sent, f) /\ sent \in Seq(Units({"rtp", "rtsp"}))
  BY DEF SendFrame, TypeOK
<1>4. /\ Len(sent') = Len(sent) + 1 /\ sent'[Len(sent) + 1] = f
      /\ \A i \in 1..Len(sent) : sent'[i] = sent[i]
      /\ Len(sent) \in Nat
  BY <1>2, <1>3
<1>5. Total' = Total + size
  <2>1. sent' # <<>>
    BY <1>2, <1>3
  <2> QED
    BY <1>4, <2>1 DEF Total
<1>6. TypeOK'
  BY <1>2, <1>3 DEF TypeOK, SendFrame
<1>7. SentOK'
  <2>1. ASSUME NEW i \in 1..Len(sent)
        PROVE  sent[i].first \in Nat /\ sent[i].last \in Nat
    BY <1>3, FrameFields
  <2>2. Len(sent) > 0 => sent[Len(sent)].last = Total
    BY <1>3 DEF Total
  <2>3. Len(sent) = 0 => Total = 0
    BY <1>3 DEF Total
  <2>4. \A i \in 1..Len(sent') : sent'[i].first <= sent'[i].last /\ sent'[i].last <= Total'
    BY <1>1, <1>4, <1>5, <2>1 DEF SentOK
  <2>5. ASSUME NEW i \in 1..Len(sent')
        PROVE  sent'[i].first = (IF i = 1 THEN 1 ELSE sent'[i - 1].last + 1)
    <3>1. CASE i \in 1..Len(sent)
      BY <3>1, <1>4 DEF SentOK
    <3>2. CASE i = Len(sent) + 1
      BY <3>2, <1>4, <2>2, <2>3, <1>1
    <3> QED
      BY <3>1, <3>2, <1>4
  <2>6. ASSUME NEW i \in 1..Len(sent'), NEW j \in 1..Len(sent'), i < j
        PROVE  sent'[i].last < sent'[j].first
    <3>1. CASE j \in 1..Len(sent)
      BY <3>1, <1>4, <2>6 DEF SentOK
    <3>2. CASE j = Len(sent) + 1
      BY <3>2, <1>1, <1>4, <2>1, <2>6 DEF SentOK
    <3> QED
      BY <3>1, <3>2, <1>4
  <2> QED
    BY <2>4, <2>5, <2>6 DEF SentOK
<1>8. BufferOK'
  BY <1>1, <1>5 DEF BufferOK, SendFrame, TypeOK
<1>9. InOrder'
  BY DEF InOrder, HandedOn, SendFrame
<1>10. FramesUntilData'
  <2>1. UNCHANGED out
    BY DEF SendFrame
  <2>2. Len(out) \in Nat
    BY DEF TypeOK
  <2> QED
    BY <1>4, <2>1, <2>2 DEF FramesUntilData
<1> QED
  BY <1>6, <1>7, <1>8, <1>9, <1>10 DEF Inv

LEMMA ReceiveStep ==
  ASSUME Inv, NEW n \in 1..Cap, Receive(n)
  PROVE  Inv'
<1> USE StreamAssumption DEF Receive
<1> TypeOK /\ SentOK /\ BufferOK /\ InOrder /\ FramesUntilData
  BY DEF Inv
<1>1. Total \in Nat /\ Total' = Total
  BY TotalNat DEF TypeOK, Total
<1>2. TypeOK'
  BY DEF TypeOK
<1>3. SentOK'
  BY <1>1 DEF SentOK
<1>4. BufferOK'
  BY <1>1 DEF BufferOK, TypeOK
<1>5. InOrder'
  BY DEF InOrder, HandedOn, BufferOK, TypeOK
<1> QED
  BY <1>2, <1>3, <1>4, <1>5 DEF Inv, FramesUntilData

\* A unit that starts where the data not yet handed on start.
LEMMA HandOnStep ==
  ASSUME Inv, NEW kind \in {"rtp", "rtsp", "data"}, NEW n \in 1..(len - pos),
         Parsing, HandOn(kind, n),
         kind # "data" => \E f \in Frames :
           f.kind = kind /\ f.first = Next1 /\ n = SizeOf(Next1)
  PROVE  Inv'
<1> DEFINE u == Unit(kind, n)
<1> TypeOK /\ SentOK /\ BufferOK /\ InOrder /\ FramesUntilData
  BY DEF Inv
<1>1. /\ pos + 1 \in 1..len /\ pos + n \in 1..len /\ at = "parse"
      /\ n \in Nat /\ pos \in Nat /\ len \in Nat /\ rcvd \in Nat
  BY StreamAssumption DEF Parsing, TypeOK
<1>2. Next1 = HandedOn + 1 /\ u.last = HandedOn + n /\ HandedOn \in Nat
  BY <1>1 DEF Next1, Unit, BufferOK, InOrder
<1>3. u \in Units({"rtp", "rtsp", "data"})
  BY <1>1, <1>2 DEF Unit, Units
<1>4. out' = Append(out, u) /\ out \in Seq(Units({"rtp", "rtsp", "data"}))
  BY DEF HandOn, TypeOK
<1>5. /\ Len(out') = Len(out) + 1 /\ out'[Len(out) + 1] = u
      /\ \A i \in 1..Len(out) : out'[i] = out[i]
      /\ Len(out) \in Nat /\ out' # <<>>
  BY <1>3, <1>4
<1>6. TypeOK'
  BY <1>1, <1>3, <1>4 DEF TypeOK, HandOn
<1>7. SentOK' /\ BufferOK'
  BY <1>1 DEF SentOK, BufferOK, HandOn, Total
<1>8. HandedOn' = HandedOn + n
  BY <1>2, <1>5 DEF HandedOn
<1>9. InOrder'
  <2>1. HandedOn' = (rcvd - len + pos)'
    BY <1>1, <1>8 DEF InOrder, HandOn, BufferOK
  <2>2. ASSUME NEW i \in 1..Len(out')
        PROVE  out'[i].first = (IF i = 1 THEN 1 ELSE out'[i - 1].last + 1)
    <3>1. CASE i \in 1..Len(out)
      BY <3>1, <1>5 DEF InOrder
    <3>2. CASE i = Len(out) + 1
      <4>1. u.first = HandedOn + 1
        BY <1>2 DEF Unit
      <4>2. HandedOn = (IF Len(out) = 0 THEN 0 ELSE out[Len(out)].last)
        BY <1>4 DEF HandedOn
      <4> QED
        BY <3>2, <1>5, <4>1, <4>2
    <3> QED
      BY <3>1, <3>2, <1>5
  <2> QED
    BY <2>1, <2>2 DEF InOrder
<1>10. FramesUntilData'
  <2> SUFFICES ASSUME \A i \in 1..Len(out') : out'[i].kind # "data"
               PROVE  /\ Len(out') <= Len(sent)
                      /\ \A i \in 1..Len(out') : out'[i] = sent[i]
    BY DEF FramesUntilData, HandOn
  <2>1. kind # "data"
    BY <1>5 DEF Unit
  <2>2. \A i \in 1..Len(out) : out[i].kind # "data"
    BY <1>5
  <2>3. Len(out) <= Len(sent) /\ \A i \in 1..Len(out) : out[i] = sent[i]
    BY <2>2 DEF FramesUntilData
  <2>4. PICK k \in 1..Len(sent) :
          sent[k].kind = kind /\ sent[k].first = Next1 /\ n = SizeOf(Next1)
    BY <2>1 DEF Frames
  <2>5. sent \in Seq(Units({"rtp", "rtsp"})) /\ Len(sent) \in Nat
    BY DEF TypeOK
  <2>6. sent[k] \in Units({"rtp", "rtsp"})
    BY <2>5
  <2>7. sent[k].last = HandedOn + n
    <3>1. FrameFrom(Next1) = sent[k]
      BY <2>4, FrameAt
    <3>2. sent[k].first \in Nat /\ sent[k].last \in Nat /\ sent[k].first <= sent[k].last
      BY <2>6 DEF Units, SentOK
    <3> QED
      BY <1>2, <2>4, <3>1, <3>2 DEF SizeOf
  <2>8. u = sent[k]
    BY <1>2, <2>4, <2>6, <2>7 DEF Unit, Units
  <2>9. k = Len(out) + 1
    <3>1. CASE Len(out) = 0
      <4>1. sent[k].first = 1
        BY <3>1, <1>2, <1>4, <2>4 DEF HandedOn
      <4>2. 1 \in 1..Len(sent)
        BY <2>5
      <4>3. sent[1].first = 1
        BY <4>2 DEF SentOK
      <4>4. k <= 1
        BY <4>1, <4>2, <4>3, <2>5, FramesInOrder
      <4> QED
        BY <3>1, <4>4
    <3>2. CASE Len(out) > 0
      <4> DEFINE m == Len(out)
      <4>1. HandedOn = sent[m].last /\ m \in 1..Len(sent)
        BY <3>2, <1>4, <1>5, <2>3 DEF HandedOn
      <4>2. sent[k].first = sent[m].last + 1
        BY <4>1, <1>2, <2>4
      <4>3. /\ sent[k].first \in Nat /\ sent[m].first \in Nat /\ sent[m].last \in Nat
            /\ sent[m].first <= sent[m].last
        BY <4>1, <2>5, FrameFields DEF SentOK
      <4>4. m <= k
        BY <4>1, <4>2, <4>3, <2>5, FramesInOrder
      <4>5. m # k
        BY <4>2, <4>3
      <4>6. m + 1 \in 1..Len(sent) /\ (m + 1) - 1 = m /\ m + 1 # 1
        BY <4>1, <4>4, <4>5, <2>5
      <4>7. sent[m + 1].first = sent[m].last + 1
        BY <4>6 DEF SentOK
      <4>8. sent[k].first <= sent[m + 1].first
        BY <4>2, <4>3, <4>7
      <4>9. k <= m + 1
        BY <4>6, <4>8, <2>5, FramesInOrder
      <4> HIDE DEF m
      <4> QED
        BY <4>1, <4>4, <4>5, <4>9 DEF m
    <3> QED
      BY <3>1, <3>2, <1>5
  <2> QED
    BY <1>5, <2>3, <2>5, <2>8, <2>9
<1> QED
  BY <1>6, <1>7, <1>9, <1>10 DEF Inv

LEMMA ReturnStep ==
  ASSUME Inv, Return
  PROVE  Inv'
<1> USE StreamAssumption DEF Return, Compact
<1> TypeOK /\ SentOK /\ BufferOK /\ InOrder /\ FramesUntilData
  BY DEF Inv
<1>1. Total' = Total
  BY DEF Total
<1>2. /\ len \in Nat /\ pos \in Nat /\ pos <= len /\ len <= Cap /\ rcvd \in Nat
      /\ len' = len - pos /\ len' \in 0..Cap
  BY DEF TypeOK
<1>3. TypeOK'
  BY <1>2 DEF TypeOK
<1>4. SentOK'
  BY <1>1 DEF SentOK
<1>5. BufferOK'
  BY <1>1, <1>2 DEF BufferOK, TypeOK
<1>6. InOrder'
  BY <1>2 DEF InOrder, HandedOn, BufferOK
<1> QED
  BY <1>3, <1>4, <1>5, <1>6 DEF Inv, FramesUntilData

LEMMA NextInv == Inv /\ [Next]_vars => Inv'
<1> SUFFICES ASSUME Inv, [Next]_vars PROVE Inv'
  OBVIOUS
<1> TypeOK /\ SentOK
  BY DEF Inv
\* The length of a frame that has been received is within the data.
<1>a. ASSUME Parsing, NEW f \in Frames, f.first = Next1, Whole(Next1)
      PROVE  SizeOf(Next1) \in 1..(len - pos)
  <2>1. PICK k \in 1..Len(sent) : f = sent[k]
    BY DEF Frames
  <2>2. FrameFrom(Next1) = sent[k]
    BY <1>a, <2>1, FrameAt
  <2>3. sent[k].first \in Nat /\ sent[k].last \in Nat /\ sent[k].first <= sent[k].last
    BY FrameFields DEF TypeOK, SentOK
  <2>4. len \in Nat /\ pos \in Nat /\ pos < len
    BY <1>a, StreamAssumption DEF TypeOK, Parsing
  <2> QED
    BY <1>a, <2>1, <2>2, <2>3, <2>4 DEF Whole, SizeOf
<1>1. ASSUME NEW kind \in {"rtp", "rtsp"}, NEW size \in Sizes, SendFrame(kind, size)
      PROVE  Inv'
  BY <1>1, SendStep
<1>2. ASSUME NEW n \in 1..Cap, Receive(n) PROVE Inv'
  BY <1>2, ReceiveStep
<1>3. CASE RtpPacket
  <2>1. PICK f \in Frames : f.kind = "rtp" /\ f.first = Next1
    BY <1>3 DEF RtpPacket, IsRtp, StartsFrame
  <2> QED
    BY <1>3, <1>a, <2>1, HandOnStep DEF RtpPacket
<1>4. CASE RtspMessage
  <2>1. pos + 1 <= Cap
    BY <1>4, StreamAssumption DEF RtspMessage, Parsing, TypeOK
  <2>2. PICK f \in Frames : f.kind = "rtsp" /\ cell[pos + 1] = f.first + 1 - 1
    <3>1. PICK tail \in BOOLEAN : IsRtsp(tail)
      BY <1>4 DEF RtspMessage
    <3>2. 1 \in 1..Mark
      BY StreamAssumption
    <3> QED
      BY <2>1, <3>1, <3>2 DEF IsRtsp
  <2>3. f.first = Next1
    <3>1. f.first \in Nat
      BY FrameFields DEF Frames, TypeOK
    <3> QED
      BY <2>2, <3>1 DEF Next1
  <2> QED
    BY <1>4, <1>a, <2>2, <2>3, HandOnStep DEF RtspMessage
<1>5. CASE OtherData
  <2>1. len - pos \in 1..(len - pos)
    BY <1>5, StreamAssumption DEF OtherData, Parsing, TypeOK
  <2> QED
    BY <1>5, <2>1, HandOnStep DEF OtherData
<1>6. CASE Return
  BY <1>6, ReturnStep
<1>7. CASE UNCHANGED vars
  BY <1>7 DEF vars, Inv, TypeOK, SentOK, BufferOK, InOrder, HandedOn, FramesUntilData, Total
<1> QED
  BY <1>1, <1>2, <1>3, <1>4, <1>5, <1>6, <1>7 DEF Next, HandleInput

\* Every variable keeps its type: the parser never reads past the data.
THEOREM TypeCorrect == Spec => []TypeOK
<1>1. Inv => TypeOK
  BY DEF Inv
<1> QED
  BY InitInv, NextInv, <1>1, PTL DEF Spec

\* However TCP cuts the stream into chunks and whatever bytes the buffer still
\* holds from before, handle_input hands each byte on once and in order.
THEOREM BytesInOrder == Spec => []InOrder
<1>1. Inv => InOrder
  BY DEF Inv
<1> QED
  BY InitInv, NextInv, <1>1, PTL DEF Spec

\* Until a chunk ends inside the mark of a message, each unit handed on is one
\* frame of the server.
THEOREM WholeFrames == Spec => []FramesUntilData
<1>1. Inv => FramesUntilData
  BY DEF Inv
<1> QED
  BY InitInv, NextInv, <1>1, PTL DEF Spec
=============================================================================
