------------------------- MODULE StreamParserProofs -------------------------
(***************************************************************************)
(* Proofs about what a session makes of its stream (StreamParser), for any *)
(* buffer sizes, any packets and any way the stream is cut into receives,  *)
(* and about the messages it puts the packets in (Msg).                    *)
(*                                                                         *)
(* BufferExact is inductive once three facts are added: where the packets  *)
(* begin never changes and is increasing (Laid), a worker that waits for a *)
(* receive has taken every complete packet out of the buffer (Waiting),    *)
(* and a packet in the hands of the callback is still at the front of the  *)
(* buffer (Given).  A closed session is outside of all of them, except     *)
(* that its buffer counts as empty while the worker waits.                 *)
(*                                                                         *)
(* Of a message, Sound is inductive: the written bytes lie in the buffer,  *)
(* and the buffer is the one array the message owns.  Each call then does  *)
(* to Contents, the written bytes, what the tape's operation does.         *)
(***************************************************************************)
EXTENDS StreamParser, Msg, TLAPS

Laid ==
  /\ Layout
  /\ got <= begin[N + 1]

\* Which of the transient variables are in use where.
Control ==
  /\ pc # "copied" => added = 0
  /\ pc # "callback" /\ pc # "crash" => taken = 0
  /\ pc = "end" => closed

\* A worker that waits has emptied the buffer of complete packets.
Waiting ==
  /\ closed /\ pc = "wait" => size = 0
  /\ ~closed /\ pc \in {"wait", "post"} =>
       /\ seen < N => size < Length(seen + 1)
       /\ seen = N => size = 0

\* The packet the callback has is the front of the buffer.
Given ==
  ~closed /\ pc = "callback" =>
    /\ seen \in Packets
    /\ taken = Length(seen)
    /\ taken <= size

IInv ==
  /\ TypeOK
  /\ Laid
  /\ Control
  /\ BufferExact
  /\ Waiting
  /\ Given
  /\ NoOverflow
  /\ UnderflowByCloseOnly

LEMMA InitInvariant == Init => IInv
<1> SUFFICES ASSUME Init PROVE IInv
  OBVIOUS
<1> USE StreamAssumption
<1>1. TypeOK
  BY DEF Init, TypeOK, Cells, NoBytes, Zero
<1>2. Laid
  <2>1. begin[1] <= begin[N + 1]
    BY DEF Init, Layout
  <2> QED
    BY <2>1 DEF Init, Laid, Layout
<1>3. Control /\ BufferExact /\ Given /\ NoOverflow /\ UnderflowByCloseOnly
  BY DEF Init, Layout, Control, BufferExact, Front, Given, NoOverflow,
         UnderflowByCloseOnly
<1>4. Waiting
  BY DEF Init, Layout, Waiting, Length, Packets
<1> QED
  BY <1>1, <1>2, <1>3, <1>4 DEF IInv

(***************************************************************************)
(* An open session whose buffer holds a header reads the size of the next  *)
(* packet of the peer from it, and nothing else.                           *)
(***************************************************************************)
LEMMA HeaderIsNext ==
  ASSUME IInv, pc = "parse", ~closed, size >= Header
  PROVE  /\ seen + 1 \in Packets
         /\ PacketSizes = {Length(seen + 1)}
<1> USE StreamAssumption
<1>1. /\ seen \in Nat /\ seen <= N
      /\ size = got - begin[seen + 1]
      /\ buf[0] = begin[seen + 1] + 0
      /\ buf[1] = begin[seen + 1] + 1
  BY DEF IInv, TypeOK, Control, BufferExact, Front
<1>2. begin[seen + 1] < begin[N + 1]
  BY <1>1 DEF IInv, TypeOK, Laid
<1>3. seen + 1 \in Packets
  BY <1>1, <1>2 DEF Packets, IInv, TypeOK
<1>4. \A k \in Packets : begin[k] = begin[seen + 1] => k = seen + 1
  BY <1>3 DEF IInv, TypeOK, Laid, Layout, Packets
<1>5. begin[seen + 1] \in Nat
  BY <1>3 DEF IInv, TypeOK, Packets
<1>6. {k \in Packets : buf[0] = begin[k] /\ buf[1] = begin[k] + 1} = {seen + 1}
  BY <1>1, <1>3, <1>4, <1>5
<1> QED
  BY <1>3, <1>6 DEF PacketSizes

LEMMA LengthRange ==
  ASSUME Layout, NEW k \in Packets
  PROVE  Length(k) \in Nat /\ Length(k) >= Header
<1>1. Length(k) \in Totals
  BY DEF Layout
<1>2. Length(k) \in Header .. Header + MaxData
  BY <1>1, StreamAssumption
<1> QED
  BY <1>2, StreamAssumption

LEMMA PacketSizesAreNaturals ==
  ASSUME Layout
  PROVE  PacketSizes \subseteq Nat
<1> DEFINE K == {k \in Packets : buf[0] = begin[k] /\ buf[1] = begin[k] + 1}
<1>1. \A k \in K : Length(k) \in Nat
  BY LengthRange
<1>2. Header .. Header + MaxData \subseteq Nat
  BY StreamAssumption
<1>3. {Length(k) : k \in K} \subseteq Nat
  BY <1>1
<1> QED
  BY <1>2, <1>3 DEF PacketSizes

LEMMA NextInvariant == IInv /\ [Next]_vars => IInv'
<1> SUFFICES ASSUME IInv, [Next]_vars PROVE IInv'
  OBVIOUS
<1> USE StreamAssumption DEF IInv
<1>1. ASSUME NEW n \in 1 .. RecvCap, OnRecvCompleted(n) PROVE IInv'
  <2> USE <1>1 DEF OnRecvCompleted
  <2>0. added = 0 /\ taken = 0 /\ got \in Nat /\ size \in Nat
    BY DEF TypeOK, Control
  <2>1. CASE Holds(n)
    <3>1. TypeOK'
      BY <2>0, <2>1 DEF TypeOK, Holds, Cells
    <3>2. BufferExact'
      <4>0. /\ pc' = "copied" /\ got' = got + n /\ added' = n
            /\ UNCHANGED <<begin, size, seen, closed>>
        BY <2>1
      <4>1. CASE closed
        BY <4>0, <4>1 DEF BufferExact
      <4>2. CASE ~closed
        <5>1. /\ seen <= N
              /\ size = got - begin[seen + 1]
              /\ \A i \in 0 .. size - 1 : buf[i] = begin[seen + 1] + i
          BY <2>0, <4>2 DEF BufferExact, Front
        <5>2. begin[seen + 1] \in Nat
          BY <5>1 DEF TypeOK
        <5>3. ASSUME NEW i \in 0 .. size + n - 1
              PROVE  buf'[i] = begin[seen + 1] + i
          <6>1. i \in Cells
            BY <2>0, <2>1 DEF Holds, Cells
          <6> QED
            BY <2>0, <2>1, <5>1, <5>2, <6>1
        <5>4. Front' = begin[seen + 1]
          BY <4>0 DEF Front
        <5>5. size' + added' = size + n /\ size + n = got' - begin[seen + 1]
          BY <2>0, <4>0, <5>1, <5>2
        <5> QED
          BY <4>0, <5>1, <5>3, <5>4, <5>5 DEF BufferExact
      <4> QED
        BY <4>1, <4>2
    <3>3. Laid' /\ Control' /\ Waiting' /\ Given' /\ NoOverflow'
            /\ UnderflowByCloseOnly'
      BY <2>0, <2>1 DEF Laid, Layout, Length, Control, Waiting, Given,
                        NoOverflow, UnderflowByCloseOnly
    <3> QED
      BY <3>1, <3>2, <3>3
  <2>2. CASE ~Holds(n)
    <3>1. ASSUME Fits PROVE FALSE
      <4>1. CASE ~closed /\ seen < N
        <5>1. size < Length(seen + 1) /\ seen + 1 \in Packets
          BY <4>1 DEF Waiting, Packets, TypeOK
        <5>2. begin[seen + 1] \in Nat /\ begin[seen + 1 + 1] \in Nat
          BY <5>1 DEF TypeOK, Packets
        <5>3. Length(seen + 1) <= StreamCap - RecvCap + 1
          BY <3>1, <5>1 DEF Fits
        <5> QED
          BY <2>0, <2>2, <5>1, <5>2, <5>3 DEF Holds, Length
      <4>2. CASE closed \/ seen >= N
        <5>1. size = 0
          BY <4>2 DEF Waiting, BufferExact, TypeOK
        <5> QED
          BY <2>2, <5>1 DEF Holds
      <4> QED
        BY <4>1, <4>2 DEF TypeOK
    <3>2. NoOverflow'
      BY <3>1 DEF NoOverflow, Fits, Length
    <3>3. TypeOK'
      BY <2>0, <2>2 DEF TypeOK
    <3>4. Laid' /\ Control' /\ BufferExact' /\ Waiting' /\ Given'
            /\ UnderflowByCloseOnly'
      BY <2>0, <2>2 DEF Laid, Layout, Length, Control, BufferExact, Waiting,
                        Given, UnderflowByCloseOnly
    <3> QED
      BY <3>2, <3>3, <3>4
  <2> QED
    BY <2>1, <2>2
<1>2. CASE CountReceived
  <2> USE <1>2 DEF CountReceived
  <2>1. TypeOK'
    BY DEF TypeOK
  <2>2. BufferExact'
    BY DEF TypeOK, BufferExact, Front
  <2>3. Laid' /\ Control' /\ Waiting' /\ Given' /\ NoOverflow'
          /\ UnderflowByCloseOnly'
    BY DEF Laid, Layout, Length, Control, Waiting, Given, NoOverflow, Fits,
           UnderflowByCloseOnly
  <2> QED
    BY <2>1, <2>2, <2>3
<1>3. CASE Overflow
  <2> USE <1>3 DEF Overflow
  <2>1. TypeOK'
    BY DEF TypeOK
  <2>2. Laid' /\ Control' /\ BufferExact' /\ Waiting' /\ Given'
          /\ NoOverflow' /\ UnderflowByCloseOnly'
    BY DEF Laid, Layout, Length, Control, BufferExact, Waiting, Given,
           NoOverflow, Fits, UnderflowByCloseOnly
  <2> QED
    BY <2>1, <2>2
<1>4. CASE StopParsing
  <2> USE <1>4 DEF StopParsing
  <2>1. TypeOK'
    BY DEF TypeOK
  <2>2. Waiting'
    <3> SUFFICES ASSUME ~closed
                 PROVE  /\ seen < N => size < Length(seen + 1)
                        /\ seen = N => size = 0
      BY DEF Waiting, Length
    <3>1. seen = N => size = 0
      BY DEF TypeOK, Laid, Control, BufferExact, Front
    <3>2. ASSUME seen < N, size < Header PROVE size < Length(seen + 1)
      <4>1. seen + 1 \in Packets
        BY <3>2 DEF TypeOK, Packets
      <4>2. Length(seen + 1) \in Nat /\ Length(seen + 1) >= Header
        BY <4>1, LengthRange DEF Laid
      <4>3. size \in Nat
        BY DEF TypeOK
      <4> QED
        BY <3>2, <4>2, <4>3
    <3>3. ASSUME seen < N, size >= Header PROVE size < Length(seen + 1)
      BY <3>3, HeaderIsNext DEF Incomplete, TypeOK
    <3> QED
      BY <3>1, <3>2, <3>3 DEF TypeOK
  <2>3. Laid' /\ Control' /\ BufferExact' /\ Given' /\ NoOverflow'
          /\ UnderflowByCloseOnly'
    BY DEF Laid, Layout, Length, Control, BufferExact, Front, Given,
           NoOverflow, Fits, UnderflowByCloseOnly
  <2> QED
    BY <2>1, <2>2, <2>3
<1>5. CASE PacketReceived
  <2> USE <1>5 DEF PacketReceived
  <2>1. PICK total \in PacketSizes :
          /\ size >= total
          /\ taken' = total
          /\ msg' = [i \in 0 .. total - 1 |-> buf[i]]
    <3>1. PacketSizes \subseteq Nat
      BY PacketSizesAreNaturals DEF Laid
    <3> QED
      BY <3>1 DEF Incomplete, TypeOK
  <2>2. total \in 0 .. size
    <3>1. total \in Nat
      BY <2>1, PacketSizesAreNaturals DEF Laid
    <3> QED
      BY <2>1, <3>1 DEF TypeOK
  <2>3. TypeOK'
    <3>1. /\ begin \in [1 .. N + 1 -> Nat]
          /\ got \in Nat
          /\ buf \in [Cells -> Nat \cup {Zero}]
          /\ size \in 0 .. StreamCap
          /\ seen \in Nat
      BY DEF TypeOK
    <3>2. msg' \in [0 .. total - 1 -> Nat \cup {Zero}]
      BY <2>1, <2>2, <3>1 DEF Cells
    <3>3. taken' \in 0 .. StreamCap /\ msg' \in [0 .. taken' - 1 -> Nat \cup {Zero}]
      BY <2>1, <2>2, <3>1, <3>2
    <3> QED
      BY <3>1, <3>3 DEF TypeOK
  <2>4. ASSUME ~closed
        PROVE  seen + 1 \in Packets /\ total = Length(seen + 1)
    BY <2>1, <2>4, HeaderIsNext
  <2>5. BufferExact'
    BY <2>4 DEF TypeOK, BufferExact, Front, Packets
  <2>6. Given'
    BY <2>1, <2>4 DEF Given, Length
  <2>7. Laid' /\ Control' /\ Waiting' /\ NoOverflow' /\ UnderflowByCloseOnly'
    BY DEF Laid, Layout, Length, Control, Waiting, NoOverflow, Fits,
           UnderflowByCloseOnly
  <2> QED
    BY <2>3, <2>5, <2>6, <2>7
<1>6. CASE Consume
  <2> USE <1>6 DEF Consume
  <2>1. TypeOK'
    <3>1. /\ begin \in [1 .. N + 1 -> Nat]
          /\ got \in Nat
          /\ buf \in [Cells -> Nat \cup {Zero}]
          /\ size \in 0 .. StreamCap /\ taken \in 0 .. StreamCap
          /\ added = 0
          /\ seen \in Nat /\ closed \in BOOLEAN
      BY DEF TypeOK, Control
    <3>2. buf' \in [Cells -> Nat \cup {Zero}]
      BY <3>1 DEF Cells
    <3>3. msg' \in [0 .. taken' - 1 -> Nat \cup {Zero}]
      BY DEF NoBytes
    <3> QED
      BY <3>1, <3>2, <3>3 DEF TypeOK
  <2>2. BufferExact'
    <3>0. /\ pc' = "parse" /\ size' = size - taken /\ added' = 0
          /\ UNCHANGED <<begin, got, seen, closed>>
      BY DEF Control
    <3> SUFFICES ASSUME ~closed
                 PROVE  /\ seen <= N
                        /\ size - taken = got - begin[seen + 1]
                        /\ \A i \in 0 .. size - taken - 1 :
                             buf'[i] = begin[seen + 1] + i
      <4>1. size - taken + 0 = size - taken
        BY DEF TypeOK
      <4> HIDE <1>6 DEF Consume
      <4> QED
        BY <3>0, <4>1 DEF BufferExact, Front
    <3>1. /\ seen \in Packets
          /\ taken = begin[seen + 1] - begin[seen]
          /\ added = 0
      BY DEF Given, Length, Control
    <3>2. /\ size = got - begin[seen]
          /\ \A i \in 0 .. size - 1 : buf[i] = begin[seen] + i
      BY <3>1 DEF BufferExact, Front, TypeOK
    <3>3. /\ begin[seen] \in Nat /\ begin[seen + 1] \in Nat
          /\ got \in Nat /\ size \in 0 .. StreamCap /\ taken \in Nat
      BY <3>1 DEF TypeOK, Packets
    <3>4. ASSUME NEW i \in 0 .. size - taken - 1
          PROVE  buf'[i] = begin[seen + 1] + i
      <4>1. i \in Cells /\ i + taken \in 0 .. size - 1 /\ i < size - taken
        BY <3>3 DEF Cells
      <4>2. buf'[i] = buf[i + taken]
        BY <4>1
      <4> QED
        BY <3>1, <3>2, <3>3, <4>1, <4>2
    <3> QED
      BY <3>1, <3>2, <3>3, <3>4 DEF Packets
  <2>3. Laid' /\ Control' /\ Waiting' /\ Given' /\ NoOverflow'
          /\ UnderflowByCloseOnly'
    BY DEF Laid, Layout, Length, Control, Waiting, Given, NoOverflow, Fits,
           UnderflowByCloseOnly
  <2> QED
    BY <2>1, <2>2, <2>3
<1>7. CASE Underflow
  <2> USE <1>7 DEF Underflow
  <2>1. TypeOK'
    BY DEF TypeOK
  <2>2. closed
    BY DEF Given, TypeOK
  <2>3. Laid' /\ Control' /\ BufferExact' /\ Waiting' /\ Given'
          /\ NoOverflow' /\ UnderflowByCloseOnly'
    BY <2>2 DEF Laid, Layout, Length, Control, BufferExact, Waiting, Given,
                NoOverflow, Fits, UnderflowByCloseOnly
  <2> QED
    BY <2>1, <2>3
<1>8. CASE PostRecv
  <2> USE <1>8 DEF PostRecv
  <2>1. TypeOK'
    BY DEF TypeOK
  <2>2. Laid' /\ Control' /\ BufferExact' /\ Waiting' /\ Given'
          /\ NoOverflow' /\ UnderflowByCloseOnly'
    BY DEF TypeOK, Laid, Layout, Length, Control, BufferExact, Front, Waiting,
           Given, NoOverflow, Fits, UnderflowByCloseOnly
  <2> QED
    BY <2>1, <2>2
<1>9. CASE Close
  <2> USE <1>9 DEF Close
  <2>1. TypeOK'
    BY DEF TypeOK
  <2>2. Laid' /\ Control' /\ BufferExact' /\ Waiting' /\ Given'
          /\ NoOverflow' /\ UnderflowByCloseOnly'
    BY DEF Laid, Layout, Length, Control, BufferExact, Waiting, Given,
           NoOverflow, Fits, UnderflowByCloseOnly
  <2> QED
    BY <2>1, <2>2
<1>10. CASE UNCHANGED vars
  BY <1>10 DEF vars, TypeOK, Laid, Layout, Length, Control, BufferExact, Front,
               Waiting, Given, NoOverflow, Fits, UnderflowByCloseOnly
<1> QED
  BY <1>1, <1>2, <1>3, <1>4, <1>5, <1>6, <1>7, <1>8, <1>9, <1>10
     DEF Next, Worker, Parse

LEMMA Invariant == Spec => []IInv
<1> QED
  BY InitInvariant, NextInvariant, PTL DEF Spec

(***************************************************************************)
(* The buffer, its size and the message the callback is given keep their   *)
(* types: in particular no receive is copied beyond m_streamBuffer.        *)
(***************************************************************************)
THEOREM StreamTypeCorrect == Spec => []TypeOK
<1>1. IInv => TypeOK
  BY DEF IInv
<1> QED
  BY <1>1, Invariant, PTL

(***************************************************************************)
(* While the session is open, m_streamBuffer holds exactly the received    *)
(* bytes that no packet has taken yet.                                     *)
(***************************************************************************)
THEOREM StreamBufferExact == Spec => []BufferExact
<1>1. IInv => BufferExact
  BY DEF IInv
<1> QED
  BY <1>1, Invariant, PTL

(***************************************************************************)
(* Packets of at most sizeof(m_streamBuffer) - RECV_BUFFER_SIZE + 1 bytes  *)
(* never overflow the buffer, however TCP cuts the stream.                 *)
(***************************************************************************)
THEOREM FittingPacketsNeverOverflow == Spec => []NoOverflow
<1>1. IInv => NoOverflow
  BY DEF IInv
<1> QED
  BY <1>1, Invariant, PTL

(***************************************************************************)
(* m_dwStreamSize cannot fall below zero unless Close reset it.            *)
(***************************************************************************)
THEOREM UnderflowNeedsClose == Spec => []UnderflowByCloseOnly
<1>1. IInv => UnderflowByCloseOnly
  BY DEF IInv
<1> QED
  BY <1>1, Invariant, PTL

(***************************************************************************)
(* OnPacketReceived gets every packet once, in order and with its own      *)
(* bytes.                                                                  *)
(***************************************************************************)
THEOREM PacketsDeliveredExactly == Spec => DeliveredExactly
<1>1. ASSUME IInv, [Next]_vars
      PROVE  [seen' # seen /\ ~closed =>
                /\ seen' = seen + 1
                /\ seen' \in Packets
                /\ msg' = [i \in 0 .. Length(seen') - 1 |-> begin[seen'] + i]]_vars
  <2> SUFFICES ASSUME Next, seen' # seen, ~closed
               PROVE  /\ seen' = seen + 1
                      /\ seen' \in Packets
                      /\ msg' = [i \in 0 .. Length(seen') - 1 |-> begin[seen'] + i]
    BY <1>1
  <2>1. PacketReceived
    BY DEF Next, Worker, Parse, OnRecvCompleted, CountReceived, Overflow,
           StopParsing, Consume, Underflow, PostRecv, Close
  <2>2. seen + 1 \in Packets /\ PacketSizes = {Length(seen + 1)}
    BY <1>1, <2>1, HeaderIsNext DEF PacketReceived
  <2>3. /\ seen' = seen + 1
        /\ Length(seen + 1) <= size
        /\ msg' = [i \in 0 .. Length(seen + 1) - 1 |-> buf[i]]
    <3>1. Length(seen + 1) \in Int /\ size \in Nat
      BY <1>1, <2>2, StreamAssumption DEF IInv, TypeOK, Length, Packets
    <3> QED
      BY <2>1, <2>2, <3>1 DEF PacketReceived, Incomplete
  <2>4. \A i \in 0 .. Length(seen + 1) - 1 : buf[i] = begin[seen + 1] + i
    <3>1. pc = "parse" /\ added = 0
      BY <1>1, <2>1 DEF PacketReceived, IInv, Control
    <3>2. \A i \in 0 .. size - 1 : buf[i] = begin[seen + 1] + i
      BY <1>1, <3>1 DEF IInv, BufferExact, Front, TypeOK
    <3>3. Length(seen + 1) \in Int /\ size \in Nat
      BY <1>1, <2>2, StreamAssumption DEF IInv, TypeOK, Length, Packets
    <3> QED
      BY <2>3, <3>2, <3>3
  <2> QED
    BY <2>2, <2>3, <2>4
<1> QED
  BY <1>1, Invariant, PTL DEF Spec, DeliveredExactly

(***************************************************************************)
(* While an open session waits for a receive it has handed over the        *)
(* packets that have arrived whole, and only those: no packet stays in the *)
(* buffer until more data comes (Session.cpp, ProcessIncomingStream).      *)
(***************************************************************************)
THEOREM WholePacketsDelivered == Spec => []WholeDelivered
<1>1. IInv => WholeDelivered
  <2> SUFFICES ASSUME IInv, ~closed, pc = "wait", NEW k \in Packets
               PROVE  k <= seen <=> begin[k + 1] <= got
    BY DEF WholeDelivered
  <2> USE StreamAssumption DEF IInv
  <2>1. seen \in 0 .. N /\ k \in 1 .. N /\ added = 0
    BY DEF TypeOK, BufferExact, Control, Packets
  <2>2. size = got - begin[seen + 1] /\ size \in Nat /\ got \in Nat
    BY <2>1 DEF TypeOK, BufferExact, Front
  <2>3. \A i, j \in 1 .. N + 1 : i <= j => begin[i] <= begin[j]
    BY DEF TypeOK, Laid, Layout
  <2>4. \A i \in 1 .. N + 1 : begin[i] \in Nat
    BY DEF TypeOK
  <2>5. CASE k <= seen
    <3>1. begin[k + 1] <= begin[seen + 1]
      BY <2>1, <2>3, <2>5
    <3>2. begin[k + 1] \in Nat /\ begin[seen + 1] \in Nat
      BY <2>1, <2>4
    <3>3. QED BY <2>2, <2>5, <3>1, <3>2
  <2>6. CASE seen < k
    <3>1. begin[seen + 1 + 1] <= begin[k + 1]
      BY <2>1, <2>3, <2>6
    <3>2. /\ begin[k + 1] \in Nat /\ begin[seen + 1] \in Nat
          /\ begin[seen + 1 + 1] \in Nat
      BY <2>1, <2>4, <2>6
    <3>3. size < begin[seen + 1 + 1] - begin[seen + 1]
      BY <2>1, <2>6 DEF Waiting, Length
    <3>4. QED BY <2>1, <2>2, <2>6, <3>1, <3>2, <3>3
  <2>7. QED BY <2>1, <2>5, <2>6
<1>2. QED BY <1>1, Invariant, PTL

-----------------------------------------------------------------------------
(***************************************************************************)
(* CMsg: what its calls make of a message whose buffer is sound.           *)
(***************************************************************************)
Cell == Bytes \cup {Junk}
Contents(x) == SubSeq(x.cells, 1, Used(x))

Sound(x) ==
  /\ x \in Messages
  /\ x.rd >= HeaderSize /\ (x.peek = 0 \/ x.peek >= HeaderSize)
  /\ x.wr >= HeaderSize /\ x.wr <= x.cap /\ Used(x) <= SizeMask
  /\ Len(x.cells) = x.cap - HeaderSize
  /\ \A i \in 1 .. Used(x) : x.cells[i] \in Bytes
  /\ x.active = x.massive /\ x.heap = {x.massive} \ {Null}

LEMMA FunctionIsSeq ==
  ASSUME NEW S, NEW n \in Nat, NEW f \in [1 .. n -> S]
  PROVE  f \in Seq(S) /\ Len(f) = n /\ DOMAIN f = 1 .. n
OBVIOUS

(* A sequence that begins with the elements of two others begins with both. *)
LEMMA BeginsWithBoth ==
  ASSUME NEW S, NEW a \in Seq(S), NEW b \in Seq(S), NEW t \in Seq(S),
         Len(a) + Len(b) <= Len(t), \A i \in 1 .. Len(a) : t[i] = a[i],
         \A i \in 1 .. Len(b) : t[Len(a) + i] = b[i]
  PROVE  SubSeq(t, 1, Len(a) + Len(b)) = a \o b
<1> DEFINE u == SubSeq(t, 1, Len(a) + Len(b))
<1>1. u \in Seq(S) /\ Len(u) = Len(a) + Len(b) OBVIOUS
<1>2. a \o b \in Seq(S) /\ Len(a \o b) = Len(a) + Len(b) OBVIOUS
<1>3. ASSUME NEW i \in 1 .. Len(a) + Len(b) PROVE u[i] = (a \o b)[i]
  <2>1. CASE i \in 1 .. Len(a) BY <2>1
  <2>2. CASE i - Len(a) \in 1 .. Len(b)
    <3>1. t[Len(a) + (i - Len(a))] = b[i - Len(a)] BY <2>2
    <3>2. QED BY <2>2, <3>1
  <2>3. QED BY <2>1, <2>2
<1>4. QED BY <1>1, <1>2, <1>3

LEMMA ElementsIn ==
  ASSUME NEW S, NEW T, NEW s \in Seq(S), \A i \in 1 .. Len(s) : s[i] \in T
  PROVE  s \in Seq(T)
<1>1. s = [i \in 1 .. Len(s) |-> s[i]] /\ Len(s) \in Nat OBVIOUS
<1>2. [i \in 1 .. Len(s) |-> s[i]] \in [1 .. Len(s) -> T] OBVIOUS
<1>3. QED BY <1>1, <1>2, FunctionIsSeq

(* Writing a sequence into the cells behind the first k of them. *)
Written(c, k, s) ==
  [i \in DOMAIN c |-> IF i \in k + 1 .. k + Len(s) THEN s[i - k] ELSE c[i]]

LEMMA WrittenIs ==
  ASSUME NEW S, NEW c \in Seq(S), NEW s \in Seq(S), NEW k \in Nat, k + Len(s) <= Len(c)
  PROVE  /\ Written(c, k, s) \in Seq(S) /\ Len(Written(c, k, s)) = Len(c)
         /\ SubSeq(Written(c, k, s), 1, k + Len(s)) = SubSeq(c, 1, k) \o s
<1> DEFINE n == Len(c)
           l == Len(s)
           new == Written(c, k, s)
           old == SubSeq(c, 1, k)
<1>1. n \in Nat /\ l \in Nat /\ k + l <= n /\ DOMAIN c = 1 .. n /\ DOMAIN s = 1 .. l
      /\ (\A i \in 1 .. n : c[i] \in S) /\ (\A i \in 1 .. l : s[i] \in S)
  OBVIOUS
<1>2. old \in Seq(S) /\ Len(old) = k /\ \A i \in 1 .. k : old[i] = c[i]
  OBVIOUS
<1>3. new = [i \in 1 .. n |-> IF i \in k + 1 .. k + l THEN s[i - k] ELSE c[i]]
  BY <1>1 DEF Written
<1> HIDE DEF n, l, new, old
<1>4. new \in [1 .. n -> S]
  <2>1. \A i \in 1 .. n : i \in k + 1 .. k + l => i - k \in 1 .. l BY <1>1
  <2>2. QED BY <1>1, <1>3, <2>1
<1>5. new \in Seq(S) /\ Len(new) = n BY <1>1, <1>4, FunctionIsSeq
<1>6. \A i \in 1 .. k : new[i] = old[i] BY <1>1, <1>2, <1>3
<1>7. \A i \in 1 .. l : new[k + i] = s[i]
  <2>1. \A i \in 1 .. l : k + i \in 1 .. n /\ k + i \in k + 1 .. k + l /\ (k + i) - k = i
    BY <1>1
  <2>2. QED BY <1>3, <2>1
<1>8. SubSeq(new, 1, k + l) = old \o s
  BY <1>1, <1>2, <1>5, <1>6, <1>7, BeginsWithBoth DEF l
<1>9. QED BY <1>5, <1>8 DEF n, l, new, old

(* Copying the first k cells into an array of n. *)
Copied(c, k, n) == [i \in 1 .. n |-> IF i <= k THEN c[i] ELSE Junk]

LEMMA CopiedIs ==
  ASSUME NEW S, Junk \in S, NEW c \in Seq(S), NEW n \in Nat, NEW k \in Nat,
         k <= n, k <= Len(c)
  PROVE  /\ Copied(c, k, n) \in Seq(S) /\ Len(Copied(c, k, n)) = n
         /\ \A i \in 1 .. k : Copied(c, k, n)[i] = c[i]
         /\ SubSeq(Copied(c, k, n), 1, k) = SubSeq(c, 1, k)
<1> DEFINE new == Copied(c, k, n)
<1>1. new \in [1 .. n -> S] BY DEF Copied
<1>2. \A i \in 1 .. k : new[i] = c[i] BY DEF Copied
<1> HIDE DEF new
<1>3. new \in Seq(S) /\ Len(new) = n BY <1>1, FunctionIsSeq
<1>4. SubSeq(new, 1, k) = SubSeq(c, 1, k) BY <1>2, <1>3
<1>5. QED BY <1>2, <1>3, <1>4 DEF new

(* A message that differs in its cursors only. *)
SameBuffer(x, y) ==
  /\ y.active = x.active /\ y.massive = x.massive /\ y.heap = x.heap
  /\ y.cap = x.cap /\ y.cells = x.cells

LEMMA MessageFields ==
  ASSUME NEW x \in Messages
  PROVE  /\ x = [active |-> x.active, massive |-> x.massive, heap |-> x.heap,
                 cap |-> x.cap, cells |-> x.cells, size |-> x.size, enc |-> x.enc,
                 rd |-> x.rd, wr |-> x.wr, peek |-> x.peek]
         /\ x.active \in Heap \cup {Null} /\ x.massive \in Heap \cup {Null}
         /\ x.heap \in SUBSET Heap /\ x.cap \in Nat /\ x.cells \in Seq(Cell)
         /\ x.size \in 0 .. SizeMask /\ x.rd \in Nat /\ x.wr \in Nat /\ x.peek \in Nat
         /\ HeaderSize \in Nat \ {0} /\ SizeMask \in Nat /\ DefaultBuf \in Nat \ {0}
         /\ Used(x) \in Int /\ Len(x.cells) \in Nat
BY MsgAssumption DEF Messages, Used, Cell

LEMMA SetSize ==
  ASSUME NEW x \in Messages, Used(x) \in 0 .. SizeMask
  PROVE  SetDataSizeAtHeader(x) = [x EXCEPT !.size = Used(x)]
<1>1. Used(x) % (SizeMask + 1) = Used(x) /\ Used(x) \div (SizeMask + 1) = 0
  BY MsgAssumption, Z3
<1>2. 0 % 2 # 1 OBVIOUS
<1>3. x.enc \in BOOLEAN BY DEF Messages
<1>4. (x.enc \/ FALSE) = x.enc BY <1>3
<1>5. QED BY <1>1, <1>2, <1>4 DEF SetDataSizeAtHeader, Messages

LEMMA SetSizeSound ==
  ASSUME NEW x, Sound(x)
  PROVE  LET y == SetDataSizeAtHeader(x)
         IN /\ Sound(y) /\ y.size = Used(x) /\ SameBuffer(x, y)
            /\ y.rd = x.rd /\ y.wr = x.wr /\ y.peek = x.peek
<1>1. x \in Messages /\ Used(x) \in 0 .. SizeMask
  BY MessageFields DEF Sound, Used
<1> DEFINE y == [x EXCEPT !.size = Used(x)]
<1>2. SetDataSizeAtHeader(x) = y BY <1>1, SetSize
<1>3. y \in Messages /\ y.size = Used(x) /\ SameBuffer(x, y)
      /\ y.rd = x.rd /\ y.wr = x.wr /\ y.peek = x.peek
  BY <1>1 DEF Messages, SameBuffer
<1> HIDE DEF y
<1>4. Sound(y) BY <1>3 DEF Sound, SameBuffer, Used
<1>5. QED BY <1>2, <1>3, <1>4

(* What is written follows into the new array, and the old one is freed. *)
LEMMA MoveSound ==
  ASSUME NEW x, Sound(x), NEW c \in Nat, c >= x.wr
  PROVE  LET y == MoveToHeap(x, c)
         IN /\ Sound(y) /\ y.cap = c /\ Contents(y) = Contents(x)
            /\ y.rd = x.rd /\ y.wr = x.wr /\ y.peek = x.peek
            /\ y.size = x.size /\ y.enc = x.enc
<1>0. x \in Messages BY DEF Sound
<1> DEFINE h == CHOOSE a \in Heap : a \notin x.heap
           new == Copied(x.cells, Used(x), c - HeaderSize)
           y == [x EXCEPT !.active = h, !.massive = h, !.cap = c,
                          !.heap = (@ \ {x.massive}) \cup {h}, !.cells = new]
<1>1. h \in Heap /\ h \notin x.heap
  <2>1. \E a \in Heap : a \notin x.heap BY MsgAssumption DEF Sound
  <2>2. QED BY <2>1
<1>2. /\ x.wr \in Nat /\ HeaderSize \in Nat \ {0} /\ x.wr >= HeaderSize
      /\ Used(x) \in Nat /\ Used(x) <= c - HeaderSize /\ c - HeaderSize \in Nat
      /\ x.cells \in Seq(Cell) /\ Used(x) <= Len(x.cells)
  BY <1>0, MessageFields DEF Sound, Used
<1>3. /\ new \in Seq(Cell) /\ Len(new) = c - HeaderSize
      /\ \A i \in 1 .. Used(x) : new[i] = x.cells[i]
      /\ SubSeq(new, 1, Used(x)) = Contents(x)
  <2>1. Junk \in Cell BY DEF Cell
  <2> DEFINE cells == x.cells
             k == Used(x)
             n == c - HeaderSize
  <2>2. cells \in Seq(Cell) /\ k \in Nat /\ n \in Nat /\ k <= n /\ k <= Len(cells)
    BY <1>2
  <2> HIDE DEF cells, k, n
  <2>3. /\ Copied(cells, k, n) \in Seq(Cell) /\ Len(Copied(cells, k, n)) = n
        /\ \A i \in 1 .. k : Copied(cells, k, n)[i] = cells[i]
        /\ SubSeq(Copied(cells, k, n), 1, k) = SubSeq(cells, 1, k)
    BY <2>1, <2>2, CopiedIs
  <2>4. QED BY <2>3 DEF Contents, cells, k, n
<1> HIDE DEF h, new
<1>4. /\ y \in Messages /\ y.active = h /\ y.massive = h /\ y.cap = c /\ y.cells = new
      /\ y.heap = (x.heap \ {x.massive}) \cup {h} /\ y.rd = x.rd /\ y.wr = x.wr
      /\ y.peek = x.peek /\ y.size = x.size /\ y.enc = x.enc
  BY <1>0, <1>1, <1>3 DEF Messages, Cell
<1>5. MoveToHeap(x, c) = y BY DEF MoveToHeap, Copied, h, new
<1> HIDE DEF y
<1>6. Used(y) = Used(x) BY <1>4 DEF Used
<1>7. y.heap = {y.massive} \ {Null} BY <1>1, <1>4, MsgAssumption DEF Sound
<1>8. Sound(y) BY <1>2, <1>3, <1>4, <1>6, <1>7 DEF Sound
<1>9. Contents(y) = Contents(x)
  BY <1>3, <1>4, <1>6 DEF Contents
<1>10. QED BY <1>4, <1>5, <1>8, <1>9

(* The capacity is raised by whole default buffers, enough for the write. *)
LEMMA GrownEnough ==
  ASSUME NEW x \in Messages, NEW n \in Nat
  PROVE  Grown(x, n) \in Nat /\ Grown(x, n) >= x.cap + n
<1> DEFINE d == DefaultBuf
           q == n \div d
           r == n % d
<1>1. d \in Nat /\ d > 0 /\ x.cap \in Nat BY MessageFields
<1> HIDE DEF d
<1>2. q \in Nat /\ r \in 0 .. d - 1 /\ n = q * d + r BY <1>1, Z3
<1> HIDE DEF q, r
<1>3. (q + 1) * d = q * d + d /\ q * d \in Nat BY <1>1, <1>2, Z3
<1>4. Grown(x, n) = x.cap + (q + 1) * d BY DEF Grown, q, d
<1>5. QED BY <1>1, <1>2, <1>3, <1>4

(* A write puts its bytes behind what is written. *)
LEMMA WriteSound ==
  ASSUME NEW x, Sound(x), NEW s \in Seq(Bytes), Used(x) + Len(s) <= SizeMask
  PROVE  LET y == WriteBytes(x, s)
         IN /\ Sound(y) /\ y.size = Used(y) /\ Contents(y) = Contents(x) \o s
            /\ y.rd = x.rd /\ y.wr = x.wr + Len(s) /\ y.peek = x.peek
<1> DEFINE y == IF x.wr + Len(s) > x.cap THEN MoveToHeap(x, Grown(x, Len(s))) ELSE x
           new == Written(y.cells, Used(x), s)
           z == [[y EXCEPT !.cells = new] EXCEPT !.wr = @ + Len(s)]
<1>0. x \in Messages /\ Len(s) \in Nat BY DEF Sound
<1>1. /\ Sound(y) /\ y.wr = x.wr /\ y.wr + Len(s) <= y.cap
      /\ y.rd = x.rd /\ y.peek = x.peek /\ Contents(y) = Contents(x)
  <2>1. CASE x.wr + Len(s) > x.cap
    <3>1. Grown(x, Len(s)) \in Nat /\ Grown(x, Len(s)) >= x.cap + Len(s)
      BY <1>0, GrownEnough
    <3>2. x.cap \in Nat /\ x.wr \in Nat /\ x.wr <= x.cap
      BY <1>0, MessageFields DEF Sound
    <3>3. Grown(x, Len(s)) >= x.wr /\ Grown(x, Len(s)) >= x.wr + Len(s)
      BY <1>0, <3>1, <3>2
    <3>4. QED BY <2>1, <3>1, <3>3, MoveSound
  <2>2. CASE ~(x.wr + Len(s) > x.cap)
    BY <1>0, <2>2, MessageFields DEF Sound
  <2>3. QED BY <2>1, <2>2
<1>2. WriteBytes(x, s) = SetDataSizeAtHeader(z) BY DEF WriteBytes, Written
<1> HIDE DEF y
<1>3. y \in Messages BY <1>1 DEF Sound
<1>4. /\ y.wr \in Nat /\ y.cap \in Nat /\ HeaderSize \in Nat /\ y.cells \in Seq(Cell)
      /\ Len(y.cells) = y.cap - HeaderSize /\ Used(x) = y.wr - HeaderSize
      /\ Used(y) = Used(x) /\ Used(x) \in Nat
  <2>1. /\ y.wr \in Nat /\ y.cap \in Nat /\ HeaderSize \in Nat /\ y.cells \in Seq(Cell)
    BY <1>3, MessageFields
  <2>2. Len(y.cells) = y.cap - HeaderSize /\ y.wr >= HeaderSize BY <1>1 DEF Sound
  <2>3. Used(x) = y.wr - HeaderSize /\ Used(y) = y.wr - HeaderSize BY <1>1 DEF Used
  <2>4. QED BY <2>1, <2>2, <2>3
<1>5. /\ new \in Seq(Cell) /\ Len(new) = Len(y.cells)
      /\ SubSeq(new, 1, Used(x) + Len(s)) = Contents(x) \o s
  <2>1. Contents(x) = SubSeq(y.cells, 1, Used(x)) BY <1>1, <1>4 DEF Contents
  <2>2. Used(x) + Len(s) <= Len(y.cells) BY <1>0, <1>1, <1>4
  <2>3. s \in Seq(Cell) BY DEF Cell
  <2> DEFINE cells == y.cells
             k == Used(x)
  <2>4. cells \in Seq(Cell) /\ k \in Nat /\ k + Len(s) <= Len(cells)
    BY <1>4, <2>2
  <2> HIDE DEF cells, k
  <2>5. /\ Written(cells, k, s) \in Seq(Cell) /\ Len(Written(cells, k, s)) = Len(cells)
        /\ SubSeq(Written(cells, k, s), 1, k + Len(s)) = SubSeq(cells, 1, k) \o s
    BY <2>3, <2>4, WrittenIs
  <2>6. QED BY <2>1, <2>5 DEF cells, k
<1> HIDE DEF new
<1>6. /\ z \in Messages /\ z.cells = new /\ z.wr = x.wr + Len(s) /\ z.cap = y.cap
      /\ z.rd = x.rd /\ z.peek = x.peek /\ z.active = y.active
      /\ z.massive = y.massive /\ z.heap = y.heap
  <2>1. x.wr + Len(s) \in Nat BY <1>0, <1>1, <1>4
  <2>2. QED BY <1>1, <1>3, <1>5, <2>1 DEF Messages, Cell
<1> HIDE DEF z
<1>7. Used(z) = Used(x) + Len(s) BY <1>0, <1>1, <1>4, <1>6 DEF Used
<1>8. \A i \in 1 .. Used(z) : new[i] \in Bytes
  <2> DEFINE k == Used(x)
             l == Len(s)
             both == Contents(x) \o s
  <2>1. k \in Nat /\ l \in Nat /\ k <= Len(y.cells) /\ Contents(x) = SubSeq(y.cells, 1, k)
    BY <1>0, <1>1, <1>4 DEF Contents
  <2>2. /\ Contents(x) \in Seq(Cell) /\ Len(Contents(x)) = k
        /\ \A i \in 1 .. k : Contents(x)[i] = y.cells[i]
    <3> DEFINE cells == y.cells
    <3>1. cells \in Seq(Cell) /\ k \in Nat /\ k <= Len(cells) BY <1>4, <2>1
    <3>2. Contents(x) = SubSeq(cells, 1, k) BY <2>1
    <3> HIDE DEF cells, k
    <3>3. /\ SubSeq(cells, 1, k) \in Seq(Cell) /\ Len(SubSeq(cells, 1, k)) = k
          /\ \A i \in 1 .. k : SubSeq(cells, 1, k)[i] = cells[i]
      BY <3>1
    <3>4. QED BY <3>2, <3>3 DEF cells
  <2>3. \A i \in 1 .. k : Contents(x)[i] \in Bytes BY <1>1, <1>4, <2>2 DEF Sound
  <2>4. Contents(x) \in Seq(Bytes) BY <2>2, <2>3, ElementsIn
  <2>5. both \in Seq(Bytes) /\ Len(both) = k + l BY <2>2, <2>4
  <2>6. \A i \in 1 .. k + l : both[i] \in Bytes BY <2>1, <2>5
  <2>7. /\ new \in Seq(Cell) /\ SubSeq(new, 1, k + l) = both
        /\ Used(z) = k + l /\ k + l <= Len(new)
    <3>1. k + l <= Len(y.cells) BY <1>0, <1>1, <1>4
    <3>2. QED BY <1>5, <1>7, <3>1
  <2> HIDE DEF both, k, l
  <2>8. \A i \in 1 .. k + l : new[i] = both[i] BY <2>1, <2>7
  <2>9. QED BY <2>6, <2>7, <2>8
<1>9. Sound(z)
  BY <1>0, <1>1, <1>4, <1>5, <1>6, <1>7, <1>8 DEF Sound
<1>10. Contents(z) = Contents(x) \o s BY <1>5, <1>6, <1>7 DEF Contents
<1>11. LET w == SetDataSizeAtHeader(z)
       IN /\ Sound(w) /\ w.size = Used(z) /\ SameBuffer(z, w)
          /\ w.rd = z.rd /\ w.wr = z.wr /\ w.peek = z.peek
  BY <1>9, SetSizeSound
<1>12. QED
  BY <1>2, <1>6, <1>10, <1>11 DEF SameBuffer, Contents, Used

(* What is read before the write position was written, and is the tape's. *)
LEMMA ReadSound ==
  ASSUME NEW x, Sound(x), NEW p \in Nat, NEW n \in Nat, p >= HeaderSize,
         p + n <= x.wr
  PROVE  /\ BytesAt(x, p, n) \in Seq(Bytes)
         /\ BytesAt(x, p, n) =
              SubSeq(Contents(x), p - HeaderSize + 1, p - HeaderSize + n)
<1> DEFINE cells == x.cells
           k == Used(x)
           a == p - HeaderSize
<1>1. /\ cells \in Seq(Cell) /\ k \in Nat /\ a \in Nat /\ a + n <= k
      /\ k <= Len(cells) /\ \A i \in 1 .. k : cells[i] \in Bytes
  <2>1. x \in Messages /\ x.wr <= x.cap /\ Len(x.cells) = x.cap - HeaderSize
        /\ x.wr >= HeaderSize /\ \A i \in 1 .. k : cells[i] \in Bytes
    BY DEF Sound
  <2>2. x.cells \in Seq(Cell) /\ x.wr \in Nat /\ x.cap \in Nat /\ HeaderSize \in Nat
    BY <2>1, MessageFields
  <2>3. QED BY <2>1, <2>2 DEF Used
<1> HIDE DEF cells, k, a
<1>2. /\ SubSeq(cells, a + 1, a + n) \in Seq(Cell)
      /\ Len(SubSeq(cells, a + 1, a + n)) = n
      /\ \A i \in 1 .. n : SubSeq(cells, a + 1, a + n)[i] = cells[a + i]
  BY <1>1
<1>3. SubSeq(cells, a + 1, a + n) \in Seq(Bytes) BY <1>1, <1>2, ElementsIn
<1>4. /\ SubSeq(cells, 1, k) \in Seq(Cell) /\ Len(SubSeq(cells, 1, k)) = k
      /\ \A i \in 1 .. k : SubSeq(cells, 1, k)[i] = cells[i]
  BY <1>1
<1>5. /\ SubSeq(SubSeq(cells, 1, k), a + 1, a + n) \in Seq(Cell)
      /\ Len(SubSeq(SubSeq(cells, 1, k), a + 1, a + n)) = n
      /\ \A i \in 1 .. n : SubSeq(SubSeq(cells, 1, k), a + 1, a + n)[i] = cells[a + i]
  <2> DEFINE d == SubSeq(cells, 1, k)
  <2>1. d \in Seq(Cell) /\ Len(d) = k /\ \A i \in 1 .. k : d[i] = cells[i]
    BY <1>4
  <2> HIDE DEF d
  <2>2. /\ SubSeq(d, a + 1, a + n) \in Seq(Cell) /\ Len(SubSeq(d, a + 1, a + n)) = n
        /\ \A i \in 1 .. n : SubSeq(d, a + 1, a + n)[i] = d[a + i]
    BY <1>1, <2>1
  <2>3. \A i \in 1 .. n : d[a + i] = cells[a + i] BY <1>1, <2>1
  <2>4. QED BY <2>2, <2>3 DEF d
<1>6. SubSeq(cells, a + 1, a + n) = SubSeq(SubSeq(cells, 1, k), a + 1, a + n)
  <2> DEFINE u == SubSeq(cells, a + 1, a + n)
             v == SubSeq(SubSeq(cells, 1, k), a + 1, a + n)
  <2>1. u \in Seq(Cell) /\ Len(u) = n /\ \A i \in 1 .. n : u[i] = cells[a + i]
    BY <1>2
  <2>2. v \in Seq(Cell) /\ Len(v) = n /\ \A i \in 1 .. n : v[i] = cells[a + i]
    BY <1>5
  <2> HIDE DEF u, v
  <2>3. u = v BY <2>1, <2>2
  <2>4. QED BY <2>3 DEF u, v
<1>7. QED BY <1>3, <1>6 DEF BytesAt, Contents, cells, k, a

LEMMA ContentsAre ==
  ASSUME NEW x, Sound(x)
  PROVE  /\ Used(x) \in 0 .. SizeMask /\ Contents(x) \in Seq(Bytes)
         /\ Len(Contents(x)) = Used(x)
         /\ x.wr \in Nat /\ x.rd \in Nat /\ x.peek \in Nat /\ HeaderSize \in Nat \ {0}
         /\ x.rd >= HeaderSize /\ x.wr >= HeaderSize /\ SizeMask \in Nat
         /\ Used(x) = x.wr - HeaderSize
<1>1. /\ x.cells \in Seq(Cell) /\ Used(x) \in Nat /\ Used(x) <= Len(x.cells)
      /\ x.wr \in Nat /\ x.rd \in Nat /\ x.peek \in Nat /\ HeaderSize \in Nat \ {0}
      /\ x.rd >= HeaderSize /\ x.wr >= HeaderSize
      /\ SizeMask \in Nat /\ Used(x) <= SizeMask
  BY MessageFields DEF Sound, Used
<1>2. /\ Contents(x) \in Seq(Cell) /\ Len(Contents(x)) = Used(x)
      /\ \A i \in 1 .. Used(x) : Contents(x)[i] = x.cells[i]
  BY <1>1 DEF Contents
<1>3. Contents(x) \in Seq(Bytes) BY <1>2, ElementsIn DEF Sound
<1>4. QED BY <1>1, <1>2, <1>3 DEF Used

(* Cursors that move within what is written leave the buffer sound. *)
Moved(x, rd, peek, wr) == [x EXCEPT !.rd = rd, !.peek = peek, !.wr = wr]

LEMMA CursorSound ==
  ASSUME NEW x, Sound(x), NEW rd \in Nat, rd >= HeaderSize, NEW peek \in Nat,
         peek = 0 \/ peek >= HeaderSize, NEW wr \in HeaderSize .. x.wr
  PROVE  /\ Sound(Moved(x, rd, peek, wr))
         /\ Contents(Moved(x, rd, peek, wr)) = SubSeq(Contents(x), 1, wr - HeaderSize)
         /\ Moved(x, rd, peek, wr).rd = rd /\ Moved(x, rd, peek, wr).peek = peek
         /\ Moved(x, rd, peek, wr).wr = wr /\ Moved(x, rd, peek, wr).size = x.size
<1> DEFINE y == Moved(x, rd, peek, wr)
<1>1. x \in Messages BY DEF Sound
<1>2. wr \in Nat BY MsgAssumption, <1>1, MessageFields
<1>3. /\ y \in Messages /\ SameBuffer(x, y) /\ y.rd = rd /\ y.peek = peek
      /\ y.wr = wr /\ y.size = x.size
  BY <1>1, <1>2 DEF Messages, SameBuffer, Moved
<1> HIDE DEF y
<1>4. /\ Used(x) \in Nat /\ Used(y) \in 0 .. Used(x) /\ Used(y) = wr - HeaderSize
      /\ x.cells \in Seq(Cell) /\ Used(x) <= Len(x.cells) /\ x.cap \in Nat /\ x.wr \in Nat
  <2>1. /\ x.wr \in Nat /\ x.cap \in Nat /\ HeaderSize \in Nat /\ x.cells \in Seq(Cell)
    BY <1>1, MessageFields
  <2>2. Len(x.cells) = x.cap - HeaderSize /\ x.wr >= HeaderSize /\ x.wr <= x.cap
    BY DEF Sound
  <2>3. Used(x) = x.wr - HeaderSize /\ Used(y) = wr - HeaderSize BY <1>3 DEF Used
  <2>4. QED BY <1>2, <2>1, <2>2, <2>3
<1>5. Sound(y)
  BY <1>3, <1>4, MessageFields DEF Sound, SameBuffer
<1>6. Contents(y) = SubSeq(Contents(x), 1, wr - HeaderSize)
  <2> DEFINE cells == x.cells
             j == Used(y)
             k == Used(x)
  <2>1. cells \in Seq(Cell) /\ j \in 0 .. k /\ k \in Nat /\ k <= Len(cells) BY <1>4
  <2>2. Contents(y) = SubSeq(cells, 1, j) /\ Contents(x) = SubSeq(cells, 1, k)
    BY <1>3 DEF Contents, SameBuffer
  <2> HIDE DEF cells, j, k
  <2>3. SubSeq(cells, 1, j) = SubSeq(SubSeq(cells, 1, k), 1, j) BY <2>1
  <2>4. QED BY <1>4, <2>2, <2>3 DEF j
<1>7. QED BY <1>3, <1>5, <1>6 DEF y

-----------------------------------------------------------------------------
(***************************************************************************)
(* CMsg: every call keeps the message sound and is a step of the tape.     *)
(***************************************************************************)
MsgInv ==
  /\ Sound(m)
  /\ origin \in {"new", "engine"} /\ stamped \in BOOLEAN
  /\ out \in Seq(Bytes) \cup {Thrown}
  /\ origin = "engine" => stamped
  /\ HeaderTellsSize

(* The tape a message is: its contents, and its cursors behind the header. *)
LEMMA TapeIs ==
  ASSUME MsgInv
  PROVE  /\ Tape!Left = SizeMask - Used(m) /\ Tape!Left \in Nat
         /\ Tape!Unread = IF m.rd <= m.wr THEN m.wr - m.rd ELSE 0
<1>1. /\ Used(m) \in 0 .. SizeMask /\ Len(Contents(m)) = Used(m) /\ SizeMask \in Nat
      /\ m.wr \in Nat /\ m.rd \in Nat /\ HeaderSize \in Nat /\ Used(m) = m.wr - HeaderSize
  BY ContentsAre DEF MsgInv
<1>2. QED
  BY <1>1 DEF Tape!Left, Tape!Unread, Contents, MaxPayload

LEMMA MsgInitSound == MsgInit => MsgInv /\ Tape!TInit
<1> SUFFICES ASSUME MsgInit PROVE MsgInv /\ Tape!TInit
  OBVIOUS
<1>1. PICK n \in 0 .. SizeMask, f \in BOOLEAN :
        /\ m = [active |-> Null, massive |-> Null, heap |-> {},
                cap |-> DefaultBuf, cells |-> JunkBytes(DefaultBuf - HeaderSize),
                size |-> n, enc |-> f, rd |-> HeaderSize, wr |-> HeaderSize,
                peek |-> 0]
        /\ origin \in {"new", "engine"}
        /\ origin = "engine" => n = 0
  BY DEF MsgInit
<1>2. DefaultBuf - HeaderSize \in Nat /\ HeaderSize \in Nat \ {0} /\ DefaultBuf \in Nat
  BY MsgAssumption
<1>3. /\ JunkBytes(DefaultBuf - HeaderSize) \in Seq(Cell)
      /\ Len(JunkBytes(DefaultBuf - HeaderSize)) = DefaultBuf - HeaderSize
  <2>1. JunkBytes(DefaultBuf - HeaderSize) \in [1 .. DefaultBuf - HeaderSize -> Cell]
    BY DEF JunkBytes, Cell
  <2>2. QED BY <1>2, <2>1, FunctionIsSeq
<1>4. m \in Messages BY <1>1, <1>2, <1>3 DEF Messages, Cell
<1>m. /\ m.wr = HeaderSize /\ m.rd = HeaderSize /\ m.peek = 0 /\ m.cap = DefaultBuf
      /\ m.cells = JunkBytes(DefaultBuf - HeaderSize) /\ m.active = Null
      /\ m.massive = Null /\ m.heap = {} /\ (origin = "engine" => m.size = 0)
  BY <1>1
<1>5. Used(m) = 0 BY <1>m, <1>2 DEF Used
<1>6. Sound(m) BY <1>m, <1>2, <1>3, <1>4, <1>5, MsgAssumption DEF Sound
<1>7. out = << >> /\ stamped = (origin = "engine") BY DEF MsgInit, Nothing
<1>8. stamped \in BOOLEAN /\ (stamped <=> origin = "engine") BY <1>7
<1>9. HeaderTellsSize BY <1>m, <1>5, <1>8 DEF HeaderTellsSize
<1>10. MsgInv BY <1>1, <1>6, <1>7, <1>8, <1>9 DEF MsgInv
<1>11. SubSeq(m.cells, 1, Used(m)) = << >> BY <1>m, <1>3, <1>5
<1>12. Tape!TInit BY <1>m, <1>2, <1>7, <1>11 DEF Tape!TInit, Tape!Nothing
<1>13. QED BY <1>10, <1>12

(* After a call that leaves the message sound. *)
LEMMA CallSound ==
  ASSUME MsgInv, Sound(m'), out' \in Seq(Bytes) \cup {Thrown}, UNCHANGED origin,
         stamped' \in BOOLEAN, stamped => stamped', stamped' => m'.size = Used(m')
  PROVE  MsgInv'
BY DEF MsgInv, HeaderTellsSize

LEMMA WriteStep ==
  ASSUME MsgInv, NEW s \in Payloads, Write(s)
  PROVE  MsgInv' /\ Tape!Append1(s)
<1>1. s \in Seq(Bytes) /\ Len(s) \in Nat BY MsgAssumption
<1>2. /\ Used(m) \in 0 .. SizeMask /\ m.wr \in Nat /\ HeaderSize \in Nat \ {0}
      /\ SizeMask \in Nat /\ Used(m) = m.wr - HeaderSize
  BY ContentsAre DEF MsgInv
<1>3. HasRoom(m, Len(s)) <=> Used(m) + Len(s) <= SizeMask
  BY <1>1, <1>2 DEF HasRoom
<1>4. HasRoom(m, Len(s)) <=> Len(s) <= Tape!Left BY <1>1, <1>2, <1>3, TapeIs
<1>5. CASE HasRoom(m, Len(s))
  <2>1. m' = WriteBytes(m, s) /\ out' = << >> /\ stamped' = TRUE /\ UNCHANGED origin
    BY <1>5 DEF Write, Nothing
  <2>2. /\ Sound(m') /\ m'.size = Used(m') /\ Contents(m') = Contents(m) \o s
        /\ m'.rd = m.rd /\ m'.peek = m.peek
    BY <1>1, <1>3, <1>5, <2>1, WriteSound DEF MsgInv
  <2>3. MsgInv' BY <2>1, <2>2, CallSound
  <2>4. Tape!Append1(s)
    BY <1>4, <1>5, <2>1, <2>2 DEF Tape!Append1, Tape!Nothing, Contents
  <2>5. QED BY <2>3, <2>4
<1>6. CASE ~HasRoom(m, Len(s))
  <2>1. m' = m /\ out' = Thrown /\ (stamped' <=> stamped) /\ stamped' \in BOOLEAN
        /\ UNCHANGED origin
    BY <1>6 DEF Write, MsgInv
  <2>2. MsgInv' BY <2>1, CallSound DEF MsgInv, HeaderTellsSize
  <2>3. Tape!Append1(s) BY <1>4, <1>6, <2>1 DEF Tape!Append1
  <2>4. QED BY <2>2, <2>3
<1>7. QED BY <1>5, <1>6

LEMMA WriteStringStep ==
  ASSUME MsgInv, NEW s \in Payloads, WriteString(s)
  PROVE  MsgInv' /\ Tape!AppendString(s)
<1> DEFINE x == WriteBytes(m, <<Len(s)>>)
           left == Tape!Left
           put == IF left = 0 THEN << >>
                  ELSE IF Len(s) >= left THEN <<Len(s)>> ELSE <<Len(s)>> \o s
<1>p. ASSUME Contents(m') = Contents(m) \o put,
             out' = IF Len(put) = Len(s) + 1 THEN << >> ELSE Thrown,
             m'.rd = m.rd, m'.peek = m.peek
      PROVE  Tape!AppendString(s)
  BY <1>p, Zenon DEF Tape!AppendString, Tape!Nothing, Contents
<1>1. s \in Seq(Bytes) /\ Len(s) \in Nat /\ Len(s) \in Bytes BY MsgAssumption
<1>2. /\ Used(m) \in 0 .. SizeMask /\ m.wr \in Nat /\ HeaderSize \in Nat \ {0}
      /\ SizeMask \in Nat /\ Used(m) = m.wr - HeaderSize
      /\ Contents(m) \in Seq(Bytes)
  BY ContentsAre DEF MsgInv
<1>3. /\ HasRoom(m, 1) <=> Used(m) + 1 <= SizeMask
      /\ left = SizeMask - Used(m) /\ left \in Nat
  BY <1>2, TapeIs DEF HasRoom
<1> HIDE DEF left
<1>4. ASSUME HasRoom(m, 1)
      PROVE  /\ Sound(x) /\ x.size = Used(x) /\ Contents(x) = Contents(m) \o <<Len(s)>>
             /\ x.rd = m.rd /\ x.peek = m.peek /\ Used(x) = Used(m) + 1
             /\ HasRoom(x, Len(s)) <=> Len(s) < left
  <2>1. <<Len(s)>> \in Seq(Bytes) /\ Len(<<Len(s)>>) = 1 BY <1>1
  <2>2. /\ Sound(x) /\ x.size = Used(x) /\ Contents(x) = Contents(m) \o <<Len(s)>>
        /\ x.rd = m.rd /\ x.peek = m.peek /\ x.wr = m.wr + 1
    BY <1>2, <1>3, <1>4, <2>1, WriteSound DEF MsgInv
  <2> HIDE DEF x
  <2>3. HasRoom(x, Len(s)) <=> Len(s) < left
    <3>1. x.wr = HeaderSize + Used(m) + 1 BY <1>2, <2>2
    <3>2. HasRoom(x, Len(s)) <=> x.wr + Len(s) <= SizeMask + HeaderSize BY DEF HasRoom
    <3>3. QED
      <4>1. HasRoom(x, Len(s)) <=> HeaderSize + Used(m) + 1 + Len(s) <= SizeMask + HeaderSize
        BY <3>1, <3>2
      <4>2. HeaderSize \in Nat /\ Used(m) \in Nat /\ Len(s) \in Nat /\ SizeMask \in Nat
        BY <1>1, <1>2
      <4>3. left = SizeMask - Used(m) BY <1>3
      <4>4. QED BY <4>1, <4>2, <4>3
  <2>4. Used(x) = Used(m) + 1 BY <1>2, <2>2 DEF Used
  <2>5. QED BY <2>2, <2>3, <2>4
<1>5. stamped \in BOOLEAN BY DEF MsgInv
<1>6. CASE ~HasRoom(m, 1)
  <2>1. m' = m /\ out' = Thrown /\ (stamped' <=> stamped) /\ stamped' \in BOOLEAN
        /\ UNCHANGED origin
    BY <1>5, <1>6 DEF WriteString
  <2>2. MsgInv' BY <2>1, CallSound DEF MsgInv, HeaderTellsSize
  <2>3. put = << >> /\ Len(put) = 0 BY <1>2, <1>3, <1>6
  <2>4. Contents(m) \o << >> = Contents(m) BY <1>2
  <2>5. Tape!AppendString(s)
    <3>1. Contents(m') = Contents(m) \o put BY <2>1, <2>3, <2>4
    <3>2. Len(put) # Len(s) + 1 BY <1>1, <2>3
    <3> HIDE DEF put
    <3>3. QED BY <1>p, <2>1, <3>1, <3>2
  <2>6. QED BY <2>2, <2>5
<1>7. CASE HasRoom(m, 1) /\ Len(s) # 0 /\ ~HasRoom(x, Len(s))
  <2>1. m' = x /\ out' = Thrown /\ stamped' = TRUE /\ UNCHANGED origin
    BY <1>1, <1>7 DEF WriteString
  <2> HIDE DEF x
  <2>2. MsgInv' BY <1>4, <1>7, <2>1, CallSound
  <2>3. put = <<Len(s)>> /\ Len(put) = 1 BY <1>1, <1>2, <1>3, <1>4, <1>7
  <2>4. Tape!AppendString(s)
    <3>1. Contents(m') = Contents(m) \o put BY <1>4, <1>7, <2>1, <2>3
    <3>2. Len(put) # Len(s) + 1 BY <1>1, <1>7, <2>3
    <3> HIDE DEF put
    <3>3. QED BY <1>4, <1>7, <1>p, <2>1, <3>1, <3>2
  <2>5. QED BY <2>2, <2>4
<1>8. CASE HasRoom(m, 1) /\ Len(s) = 0
  <2>1. m' = x /\ out' = << >> /\ stamped' = TRUE /\ UNCHANGED origin
    BY <1>1, <1>8 DEF WriteString, Nothing
  <2> HIDE DEF x
  <2>2. MsgInv' BY <1>4, <1>8, <2>1, CallSound
  <2>3. s = << >> BY <1>1, <1>8
  <2>4. put = <<Len(s)>> /\ Len(put) = 1 BY <1>1, <1>2, <1>3, <1>8, <2>3
  <2>5. Tape!AppendString(s)
    <3>1. Contents(m') = Contents(m) \o put BY <1>4, <1>8, <2>1, <2>4
    <3>2. Len(put) = Len(s) + 1 BY <1>8, <2>4
    <3> HIDE DEF put
    <3>3. QED BY <1>4, <1>8, <1>p, <2>1, <3>1, <3>2
  <2>6. QED BY <2>2, <2>5
<1>9. CASE HasRoom(m, 1) /\ Len(s) # 0 /\ HasRoom(x, Len(s))
  <2>1. m' = WriteBytes(x, s) /\ out' = << >> /\ stamped' = TRUE /\ UNCHANGED origin
    BY <1>1, <1>9 DEF WriteString, Nothing
  <2> HIDE DEF x
  <2>2. Used(x) + Len(s) <= SizeMask BY <1>1, <1>2, <1>3, <1>4, <1>9
  <2>3. /\ Sound(m') /\ m'.size = Used(m') /\ Contents(m') = Contents(x) \o s
        /\ m'.rd = m.rd /\ m'.peek = m.peek
    BY <1>1, <1>4, <1>9, <2>1, <2>2, WriteSound
  <2>4. MsgInv' BY <2>1, <2>3, CallSound
  <2>5. put = <<Len(s)>> \o s /\ Len(put) = Len(s) + 1 BY <1>1, <1>3, <1>4, <1>9
  <2>6. Contents(m') = Contents(m) \o put
    <3>1. <<Len(s)>> \in Seq(Bytes) BY <1>1
    <3>2. (Contents(m) \o <<Len(s)>>) \o s = Contents(m) \o (<<Len(s)>> \o s)
      BY <1>1, <1>2, <3>1
    <3>3. QED BY <1>4, <1>9, <2>3, <2>5, <3>2
  <2>7. Tape!AppendString(s)
    <3> HIDE DEF put
    <3>1. QED BY <1>p, <2>1, <2>3, <2>5, <2>6
  <2>8. QED BY <2>4, <2>7
<1>10. QED BY <1>1, <1>6, <1>7, <1>8, <1>9

(* What a call of MsgInv's message can use. *)
LEMMA MsgFacts ==
  ASSUME MsgInv
  PROVE  /\ Sound(m) /\ m \in Messages
         /\ Used(m) \in 0 .. SizeMask /\ Contents(m) \in Seq(Bytes)
         /\ Len(Contents(m)) = Used(m)
         /\ m.wr \in Nat /\ m.rd \in Nat /\ m.peek \in Nat /\ HeaderSize \in Nat \ {0}
         /\ m.rd >= HeaderSize /\ m.wr >= HeaderSize /\ SizeMask \in Nat
         /\ Used(m) = m.wr - HeaderSize
         /\ m.peek = 0 \/ m.peek >= HeaderSize
         /\ stamped \in BOOLEAN /\ (stamped => m.size = Used(m))
BY ContentsAre DEF MsgInv, Sound, HeaderTellsSize

LEMMA CursorStep ==
  ASSUME MsgInv, NEW rd \in Nat, rd >= HeaderSize, NEW peek \in Nat,
         peek = 0 \/ peek >= HeaderSize, m' = [m EXCEPT !.rd = rd, !.peek = peek]
  PROVE  /\ Sound(m') /\ Contents(m') = Contents(m) /\ Used(m') = Used(m)
         /\ m'.rd = rd /\ m'.peek = peek /\ m'.wr = m.wr /\ m'.size = m.size
<1>1. m' = Moved(m, rd, peek, m.wr)
  BY MsgFacts DEF Messages, Moved
<1>2. m.wr \in HeaderSize .. m.wr BY MsgFacts
<1>3. /\ Sound(m') /\ Contents(m') = SubSeq(Contents(m), 1, m.wr - HeaderSize)
      /\ m'.rd = rd /\ m'.peek = peek /\ m'.wr = m.wr /\ m'.size = m.size
  BY <1>1, <1>2, MsgFacts, CursorSound
<1>4. Contents(m') = Contents(m)
  <2> DEFINE c == Contents(m)
             k == m.wr - HeaderSize
  <2>1. c \in Seq(Bytes) /\ Len(c) = k BY MsgFacts
  <2> HIDE DEF c, k
  <2>2. SubSeq(c, 1, k) = c BY <2>1
  <2>3. QED BY <1>3, <2>2 DEF c, k
<1>5. QED BY <1>3, <1>4 DEF Used

LEMMA ReadBytesStep ==
  ASSUME MsgInv, NEW n \in 1 .. MaxPayload, ReadBytes(n)
  PROVE  MsgInv' /\ Tape!Take(n)
<1>1. n \in Nat BY MsgAssumption DEF MaxPayload
<1>2. Readable(m, n) <=> n <= Tape!Unread
  BY <1>1, MsgFacts, TapeIs DEF Readable
<1>3. UNCHANGED <<origin, stamped>> BY DEF ReadBytes
<1>4. CASE Readable(m, n)
  <2>1. m' = [m EXCEPT !.rd = m.rd + n] /\ out' = BytesAt(m, m.rd, n)
    BY <1>4 DEF ReadBytes
  <2> DEFINE rd == m.rd + n
  <2>2. rd \in Nat /\ rd >= HeaderSize BY <1>1, MsgFacts
  <2>3. m' = [m EXCEPT !.rd = rd, !.peek = m.peek] BY <2>1, MsgFacts DEF Messages
  <2> HIDE DEF rd
  <2>4. /\ Sound(m') /\ Contents(m') = Contents(m) /\ Used(m') = Used(m)
        /\ m'.rd = rd /\ m'.peek = m.peek /\ m'.wr = m.wr /\ m'.size = m.size
    BY <2>2, <2>3, MsgFacts, CursorStep
  <2>5. /\ out' \in Seq(Bytes)
        /\ out' = SubSeq(Contents(m), m.rd - HeaderSize + 1, m.rd - HeaderSize + n)
    BY <1>1, <1>4, <2>1, MsgFacts, ReadSound DEF Readable
  <2>7. MsgInv' BY <1>3, <2>4, <2>5, MsgFacts, CallSound
  <2>8. m'.rd - HeaderSize = (m.rd - HeaderSize) + n BY <1>1, <2>4, MsgFacts DEF rd
  <2>9. Tape!Take(n)
    BY <1>2, <1>4, <2>4, <2>5, <2>8, Zenon DEF Tape!Take, Contents
  <2>10. QED BY <2>7, <2>9
<1>5. CASE ~Readable(m, n)
  <2>1. m' = m /\ out' = Thrown BY <1>5 DEF ReadBytes
  <2>2. MsgInv' BY <1>3, <2>1, MsgFacts, CallSound
  <2>3. Tape!Take(n) BY <1>2, <1>5, <2>1, Zenon DEF Tape!Take
  <2>4. QED BY <2>2, <2>3
<1>6. QED BY <1>4, <1>5

(* A string whose length can be read. *)
LEMMA StringReadStep ==
  ASSUME MsgInv, ReadString, Readable(m, 1)
  PROVE  MsgInv' /\ Tape!TakeString
<1> DEFINE a == m.rd - HeaderSize
           claimed == m.cells[a + 1]
           n == Clamp(claimed, m.wr - (m.rd + 1))
<1>1. Readable(m, 1) /\ m.rd + 1 <= m.wr BY DEF Readable
<1>2. a \in Nat /\ a + 1 <= Used(m) BY <1>1, MsgFacts
<1>3. claimed \in Nat /\ Contents(m)[a + 1] = claimed
  <2>1. claimed \in Bytes BY <1>2, MsgFacts DEF Sound
  <2>2. Contents(m) \in Seq(Bytes) /\ Len(Contents(m)) = Used(m) BY MsgFacts
  <2>3. m.cells \in Seq(Cell) /\ Used(m) \in Nat /\ Used(m) <= Len(m.cells)
    BY MsgFacts, MessageFields DEF Sound
  <2>4. Contents(m)[a + 1] = claimed BY <1>2, <2>3 DEF Contents
  <2>5. QED BY <2>1, <2>4, MsgAssumption
<1> HIDE DEF claimed
<1>4. n \in Nat /\ m.rd + 1 + n <= m.wr BY <1>1, <1>3, MsgFacts DEF Clamp
<1>5. n = IF claimed < Tape!Unread THEN claimed ELSE Tape!Unread - 1
  <2>1. Tape!Unread = m.wr - m.rd BY <1>1, MsgFacts, TapeIs
  <2>2. QED BY <1>1, <1>3, <2>1, MsgFacts DEF Clamp
<1>6. Tape!Unread > 0 BY <1>1, MsgFacts, TapeIs
<1>7. /\ m' = [m EXCEPT !.rd = @ + 1 + n] /\ out' = BytesAt(m, m.rd + 1, n)
      /\ UNCHANGED <<origin, stamped>>
  BY <1>1 DEF ReadString, claimed
<1> HIDE DEF n
<1> DEFINE first == m.rd + 1
           rd == first + n
<1>8. first \in Nat /\ first >= HeaderSize /\ rd \in Nat /\ rd >= HeaderSize
      /\ first + n <= m.wr
  BY <1>4, MsgFacts
<1>9. m' = [m EXCEPT !.rd = rd, !.peek = m.peek] /\ out' = BytesAt(m, first, n)
  BY <1>7, MsgFacts DEF Messages
<1>10. /\ first - HeaderSize + 1 = a + 2 /\ first - HeaderSize + n = a + 1 + n
       /\ rd - HeaderSize = a + 1 + n
  BY <1>4, MsgFacts
<1> HIDE DEF rd, first
<1>11. /\ out' \in Seq(Bytes) /\ out' = SubSeq(Contents(m), a + 2, a + 1 + n)
  <2>1. /\ BytesAt(m, first, n) \in Seq(Bytes)
        /\ BytesAt(m, first, n) =
             SubSeq(Contents(m), first - HeaderSize + 1, first - HeaderSize + n)
    BY <1>4, <1>8, MsgFacts, ReadSound
  <2>2. QED BY <1>9, <1>10, <2>1
<1>12. /\ Sound(m') /\ Contents(m') = Contents(m) /\ Used(m') = Used(m)
       /\ m'.rd = rd /\ m'.peek = m.peek /\ m'.wr = m.wr /\ m'.size = m.size
  BY <1>8, <1>9, MsgFacts, CursorStep
<1>13. MsgInv' BY <1>7, <1>11, <1>12, MsgFacts, CallSound
<1>14. m'.rd - HeaderSize = a + 1 + n BY <1>10, <1>12
<1> HIDE DEF a
<1>15. SubSeq(m.cells, 1, Used(m))[a + 1] = claimed BY <1>3 DEF Contents
<1>16. Tape!TakeString
  BY <1>5, <1>6, <1>11, <1>12, <1>14, <1>15, Zenon
    DEF Tape!TakeString, Contents, a
<1>17. QED BY <1>13, <1>16

LEMMA ReadStringStep ==
  ASSUME MsgInv, ReadString
  PROVE  MsgInv' /\ Tape!TakeString
<1>1. CASE Readable(m, 1) BY <1>1, StringReadStep
<1>2. CASE ~Readable(m, 1)
  <2>1. m' = m /\ out' = Thrown /\ UNCHANGED <<origin, stamped>>
    BY <1>2 DEF ReadString
  <2>2. ~(Tape!Unread > 0) BY <1>2, MsgFacts, TapeIs DEF Readable
  <2>3. MsgInv' BY <2>1, MsgFacts, CallSound
  <2>4. Tape!TakeString BY <2>1, <2>2, Zenon DEF Tape!TakeString
  <2>5. QED BY <2>3, <2>4
<1>3. QED BY <1>1, <1>2

(* The write position moves back, and the size field follows it. *)
LEMMA ShortenStep ==
  ASSUME MsgInv, NEW wr \in HeaderSize .. m.wr,
         m' = SetDataSizeAtHeader(Moved(m, m.rd, m.peek, wr))
  PROVE  /\ Sound(m') /\ m'.size = Used(m') /\ m'.rd = m.rd /\ m'.peek = m.peek
         /\ Contents(m') = SubSeq(Contents(m), 1, wr - HeaderSize)
<1> DEFINE x == Moved(m, m.rd, m.peek, wr)
<1>1. /\ Sound(x) /\ Contents(x) = SubSeq(Contents(m), 1, wr - HeaderSize)
      /\ x.rd = m.rd /\ x.peek = m.peek /\ x.wr = wr
  <2>1. /\ Sound(m) /\ m.rd \in Nat /\ m.rd >= HeaderSize /\ m.peek \in Nat
        /\ m.peek = 0 \/ m.peek >= HeaderSize
    BY MsgFacts
  <2>2. QED BY <2>1, CursorSound
<1> HIDE DEF x
<1>2. m' = SetDataSizeAtHeader(x) BY DEF x
<1>3. /\ Sound(m') /\ m'.size = Used(x) /\ SameBuffer(x, m')
      /\ m'.rd = x.rd /\ m'.wr = x.wr /\ m'.peek = x.peek
  BY <1>1, <1>2, SetSizeSound
<1>4. Used(m') = Used(x) /\ Contents(m') = Contents(x)
  BY <1>3 DEF Used, Contents, SameBuffer
<1>5. QED BY <1>1, <1>3, <1>4

LEMMA ReadBytesReverseStep ==
  ASSUME MsgInv, NEW n \in 1 .. MaxPayload, ReadBytesReverse(n)
  PROVE  MsgInv' /\ Tape!Chop(n)
<1> DEFINE rest == Used(m) - n
<1>1. n \in Nat BY MsgAssumption DEF MaxPayload
<1>2. rest \in Int /\ (n <= Used(m) <=> rest >= 0) /\ rest = Len(Contents(m)) - n
  BY <1>1, MsgFacts
<1>3. UNCHANGED origin BY DEF ReadBytesReverse
<1>4. CASE n <= Used(m)
  <2> DEFINE wr == m.wr - n
  <2>1. wr \in HeaderSize .. m.wr /\ wr - HeaderSize = rest /\ wr \in Nat
        /\ wr + n = m.wr /\ rest + 1 = wr - HeaderSize + 1
        /\ wr - HeaderSize + n = Len(Contents(m)) /\ wr >= HeaderSize
    <3>1. /\ m.wr \in Nat /\ HeaderSize \in Nat /\ Used(m) = m.wr - HeaderSize
          /\ Len(Contents(m)) = Used(m)
      BY MsgFacts
    <3>2. QED BY <1>1, <1>4, <3>1
  <2>2. /\ m' = SetDataSizeAtHeader([m EXCEPT !.wr = wr]) /\ out' = BytesAt(m, wr, n)
        /\ stamped' = TRUE
    BY <1>4 DEF ReadBytesReverse
  <2>3. [m EXCEPT !.wr = wr] = Moved(m, m.rd, m.peek, wr)
    BY MsgFacts DEF Messages, Moved
  <2> HIDE DEF wr, rest
  <2>4. /\ Sound(m') /\ m'.size = Used(m') /\ m'.rd = m.rd /\ m'.peek = m.peek
        /\ Contents(m') = SubSeq(Contents(m), 1, rest)
    BY <2>1, <2>2, <2>3, ShortenStep
  <2>5. /\ out' \in Seq(Bytes)
        /\ out' = SubSeq(Contents(m), rest + 1, Len(Contents(m)))
    <3>1. /\ BytesAt(m, wr, n) \in Seq(Bytes)
          /\ BytesAt(m, wr, n) =
               SubSeq(Contents(m), wr - HeaderSize + 1, wr - HeaderSize + n)
      <4>1. Sound(m) /\ wr + n <= m.wr BY <2>1, MsgFacts
      <4>2. QED BY <1>1, <2>1, <4>1, ReadSound
    <3>2. QED BY <2>1, <2>2, <3>1
  <2>6. MsgInv' BY <1>3, <2>2, <2>4, <2>5, CallSound
  <2>7. rest >= 0 BY <1>2, <1>4
  <2>8. Tape!Chop(n)
    BY <1>2, <2>4, <2>5, <2>7, Zenon DEF Tape!Chop, Contents
  <2>9. QED BY <2>6, <2>8
<1>5. CASE ~(n <= Used(m))
  <2>1. m' = m /\ out' = Thrown /\ (stamped' <=> stamped) /\ stamped' \in BOOLEAN
    BY <1>5, MsgFacts DEF ReadBytesReverse
  <2>2. MsgInv' BY <1>3, <2>1, MsgFacts, CallSound
  <2> HIDE DEF rest
  <2>3. ~(rest >= 0) BY <1>2, <1>5
  <2>4. Tape!Chop(n) BY <1>2, <2>1, <2>3, Zenon DEF Tape!Chop, Contents
  <2>5. QED BY <2>2, <2>4
<1>6. QED BY <1>4, <1>5

LEMMA SetWrPosStep ==
  ASSUME MsgInv, NEW p \in HeaderSize .. HeaderSize + MaxPayload, SetWrPos(p)
  PROVE  MsgInv' /\ Tape!CutOff
<1>1. /\ p \in HeaderSize .. m.wr /\ m' = SetDataSizeAtHeader([m EXCEPT !.wr = p])
      /\ out' = << >> /\ stamped' = TRUE /\ UNCHANGED origin
  BY DEF SetWrPos, Nothing
<1>2. [m EXCEPT !.wr = p] = Moved(m, m.rd, m.peek, p)
  BY MsgFacts DEF Messages, Moved
<1>3. /\ Sound(m') /\ m'.size = Used(m') /\ m'.rd = m.rd /\ m'.peek = m.peek
      /\ Contents(m') = SubSeq(Contents(m), 1, p - HeaderSize)
  BY <1>1, <1>2, ShortenStep
<1>4. MsgInv' BY <1>1, <1>3, CallSound
<1>5. p - HeaderSize \in 0 .. Len(Contents(m)) BY <1>1, MsgFacts
<1>6. Tape!CutOff
  BY <1>1, <1>3, <1>5 DEF Tape!CutOff, Tape!Nothing, Contents
<1>7. QED BY <1>4, <1>6

(* The calls that only move the read position, and DelMsg. *)
LEMMA SeekStep ==
  ASSUME MsgInv,
         \/ \E p \in HeaderSize .. HeaderSize + MaxPayload : SetRdPos(p)
         \/ ForceStopRead \/ Rewind \/ DelMsg
  PROVE  MsgInv' /\ Tape!Seek
<1>1. \E rd \in HeaderSize .. m.wr : m' = [m EXCEPT !.rd = rd]
  <2>1. ASSUME NEW p \in HeaderSize .. HeaderSize + MaxPayload, SetRdPos(p)
        PROVE  p \in HeaderSize .. m.wr /\ m' = [m EXCEPT !.rd = p]
    BY <2>1 DEF SetRdPos
  <2>2. CASE ForceStopRead
    <3>1. m.wr \in HeaderSize .. m.wr BY MsgFacts
    <3>2. QED BY <2>2, <3>1, Zenon DEF ForceStopRead
  <2>3. CASE Rewind
    <3>1. HeaderSize \in HeaderSize .. m.wr BY MsgFacts
    <3>2. QED BY <2>3, <3>1, Zenon DEF Rewind
  <2>4. CASE DelMsg
    <3>1. m.size + HeaderSize = m.wr BY <2>4, MsgFacts DEF DelMsg, MsgInv
    <3>2. m' = [m EXCEPT !.rd = HeaderSize, !.wr = m.wr] BY <2>4, <3>1 DEF DelMsg
    <3>3. m' = [m EXCEPT !.rd = HeaderSize] BY <3>2, MsgFacts DEF Messages
    <3>4. HeaderSize \in HeaderSize .. m.wr BY MsgFacts
    <3>5. QED BY <3>3, <3>4, Zenon
  <2>5. QED BY <2>1, <2>2, <2>3, <2>4
<1>2. PICK rd \in HeaderSize .. m.wr : m' = [m EXCEPT !.rd = rd] BY <1>1
<1>3. out' = << >> /\ UNCHANGED <<origin, stamped>>
  BY DEF SetRdPos, ForceStopRead, Rewind, DelMsg, Nothing
<1>4. rd \in Nat /\ rd >= HeaderSize /\ m' = [m EXCEPT !.rd = rd, !.peek = m.peek]
  <2>1. [m EXCEPT !.rd = rd, !.peek = m.peek] = [m EXCEPT !.rd = rd]
    BY MsgFacts DEF Messages
  <2>2. rd \in Nat /\ rd >= HeaderSize BY MsgFacts
  <2>3. QED BY <1>2, <2>1, <2>2
<1>5. /\ Sound(m') /\ Contents(m') = Contents(m) /\ Used(m') = Used(m)
      /\ m'.rd = rd /\ m'.peek = m.peek /\ m'.wr = m.wr /\ m'.size = m.size
  BY <1>4, MsgFacts, CursorStep
<1>6. MsgInv' BY <1>3, <1>5, MsgFacts, CallSound
<1>7. m'.rd - HeaderSize \in 0 .. Len(Contents(m)) BY <1>2, <1>5, MsgFacts
<1>8. Tape!Seek BY <1>3, <1>5, <1>7 DEF Tape!Seek, Tape!Nothing, Contents
<1>9. QED BY <1>6, <1>8

LEMMA PeekStep ==
  ASSUME MsgInv, BeginPeek \/ EndPeek
  PROVE  MsgInv' /\ (Tape!Mark \/ Tape!Back)
<1>1. out' = << >> /\ UNCHANGED <<origin, stamped>>
  BY DEF BeginPeek, EndPeek, Nothing
<1>2. CASE BeginPeek
  <2>1. m' = [m EXCEPT !.rd = m.rd, !.peek = m.rd]
    BY <1>2, MsgFacts DEF BeginPeek, Messages
  <2>2. /\ Sound(m') /\ Contents(m') = Contents(m) /\ Used(m') = Used(m)
        /\ m'.rd = m.rd /\ m'.peek = m.rd /\ m'.wr = m.wr /\ m'.size = m.size
    BY <2>1, MsgFacts, CursorStep
  <2>3. MsgInv' BY <1>1, <2>2, MsgFacts, CallSound
  <2>4. m'.peek # 0 BY <2>2, MsgFacts
  <2>5. Tape!Mark BY <1>1, <2>2, <2>4 DEF Tape!Mark, Tape!Nothing, Contents
  <2>6. QED BY <2>3, <2>5
<1>3. CASE EndPeek
  <2>1. m.peek # 0 /\ m.peek >= HeaderSize /\ m' = [m EXCEPT !.rd = m.peek, !.peek = 0]
    BY <1>3, MsgFacts DEF EndPeek
  <2>2. /\ Sound(m') /\ Contents(m') = Contents(m) /\ Used(m') = Used(m)
        /\ m'.rd = m.peek /\ m'.peek = 0 /\ m'.wr = m.wr /\ m'.size = m.size
    BY <2>1, MsgFacts, CursorStep
  <2>3. MsgInv' BY <1>1, <2>2, MsgFacts, CallSound
  <2>4. /\ (IF m.peek = 0 THEN -1 ELSE m.peek - HeaderSize) >= 0
        /\ m'.rd - HeaderSize = IF m.peek = 0 THEN -1 ELSE m.peek - HeaderSize
        /\ (IF m'.peek = 0 THEN -1 ELSE m'.peek - HeaderSize) = -1
    BY <2>1, <2>2, MsgFacts
  <2>5. Tape!Back
    BY <1>1, <2>2, <2>4, Zenon DEF Tape!Back, Tape!Nothing, Contents
  <2>6. QED BY <2>3, <2>5
<1>4. QED BY <1>2, <1>3

(* The encryption flag is no part of the tape. *)
LEMMA SetEncryptedStep ==
  ASSUME MsgInv, NEW f \in BOOLEAN, SetEncrypted(f)
  PROVE  MsgInv' /\ UNCHANGED Tape!tapeVars
<1>1. m' = [m EXCEPT !.enc = f] /\ UNCHANGED <<origin, out, stamped>>
  BY DEF SetEncrypted
<1>2. /\ m' \in Messages /\ SameBuffer(m, m') /\ m'.rd = m.rd /\ m'.wr = m.wr
      /\ m'.peek = m.peek /\ m'.size = m.size
  BY <1>1, MsgFacts DEF Messages, SameBuffer
<1>3. Used(m') = Used(m) BY <1>2 DEF Used
<1>4. Sound(m') BY <1>2, <1>3, MsgFacts DEF Sound, SameBuffer
<1>5. out' \in Seq(Bytes) \cup {Thrown} BY <1>1 DEF MsgInv
<1>6. stamped' \in BOOLEAN /\ (stamped => stamped') /\ (stamped' => m'.size = Used(m'))
  BY <1>1, <1>2, <1>3, MsgFacts
<1>7. MsgInv' BY <1>1, <1>4, <1>5, <1>6, CallSound
<1>8. UNCHANGED Tape!tapeVars
  <2>1. /\ m'.cells = m.cells /\ m'.rd = m.rd /\ m'.peek = m.peek
        /\ Used(m') = Used(m) /\ out' = out
    BY <1>1, <1>2, <1>3 DEF SameBuffer
  <2>2. QED BY <2>1, Zenon DEF Tape!tapeVars
<1>9. QED BY <1>7, <1>8

LEMMA ResetStep ==
  ASSUME MsgInv, Reset
  PROVE  MsgInv' /\ Tape!Clear
<1> DEFINE junk == JunkBytes(DefaultBuf - HeaderSize)
<1>1. DefaultBuf - HeaderSize \in Nat /\ HeaderSize \in Nat \ {0} /\ DefaultBuf \in Nat
      /\ DefaultBuf >= HeaderSize
  BY MsgAssumption
<1>2. junk \in Seq(Cell) /\ Len(junk) = DefaultBuf - HeaderSize
  <2>1. junk \in [1 .. DefaultBuf - HeaderSize -> Cell] BY DEF JunkBytes, Cell
  <2>2. QED BY <1>1, <2>1, FunctionIsSeq
<1>3. /\ m' = [m EXCEPT !.active = Null, !.massive = Null,
                        !.heap = m.heap \ {m.massive}, !.cap = DefaultBuf,
                        !.cells = junk, !.size = 0, !.enc = FALSE,
                        !.rd = HeaderSize, !.wr = HeaderSize, !.peek = 0]
      /\ out' = << >> /\ stamped' = TRUE /\ UNCHANGED origin
  BY DEF Reset, Nothing
<1> HIDE DEF junk
<1>4. /\ m' \in Messages /\ m'.active = Null /\ m'.massive = Null
      /\ m'.heap = m.heap \ {m.massive} /\ m'.cap = DefaultBuf /\ m'.cells = junk
      /\ m'.size = 0 /\ m'.rd = HeaderSize /\ m'.wr = HeaderSize /\ m'.peek = 0
  <2>1. /\ 0 \in 0 .. SizeMask /\ HeaderSize \in Nat /\ 0 \in Nat /\ m \in Messages
        /\ Null \in Heap \cup {Null} /\ DefaultBuf \in Nat /\ FALSE \in BOOLEAN
    BY <1>1, MsgFacts
  <2>2. m.heap \ {m.massive} \in SUBSET Heap BY <2>1, MessageFields
  <2>3. QED BY <1>2, <1>3, <2>1, <2>2 DEF Messages, Cell
<1>5. m'.heap = {m'.massive} \ {Null} BY <1>4, MsgFacts DEF Sound
<1>6. Used(m') = 0 BY <1>1, <1>4 DEF Used
<1>7. Sound(m') BY <1>1, <1>2, <1>4, <1>5, <1>6, MsgAssumption DEF Sound
<1>8. MsgInv' BY <1>3, <1>4, <1>6, <1>7, CallSound
<1>9. SubSeq(m'.cells, 1, Used(m')) = << >> BY <1>2, <1>4, <1>6
<1>10. m'.rd - HeaderSize = 0 BY <1>1, <1>4
<1>11. Tape!Clear
  BY <1>3, <1>4, <1>9, <1>10, Zenon DEF Tape!Clear, Tape!Nothing
<1>12. QED BY <1>8, <1>11

(* The packet's bytes over the first cells. *)
Loaded(c, s) == [i \in DOMAIN c |-> IF i <= Len(s) THEN s[i] ELSE c[i]]

LEMMA LoadPacketStep ==
  ASSUME MsgInv, NEW s \in Payloads, NEW f \in BOOLEAN, LoadPacket(s, f)
  PROVE  MsgInv' /\ Tape!Load
<1> DEFINE total == HeaderSize + Len(s)
           x == IF total > m.cap THEN MoveToHeap(m, total) ELSE m
           new == Loaded(x.cells, s)
           y == [x EXCEPT !.size = Len(s), !.enc = f, !.wr = total, !.rd = HeaderSize,
                          !.cells = new]
<1>1. /\ m.wr = HeaderSize /\ Len(s) <= SizeMask /\ m' = SetDataSizeAtHeader(y)
      /\ out' = << >> /\ stamped' = TRUE /\ UNCHANGED origin
  BY DEF LoadPacket, Loaded, Nothing
<1>2. s \in Seq(Bytes) /\ Len(s) \in Nat BY MsgAssumption
<1>3. total \in Nat /\ total >= m.wr /\ total >= HeaderSize /\ total - HeaderSize = Len(s)
  BY <1>1, <1>2, MsgFacts
<1>c. m.cap \in Nat BY MsgFacts, MessageFields
<1> HIDE DEF total
<1>4. Sound(x) /\ total <= x.cap /\ x.peek = m.peek
  <2>1. CASE total > m.cap
    <3>1. Sound(m) BY MsgFacts
    <3>2. LET z == MoveToHeap(m, total)
          IN Sound(z) /\ z.cap = total /\ z.peek = m.peek
      BY <1>3, <3>1, MoveSound
    <3>3. QED BY <1>3, <2>1, <3>2
  <2>2. CASE ~(total > m.cap) BY <1>3, <1>c, <2>2, MsgFacts
  <2>3. QED BY <2>1, <2>2
<1> HIDE DEF x
<1>5. /\ x \in Messages /\ x.cells \in Seq(Cell) /\ x.cap \in Nat
      /\ Len(x.cells) = x.cap - HeaderSize /\ Len(s) <= Len(x.cells)
  <2>1. x \in Messages /\ Len(x.cells) = x.cap - HeaderSize BY <1>4 DEF Sound
  <2>2. x.cells \in Seq(Cell) /\ x.cap \in Nat BY <2>1, MessageFields
  <2>3. QED BY <1>2, <1>3, <1>4, <2>1, <2>2, MsgFacts
<1>6. /\ new \in Seq(Cell) /\ Len(new) = Len(x.cells)
      /\ \A i \in 1 .. Len(s) : new[i] = s[i]
  <2> DEFINE cells == x.cells
  <2>1. cells \in Seq(Cell) /\ Len(cells) \in Nat /\ DOMAIN cells = 1 .. Len(cells)
        /\ Len(s) <= Len(cells) /\ \A i \in 1 .. Len(cells) : cells[i] \in Cell
    BY <1>5
  <2>2. \A i \in 1 .. Len(s) : s[i] \in Cell BY <1>2 DEF Cell
  <2>3. new = Loaded(cells, s) OBVIOUS
  <2> HIDE DEF cells, new
  <2>4. new = [i \in 1 .. Len(cells) |-> IF i <= Len(s) THEN s[i] ELSE cells[i]]
    BY <2>1, <2>3 DEF Loaded
  <2>5. new \in [1 .. Len(cells) -> Cell] BY <1>2, <2>1, <2>2, <2>4
  <2>6. new \in Seq(Cell) /\ Len(new) = Len(cells) BY <2>1, <2>5, FunctionIsSeq
  <2>7. \A i \in 1 .. Len(s) : new[i] = s[i] BY <1>2, <2>1, <2>4
  <2>8. QED BY <2>6, <2>7 DEF cells
<1> HIDE DEF new
<1>7. /\ y \in Messages /\ y.wr = total /\ y.rd = HeaderSize /\ y.cells = new
      /\ y.cap = x.cap /\ y.peek = m.peek /\ y.active = x.active
      /\ y.massive = x.massive /\ y.heap = x.heap
  <2>1. Len(s) \in 0 .. SizeMask /\ HeaderSize \in Nat BY <1>1, <1>2, MsgFacts
  <2>2. QED BY <1>3, <1>4, <1>5, <1>6, <2>1 DEF Messages, Cell
<1> HIDE DEF y
<1>8. Used(y) = Len(s) BY <1>3, <1>7 DEF Used
<1>9. Sound(y)
  <2>1. \A i \in 1 .. Len(s) : new[i] \in Bytes BY <1>2, <1>6
  <2>2. HeaderSize >= HeaderSize BY MsgFacts
  <2>3. QED
    BY <1>1, <1>3, <1>4, <1>5, <1>6, <1>7, <1>8, <2>1, <2>2, MsgFacts DEF Sound
<1>10. /\ Sound(m') /\ m'.size = Used(y) /\ SameBuffer(y, m')
       /\ m'.rd = y.rd /\ m'.wr = y.wr /\ m'.peek = y.peek
  BY <1>1, <1>9, SetSizeSound
<1>11. Used(m') = Len(s) BY <1>8, <1>10 DEF Used
<1>12. MsgInv' BY <1>1, <1>8, <1>10, <1>11, CallSound
<1>13. SubSeq(m'.cells, 1, Used(m')) = s
  <2>1. new \in Seq(Cell) /\ Len(s) <= Len(new) BY <1>5, <1>6
  <2>2. s \in Seq(Cell) BY <1>2 DEF Cell
  <2>3. SubSeq(new, 1, Len(s)) = s BY <1>2, <1>6, <2>1, <2>2
  <2>4. m'.cells = new BY <1>7, <1>10 DEF SameBuffer
  <2>5. QED BY <1>11, <2>3, <2>4
<1>14. SubSeq(m.cells, 1, Used(m)) = << >>
  <2>1. Len(Contents(m)) = 0 BY <1>1, MsgFacts
  <2>2. Contents(m) = << >> BY <2>1, MsgFacts
  <2>3. QED BY <2>2 DEF Contents
<1>15. m'.rd - HeaderSize = 0 /\ m'.peek = m.peek BY <1>7, <1>10, MsgFacts
<1>16. Tape!Load
  BY <1>1, <1>13, <1>14, <1>15, Zenon DEF Tape!Load, Tape!Nothing
<1>17. QED BY <1>12, <1>16

LEMMA MsgStep == MsgInv /\ [MsgNext]_msgVars => MsgInv' /\ [Tape!TNext]_(Tape!tapeVars)
<1> SUFFICES ASSUME MsgInv, [MsgNext]_msgVars
             PROVE  MsgInv' /\ [Tape!TNext]_(Tape!tapeVars)
  OBVIOUS
<1> USE DEF Tape!TNext
<1>1. ASSUME NEW s \in Payloads, Write(s) \/ WriteString(s)
      PROVE  MsgInv' /\ Tape!TNext
  BY <1>1, WriteStep, WriteStringStep, Zenon
<1>2. ASSUME NEW n \in 1 .. MaxPayload, ReadBytes(n) \/ ReadBytesReverse(n)
      PROVE  MsgInv' /\ Tape!TNext
  BY <1>2, ReadBytesStep, ReadBytesReverseStep, Zenon
<1>3. CASE ReadString BY <1>3, ReadStringStep, Zenon
<1>4. ASSUME NEW p \in HeaderSize .. HeaderSize + MaxPayload, SetRdPos(p) \/ SetWrPos(p)
      PROVE  MsgInv' /\ Tape!TNext
  BY <1>4, SeekStep, SetWrPosStep, Zenon
<1>5. CASE ForceStopRead \/ Rewind \/ DelMsg BY <1>5, SeekStep, Zenon
<1>6. CASE BeginPeek \/ EndPeek BY <1>6, PeekStep, Zenon
<1>7. CASE Reset BY <1>7, ResetStep, Zenon
<1>8. ASSUME NEW f \in BOOLEAN, SetEncrypted(f)
      PROVE  MsgInv' /\ UNCHANGED Tape!tapeVars
  BY <1>8, SetEncryptedStep
<1>9. ASSUME NEW s \in Payloads, NEW f \in BOOLEAN, LoadPacket(s, f)
      PROVE  MsgInv' /\ Tape!TNext
  BY <1>9, LoadPacketStep, Zenon
<1>10. CASE UNCHANGED msgVars
  <2>1. m' = m /\ out' = out /\ origin' = origin /\ stamped' = stamped
    BY <1>10 DEF msgVars
  <2>2. UNCHANGED Tape!tapeVars BY <2>1, Zenon DEF Tape!tapeVars
  <2>3. MsgInv' BY <2>1 DEF MsgInv, HeaderTellsSize
  <2>4. QED BY <2>2, <2>3
<1> HIDE DEF Tape!TNext
<1>11. QED
  BY <1>1, <1>2, <1>3, <1>4, <1>5, <1>6, <1>7, <1>8, <1>9, <1>10, Zenon DEF MsgNext

LEMMA MsgAlways == MsgSpec => []MsgInv
BY MsgInitSound, MsgStep, PTL DEF MsgSpec

(* Whatever the sizes of header and buffers, the payloads and the calls,   *)
(* the bytes up to the write position lie in the buffer, which is the      *)
(* message's own or the one array it owns (Resize, Reset, MoveToHeap), and *)
(* the header tells their number (SetDataSizeAtHeader).                    *)
THEOREM BufferSoundAlways == MsgSpec => []BufferSound
<1>1. MsgInv => BufferSound
  <2> SUFFICES ASSUME MsgInv PROVE BufferSound
    OBVIOUS
  <2>1. MsgTypeOK BY MsgFacts DEF MsgInv, MsgTypeOK
  <2>2. m.wr \in HeaderSize .. m.cap BY MsgFacts, MessageFields DEF Sound
  <2>3. \A i \in 1 .. Used(m) : m.cells[i] # Junk BY MsgFacts, MsgAssumption DEF Sound
  <2>4. HeaderTellsSize BY DEF MsgInv
  <2>5. QED BY <2>1, <2>2, <2>3, <2>4, MsgFacts DEF BufferSound, Sound
<1>2. QED BY <1>1, MsgAlways, PTL

(* Once a call has set the size field it counts the bytes that follow the  *)
(* header, whatever is written, cut off or read from the end after that    *)
(* (SetDataSizeAtHeader).                                                  *)
THEOREM HeaderTellsSizeAlways == MsgSpec => []HeaderTellsSize
<1>1. MsgInv => HeaderTellsSize BY DEF MsgInv
<1>2. QED BY <1>1, MsgAlways, PTL

(* A message is a tape of bytes, whatever its capacity and however often   *)
(* it moves to the heap and back.                                          *)
THEOREM MsgIsTape == MsgSpec => ImplementsTape
BY MsgInitSound, MsgStep, MsgAlways, PTL DEF MsgSpec, ImplementsTape, Tape!TSpec

=============================================================================
