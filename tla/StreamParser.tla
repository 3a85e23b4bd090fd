---------------------------- MODULE StreamParser ----------------------------
(***************************************************************************)
(* How CSession cuts the byte stream of a connection into packets:         *)
(* OnRecvCompleted appends what a receive brought to m_streamBuffer, and   *)
(* ProcessIncomingStream takes whole packets from its front while another  *)
(* thread (or the packet callback itself) may Close the session, which     *)
(* resets m_dwStreamSize under a lock that the parser does not take.       *)
(*                                                                         *)
(* A byte is its position in the stream the peer sends.  Packet k of the   *)
(* peer is made of the positions begin[k] .. begin[k+1] - 1, so a buffer   *)
(* of positions shows which bytes it really holds.                         *)
(***************************************************************************)
EXTENDS Integers

CONSTANTS
  Header,     \* MSG_HEADER_SIZE
  MaxData,    \* MSG_MASK_SIZE_ONLY
  RecvCap,    \* RECV_BUFFER_SIZE
  StreamCap,  \* sizeof(m_streamBuffer)
  N,          \* how many packets the peer sends
  Totals      \* the packet lengths, header included, it may choose

ASSUME StreamAssumption ==
  /\ Header \in Nat /\ Header >= 2
  /\ MaxData \in Nat
  /\ RecvCap \in Nat \ {0}
  /\ StreamCap \in Nat /\ RecvCap <= StreamCap
  /\ N \in Nat
  /\ Totals \subseteq Header .. Header + MaxData

Packets == 1 .. N
Cells == 0 .. StreamCap - 1
Zero == -1    \* a cell that still holds the zero of CSession::Init
NoBytes == [i \in 0 .. -1 |-> Zero]

VARIABLES
  begin,   \* where the packets of the peer begin in its stream
  got,     \* how many bytes of the stream have been received
  buf,     \* m_streamBuffer
  size,    \* m_dwStreamSize
  added,   \* dwBytesTransferred of the receive being handled
  taken,   \* dwTotalPacketSize of the packet given to the callback, or 0
  msg,     \* the bytes of the CMsg the callback is given
  seen,    \* calls of OnPacketReceived
  closed,  \* Close has run
  pc       \* where the receiving worker is

vars == <<begin, got, buf, size, added, taken, msg, seen, closed, pc>>

TypeOK ==
  /\ begin \in [1 .. N + 1 -> Nat]
  /\ got \in Nat
  /\ buf \in [Cells -> Nat \cup {Zero}]
  /\ size \in 0 .. StreamCap
  /\ added \in 0 .. RecvCap
  /\ size + added <= StreamCap
  /\ taken \in 0 .. StreamCap
  /\ msg \in [0 .. taken - 1 -> Nat \cup {Zero}]
  /\ seen \in Nat
  /\ closed \in BOOLEAN
  /\ pc \in {"wait", "copied", "over", "parse", "callback", "post", "end",
             "crash"}

Length(k) == begin[k + 1] - begin[k]

\* The peer sends its packets one behind the other.
Layout ==
  /\ begin[1] = 0
  /\ \A k \in Packets : Length(k) \in Totals
  /\ \A j, k \in 1 .. N + 1 : j < k => begin[j] < begin[k]

Init ==
  /\ begin \in [1 .. N + 1 -> 0 .. N * (Header + MaxData)]
  /\ Layout
  /\ got = 0
  /\ buf = [i \in Cells |-> Zero]
  /\ size = 0
  /\ added = 0
  /\ taken = 0
  /\ msg = NoBytes
  /\ seen = 0
  /\ closed = FALSE
  /\ pc = "wait"

----------------------------------------------------------------------------

Holds(n) == size + n <= StreamCap

\* A receive of n bytes completes: the check and the memcpy.
OnRecvCompleted(n) ==
  /\ pc = "wait"
  /\ got + n <= begin[N + 1]
  /\ got' = got + n
  /\ IF Holds(n)
     THEN /\ buf' = [i \in Cells |->
                       IF i \in size .. size + n - 1 THEN got + (i - size) ELSE buf[i]]
          /\ added' = n
          /\ pc' = "copied"
     ELSE /\ pc' = "over"
          /\ UNCHANGED <<buf, added>>
  /\ UNCHANGED <<begin, size, taken, msg, seen, closed>>

\* m_dwStreamSize += dwBytesTransferred
CountReceived ==
  /\ pc = "copied"
  /\ size' = size + added
  /\ added' = 0
  /\ pc' = "parse"
  /\ UNCHANGED <<begin, got, buf, taken, msg, seen, closed>>

\* "Stream buffer overflow!": the session closes itself.
Overflow ==
  /\ pc = "over"
  /\ size' = 0
  /\ closed' = TRUE
  /\ pc' = "end"
  /\ UNCHANGED <<begin, got, buf, added, taken, msg, seen>>

\* dwTotalPacketSize: the length of packet k when the buffer starts with
\* that packet's header, anything a size field can say otherwise.
PacketSizes ==
  LET K == {k \in Packets : buf[0] = begin[k] /\ buf[1] = begin[k] + 1}
  IN IF K = {} THEN Header .. Header + MaxData ELSE {Length(k) : k \in K}

\* Plausible bug: the loop stops when the buffer holds just one packet.
IncompleteOrLast(total) == size <= total

Incomplete(total) == size < total

\* The loop of ProcessIncomingStream ends: not even a header is left, or
\* not the whole packet.
StopParsing ==
  /\ pc = "parse"
  /\ size < Header \/ \E total \in PacketSizes : Incomplete(total)
  /\ pc' = "post"
  /\ UNCHANGED <<begin, got, buf, size, added, taken, msg, seen, closed>>

\* A new CMsg gets the whole packet and OnPacketReceived is called.
PacketReceived ==
  /\ pc = "parse"
  /\ size >= Header
  /\ \E total \in PacketSizes :
       /\ ~Incomplete(total)
       /\ taken' = total
       /\ msg' = [i \in 0 .. total - 1 |-> buf[i]]
  /\ seen' = seen + 1
  /\ pc' = "callback"
  /\ UNCHANGED <<begin, got, buf, size, added, closed>>

\* Plausible bug: the bytes behind the packet stay where they are.
ConsumeUnmoved ==
  /\ pc = "callback"
  /\ size >= taken
  /\ size' = size - taken
  /\ taken' = 0
  /\ msg' = NoBytes
  /\ pc' = "parse"
  /\ UNCHANGED <<begin, got, buf, added, seen, closed>>

\* Plausible bug: the bytes are moved down by one too few.
ConsumeShort ==
  /\ pc = "callback"
  /\ size >= taken
  /\ size' = size - taken
  /\ buf' = [i \in Cells |->
               IF i < size - taken THEN buf[i + taken - 1] ELSE buf[i]]
  /\ taken' = 0
  /\ msg' = NoBytes
  /\ pc' = "parse"
  /\ UNCHANGED <<begin, got, added, seen, closed>>

\* The callback has returned: the packet's bytes leave the buffer.
Consume ==
  /\ pc = "callback"
  /\ size >= taken
  /\ size' = size - taken
  /\ buf' = [i \in Cells |->
               IF i < size - taken THEN buf[i + taken] ELSE buf[i]]
  /\ taken' = 0
  /\ msg' = NoBytes
  /\ pc' = "parse"
  /\ UNCHANGED <<begin, got, added, seen, closed>>

\* m_dwStreamSize -= dwTotalPacketSize goes below zero, and memmove is asked
\* for nearly 4 GB: nothing is known of the process from here on.
Underflow ==
  /\ pc = "callback"
  /\ size < taken
  /\ pc' = "crash"
  /\ UNCHANGED <<begin, got, buf, size, added, taken, msg, seen, closed>>

\* PostRecv, which fails on a closed socket.
PostRecv ==
  /\ pc = "post"
  /\ pc' = IF closed THEN "end" ELSE "wait"
  /\ UNCHANGED <<begin, got, buf, size, added, taken, msg, seen, closed>>

\* Close by another thread, or from within OnPacketReceived.
Close ==
  /\ ~closed
  /\ pc # "crash"
  /\ closed' = TRUE
  /\ size' = 0
  /\ UNCHANGED <<begin, got, buf, added, taken, msg, seen, pc>>

Parse == StopParsing \/ PacketReceived \/ Consume \/ Underflow

Worker == CountReceived \/ Overflow \/ Parse \/ PostRecv

Next == (\E n \in 1 .. RecvCap : OnRecvCompleted(n)) \/ Worker \/ Close

Spec == Init /\ [][Next]_vars

(***************************************************************************)
(* The worker keeps running, and what the peer has sent keeps arriving     *)
(* (TCP delivers it in order); nobody has to Close.                        *)
(***************************************************************************)
FairSpec ==
  /\ Spec
  /\ WF_vars(Worker)
  /\ WF_vars(\E n \in 1 .. RecvCap : OnRecvCompleted(n))

----------------------------------------------------------------------------
\* The first byte of the stream the buffer still has to hold.
Front == begin[IF pc = "callback" THEN seen ELSE seen + 1]

(***************************************************************************)
(* While the session is open the buffer holds exactly the bytes between    *)
(* the end of the last packet handed over and the last byte received.      *)
(***************************************************************************)
BufferExact ==
  ~closed /\ pc # "over" =>
    /\ seen <= N
    /\ size + added = got - Front
    /\ \A i \in 0 .. size + added - 1 : buf[i] = Front + i

(***************************************************************************)
(* Every packet is handed to OnPacketReceived once, in the order sent, and *)
(* with its own bytes, as long as the session has not been closed.         *)
(***************************************************************************)
DeliveredExactly ==
  [][seen' # seen /\ ~closed =>
       /\ seen' = seen + 1
       /\ seen' \in Packets
       /\ msg' = [i \in 0 .. Length(seen') - 1 |-> begin[seen'] + i]]_vars

(***************************************************************************)
(* Whenever an open session waits for a receive, just the packets that     *)
(* have arrived whole have been handed over, however they were cut.        *)
(***************************************************************************)
WholeDelivered ==
  ~closed /\ pc = "wait" =>
    \A k \in Packets : k <= seen <=> begin[k + 1] <= got

(***************************************************************************)
(* The buffer is large enough for packets that leave room for a whole      *)
(* receive behind an incomplete one.                                       *)
(***************************************************************************)
Fits == \A k \in Packets : Length(k) <= StreamCap - RecvCap + 1
NoOverflow == Fits => pc # "over"

(***************************************************************************)
(* m_dwStreamSize falls below zero only when Close has reset it under the  *)
(* parser's feet.                                                          *)
(***************************************************************************)
UnderflowByCloseOnly == pc = "crash" => closed

(***************************************************************************)
(* Every packet the peer sends is handed over in the end, if each of them  *)
(* fits and the session is not closed.                                     *)
(***************************************************************************)
EveryPacketDelivered == Fits => <>(seen = N \/ closed)

=============================================================================
