-------------------------------- MODULE Msg --------------------------------
(***************************************************************************)
(* CMsg: two cursors into a buffer that starts inside the object and moves *)
(* to the heap when the message outgrows it, and a header (part of the     *)
(* buffer) whose size field also carries the encryption flag.              *)
(*                                                                         *)
(* A message is used by one thread at a time.  Of the header only the size *)
(* field is kept; a byte is a small number, Junk if nobody wrote it, and a *)
(* string's length takes one byte.  Out is history: what the last call     *)
(* gave its caller.  stamped is history too: since the header was made, a  *)
(* write, SetWrPos or Reset has set its size field.                        *)
(***************************************************************************)
EXTENDS Integers, Sequences

CONSTANTS
  HeaderSize,  \* MSG_HEADER_SIZE
  SizeMask,    \* MSG_MASK_SIZE_ONLY
  DefaultBuf,  \* DEFAULT_MSGBUF_SIZE
  Bytes,
  Payloads,    \* what users write, and what a received packet carries
  Heap,        \* identities of heap arrays (a bound)
  Null,        \* m_pMassiveBuffer is NULL, or m_pActiveBuffer is m_Buffer
  Junk,        \* a byte of the buffer that was never written
  Thrown       \* the outcome of a call that raises a CMsgException

MaxPayload == SizeMask

ASSUME MsgAssumption ==
  /\ HeaderSize \in Nat \ {0}
  /\ SizeMask \in Nat
  /\ DefaultBuf \in Nat /\ DefaultBuf >= HeaderSize
  /\ Bytes \subseteq Nat
  /\ Payloads \subseteq Seq(Bytes)
  /\ \A s \in Payloads : Len(s) \in Bytes
  /\ Null \notin Heap /\ Heap # {} /\ \A a \in Heap : Heap # {a}
  /\ Junk \notin Bytes
  /\ Thrown \notin Seq(Bytes \cup {Junk})

VARIABLES
  origin,   \* "new": built by new CMsg, "engine": given out by NewMsg
  m,        \* the message, see Messages
  out,
  stamped

msgVars == <<origin, m, out, stamped>>

Messages ==
  [active  : Heap \cup {Null},  \* m_pActiveBuffer
   massive : Heap \cup {Null},  \* m_pMassiveBuffer
   heap    : SUBSET Heap,       \* the arrays that new BYTE[] made
   cap     : Nat,               \* m_nBufCapacity
   cells   : Seq(Bytes \cup {Junk}),  \* the active buffer behind the header
   size    : 0 .. SizeMask,     \* the size part of the size field
   enc     : BOOLEAN,           \* the encryption flag of the size field
   rd      : Nat,               \* m_nRdCur
   wr      : Nat,               \* m_nWrCur
   peek    : Nat]               \* m_nPeekPos

MsgTypeOK ==
  /\ origin \in {"new", "engine"}
  /\ m \in Messages
  /\ out \in Seq(Bytes) \cup {Thrown}
  /\ stamped \in BOOLEAN

Nothing == << >>
JunkBytes(n) == [i \in 1 .. n |-> Junk]

\* The constructor leaves the size field as it finds it in the memory of
\* the object; the engine hands out messages with a cleared header.
MsgInit ==
  /\ \E n \in 0 .. SizeMask, f \in BOOLEAN :
       /\ m = [active |-> Null, massive |-> Null, heap |-> {},
               cap |-> DefaultBuf, cells |-> JunkBytes(DefaultBuf - HeaderSize),
               size |-> n, enc |-> f, rd |-> HeaderSize, wr |-> HeaderSize,
               peek |-> 0]
       /\ origin \in {"new", "engine"}
       /\ origin = "engine" => n = 0
  /\ out = Nothing
  /\ stamped = (origin = "engine")

----------------------------------------------------------------------------
\* What each method makes of a message x.

Used(x) == x.wr - HeaderSize

\* Plausible bug: the size counts from the start of the buffer.
SetDataSizeAtHeaderWhole(x) == [x EXCEPT !.size = x.wr % (SizeMask + 1)]

\* SetDataSizeAtHeader(m_nWrCur - MSG_HEADER_SIZE).  A size too large for
\* the mask runs into the flag.
SetDataSizeAtHeader(x) ==
  [x EXCEPT !.size = Used(x) % (SizeMask + 1),
            !.enc = @ \/ (Used(x) \div (SizeMask + 1)) % 2 = 1]

\* Plausible bug: the array the message had before is forgotten.
MoveToHeapLeak(x, newCap) ==
  LET h == CHOOSE a \in Heap : a \notin x.heap
  IN [x EXCEPT !.active = h, !.massive = h, !.cap = newCap,
               !.heap = @ \cup {h},
               !.cells = [i \in 1 .. newCap - HeaderSize |->
                            IF i <= Used(x) THEN x.cells[i] ELSE Junk]]

\* new BYTE[newCap], memcpy of m_nWrCur bytes, SetBuffer, delete[] of the
\* array the message had before.
MoveToHeap(x, newCap) ==
  LET h == CHOOSE a \in Heap : a \notin x.heap
  IN [x EXCEPT !.active = h, !.massive = h, !.cap = newCap,
               !.heap = (@ \ {x.massive}) \cup {h},
               !.cells = [i \in 1 .. newCap - HeaderSize |->
                            IF i <= Used(x) THEN x.cells[i] ELSE Junk]]

Grown(x, n) == x.cap + (n \div DefaultBuf + 1) * DefaultBuf

\* Plausible bug: the last byte the size field can count is refused.
HasRoomStrictly(x, n) == x.wr + n < SizeMask + HeaderSize

HasRoom(x, n) == x.wr + n <= SizeMask + HeaderSize

\* WriteBytes, when it does not raise MsgWriteException.
WriteBytes(x, s) ==
  LET y == IF x.wr + Len(s) > x.cap THEN MoveToHeap(x, Grown(x, Len(s))) ELSE x
      put == [y EXCEPT !.cells = [i \in DOMAIN @ |->
                IF i \in Used(x) + 1 .. Used(x) + Len(s) THEN s[i - Used(x)] ELSE @[i]]]
  IN SetDataSizeAtHeader([put EXCEPT !.wr = @ + Len(s)])

Readable(x, n) == x.rd + n <= x.wr
BytesAt(x, p, n) == SubSeq(x.cells, p - HeaderSize + 1, p - HeaderSize + n)

----------------------------------------------------------------------------
\* The calls users make.

Write(s) ==
  /\ m' = IF HasRoom(m, Len(s)) THEN WriteBytes(m, s) ELSE m
  /\ out' = IF HasRoom(m, Len(s)) THEN Nothing ELSE Thrown
  /\ stamped' = (stamped \/ HasRoom(m, Len(s)))
  /\ UNCHANGED origin

\* operator<< of a string: the length and the bytes are written by two
\* calls, the second of which may raise the exception.
WriteString(s) ==
  LET x == WriteBytes(m, <<Len(s)>>)
  IN /\ m' = IF ~HasRoom(m, 1) THEN m
            ELSE IF Len(s) = 0 \/ ~HasRoom(x, Len(s)) THEN x ELSE WriteBytes(x, s)
     /\ out' = IF HasRoom(m, 1) /\ (Len(s) = 0 \/ HasRoom(x, Len(s))) THEN Nothing ELSE Thrown
     /\ stamped' = (stamped \/ HasRoom(m, 1))
     /\ UNCHANGED origin

ReadBytes(n) ==
  /\ m' = IF Readable(m, n) THEN [m EXCEPT !.rd = @ + n] ELSE m
  /\ out' = IF Readable(m, n) THEN BytesAt(m, m.rd, n) ELSE Thrown
  /\ UNCHANGED <<origin, stamped>>

\* A string never claims more than GetRemainBytesToRead.
Clamp(claimed, remain) == IF claimed > remain THEN remain ELSE claimed

\* operator>> of a string: the read of its length may raise the exception.
ReadString ==
  /\ LET claimed == m.cells[m.rd - HeaderSize + 1]
         n == Clamp(claimed, m.wr - (m.rd + 1))
     IN IF Readable(m, 1)
        THEN m' = [m EXCEPT !.rd = @ + 1 + n] /\ out' = BytesAt(m, m.rd + 1, n)
        ELSE m' = m /\ out' = Thrown
  /\ UNCHANGED <<origin, stamped>>

ReadBytesReverse(n) ==
  /\ m' = IF n <= Used(m) THEN SetDataSizeAtHeader([m EXCEPT !.wr = @ - n]) ELSE m
  /\ out' = IF n <= Used(m) THEN BytesAt(m, m.wr - n, n) ELSE Thrown
  /\ stamped' = (stamped \/ n <= Used(m))
  /\ UNCHANGED origin

\* SetRdPos when it returns TRUE; otherwise it changes nothing.
SetRdPos(p) ==
  /\ p >= HeaderSize /\ p <= m.wr
  /\ m' = [m EXCEPT !.rd = p]
  /\ out' = Nothing
  /\ UNCHANGED <<origin, stamped>>

\* SetWrPos to the end of what has been written, or before it.
SetWrPos(p) ==
  /\ p >= HeaderSize /\ p <= m.wr
  /\ m' = SetDataSizeAtHeader([m EXCEPT !.wr = p])
  /\ out' = Nothing
  /\ stamped' = TRUE
  /\ UNCHANGED origin

ForceStopRead ==
  /\ m' = [m EXCEPT !.rd = m.wr]
  /\ out' = Nothing
  /\ UNCHANGED <<origin, stamped>>

Rewind ==
  /\ m' = [m EXCEPT !.rd = HeaderSize]
  /\ out' = Nothing
  /\ UNCHANGED <<origin, stamped>>

\* BeginPeek asserts that no peek is going on.
BeginPeek ==
  /\ m.peek = 0
  /\ m' = [m EXCEPT !.peek = m.rd]
  /\ out' = Nothing
  /\ UNCHANGED <<origin, stamped>>

EndPeek ==
  /\ m.peek # 0
  /\ m' = [m EXCEPT !.rd = m.peek, !.peek = 0]
  /\ out' = Nothing
  /\ UNCHANGED <<origin, stamped>>

SetEncrypted(f) ==
  /\ m' = [m EXCEPT !.enc = f]
  /\ UNCHANGED <<origin, out, stamped>>

\* Reset: back to m_Buffer, with a cleared header.
Reset ==
  /\ m' = [m EXCEPT !.active = Null, !.massive = Null,
                    !.heap = @ \ {m.massive}, !.cap = DefaultBuf,
                    !.cells = JunkBytes(DefaultBuf - HeaderSize),
                    !.size = 0, !.enc = FALSE,
                    !.rd = HeaderSize, !.wr = HeaderSize, !.peek = 0]
  /\ out' = Nothing
  /\ stamped' = TRUE
  /\ UNCHANGED origin

\* CNetEngine::DelMsg takes back a message of the engine: ResetPos.
DelMsg ==
  /\ origin = "engine"
  /\ m' = [m EXCEPT !.rd = HeaderSize, !.wr = m.size + HeaderSize]
  /\ out' = Nothing
  /\ UNCHANGED <<origin, stamped>>

\* ProcessIncomingStream fills a new message with a packet whose size field
\* says Len(s): Resize if it is too large, memcpy of header and payload,
\* SetWrPos, SetRdPos.
LoadPacket(s, f) ==
  LET total == HeaderSize + Len(s)
      x == IF total > m.cap THEN MoveToHeap(m, total) ELSE m
      y == [x EXCEPT !.size = Len(s), !.enc = f, !.wr = total, !.rd = HeaderSize,
                     !.cells = [i \in DOMAIN @ |-> IF i <= Len(s) THEN s[i] ELSE @[i]]]
  IN /\ origin = "new" /\ ~stamped /\ m.wr = HeaderSize /\ Len(s) <= SizeMask
     /\ m' = SetDataSizeAtHeader(y)
     /\ out' = Nothing
     /\ stamped' = TRUE
     /\ UNCHANGED origin

MsgNext ==
  \/ \E s \in Payloads : Write(s) \/ WriteString(s)
  \/ \E n \in 1 .. MaxPayload : ReadBytes(n) \/ ReadBytesReverse(n)
  \/ ReadString
  \/ \E p \in HeaderSize .. HeaderSize + MaxPayload : SetRdPos(p) \/ SetWrPos(p)
  \/ ForceStopRead \/ Rewind \/ BeginPeek \/ EndPeek \/ Reset \/ DelMsg
  \/ \E f \in BOOLEAN : SetEncrypted(f)
  \/ \E s \in Payloads, f \in BOOLEAN : LoadPacket(s, f)

MsgSpec == MsgInit /\ [][MsgNext]_msgVars

----------------------------------------------------------------------------

(***************************************************************************)
(* The header tells the receiver how many bytes follow it, from the first  *)
(* call on that sets the size field at all.                                *)
(***************************************************************************)
HeaderTellsSize == stamped => m.size = Used(m)

(***************************************************************************)
(* Whatever sequence of calls makes the buffer grow, move or shrink, the   *)
(* bytes up to the write position lie in it, and it is either the          *)
(* message's own or the one array it owns: no other array exists, and none *)
(* is used after its deletion.  The header in front of them tells their    *)
(* number.                                                                 *)
(***************************************************************************)
BufferSound ==
  /\ MsgTypeOK
  /\ m.wr \in HeaderSize .. m.cap
  /\ Len(m.cells) = m.cap - HeaderSize
  /\ \A i \in 1 .. Used(m) : m.cells[i] # Junk
  /\ m.active = m.massive
  /\ m.heap = {m.massive} \ {Null}
  /\ HeaderTellsSize

Tape == INSTANCE ByteTape WITH
  content <- SubSeq(m.cells, 1, Used(m)),
  pos <- m.rd - HeaderSize,
  MaxData <- MaxPayload,
  mark <- IF m.peek = 0 THEN -1 ELSE m.peek - HeaderSize

(***************************************************************************)
(* The message is a tape of bytes: moving it to the heap, the capacity and *)
(* the header never show in what is read from it, and a call that raises   *)
(* an exception leaves the tape as it was (a string's length excepted).    *)
(***************************************************************************)
ImplementsTape == Tape!TSpec

=============================================================================
