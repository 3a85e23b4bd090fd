------------------------------ MODULE ByteTape ------------------------------
(***************************************************************************)
(* What a message promises its users: a tape of bytes that grows at its    *)
(* end, is read from a position towards the end, or is taken off from the  *)
(* end.  No buffers, capacities or headers; a tape holds at most MaxData   *)
(* bytes, and an operation that would leave the tape raises an exception.  *)
(***************************************************************************)
EXTENDS Integers, Sequences

CONSTANTS
  Bytes,
  Payloads,  \* the byte sequences and strings that users write
  MaxData,
  Thrown     \* the outcome of a call that raises a CMsgException

VARIABLES
  content,  \* the bytes on the tape
  pos,      \* how many of them are before the reading position
  mark,     \* the remembered reading position, -1 if there is none
  out       \* what the last call gave its caller

tapeVars == <<content, pos, mark, out>>

Nothing == << >>

TInit ==
  /\ content = << >>
  /\ pos = 0
  /\ mark = -1
  /\ out = Nothing

Left == MaxData - Len(content)
Unread == IF pos <= Len(content) THEN Len(content) - pos ELSE 0

Append1(s) ==
  /\ content' = IF Len(s) <= Left THEN content \o s ELSE content
  /\ out' = IF Len(s) <= Left THEN Nothing ELSE Thrown
  /\ UNCHANGED <<pos, mark>>

\* A string is its length followed by its bytes; if there is room for the
\* length alone, the length alone is written before the exception.
AppendString(s) ==
  LET put == IF Left = 0 THEN << >>
             ELSE IF Len(s) >= Left THEN <<Len(s)>> ELSE <<Len(s)>> \o s
  IN /\ content' = content \o put
     /\ out' = IF Len(put) = Len(s) + 1 THEN Nothing ELSE Thrown
     /\ UNCHANGED <<pos, mark>>

Take(n) ==
  /\ pos' = IF n <= Unread THEN pos + n ELSE pos
  /\ out' = IF n <= Unread THEN SubSeq(content, pos + 1, pos + n) ELSE Thrown
  /\ UNCHANGED <<content, mark>>

\* A string that claims more bytes than are left is cut short; where nothing is
\* left there is no string.
TakeString ==
  /\ LET claimed == content[pos + 1]
         n == IF claimed < Unread THEN claimed ELSE Unread - 1
     IN IF Unread > 0
        THEN out' = SubSeq(content, pos + 2, pos + 1 + n) /\ pos' = pos + 1 + n
        ELSE out' = Thrown /\ pos' = pos
  /\ UNCHANGED <<content, mark>>

Chop(n) ==
  LET rest == Len(content) - n
  IN /\ content' = IF rest >= 0 THEN SubSeq(content, 1, rest) ELSE content
     /\ out' = IF rest >= 0 THEN SubSeq(content, rest + 1, Len(content)) ELSE Thrown
     /\ UNCHANGED <<pos, mark>>

Seek ==
  /\ pos' \in 0 .. Len(content)
  /\ out' = Nothing
  /\ UNCHANGED <<content, mark>>

Mark ==
  /\ mark' = pos
  /\ out' = Nothing
  /\ UNCHANGED <<content, pos>>

Back ==
  /\ mark >= 0
  /\ pos' = mark
  /\ mark' = -1
  /\ out' = Nothing
  /\ UNCHANGED content

CutOff ==
  /\ \E n \in 0 .. Len(content) : content' = SubSeq(content, 1, n)
  /\ out' = Nothing
  /\ UNCHANGED <<pos, mark>>

Clear ==
  /\ content' = << >>
  /\ pos' = 0
  /\ mark' = -1
  /\ out' = Nothing

\* An empty tape is given a whole content.
Load ==
  /\ content = << >>
  /\ \E s \in Payloads : content' = s
  /\ pos' = 0
  /\ out' = Nothing
  /\ UNCHANGED mark

TNext ==
  \/ \E s \in Payloads : Append1(s) \/ AppendString(s)
  \/ \E n \in 1 .. MaxData : Take(n) \/ Chop(n)
  \/ TakeString \/ Seek \/ Mark \/ Back \/ CutOff \/ Clear \/ Load

TSpec == TInit /\ [][TNext]_tapeVars
=============================================================================
