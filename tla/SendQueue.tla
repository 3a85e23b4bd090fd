----------------------------- MODULE SendQueue -----------------------------
(***************************************************************************)
(* The send side of one CSession, with the messages it owns: PostSend on   *)
(* the threads of the server and in CNetLib::Update, the completions a     *)
(* worker hands to OnSendCompleted, and everything that closes the         *)
(* session.  What is under m_sendLock is one step; the test of the socket  *)
(* at the top of PostSend is not.                                          *)
(*                                                                         *)
(* The session object is there as long as somebody uses it (NetSession     *)
(* says where it may not be).  A behaviour is followed up to the first     *)
(* access to a deleted message: crash then holds that message.             *)
(***************************************************************************)
EXTENDS Integers, Sequences, FiniteSets

CONSTANTS
  Msgs,   \* the messages that may be posted, each of them once
  Pings,  \* those of them that Update makes as heartbeat probes
  Size,   \* GetMsgSize() of each message
  Limit,  \* m_dwMaxSendQueueBytes
  Apps,   \* threads of the server that post messages
  Main,   \* the thread that calls Update
  NoMsg

Posters == Apps \cup {Main}

ASSUME SendQueueAssumption ==
  /\ IsFiniteSet(Msgs) /\ Pings \subseteq Msgs /\ NoMsg \notin Msgs
  /\ Size \in [Msgs -> Nat \ {0}]
  /\ Limit \in Nat \ {0}
  /\ Main \notin Apps

VARIABLES
  phase,    \* how far the session has come (see Phases)
  inMap,    \* the session is in m_sessionMap
  open,     \* m_hSocket # INVALID_SOCKET
  queue,    \* m_sendQueue
  cur,      \* m_nCurSendQueueBytes
  max,      \* m_nMaxSendQueueBytes, 0 for no limit
  sending,  \* m_bSending
  flight,   \* overlapped sends whose completion no worker has taken
  leak,     \* a reference to the session will never be released
  posted,   \* the messages given to PostSend so far
  posting,  \* the message each poster is inside PostSend with
  refused,  \* the ping that Update is about to delete
  freed,    \* the messages that have been deleted
  crash,    \* NoMsg, or a deleted message that was used
  wire,     \* history: the messages WSASend took
  failed,   \* history: the last WSASend failed
  early     \* history: messages queued while there was no limit

queueVars == <<queue, cur, sending, flight, wire, failed, early>>
msgVars   == <<posted, posting, refused, freed, crash>>
sessVars  == <<phase, inMap, open, max, leak>>
sendVars  == <<sessVars, queueVars, msgVars>>

\* greeting: created, OnClientConnected; limited: the limit is applied;
\* listening: a receive is in flight or being handled; deaf: there will be
\* no further receive; gone: the object is deleted.
Phases == {"none", "greeting", "limited", "listening", "deaf", "gone"}

SendTypeOK ==
  /\ phase \in Phases
  /\ inMap \in BOOLEAN /\ open \in BOOLEAN /\ leak \in BOOLEAN
  /\ queue \in Seq(Msgs) /\ flight \in Seq(Msgs) /\ wire \in Seq(Msgs)
  /\ cur \in Nat /\ max \in {0, Limit}
  /\ sending \in BOOLEAN /\ failed \in BOOLEAN
  /\ posting \in [Posters -> Msgs \cup {NoMsg}]
  /\ refused \in Pings \cup {NoMsg}
  /\ posted \subseteq Msgs /\ freed \subseteq Msgs /\ early \subseteq Msgs
  /\ crash \in Msgs \cup {NoMsg}

SendInit ==
  /\ phase = "none" /\ inMap = FALSE /\ open = FALSE /\ leak = FALSE
  /\ queue = <<>> /\ flight = <<>> /\ wire = <<>>
  /\ cur = 0 /\ max = 0
  /\ sending = FALSE /\ failed = FALSE
  /\ posting = [t \in Posters |-> NoMsg]
  /\ refused = NoMsg /\ posted = {} /\ freed = {} /\ early = {}
  /\ crash = NoMsg

Queued == {queue[i] : i \in DOMAIN queue}

Alive == phase \notin {"none", "gone"}

\* The messages of S are used; those of D are used and deleted.
Use(S) == crash' = IF S \cap freed = {} THEN NoMsg
                   ELSE CHOOSE m \in S : m \in freed
Delete(D) == freed' = freed \cup D

(***************************************************************************)
(* CSession::Close and CSessionMgr::RemoveSession; m_nCurSendQueueBytes    *)
(* keeps its value.  also is what the caller deletes in the same step.     *)
(***************************************************************************)
\* Mutant: the queue is dropped without deleting what is in it.
CloseUndeleted(also) ==
  /\ open' = FALSE /\ sending' = FALSE /\ queue' = <<>>
  /\ Use(also) /\ Delete(also)

Close(also) ==
  /\ open' = FALSE /\ sending' = FALSE /\ queue' = <<>>
  /\ Use(Queued \cup also) /\ Delete(Queued \cup also)

RemoveSession(also) ==
  \/ inMap /\ inMap' = FALSE /\ Close(also)
  \/ /\ ~inMap
     /\ Use(also) /\ Delete(also)
     /\ UNCHANGED <<inMap, open, sending, queue>>

-----------------------------------------------------------------------------
(***************************************************************************)
(* The accept thread                                                       *)
(***************************************************************************)
CreateSession ==
  /\ phase = "none"
  /\ phase' = "greeting" /\ inMap' = TRUE /\ open' = TRUE
  /\ UNCHANGED <<max, leak, queueVars, msgVars>>

ApplyPolicy ==
  /\ phase = "greeting"
  /\ phase' = "limited" /\ max' = Limit
  /\ UNCHANGED <<inMap, open, leak, queueVars, msgVars>>

InitialRecv ==
  /\ phase = "limited" /\ open
  /\ phase' = "listening"
  /\ UNCHANGED <<inMap, open, max, leak, queueVars, msgVars>>

\* CreateIoCompletionPort or the first PostRecv fails: RemoveSession.
AcceptFails ==
  /\ phase \in {"greeting", "limited"}
  /\ phase' = "deaf"
  /\ RemoveSession({})
  /\ UNCHANGED <<max, leak, cur, flight, wire, failed, early, posted, posting,
                 refused>>

-----------------------------------------------------------------------------
(***************************************************************************)
(* CSession::PostSend                                                      *)
(***************************************************************************)
Refuse(t, m) == refused' = IF t = Main THEN m ELSE refused

\* The socket is tested before the lock is taken: an invalid one deletes the
\* message.
PostSend(t, m) ==
  /\ Alive
  /\ posting[t] = NoMsg /\ (t = Main => refused = NoMsg)
  /\ m \notin posted /\ (m \in Pings <=> t = Main)
  /\ posted' = posted \cup {m}
  /\ \/ /\ open
        /\ posting' = [posting EXCEPT ![t] = m]
        /\ UNCHANGED <<refused, freed, crash>>
     \/ /\ ~open
        /\ Delete({m}) /\ Refuse(t, m)
        /\ UNCHANGED <<posting, crash>>
  /\ UNCHANGED <<sessVars, queueVars>>

OverLimit(m) == max > 0 /\ cur + Size[m] > max
FarOver(m)   == cur + Size[m] > 2 * max

Leave(t) == posting' = [posting EXCEPT ![t] = NoMsg]

\* Over the limit the message is deleted; far over it DisconnectGracefully
\* removes the session too.
PostSendDrop(t) ==
  LET m == posting[t] IN
  /\ m # NoMsg /\ OverLimit(m)
  /\ \/ FarOver(m) /\ RemoveSession({m})
     \/ ~FarOver(m) /\ Delete({m}) /\ UNCHANGED <<inMap, open, sending, queue, crash>>
  /\ Leave(t) /\ Refuse(t, m)
  /\ UNCHANGED <<phase, max, leak, cur, flight, wire, failed, early, posted>>

\* WSASend takes message m; or it fails, always so on a closed socket.
Starts(m, others) ==
  /\ open
  /\ flight' = Append(others, m)
  /\ wire' = Append(wire, m)
  /\ failed' = FALSE

Fails(others) ==
  /\ sending' = FALSE
  /\ flight' = others
  /\ failed' = TRUE
  /\ UNCHANGED wire

Push(m) ==
  /\ queue' = Append(queue, m)
  /\ cur' = cur + Size[m]
  /\ early' = IF max = 0 THEN early \cup {m} ELSE early

\* Mutant: a send is started although one is in flight.
SendInFlightIgnored == FALSE

\* Mutant: no send is started, as if a completion were to come.
SendLeftToCompletion == TRUE

SendInFlight == sending

\* Mutant: the message just posted is sent, whatever is before it.
NewestOf(q) == q[Len(q)]

FirstOf(q) == Head(q)

PostSendQueue(t) ==
  LET m == posting[t] IN
  /\ m # NoMsg /\ ~OverLimit(m)
  /\ Push(m)
  /\ Leave(t)
  /\ \/ /\ SendInFlight
        /\ UNCHANGED <<sending, flight, wire, failed, refused, crash>>
     \/ /\ ~SendInFlight
        /\ Use({FirstOf(queue')})
        /\ \/ /\ Starts(FirstOf(queue'), flight)
              /\ sending' = TRUE
              /\ UNCHANGED refused
           \/ Fails(flight) /\ Refuse(t, m)
  /\ UNCHANGED <<sessVars, posted, freed>>

\* CNetLib::Update deletes the ping whenever PostSend has returned false:
\* it was deleted already, or it is still queued.
DeleteRefusedPing ==
  /\ refused # NoMsg
  /\ refused' = NoMsg
  /\ Use({refused}) /\ Delete({refused})
  /\ UNCHANGED <<sessVars, queueVars, posted, posting>>

-----------------------------------------------------------------------------
(***************************************************************************)
(* CThreadMgr::Run with a completion of this session                       *)
(***************************************************************************)
FirstAsSet(q) == IF q = <<>> THEN {} ELSE {Head(q)}

\* Mutant: the bytes of the message sent stay counted.
BytesWithout(size) == cur

BytesAfter(size) == IF cur >= size THEN cur - size ELSE 0

\* OnSendCompleted pops the front, whatever it is.  A next send takes a
\* reference of its own, and that of the completed one is never released.
OnSendCompleted ==
  LET sent   == FirstAsSet(queue)
      rest   == IF queue = <<>> THEN <<>> ELSE Tail(queue)
      others == Tail(flight)
  IN
  /\ flight # <<>>
  /\ queue' = rest
  /\ cur' = IF queue = <<>> THEN cur ELSE BytesAfter(Size[Head(queue)])
  /\ Use(sent \cup FirstAsSet(rest)) /\ Delete(sent)
  /\ \/ /\ rest = <<>>
        /\ sending' = FALSE
        /\ flight' = others
        /\ UNCHANGED <<wire, failed, leak>>
     \/ /\ rest # <<>>
        /\ \/ Starts(Head(rest), others) /\ UNCHANGED sending
           \/ Fails(others)
        /\ leak' = TRUE
  /\ UNCHANGED <<phase, inMap, open, max, early, posted, posting,
                 refused>>

\* A send or a receive completes with an error: DisconnectGracefully, and
\* the reference of the operation is never released.
SendFailed ==
  /\ flight # <<>>
  /\ flight' = Tail(flight)
  /\ leak' = TRUE
  /\ RemoveSession({})
  /\ UNCHANGED <<phase, max, cur, wire, failed, early, posted, posting,
                 refused>>

RecvFailed ==
  /\ phase = "listening"
  /\ phase' = "deaf" /\ leak' = TRUE
  /\ RemoveSession({})
  /\ UNCHANGED <<max, cur, flight, wire, failed, early, posted, posting,
                 refused>>

\* OnRecvCompleted: the stream buffer overflows, and the session is closed
\* but stays in the map.
RecvOverflow ==
  /\ phase = "listening"
  /\ phase' = "deaf"
  /\ Close({})
  /\ UNCHANGED <<inMap, max, leak, cur, flight, wire, failed, early, posted,
                 posting, refused>>

\* OnRecvCompleted: the next PostRecv fails, which nobody looks at.
RecvNotReposted ==
  /\ phase = "listening"
  /\ phase' = "deaf"
  /\ UNCHANGED <<inMap, open, max, leak, queueVars, msgVars>>

Completion ==
  OnSendCompleted \/ SendFailed \/ RecvFailed \/ RecvOverflow \/ RecvNotReposted

\* RemoveSession by a thread of the server, Update or Stop.
Disconnect ==
  /\ inMap
  /\ RemoveSession({})
  /\ UNCHANGED <<phase, max, leak, cur, flight, wire, failed, early, posted,
                 posting, refused>>

\* The last reference is released: ~CSession deletes what a late PostSend
\* left in the queue.
DeleteSession ==
  /\ phase = "deaf" /\ ~inMap /\ flight = <<>> /\ ~leak
  /\ \A t \in Posters : posting[t] = NoMsg
  /\ phase' = "gone"
  /\ Close({})
  /\ UNCHANGED <<inMap, max, leak, cur, flight, wire, failed, early, posted,
                 posting, refused>>

-----------------------------------------------------------------------------
(***************************************************************************)
(* Properties                                                              *)
(***************************************************************************)
Count(m, q) == Cardinality({i \in DOMAIN q : q[i] = m})
B2N(b) == IF b THEN 1 ELSE 0

Owners(m) == Count(m, queue) + B2N(m \in freed)
               + Cardinality({t \in Posters : posting[t] = m})

(* A message given to PostSend has one owner until it is deleted, and is
   deleted once: by PostSend when it is refused, by OnSendCompleted, or by
   Close (Session.cpp:72-80, :118-142, :219-230).  The exception is the ping
   of Update, which deletes it after PostSend may have queued it
   (NetLib.cpp:173-176): only a ping is ever used after its deletion. *)
OwnedOnce ==
  /\ crash # NoMsg => crash \in Pings
  /\ \A m \in posted : Owners(m) >= 1
  /\ \A m \in posted \ Pings : Owners(m) = 1

(* While the socket is open, m_bSending says that a send is in flight, it is
   the one send, its buffer is the front of the queue, so that its completion
   deletes the message it was sent from; and a queue that is not empty waits
   for a completion, unless WSASend failed (Session.cpp:148-173, :219-250). *)
SendsInTurn ==
  open => /\ sending <=> flight # <<>>
          /\ flight # <<>> => queue # <<>> /\ flight = <<Head(queue)>>
          /\ queue # <<>> /\ ~sending => failed

\* A message is queued at most once, so a byte of the queue is a message and
\* its place in it.
BytesOf(S) == UNION {{m} \X (1 .. Size[m]) : m \in S}
QueuedBytes == Cardinality(BytesOf(Queued))

(* While the socket is open the byte count is that of the messages queued,
   and the backlog stays within the limit unless it holds messages accepted
   before the limit was applied: the disconnection "far over" the limit
   (Session.cpp:126-143) is not for slow readers, but for those messages and
   for single messages larger than the limit. *)
BacklogAccounted ==
  open => /\ cur = QueuedBytes
          /\ Queued \cap early = {} /\ max > 0 => cur <= max

(* The send side is a FIFO channel that sends each message at most once and
   nothing after Close, as long as no deleted message is used. *)
Channel == INSTANCE SendChannel WITH
  up      <- open,
  pending <- IF ~open THEN <<>> ELSE IF flight = <<>> THEN queue ELSE Tail(queue)

ImplementsChannel == Channel!Spec

(* What is queued is sent in the end: the queue runs empty, unless a WSASend
   fails (Session.cpp:148-173, :232-255). *)
BacklogDrains == queue # <<>> ~> (queue = <<>> \/ failed \/ crash # NoMsg)

=============================================================================
