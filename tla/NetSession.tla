----------------------------- MODULE NetSession -----------------------------
(***************************************************************************)
(* Ownership of CSession objects in NetLib: the reference count that the   *)
(* session map, the overlapped operations and their completions share, the *)
(* two locks (CSessionMgr::m_mgrLock and CSession::m_sendLock) and the     *)
(* threads that use them: the IOCP workers, the accept thread, the thread  *)
(* that calls Update and Stop, and application threads.                    *)
(*                                                                         *)
(* A behaviour is followed up to its first access to a deleted session:    *)
(* ub then names the place and nothing more is claimed.  What a packet or  *)
(* a message contains is abstracted; the size of every message is one      *)
(* unit.  leak is a history variable: it counts the references whose       *)
(* release the code forgets.                                               *)
(***************************************************************************)
EXTENDS Integers, FiniteSets

CONSTANTS
  Sessions,     \* the sessions that may ever be accepted
  Workers,      \* the IOCP worker threads (CThreadMgr)
  Apps,         \* other threads of the server that send and disconnect
  Acceptor,     \* the thread of AcceptLoop
  Main,         \* the thread that calls Update and Stop
  NoOne,        \* the holder of a free lock
  MaxQueue,     \* m_dwMaxSendQueueBytes, in messages
  MaxPosts      \* bound: how many messages the whole server posts

Threads == Workers \cup Apps \cup {Acceptor, Main}

ASSUME ThreadsAssumption ==
  /\ IsFiniteSet(Threads)
  /\ Workers \cap Apps = {}
  /\ Acceptor \notin Workers \cup Apps
  /\ Main \notin Workers \cup Apps
  /\ Acceptor # Main
  /\ NoOne \notin Threads

ASSUME BoundsAssumption == MaxQueue \in Nat /\ MaxPosts \in Nat

ASSUME SessionsAssumption == Sessions # {}

VARIABLES
  sessionMap,   \* CSessionMgr::m_sessionMap, as the set of its sessions
  life,         \* whether the object was created and deleted
  refCnt,       \* m_lRefCnt
  open,         \* m_hSocket # INVALID_SOCKET
  stamped,      \* m_dwLastActive # 0
  queue,        \* length of m_sendQueue
  curBytes,     \* m_nCurSendQueueBytes
  maxBytes,     \* m_nMaxSendQueueBytes
  sending,      \* m_bSending
  recvIO,       \* overlapped receives issued and not yet dequeued
  sendIO,       \* overlapped sends issued and not yet dequeued
  mgrLock,      \* holder of m_mgrLock
  sendLock,     \* holder of m_sendLock across a blocking call
  pc,           \* where each thread is
  frame,        \* the outermost NetLib function on its stack
  at,           \* the session its stack refers to
  snap,         \* the vector filled by GetAllSessions in Update
  running,      \* CNetLib::m_bIsRunning
  working,      \* CThreadMgr::m_bRunning
  posts,        \* messages posted so far
  leak,         \* history: references never released
  ub            \* "none", or where a deleted session was used

ioVars     == <<recvIO, sendIO>>
queueVars  == <<queue, curBytes, sending>>
objVars    == <<life, refCnt, leak>>
lockVars   == <<mgrLock, sendLock>>
threadVars == <<pc, frame, at>>
ctlVars    == <<snap, running, working, posts, ub>>
data == <<sessionMap, objVars, open, stamped, queueVars, maxBytes, ioVars>>
vars == <<data, lockVars, threadVars, ctlVars>>

(***************************************************************************)
(* Control: places that read or write through a CSession pointer.          *)
(***************************************************************************)
RecvSites   == {"recv.copy", "recv.over", "recv.parse", "recv.release"}
RemoveSites == {"rm.close", "rm.release"}
RawSites    == {"acc.bind", "acc.policy", "acc.fail", "post", "ps.check",
                "ps.lock", "ps.far", "disc", "disc.id", "upd.visit",
                "upd.mark"}
TouchSites  == RecvSites \cup RemoveSites \cup RawSites
                 \cup {"send.done", "issue"}
OtherSites  == {"idle", "acc.conn", "rm.lock", "upd.loop", "stop.accept",
                "stop.workers", "stop.lock", "stop.loop", "stopped"}
Frames == {"none", "recv", "send", "fail", "acc", "conn", "app", "time",
           "upd", "stop"}

ObjectTypeOK ==
  /\ sessionMap \subseteq Sessions
  /\ life \in [Sessions -> {"none", "live", "freed"}]
  /\ refCnt \in [Sessions -> Nat]
  /\ leak \in [Sessions -> Nat]
  /\ recvIO \in [Sessions -> Nat]
  /\ sendIO \in [Sessions -> Nat]

StateTypeOK ==
  /\ open \in [Sessions -> BOOLEAN]
  /\ stamped \in [Sessions -> BOOLEAN]
  /\ queue \in [Sessions -> Nat]
  /\ curBytes \in [Sessions -> Nat]
  /\ maxBytes \in [Sessions -> Nat]
  /\ sending \in [Sessions -> BOOLEAN]

ThreadTypeOK ==
  /\ pc \in [Threads -> TouchSites \cup OtherSites]
  /\ frame \in [Threads -> Frames]
  /\ at \in [Threads -> Sessions]

ControlTypeOK ==
  /\ mgrLock \in Threads \cup {NoOne}
  /\ sendLock \in [Sessions -> Threads \cup {NoOne}]
  /\ snap \subseteq Sessions
  /\ running \in BOOLEAN
  /\ working \in BOOLEAN
  /\ posts \in Nat
  /\ ub \in {"none", "send.leave"} \cup TouchSites

TypeOK == ObjectTypeOK /\ StateTypeOK /\ ThreadTypeOK /\ ControlTypeOK

Init ==
  /\ sessionMap = {}
  /\ life = [s \in Sessions |-> "none"]
  /\ refCnt = [s \in Sessions |-> 0]
  /\ leak = [s \in Sessions |-> 0]
  /\ open = [s \in Sessions |-> FALSE]
  /\ stamped = [s \in Sessions |-> FALSE]
  /\ queue = [s \in Sessions |-> 0]
  /\ curBytes = [s \in Sessions |-> 0]
  /\ maxBytes = [s \in Sessions |-> 0]
  /\ sending = [s \in Sessions |-> FALSE]
  /\ recvIO = [s \in Sessions |-> 0]
  /\ sendIO = [s \in Sessions |-> 0]
  /\ mgrLock = NoOne
  /\ sendLock = [s \in Sessions |-> NoOne]
  /\ pc = [t \in Threads |-> "idle"]
  /\ frame = [t \in Threads |-> "none"]
  /\ at = [t \in Threads |-> CHOOSE s \in Sessions : TRUE]
  /\ snap = {}
  /\ running = TRUE
  /\ working = TRUE
  /\ posts = 0
  /\ ub = "none"

\* Thread t stands at p, and p may use the session that t refers to.
Is(t, p) ==
  /\ ub = "none"
  /\ pc[t] = p
  /\ p \in TouchSites => life[at[t]] = "live"

\* Thread t goes to p within the same outermost function.
Goto(t, p) == pc' = [pc EXCEPT ![t] = p] /\ UNCHANGED <<frame, at>>

\* Thread t calls, from its idle loop, a function f about session s.
Enter(t, f, s, p) ==
  /\ pc' = [pc EXCEPT ![t] = p]
  /\ frame' = [frame EXCEPT ![t] = f]
  /\ at' = [at EXCEPT ![t] = s]

\* Where a nested call (PostSend, RemoveSession) returns to.
After(f) ==
  CASE f = "recv" -> "recv.parse"
    [] f = "conn" -> "acc.conn"
    [] f = "upd"  -> "upd.loop"
    [] f = "stop" -> "stop.loop"
    [] OTHER      -> "idle"

\* Thread t goes to p, which is "idle" when the outermost function returns.
Return(t, p) ==
  /\ pc' = [pc EXCEPT ![t] = p]
  /\ frame' = [frame EXCEPT ![t] = IF p = "idle" THEN "none" ELSE @]
  /\ UNCHANGED at

(***************************************************************************)
(* CSession::Close, AddRef and Release                                     *)
(***************************************************************************)
Close(s) ==
  /\ open' = [open EXCEPT ![s] = FALSE]
  /\ queue' = [queue EXCEPT ![s] = 0]
  /\ sending' = [sending EXCEPT ![s] = FALSE]
  /\ stamped' = [stamped EXCEPT ![s] = FALSE]

AddRef(s) == refCnt' = [refCnt EXCEPT ![s] = @ + 1]

Last(s) == refCnt[s] = 1

\* Thread t releases s: the last reference deletes the object, whose
\* destructor calls Close and so waits for m_sendLock.
Release(t, s) ==
  /\ Last(s) => sendLock[s] \in {NoOne, t}
  /\ refCnt' = [refCnt EXCEPT ![s] = @ - 1]
  /\ life' = [life EXCEPT ![s] = IF Last(s) THEN "freed" ELSE @]
  /\ open' = [open EXCEPT ![s] = @ /\ ~Last(s)]

(***************************************************************************)
(* CSessionMgr::RemoveSession: m_mgrLock is held from the erase to the     *)
(* release, and Close waits for m_sendLock in between.                     *)
(***************************************************************************)
RemoveReturn(t) == IF sendLock[at[t]] = t THEN "ps.far" ELSE After(frame[t])

RemoveErase(t) ==
  /\ Is(t, "rm.lock")
  /\ mgrLock = NoOne
  /\ \/ /\ at[t] \in sessionMap
        /\ sessionMap' = sessionMap \ {at[t]}
        /\ mgrLock' = t
        /\ Goto(t, "rm.close")
     \/ /\ at[t] \notin sessionMap
        /\ Return(t, RemoveReturn(t))
        /\ UNCHANGED <<sessionMap, mgrLock>>
  /\ UNCHANGED <<objVars, open, stamped, queueVars, maxBytes, ioVars,
                 sendLock, ctlVars>>

RemoveClose(t) ==
  /\ Is(t, "rm.close")
  /\ sendLock[at[t]] \in {NoOne, t}
  /\ Close(at[t])
  /\ Goto(t, "rm.release")
  /\ UNCHANGED <<sessionMap, objVars, curBytes, maxBytes, ioVars, lockVars,
                 ctlVars>>

\* Mutant: m_mgrLock is not left.
RemoveReleaseKeepsLock(t) ==
  /\ Is(t, "rm.release")
  /\ Release(t, at[t])
  /\ Return(t, RemoveReturn(t))
  /\ UNCHANGED <<sessionMap, leak, stamped, queueVars, maxBytes, ioVars,
                 lockVars, ctlVars>>

RemoveRelease(t) ==
  /\ Is(t, "rm.release")
  /\ Release(t, at[t])
  /\ mgrLock' = IF frame[t] = "stop" THEN t ELSE NoOne
  /\ Return(t, RemoveReturn(t))
  /\ UNCHANGED <<sessionMap, leak, stamped, queueVars, maxBytes, ioVars,
                 sendLock, ctlVars>>

(***************************************************************************)
(* CSession::DisconnectGracefully: OnClientDisconnected, then              *)
(* RemoveSession; m_dwSessionID is read before and after the callback.     *)
(***************************************************************************)
DisconnectNotify(t) ==
  /\ Is(t, "disc")
  /\ Goto(t, "disc.id")
  /\ UNCHANGED <<data, lockVars, ctlVars>>

DisconnectRemove(t) ==
  /\ Is(t, "disc.id")
  /\ Goto(t, "rm.lock")
  /\ UNCHANGED <<data, lockVars, ctlVars>>

(***************************************************************************)
(* CSession::PostSend: the socket is tested before m_sendLock is taken.    *)
(***************************************************************************)
SendReturn(t, ok) ==
  Return(t, IF ok /\ frame[t] = "upd" THEN "upd.mark" ELSE After(frame[t]))

PostSendCheck(t) ==
  /\ Is(t, "ps.check")
  /\ IF open[at[t]] THEN Goto(t, "ps.lock") ELSE SendReturn(t, FALSE)
  /\ UNCHANGED <<data, lockVars, ctlVars>>

OverLimit(s) == maxBytes[s] > 0 /\ curBytes[s] + 1 > maxBytes[s]
FarOver(s)   == curBytes[s] + 1 > 2 * maxBytes[s]

\* Over the limit: the message is deleted; far over it, the session is
\* disconnected while m_sendLock is held.
PostSendRefuse(t) ==
  /\ Is(t, "ps.lock")
  /\ sendLock[at[t]] = NoOne
  /\ OverLimit(at[t])
  /\ IF FarOver(at[t])
     THEN /\ sendLock' = [sendLock EXCEPT ![at[t]] = t]
          /\ Goto(t, "disc")
     ELSE /\ SendReturn(t, FALSE)
          /\ UNCHANGED sendLock
  /\ UNCHANGED <<data, mgrLock, ctlVars>>

PostSendFar(t) ==
  /\ Is(t, "ps.far")
  /\ sendLock' = [sendLock EXCEPT ![at[t]] = NoOne]
  /\ SendReturn(t, FALSE)
  /\ UNCHANGED <<data, mgrLock, ctlVars>>

\* Mutant: the send is started without a reference of its own.
StartSendNoRef(s) ==
  /\ open[s]
  /\ sending' = [sending EXCEPT ![s] = TRUE]
  /\ sendIO' = [sendIO EXCEPT ![s] = @ + 1]
  /\ UNCHANGED refCnt

\* Mutant: m_bSending is not set.
StartSendUnmarked(s) ==
  /\ open[s]
  /\ sendIO' = [sendIO EXCEPT ![s] = @ + 1]
  /\ AddRef(s)
  /\ UNCHANGED sending

\* WSASend of the front message succeeds: AddRef stays for the completion.
StartSend(s) ==
  /\ open[s]
  /\ sending' = [sending EXCEPT ![s] = TRUE]
  /\ sendIO' = [sendIO EXCEPT ![s] = @ + 1]
  /\ AddRef(s)

\* WSASend fails: AddRef is undone, the message stays in the queue.
FailSend(s) ==
  /\ sending' = [sending EXCEPT ![s] = FALSE]
  /\ UNCHANGED <<sendIO, refCnt>>

PostSendQueue(t) ==
  LET s == at[t] IN
  /\ Is(t, "ps.lock")
  /\ sendLock[s] = NoOne
  /\ ~OverLimit(s)
  /\ queue' = [queue EXCEPT ![s] = @ + 1]
  /\ curBytes' = [curBytes EXCEPT ![s] = @ + 1]
  /\ \/ /\ sending[s]
        /\ SendReturn(t, TRUE)
        /\ UNCHANGED <<sending, sendIO, refCnt, stamped>>
     \/ /\ ~sending[s]
        /\ stamped' = [stamped EXCEPT ![s] = TRUE]
        /\ \/ StartSend(s) /\ SendReturn(t, TRUE)
           \/ FailSend(s) /\ SendReturn(t, FALSE)
  /\ UNCHANGED <<sessionMap, life, leak, open, maxBytes, recvIO, lockVars,
                 ctlVars>>

(***************************************************************************)
(* CSession::PostRecv, called by OnRecvCompleted and by AcceptLoop         *)
(***************************************************************************)
RecvReturn(t, ok) ==
  IF frame[t] = "recv" THEN "recv.release"
  ELSE IF ok THEN "idle" ELSE "acc.fail"

\* Mutant: the receive is posted without a reference of its own.
PostRecvCheckNoRef(t) ==
  /\ Is(t, "post")
  /\ IF open[at[t]]
     THEN /\ stamped' = [stamped EXCEPT ![at[t]] = TRUE]
          /\ Goto(t, "issue")
     ELSE /\ Return(t, RecvReturn(t, FALSE))
          /\ UNCHANGED stamped
  /\ UNCHANGED <<sessionMap, objVars, open, queueVars, maxBytes, ioVars,
                 lockVars, ctlVars>>

PostRecvCheck(t) ==
  /\ Is(t, "post")
  /\ IF open[at[t]]
     THEN /\ AddRef(at[t])
          /\ stamped' = [stamped EXCEPT ![at[t]] = TRUE]
          /\ Goto(t, "issue")
     ELSE /\ Return(t, RecvReturn(t, FALSE))
          /\ UNCHANGED <<refCnt, stamped>>
  /\ UNCHANGED <<sessionMap, life, leak, open, queueVars, maxBytes, ioVars,
                 lockVars, ctlVars>>

PostRecvIssue(t) ==
  LET s == at[t] IN
  /\ Is(t, "issue")
  /\ \/ /\ open[s]
        /\ recvIO' = [recvIO EXCEPT ![s] = @ + 1]
        /\ Return(t, RecvReturn(t, TRUE))
        /\ UNCHANGED <<refCnt, life, open>>
     \/ /\ Release(t, s)
        /\ Return(t, RecvReturn(t, FALSE))
        /\ UNCHANGED recvIO
  /\ UNCHANGED <<sessionMap, leak, stamped, queueVars, maxBytes, sendIO,
                 lockVars, ctlVars>>

(***************************************************************************)
(* CThreadMgr::Run: a worker dequeues a completion.  A completion that     *)
(* failed or carries no byte goes to DisconnectGracefully, and the         *)
(* reference taken for the operation is never released.                    *)
(***************************************************************************)
RecvCompletes(w, s) ==
  /\ Is(w, "idle")
  /\ working
  /\ recvIO[s] > 0
  /\ recvIO' = [recvIO EXCEPT ![s] = @ - 1]
  /\ Enter(w, "recv", s, "recv.copy")
  /\ UNCHANGED <<sessionMap, objVars, open, stamped, queueVars, maxBytes,
                 sendIO, lockVars, ctlVars>>

SendCompletes(w, s) ==
  /\ Is(w, "idle")
  /\ working
  /\ sendIO[s] > 0
  /\ sendIO' = [sendIO EXCEPT ![s] = @ - 1]
  /\ Enter(w, "send", s, "send.done")
  /\ UNCHANGED <<sessionMap, objVars, open, stamped, queueVars, maxBytes,
                 recvIO, lockVars, ctlVars>>

IoFails(w, s) ==
  /\ Is(w, "idle")
  /\ working
  /\ \/ /\ recvIO[s] > 0
        /\ recvIO' = [recvIO EXCEPT ![s] = @ - 1]
        /\ UNCHANGED sendIO
     \/ /\ sendIO[s] > 0
        /\ sendIO' = [sendIO EXCEPT ![s] = @ - 1]
        /\ UNCHANGED recvIO
  /\ leak' = [leak EXCEPT ![s] = @ + 1]
  /\ Enter(w, "fail", s, "disc")
  /\ UNCHANGED <<sessionMap, life, refCnt, open, stamped, queueVars,
                 maxBytes, lockVars, ctlVars>>

(***************************************************************************)
(* CSession::OnRecvCompleted                                               *)
(***************************************************************************)

RecvCopy(w) ==
  /\ Is(w, "recv.copy")
  /\ \/ /\ stamped' = [stamped EXCEPT ![at[w]] = TRUE]
        /\ Goto(w, "recv.parse")
     \/ Goto(w, "recv.over") /\ UNCHANGED stamped
  /\ UNCHANGED <<sessionMap, objVars, open, queueVars, maxBytes, ioVars,
                 lockVars, ctlVars>>

\* Stream buffer overflow: Close, and the session stays in the map.
RecvOverflow(w) ==
  /\ Is(w, "recv.over")
  /\ sendLock[at[w]] = NoOne
  /\ Close(at[w])
  /\ Goto(w, "recv.release")
  /\ UNCHANGED <<sessionMap, objVars, curBytes, maxBytes, ioVars, lockVars,
                 ctlVars>>

\* ProcessIncomingStream has no complete packet left.
ParseDone(w) ==
  /\ Is(w, "recv.parse")
  /\ Goto(w, "post")
  /\ UNCHANGED <<data, lockVars, ctlVars>>

\* Mutant: an early return skips the release.
RecvReleaseSkipped(w) ==
  /\ Is(w, "recv.release")
  /\ Return(w, "idle")
  /\ UNCHANGED <<data, lockVars, ctlVars>>

RecvRelease(w) ==
  /\ Is(w, "recv.release")
  /\ Release(w, at[w])
  /\ Return(w, "idle")
  /\ UNCHANGED <<sessionMap, leak, stamped, queueVars, maxBytes, ioVars,
                 lockVars, ctlVars>>

\* OnPacketReceived and OnClientConnected are code of the server: it may
\* send to the session, or remove it, before it returns.
CallbackSend(t) ==
  /\ Is(t, "recv.parse") \/ Is(t, "acc.conn")
  /\ mgrLock = NoOne
  /\ at[t] \in sessionMap
  /\ posts < MaxPosts
  /\ posts' = posts + 1
  /\ Goto(t, "ps.check")
  /\ UNCHANGED <<data, lockVars, snap, running, working, ub>>

CallbackRemove(t) ==
  /\ Is(t, "recv.parse") \/ Is(t, "acc.conn")
  /\ Goto(t, "rm.lock")
  /\ UNCHANGED <<data, lockVars, ctlVars>>

(***************************************************************************)
(* CSession::OnSendCompleted, under m_sendLock                             *)
(***************************************************************************)
PopSent(s) ==
  /\ queue' = [queue EXCEPT ![s] = IF @ > 0 THEN @ - 1 ELSE 0]
  /\ curBytes' = [curBytes EXCEPT ![s] =
                    IF queue[s] > 0 /\ @ > 0 THEN @ - 1 ELSE @]
  /\ stamped' = [stamped EXCEPT ![s] = TRUE]

\* A next message is sent with a reference of its own; the reference of the
\* completed operation is not released.
SendNext(w) ==
  LET s == at[w] IN
  /\ Is(w, "send.done")
  /\ sendLock[s] = NoOne
  /\ queue[s] > 1
  /\ PopSent(s)
  /\ StartSend(s) \/ FailSend(s)
  /\ leak' = [leak EXCEPT ![s] = @ + 1]
  /\ Return(w, "idle")
  /\ UNCHANGED <<sessionMap, life, open, maxBytes, recvIO, lockVars, ctlVars>>

\* The queue is drained: the release may delete the session whose lock the
\* scoped guard is still to leave.
SendDrained(w) ==
  LET s == at[w] IN
  /\ Is(w, "send.done")
  /\ sendLock[s] = NoOne
  /\ queue[s] <= 1
  /\ PopSent(s)
  /\ sending' = [sending EXCEPT ![s] = FALSE]
  /\ Release(w, s)
  /\ ub' = IF Last(s) THEN "send.leave" ELSE ub
  /\ Return(w, "idle")
  /\ UNCHANGED <<sessionMap, leak, maxBytes, ioVars, lockVars, snap, running,
                 working, posts>>

(***************************************************************************)
(* CNetLib::AcceptLoop                                                     *)
(***************************************************************************)
CreateSession(s) ==
  /\ Is(Acceptor, "idle")
  /\ running
  /\ mgrLock = NoOne
  /\ life[s] = "none"
  /\ life' = [life EXCEPT ![s] = "live"]
  /\ refCnt' = [refCnt EXCEPT ![s] = 1]
  /\ open' = [open EXCEPT ![s] = TRUE]
  /\ stamped' = [stamped EXCEPT ![s] = TRUE]
  /\ sessionMap' = sessionMap \cup {s}
  /\ Enter(Acceptor, "conn", s, "acc.bind")
  /\ UNCHANGED <<leak, queueVars, maxBytes, ioVars, lockVars, ctlVars>>

BindSocket ==
  /\ Is(Acceptor, "acc.bind")
  /\ \/ Goto(Acceptor, "acc.conn")
     \/ Enter(Acceptor, "acc", at[Acceptor], "rm.lock")
  /\ UNCHANGED <<data, lockVars, ctlVars>>

ConnectedReturns ==
  /\ Is(Acceptor, "acc.conn")
  /\ Enter(Acceptor, "acc", at[Acceptor], "acc.policy")
  /\ UNCHANGED <<data, lockVars, ctlVars>>

\* The send limit is applied only after OnClientConnected has returned.
ApplyPolicy ==
  /\ Is(Acceptor, "acc.policy")
  /\ maxBytes' = [maxBytes EXCEPT ![at[Acceptor]] = MaxQueue]
  /\ Goto(Acceptor, "post")
  /\ UNCHANGED <<sessionMap, objVars, open, stamped, queueVars, ioVars,
                 lockVars, ctlVars>>

AcceptFails ==
  /\ Is(Acceptor, "acc.fail")
  /\ Goto(Acceptor, "rm.lock")
  /\ UNCHANGED <<data, lockVars, ctlVars>>

(***************************************************************************)
(* Application threads: GetSession hands out a pointer without a reference *)
(***************************************************************************)
AppSend(a, s) ==
  /\ Is(a, "idle")
  /\ mgrLock = NoOne
  /\ s \in sessionMap
  /\ posts < MaxPosts
  /\ posts' = posts + 1
  /\ Enter(a, "app", s, "ps.check")
  /\ UNCHANGED <<data, lockVars, snap, running, working, ub>>

AppRemove(a, s) ==
  /\ Is(a, "idle")
  /\ life[s] # "none"
  /\ Enter(a, "app", s, "rm.lock")
  /\ UNCHANGED <<data, lockVars, ctlVars>>

(***************************************************************************)
(* CNetLib::Update.  Time is abstracted: a session whose m_dwLastActive is *)
(* set may always have exceeded a timeout.                                 *)
(***************************************************************************)
TimeOut(s) ==
  /\ Is(Main, "idle")
  /\ mgrLock = NoOne
  /\ s \in sessionMap /\ stamped[s]
  /\ Enter(Main, "time", s, "rm.lock")
  /\ UNCHANGED <<data, lockVars, ctlVars>>

GetAllSessions ==
  /\ Is(Main, "idle")
  /\ mgrLock = NoOne
  /\ snap' = sessionMap
  /\ Enter(Main, "upd", at[Main], "upd.loop")
  /\ UNCHANGED <<data, lockVars, running, working, posts, ub>>

UpdateNext(s) ==
  /\ Is(Main, "upd.loop")
  /\ s \in snap
  /\ snap' = snap \ {s}
  /\ Enter(Main, "upd", s, "upd.visit")
  /\ UNCHANGED <<data, lockVars, running, working, posts, ub>>

\* Nothing is due, a probe is sent, or the probe was missed.
UpdateVisit ==
  /\ Is(Main, "upd.visit")
  /\ \/ Goto(Main, "upd.loop") /\ UNCHANGED posts
     \/ /\ stamped[at[Main]]
        /\ posts < MaxPosts
        /\ posts' = posts + 1
        /\ Goto(Main, "ps.check")
     \/ /\ stamped[at[Main]]
        /\ Goto(Main, "disc")
        /\ UNCHANGED posts
  /\ UNCHANGED <<data, lockVars, snap, running, working, ub>>

UpdateMark ==
  /\ Is(Main, "upd.mark")
  /\ Goto(Main, "upd.loop")
  /\ UNCHANGED <<data, lockVars, ctlVars>>

UpdateDone ==
  /\ Is(Main, "upd.loop")
  /\ snap = {}
  /\ Return(Main, "idle")
  /\ UNCHANGED <<data, lockVars, ctlVars>>

(***************************************************************************)
(* CNetLib::Stop: join the accept thread, join the workers, CloseAll       *)
(***************************************************************************)
StopBegin ==
  /\ Is(Main, "idle")
  /\ running
  /\ running' = FALSE
  /\ Enter(Main, "stop", at[Main], "stop.accept")
  /\ UNCHANGED <<data, lockVars, snap, working, posts, ub>>

StopJoinAccept ==
  /\ Is(Main, "stop.accept")
  /\ pc[Acceptor] = "idle"
  /\ working' = FALSE
  /\ Goto(Main, "stop.workers")
  /\ UNCHANGED <<data, lockVars, snap, running, posts, ub>>

StopJoinWorkers ==
  /\ Is(Main, "stop.workers")
  /\ \A w \in Workers : pc[w] = "idle"
  /\ Goto(Main, "stop.lock")
  /\ UNCHANGED <<data, lockVars, ctlVars>>

CloseAllLock ==
  /\ Is(Main, "stop.lock")
  /\ mgrLock = NoOne
  /\ mgrLock' = Main
  /\ Goto(Main, "stop.loop")
  /\ UNCHANGED <<data, sendLock, ctlVars>>

CloseAllNext(s) ==
  /\ Is(Main, "stop.loop")
  /\ s \in sessionMap
  /\ sessionMap' = sessionMap \ {s}
  /\ Enter(Main, "stop", s, "rm.close")
  /\ UNCHANGED <<objVars, open, stamped, queueVars, maxBytes, ioVars,
                 lockVars, ctlVars>>

CloseAllDone ==
  /\ Is(Main, "stop.loop")
  /\ sessionMap = {}
  /\ mgrLock' = NoOne
  /\ Goto(Main, "stopped")
  /\ UNCHANGED <<data, sendLock, ctlVars>>

(***************************************************************************)
(* A thread uses a session that has been deleted: undefined from here on.  *)
(***************************************************************************)
UseAfterFree(t) ==
  /\ ub = "none"
  /\ pc[t] \in TouchSites
  /\ life[at[t]] = "freed"
  /\ ub' = pc[t]
  /\ UNCHANGED <<data, lockVars, threadVars, snap, running, working, posts>>

AnyThread(t) ==
  \/ RemoveErase(t) \/ RemoveClose(t) \/ RemoveRelease(t)
  \/ DisconnectNotify(t) \/ DisconnectRemove(t)
  \/ PostSendCheck(t) \/ PostSendRefuse(t) \/ PostSendFar(t)
  \/ PostSendQueue(t) \/ PostRecvCheck(t) \/ PostRecvIssue(t)
  \/ UseAfterFree(t)

Worker(w) ==
  \/ \E s \in Sessions : RecvCompletes(w, s) \/ SendCompletes(w, s)
                           \/ IoFails(w, s)
  \/ RecvCopy(w) \/ RecvOverflow(w) \/ ParseDone(w) \/ RecvRelease(w)
  \/ SendNext(w) \/ SendDrained(w)

Callback(t) == CallbackSend(t) \/ CallbackRemove(t)

Accept ==
  \/ \E s \in Sessions : CreateSession(s)
  \/ BindSocket \/ ConnectedReturns \/ ApplyPolicy \/ AcceptFails

App(a) == \E s \in Sessions : AppSend(a, s) \/ AppRemove(a, s)

Update ==
  \/ \E s \in Sessions : TimeOut(s) \/ UpdateNext(s)
  \/ GetAllSessions \/ UpdateVisit \/ UpdateMark \/ UpdateDone

Stop ==
  \/ StopBegin \/ StopJoinAccept \/ StopJoinWorkers
  \/ CloseAllLock \/ CloseAllDone
  \/ \E s \in Sessions : CloseAllNext(s)

Next ==
  \/ \E t \in Threads : AnyThread(t)
  \/ \E t \in Workers \cup {Acceptor} : Callback(t)
  \/ \E w \in Workers : Worker(w)
  \/ \E a \in Apps : App(a)
  \/ Accept \/ Update \/ Stop

Spec == Init /\ [][Next]_vars

(***************************************************************************)
(* Fairness: the operating system runs every thread that is not blocked;   *)
(* an operation completes, with success or failure; the bytes of one       *)
(* receive hold finitely many packets, so the parse loop ends however      *)
(* often OnPacketReceived is called, and OnClientConnected returns.        *)
(* Nobody is obliged to connect, to send, to remove a session or to stop   *)
(* the server.                                                             *)
(***************************************************************************)
Fairness ==
  /\ \A t \in Threads : WF_vars(AnyThread(t))
  /\ \A w \in Workers : WF_vars(Worker(w)) /\ SF_vars(ParseDone(w))
  /\ WF_vars(BindSocket \/ ApplyPolicy \/ AcceptFails)
  /\ SF_vars(ConnectedReturns)
  /\ WF_vars(Update)
  /\ WF_vars(Stop /\ ~StopBegin)

FairSpec == Spec /\ Fairness
-----------------------------------------------------------------------------
(***************************************************************************)
(* Who holds a reference to s: a worker that serves a completion has that  *)
(* of the operation, RemoveSession that of the map, PostRecv that of the   *)
(* receive it is about to issue.                                           *)
(***************************************************************************)
Serves(t, s)  == frame[t] \in {"recv", "send"} /\ at[t] = s
Removes(t, s) == pc[t] \in RemoveSites /\ at[t] = s
Issues(t, s)  == pc[t] = "issue" /\ at[t] = s

HeldByThreads(s) == Cardinality({t \in Threads : Serves(t, s)})
                      + Cardinality({t \in Threads : Removes(t, s)})
                      + Cardinality({t \in Threads : Issues(t, s)})

B2N(b) == IF b THEN 1 ELSE 0

(* The reference count is exactly what the owners hold plus what was leaked:
   AddRef and Release (Session.cpp:28-41) pair up on every path through
   PostSend, PostRecv, the completions, RemoveSession and CloseAll, but for
   the two places that leak counts. *)
RefExact ==
  \A s \in Sessions :
    refCnt[s] = B2N(s \in sessionMap) + recvIO[s] + sendIO[s] + leak[s]
                  + HeldByThreads(s)

Unowned(s) == /\ s \notin sessionMap /\ recvIO[s] = 0 /\ sendIO[s] = 0
              /\ HeldByThreads(s) = 0

(* A session that was created is deleted exactly when it has no owner any
   more and none of its references was leaked. *)
FreedExactly ==
  \A s \in Sessions : life[s] # "none" =>
    (life[s] = "freed" <=> Unowned(s) /\ leak[s] = 0)

(* No session is deleted under an owner: while it is in the map, has an
   operation in the kernel, or is used by a worker or by RemoveSession, the
   object exists (Session.cpp:33-41, "delete this"). *)
NoFreedOwner ==
  /\ \A s \in Sessions :
       s \in sessionMap \/ recvIO[s] > 0 \/ sendIO[s] > 0 => life[s] = "live"
  /\ \A t \in Threads :
       frame[t] \in {"recv", "send", "fail"} \/ pc[t] \in RemoveSites
         => life[at[t]] = "live"

(* Use after free is confined to the threads that hold a pointer without a
   reference (GetSession, GetAllSessions, AcceptLoop) and to the guard that
   leaves m_sendLock after the last release of OnSendCompleted. *)
UseAfterFreeSites ==
  ub \in {"none", "send.leave"} \cup RawSites

(* At most one overlapped operation of each kind per session: the one
   m_sendOverlapped is armed again only when its send has completed, while the
   socket is open (m_bSending, Session.cpp:148 and :232), and m_recvBuffer has
   one writer: a receive is issued by AcceptLoop or by the worker that served
   the previous one (Session.cpp:88-110). *)
OneOperationOfEach ==
  \A s \in Sessions :
    /\ open[s] => /\ sendIO[s] <= 1
                  /\ sendIO[s] = 1 => sending[s]
    /\ recvIO[s] + Cardinality({t \in Threads :
                     /\ at[t] = s
                     /\ pc[t] # "recv.release"
                     /\ frame[t] = "recv" \/ pc[t] = "issue"}) <= 1

(***************************************************************************)
(* Who waits for whom: for a lock another thread holds (the guards of the  *)
(* actions that take or pass m_mgrLock and m_sendLock, among them the last *)
(* release, whose destructor calls Close), or in a join of Stop.  Calls    *)
(* that wait for m_mgrLock before they begin (GetSession, GetAllSessions,  *)
(* CreateSession) hold nothing, so nobody waits for them.                  *)
(***************************************************************************)
MgrLockSites  == {"rm.lock", "stop.lock"}
SendLockSites == {"ps.lock", "rm.close", "recv.over", "send.done"}
DeletesNext(t) ==
  /\ Last(at[t])
  /\ \/ pc[t] \in {"rm.release", "recv.release"}
     \/ pc[t] = "issue" /\ ~open[at[t]]

WaitsFor(t, u) ==
  /\ u # t
  /\ \/ pc[t] \in MgrLockSites /\ mgrLock = u
     \/ pc[t] \in SendLockSites /\ sendLock[at[t]] = u
     \/ DeletesNext(t) /\ sendLock[at[t]] = u
     \/ pc[t] = "stop.accept" /\ u = Acceptor /\ pc[u] # "idle"
     \/ pc[t] = "stop.workers" /\ u \in Workers /\ pc[u] # "idle"

\* No thread of D goes on before another one of D does.
Deadlocked(D) == D # {} /\ \A t \in D : \E u \in D : WaitsFor(t, u)

\* h removes the session s, with m_mgrLock held, and needs its m_sendLock;
\* u disconnects s from PostSend, with m_sendLock held, and needs m_mgrLock.
LocksCross(h, u) ==
  /\ mgrLock = h /\ pc[h] \in RemoveSites
  /\ at[h] = at[u]
  /\ sendLock[at[u]] = u /\ pc[u] = "rm.lock"

(* The two locks are taken in opposite orders only by RemoveSession (or
   CloseAll) and by the disconnect of a sender far over the limit
   (Session.cpp:137, SessionMgr.cpp:67-77): whatever threads wait for each
   other, in locks, last releases and the joins of Stop, such a pair on one
   session is among them.  No other combination of calls can deadlock. *)
DeadlocksCross ==
  \A D \in SUBSET Threads :
    Deadlocked(D) => \E h, u \in D : LocksCross(h, u)

(* CNetLib::Stop returns: its joins and CloseAll (NetLib.cpp:121-143) wait
   for threads that all get past their locks. *)
StopTerminates == ~running ~> (pc[Main] = "stopped" \/ ub # "none")

(* While the server runs, a session removed from the map is deleted in the
   end, unless one of its references was leaked. *)
RemovedIsDeleted ==
  \A s \in Sessions :
    (life[s] = "live" /\ s \notin sessionMap)
      ~> (life[s] = "freed" \/ leak[s] > 0 \/ ~running \/ ub # "none")

(* Session.cpp:241-242 on the reference taken for a chained send: it is there
   "to ensure the session remains alive until completion".  So the completion
   of a send ends one reference, besides the one of a send it starts. *)
CompletionEndsReference ==
  [][\A w \in Workers :
       pc[w] = "send.done" /\ pc'[w] = "idle"
         => LET s == at[w] IN
            refCnt'[s] = refCnt[s] - 1 + (sendIO'[s] - sendIO[s])]_vars

=============================================================================
