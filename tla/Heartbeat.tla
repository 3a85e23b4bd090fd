------------------------------- MODULE Heartbeat -------------------------------
(***************************************************************************)
(* The clocks of one session: m_dwLastActive, which every transfer in      *)
(* either direction refreshes, and the heartbeat that CNetLib::Update      *)
(* sends, marks and judges while a worker that received data clears it.    *)
(* Neither side takes a lock for these fields.                             *)
(*                                                                         *)
(* A stream overflow closes the socket and sets m_dwLastActive to 0, but   *)
(* leaves the session in the map.                                          *)
(*                                                                         *)
(* GetTickCount counts modulo Wrap.  Time may pass between any two steps.  *)
(* idle and waited are history: how much real time has passed, up to what  *)
(* the properties tell apart, since the two time stamps were written.      *)
(***************************************************************************)
EXTENDS Integers

CONSTANTS
  Wrap,              \* 2^32, the period of GetTickCount
  SessionTimeout,    \* m_dwSessionTimeoutMs
  HeartbeatInterval, \* m_dwHeartbeatIntervalMs
  HeartbeatTimeout,  \* m_dwHeartbeatTimeoutMs
  MaxQueue,          \* m_dwMaxSendQueueBytes, in messages
  MaxLag             \* bound: the longest time between two samples by Update

ASSUME HeartbeatAssumption ==
  /\ Wrap \in Nat \ {0}
  /\ SessionTimeout \in 0 .. Wrap - 1
  /\ HeartbeatInterval \in 0 .. Wrap - 1
  /\ HeartbeatTimeout \in 0 .. Wrap - 1
  /\ MaxQueue \in Nat \ {0}
  /\ MaxLag \in Nat

VARIABLES
  tick,     \* what GetTickCount returns
  lag,      \* time since Update last read the clock
  alive,    \* the session is in the map
  last,     \* m_dwLastActive
  pending,  \* m_bHeartbeatPending
  sentAt,   \* m_dwHeartbeatSentAt
  queue,    \* how many messages m_sendQueue holds
  sending,  \* m_bSending: the first of them is in flight
  open,     \* m_hSocket # INVALID_SOCKET
  hearing,  \* a receive is in flight or being handled
  orphan,   \* a send was in flight when the socket was closed
  late,     \* a PostSend had tested the socket when it was closed
  silent,   \* from here on, neither the peer nor the server sends data
  pc,       \* where Update is
  now,      \* its last sample of the clock
  lastRead, \* its copy of m_dwLastActive
  worker,   \* where the worker that received data is
  idle,     \* history: time since m_dwLastActive was written
  waited,   \* history: time since m_dwHeartbeatSentAt was set
  idleAt,   \* history: idle when now was sampled
  touched,  \* history: m_dwLastActive was written after that
  cleared,  \* history: data cleared the heartbeat after it was marked
  clearedAt \* history: cleared when Update looked at the heartbeat

clockVars   == <<tick, lag>>
sendVars    == <<queue, sending>>
sockVars    == <<open, hearing, orphan, late>>
sessionVars == <<alive, last, pending, sentAt, sendVars, sockVars, silent>>
updateVars  == <<pc, now, lastRead>>
touchVars   == <<last, idle, touched>>
pingVars    == <<cleared, clearedAt>>
historyVars == <<idle, waited, idleAt, touched, pingVars>>
vars == <<clockVars, sessionVars, updateVars, worker, historyVars>>

Ticks == 0 .. Wrap - 1
\* No session is idle for longer than that (RemovedInTime).
MaxIdle == SessionTimeout + 3 * MaxLag

Ages  == 0 .. MaxIdle + 1
Waits == 0 .. HeartbeatTimeout + 1

TypeOK ==
  /\ tick \in Ticks /\ lag \in 0 .. MaxLag
  /\ alive \in BOOLEAN /\ last \in Ticks
  /\ pending \in BOOLEAN /\ sentAt \in Ticks
  /\ queue \in 0 .. MaxQueue
  /\ sending \in BOOLEAN /\ silent \in BOOLEAN
  /\ open \in BOOLEAN /\ hearing \in BOOLEAN
  /\ orphan \in BOOLEAN /\ late \in BOOLEAN
  /\ pc \in {"rest", "scan", "remove", "sample", "visit", "look", "ping",
             "mark", "stamp", "judge", "disconnect"}
  /\ now \in Ticks /\ lastRead \in Ticks
  /\ worker \in {"idle", "clear", "forget", "post"}
  /\ idle \in Ages /\ waited \in Waits /\ idleAt \in Ages
  /\ touched \in BOOLEAN
  /\ cleared \in BOOLEAN /\ clearedAt \in BOOLEAN

\* DWORD subtraction.
Since(t, u) == (t - u) % Wrap

Init ==
  /\ tick \in Ticks /\ last = tick
  /\ lag = 0
  /\ alive = TRUE
  /\ pending = FALSE /\ sentAt = 0
  /\ queue = 0 /\ sending = FALSE /\ silent = FALSE
  /\ open = TRUE /\ hearing = TRUE /\ orphan = FALSE /\ late = FALSE
  /\ pc = "rest" /\ now = 0 /\ lastRead = 0
  /\ worker = "idle"
  /\ idle = 0 /\ waited = 0 /\ idleAt = 0
  /\ touched = FALSE
  /\ cleared = FALSE /\ clearedAt = FALSE

Older(age, limit) == IF age <= limit THEN age + 1 ELSE age

Tick ==
  /\ lag < MaxLag
  /\ tick' = (tick + 1) % Wrap
  /\ lag' = lag + 1
  /\ idle' = Older(idle, MaxIdle)
  /\ waited' = Older(waited, HeartbeatTimeout)
  /\ UNCHANGED <<sessionVars, updateVars, worker,
                 idleAt, touched, pingVars>>

SetLast(t) ==
  /\ last' = t
  /\ idle' = 0
  /\ touched' = (touched \/ pc = "scan")

\* m_dwLastActive = ::GetTickCount()
Touch == SetLast(tick)

-----------------------------------------------------------------------------
(* Traffic. *)

\* OnRecvCompleted refreshes the session, then clears the heartbeat.
Receive ==
  /\ alive /\ hearing /\ ~silent /\ worker = "idle"
  /\ worker' = "clear"
  /\ Touch
  /\ UNCHANGED <<clockVars, alive, pending, sentAt, sendVars, sockVars, silent,
                 updateVars, waited, idleAt, cleared, clearedAt>>

ClearPending ==
  /\ worker = "clear"
  /\ worker' = "forget"
  /\ pending' = FALSE
  /\ UNCHANGED <<clockVars, alive, last, sentAt, sendVars, sockVars, silent,
                 updateVars, idle, waited, idleAt, touched, cleared, clearedAt>>

\* The second half of ClearHeartbeatPending.
ClearSentAt ==
  /\ worker = "forget"
  /\ worker' = "post"
  /\ sentAt' = 0
  /\ cleared' = TRUE
  /\ UNCHANGED <<clockVars, alive, last, pending, sendVars, sockVars, silent,
                 updateVars, idle, waited, idleAt, touched, clearedAt>>

\* PostRecv refreshes the session once more, and may fail, which nobody looks at.
PostRecv ==
  /\ worker = "post"
  /\ worker' = "idle"
  /\ hearing' \in BOOLEAN
  /\ Touch
  /\ UNCHANGED <<clockVars, alive, pending, sentAt, sendVars, open, orphan, late,
                 silent, updateVars, waited, idleAt, cleared, clearedAt>>

\* What was received does not fit: Close, and no further receive.
Overflow ==
  /\ alive /\ hearing /\ ~silent /\ worker = "idle"
  /\ open' = FALSE /\ hearing' = FALSE
  /\ orphan' = sending /\ late' \in BOOLEAN
  /\ queue' = 0 /\ sending' = FALSE
  /\ SetLast(0)
  /\ UNCHANGED <<clockVars, alive, pending, sentAt, silent, updateVars, worker,
                 waited, idleAt, pingVars>>

\* PostSend, called by the application or by Update.  The message waits
\* behind the one in flight, or WSASend takes it, or fails and leaves it queued.
Enqueue ==
  /\ queue < MaxQueue
  /\ queue' = queue + 1

SendsNow     == ~sending /\ Touch /\ sending' = TRUE
SendFailsNow == ~sending /\ Touch /\ UNCHANGED sending
Queues       == sending /\ UNCHANGED <<touchVars, sending>>

\* On a closed socket PostSend returns false, but for the one that had tested
\* it already: its WSASend fails.
SocketTested == open /\ UNCHANGED sockVars
SocketClosed == ~open /\ UNCHANGED <<touchVars, sendVars, sockVars>>
TestedBefore ==
  /\ ~open /\ late
  /\ late' = FALSE
  /\ Enqueue /\ SendFailsNow
  /\ UNCHANGED <<open, hearing, orphan>>

AppSend ==
  /\ alive
  /\ \/ SocketTested /\ ~silent /\ Enqueue /\ (SendsNow \/ SendFailsNow \/ Queues)
     \/ TestedBefore
  /\ UNCHANGED <<clockVars, alive, pending, sentAt, silent, updateVars, worker,
                 waited, idleAt, pingVars>>

\* OnSendCompleted refreshes the session and sends the next message, if any,
\* also when the socket has been closed since.
SendCompletes ==
  /\ alive /\ (sending \/ orphan)
  /\ Touch
  /\ orphan' = FALSE
  /\ queue' = IF queue = 0 THEN 0 ELSE queue - 1
  /\ \/ queue' > 0 /\ open /\ UNCHANGED sending
     \/ sending' = FALSE
  /\ UNCHANGED <<clockVars, alive, pending, sentAt, open, hearing, late, silent,
                 updateVars, worker, waited, idleAt, pingVars>>

\* A transfer in flight may fail at any time, and the worker that dequeues it
\* removes the session.
TransferFails ==
  /\ alive /\ (sending \/ orphan \/ (hearing /\ worker = "idle"))
  /\ alive' = FALSE
  /\ UNCHANGED <<clockVars, last, pending, sentAt, sendVars, sockVars, silent,
                 updateVars, worker, historyVars>>

FallSilent ==
  /\ alive /\ ~silent
  /\ silent' = TRUE
  /\ UNCHANGED <<clockVars, alive, last, pending, sentAt, sendVars, sockVars,
                 updateVars, worker, historyVars>>

-----------------------------------------------------------------------------
(* CNetLib::Update, with RemoveTimedOutSessions at its start. *)

SampleClock ==
  /\ now' = tick
  /\ lag' = 0

\* The pass over the session is over; its copies go out of scope.
EndPass ==
  /\ pc' = "rest"
  /\ now' = 0
  /\ lastRead' = 0

SampleTimeout ==
  /\ alive /\ pc = "rest"
  /\ pc' = "scan"
  /\ SampleClock
  /\ idleAt' = idle
  /\ UNCHANGED <<tick, sessionVars, lastRead, worker,
                 idle, waited, touched, pingVars>>

\* Mutant: the operands the wrong way round.
TimedOutReversed == last # 0 /\ Since(last, now) > SessionTimeout

\* Mutant: a session with a heartbeat under way is left to the heartbeat.
TimedOutUnlessPending ==
  last # 0 /\ ~pending /\ Since(now, last) > SessionTimeout

TimedOut == last # 0 /\ Since(now, last) > SessionTimeout

ScanTimeout ==
  /\ alive /\ pc = "scan"
  /\ \/ /\ TimedOut
        /\ pc' = "remove"
        /\ UNCHANGED <<idleAt, touched>>
     \/ /\ ~TimedOut
        /\ pc' = "sample"
        /\ idleAt' = 0 /\ touched' = FALSE
  /\ UNCHANGED <<clockVars, sessionVars, now, lastRead, worker,
                 idle, waited, pingVars>>

RemoveTimedOut ==
  /\ alive /\ pc = "remove"
  /\ alive' = FALSE
  /\ EndPass
  /\ UNCHANGED <<clockVars, last, pending, sentAt, sendVars, sockVars, silent, worker,
                 historyVars>>

SampleHeartbeat ==
  /\ alive /\ pc = "sample"
  /\ pc' = "visit"
  /\ SampleClock
  /\ UNCHANGED <<tick, sessionVars, lastRead, worker, historyVars>>

ReadLast ==
  /\ alive /\ pc = "visit"
  /\ \/ last = 0 /\ EndPass
     \/ last # 0 /\ pc' = "look" /\ lastRead' = last /\ UNCHANGED now
  /\ UNCHANGED <<clockVars, sessionVars, worker, historyVars>>

\* A heartbeat that is pending is judged; a session that is idle gets one.
LookAtHeartbeat ==
  /\ alive /\ pc = "look"
  /\ \/ pending /\ pc' = "judge" /\ clearedAt' = cleared
     \/ ~pending /\ pc' = "ping" /\ UNCHANGED clearedAt
  /\ UNCHANGED <<clockVars, sessionVars, now, lastRead, worker,
                 idle, waited, idleAt, touched, cleared>>

IdleForInterval == Since(now, lastRead) >= HeartbeatInterval

NoPing ==
  /\ alive /\ pc = "ping" /\ ~IdleForInterval
  /\ EndPass
  /\ UNCHANGED <<clockVars, sessionVars, worker, historyVars>>

\* PostSend returns true: the ping is in flight, or waits in the queue.
PostPing ==
  /\ alive /\ pc = "ping" /\ IdleForInterval
  /\ pc' = "mark"
  /\ SocketTested /\ Enqueue
  /\ SendsNow \/ Queues
  /\ UNCHANGED <<clockVars, alive, pending, sentAt, silent, now, lastRead,
                 worker, waited, idleAt, cleared, clearedAt>>

\* PostSend returns false: no socket, over the limit, or WSASend failed.
PingFails ==
  /\ alive /\ pc = "ping" /\ IdleForInterval
  /\ EndPass
  /\ \/ SocketClosed
     \/ SocketTested /\ queue = MaxQueue /\ UNCHANGED <<touchVars, sendVars>>
     \/ SocketTested /\ Enqueue /\ SendFailsNow
     \/ TestedBefore
  /\ UNCHANGED <<clockVars, alive, pending, sentAt, silent, worker,
                 waited, idleAt, pingVars>>

\* MarkHeartbeatSent sets one field after the other.
MarkPending ==
  /\ alive /\ pc = "mark"
  /\ pc' = "stamp"
  /\ pending' = TRUE
  /\ UNCHANGED <<clockVars, alive, last, sentAt, sendVars, sockVars, silent,
                 now, lastRead, worker, historyVars>>

StampSentAt ==
  /\ alive /\ pc = "stamp"
  /\ EndPass
  /\ sentAt' = tick
  /\ waited' = 0
  /\ cleared' = FALSE
  /\ UNCHANGED <<clockVars, alive, last, pending, sendVars, sockVars, silent,
                 worker, idle, idleAt, touched, clearedAt>>

\* Mutant: a heartbeat that was cleared in between is judged all the same.
MissedUnset == Since(now, sentAt) > HeartbeatTimeout

Missed == sentAt # 0 /\ Since(now, sentAt) > HeartbeatTimeout

JudgeHeartbeat ==
  /\ alive /\ pc = "judge"
  /\ \/ Missed /\ pc' = "disconnect" /\ UNCHANGED <<now, lastRead, clearedAt>>
     \/ ~Missed /\ EndPass /\ clearedAt' = FALSE
  /\ UNCHANGED <<clockVars, sessionVars, worker,
                 idle, waited, idleAt, touched, cleared>>

Disconnect ==
  /\ alive /\ pc = "disconnect"
  /\ alive' = FALSE
  /\ EndPass
  /\ UNCHANGED <<clockVars, last, pending, sentAt, sendVars, sockVars, silent, worker,
                 historyVars>>

Update ==
  \/ SampleTimeout \/ ScanTimeout \/ RemoveTimedOut
  \/ SampleHeartbeat \/ ReadLast \/ LookAtHeartbeat
  \/ NoPing \/ PostPing \/ PingFails \/ MarkPending \/ StampSentAt
  \/ JudgeHeartbeat \/ Disconnect

Clear == ClearPending \/ ClearSentAt \/ PostRecv

Next ==
  \/ Tick
  \/ Receive \/ Clear \/ Overflow
  \/ AppSend \/ SendCompletes \/ TransferFails \/ FallSilent
  \/ Update

Spec == Init /\ [][Next]_vars

(***************************************************************************)
(* Fairness: time passes; a worker and the thread of Update take their     *)
(* steps, and Update is called again and again (at least once in MaxLag    *)
(* ticks of the clock); a send whose socket was closed completes, well or  *)
(* not.  Nobody is obliged to send, a send need not complete while the     *)
(* socket is open, and a receive in flight need not fail.                  *)
(***************************************************************************)
FairSpec ==
  Spec /\ WF_vars(Tick) /\ WF_vars(Clear) /\ WF_vars(Update)
       /\ WF_vars(orphan /\ (SendCompletes \/ TransferFails))
-----------------------------------------------------------------------------
(***************************************************************************)
(* Safety.                                                                 *)
(***************************************************************************)
(* A session removed as timed out had been idle for longer than the timeout
   when Update read the clock, unless a transfer came in after that
   (SessionMgr.cpp:44-73): nothing else can make the difference wrap. *)
IdleRemovalSound == pc = "remove" => idleAt > SessionTimeout \/ touched

(* No session stays in the map for longer than the timeout and three gaps
   between samples after its last transfer, two of which pass before the next
   scan reads the clock and one before the session is removed, if the clock
   cannot come full circle meanwhile; the time stamp 0 is exempt
   (NetLib.cpp:145-193, SessionMgr.cpp:44-73). *)
RemovedInTime ==
  SessionTimeout + 2 * MaxLag < Wrap =>
    (alive /\ last # 0 => idle <= MaxIdle)

(* Sessions are removed for being idle when they should, no sooner but for
   the race with a transfer, and no later. *)
IdleRemovalExact == TypeOK /\ IdleRemovalSound /\ RemovedInTime

(* A session is disconnected for a missed heartbeat only if the heartbeat was
   marked longer than the timeout ago and no receive has cleared it between
   the mark and the moment Update looked at it (NetLib.cpp:180-188): the two
   fields are written one after the other by both threads, without a lock. *)
DisconnectSound ==
  pc = "disconnect" => waited > HeartbeatTimeout /\ ~clearedAt

(* When neither side sends anything any more, the session is removed, by its
   heartbeat or at the latest by the session timeout, also if its receive was
   not posted again or its socket was closed while a send was in flight: unless
   its time stamp is 0, which exempts a session from both and is what Close
   leaves behind after a stream overflow (Session.cpp:78, :203,
   NetLib.cpp:160, SessionMgr.cpp:58). *)
DeadPeerRemoved == silent ~> (~alive \/ (last = 0 /\ ~orphan))

(* NetLib.cpp:147 on RemoveTimedOutSessions: "remove idle sessions based on
   configured timeout". *)
RemovedWasIdle == pc = "remove" => idle > SessionTimeout

===============================================================================
