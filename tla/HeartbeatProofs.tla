-------------------------- MODULE HeartbeatProofs --------------------------
(***************************************************************************)
(* Theorems about Heartbeat, for any timeouts below the period of the      *)
(* clock.  The differences that the code takes modulo Wrap are related to  *)
(* the real ages by invariants that hold as long as an age is within its   *)
(* timeout: beyond that the code need not know it exactly.                 *)
(***************************************************************************)
EXTENDS Heartbeat, TLAPS

(* The DWORD difference of two ticks. *)
LEMMA SinceRange ==
  ASSUME NEW t \in Ticks, NEW u \in Ticks
  PROVE  Since(t, u) = IF t >= u THEN t - u ELSE t - u + Wrap
<1>1. Wrap \in Nat \ {0} BY HeartbeatAssumption
<1>. DEFINE d == t - u
            r == d % Wrap
            q == d \div Wrap
<1>2. d \in Int /\ r \in 0 .. Wrap - 1 /\ q \in Int /\ d = q * Wrap + r
  BY <1>1, Z3 DEF Ticks
<1>3. -Wrap < d /\ d < Wrap BY <1>1 DEF Ticks
<1>4. d \in Int /\ r \in Int /\ 0 <= r /\ r < Wrap BY <1>1, <1>2
<1>5. ASSUME NEW n \in Int, NEW w \in Int, n >= 1, w >= 0 PROVE n * w >= w
  BY <1>5, Z3
<1>6. ASSUME NEW n \in Int, NEW w \in Int, n <= -2, w >= 0 PROVE n * w <= -2 * w
  BY <1>6, Z3
<1>7. q < 1
  <2> HIDE DEF d, r, q
  <2>1. ASSUME q >= 1 PROVE q * Wrap >= Wrap BY <2>1, <1>1, <1>2, <1>5
  <2>2. q * Wrap \in Int BY <1>1, <1>2
  <2>3. QED BY <2>1, <2>2, <1>1, <1>2, <1>3, <1>4
<1>8. q > -2
  <2> HIDE DEF d, r, q
  <2>1. ASSUME q <= -2 PROVE q * Wrap <= -2 * Wrap BY <2>1, <1>1, <1>2, <1>6
  <2>2. q * Wrap \in Int BY <1>1, <1>2
  <2>3. QED BY <2>1, <2>2, <1>1, <1>2, <1>3, <1>4
<1>9. q = 0 \/ q = -1 
  <2> HIDE DEF d, r, q
  <2> QED BY <1>2, <1>7, <1>8
<1>10. r = d \/ r = d + Wrap
  <2> HIDE DEF d, r, q
  <2> QED BY <1>1, <1>2, <1>4, <1>9
<1>11. QED BY <1>1, <1>3, <1>4, <1>10 DEF Since, Ticks

(* The tick after t. *)
LEMMA NextTick ==
  ASSUME NEW t \in Ticks
  PROVE  (t + 1) % Wrap = IF t + 1 = Wrap THEN 0 ELSE t + 1
<1>1. Wrap \in Nat \ {0} BY HeartbeatAssumption
<1>2. CASE t + 1 = Wrap BY <1>1, <1>2
<1>3. CASE t + 1 # Wrap BY <1>1, <1>3 DEF Ticks
<1>4. QED BY <1>2, <1>3
(* A session touched now has been idle for no time. *)
LEMMA SinceNow == ASSUME NEW t \in Ticks PROVE Since(t, t) = 0
  BY SinceRange, HeartbeatAssumption DEF Ticks

(* As time passes a difference grows by one, until it wraps. *)
LEMMA SinceGrows ==
  ASSUME NEW t \in Ticks, NEW u \in Ticks, Since(t, u) < Wrap - 1
  PROVE  Since((t + 1) % Wrap, u) = Since(t, u) + 1
<1>. DEFINE n == (t + 1) % Wrap
<1>1. n = IF t + 1 = Wrap THEN 0 ELSE t + 1 BY NextTick
<1>2. n \in Ticks BY <1>1, HeartbeatAssumption DEF Ticks
<1>. HIDE DEF n
<1>3. Since(n, u) = IF n >= u THEN n - u ELSE n - u + Wrap BY <1>2, SinceRange
<1>4. Since(t, u) = IF t >= u THEN t - u ELSE t - u + Wrap BY SinceRange
<1>5. Since(n, u) = Since(t, u) + 1
  BY <1>1, <1>2, <1>3, <1>4, HeartbeatAssumption DEF Ticks
<1>6. QED BY <1>5 DEF n

-----------------------------------------------------------------------------
(***************************************************************************)
(* The invariant.                                                          *)
(***************************************************************************)
IdleExact ==
  last # 0 /\ idle <= SessionTimeout => Since(tick, last) = idle

SampleExact ==
  pc = "scan" /\ ~touched /\ last # 0 /\ idleAt <= SessionTimeout
    => Since(now, last) = idleAt

RemovalSound == pc = "remove" => idleAt > SessionTimeout \/ touched

IdleInv == IdleExact /\ SampleExact /\ RemovalSound

WaitExact ==
  sentAt # 0 /\ waited <= HeartbeatTimeout => Since(tick, sentAt) = waited

JudgeExact ==
  pc \in {"visit", "look", "ping", "judge"} /\ sentAt # 0 /\ waited <= HeartbeatTimeout
    => Since(now, sentAt) <= waited

ClearedUnset ==
  /\ cleared => sentAt = 0
  /\ pc = "judge" /\ clearedAt => sentAt = 0

BeatInv == WaitExact /\ JudgeExact /\ ClearedUnset /\ DisconnectSound

Bounds ==
  /\ Wrap \in Nat \ {0}
  /\ SessionTimeout \in Nat /\ SessionTimeout < Wrap
  /\ HeartbeatTimeout \in Nat /\ HeartbeatTimeout < Wrap
  /\ MaxQueue \in Nat \ {0} /\ MaxLag \in Nat
  /\ MaxIdle \in Nat /\ MaxIdle = SessionTimeout + 3 * MaxLag

LEMMA BoundsHold == Bounds
  BY HeartbeatAssumption DEF Bounds, MaxIdle

LEMMA TickTyped == ASSUME NEW t \in Ticks PROVE (t + 1) % Wrap \in Ticks
  BY NextTick, BoundsHold DEF Ticks, Bounds

-----------------------------------------------------------------------------
(***************************************************************************)
(* Type correctness, numbers and flags apart.                              *)
(***************************************************************************)
NumbersOK ==
  /\ tick \in Ticks /\ lag \in 0 .. MaxLag
  /\ last \in Ticks /\ sentAt \in Ticks
  /\ queue \in 0 .. MaxQueue
  /\ now \in Ticks /\ lastRead \in Ticks
  /\ idle \in Ages /\ waited \in Waits /\ idleAt \in Ages

FlagsOK ==
  /\ alive \in BOOLEAN /\ pending \in BOOLEAN
  /\ sending \in BOOLEAN /\ silent \in BOOLEAN
  /\ open \in BOOLEAN /\ hearing \in BOOLEAN
  /\ orphan \in BOOLEAN /\ late \in BOOLEAN
  /\ touched \in BOOLEAN
  /\ cleared \in BOOLEAN /\ clearedAt \in BOOLEAN
  /\ pc \in {"rest", "scan", "remove", "sample", "visit", "look", "ping",
             "mark", "stamp", "judge", "disconnect"}
  /\ worker \in {"idle", "clear", "forget", "post"}

LEMMA TypesSplit == TypeOK <=> NumbersOK /\ FlagsOK
  BY Zenon DEF TypeOK, NumbersOK, FlagsOK

LEMMA TypeInit == Init => TypeOK
<1> SUFFICES ASSUME Init PROVE NumbersOK /\ FlagsOK
  BY TypesSplit
<1>1. NumbersOK BY BoundsHold DEF Init, NumbersOK, Bounds, Ticks, Ages, Waits
<1>2. FlagsOK BY Zenon DEF Init, FlagsOK
<1>3. QED BY <1>1, <1>2

(* What a touch does to the numbers. *)
LEMMA TouchNumbers == ASSUME NumbersOK, Touch PROVE last' \in Ticks /\ idle' \in Ages
  BY BoundsHold DEF NumbersOK, Touch, SetLast, Ages, Bounds

LEMMA NumbersStep == NumbersOK /\ [Next]_vars => NumbersOK'
<1> SUFFICES ASSUME NumbersOK, [Next]_vars PROVE NumbersOK'
  OBVIOUS
<1> USE BoundsHold, TickTyped DEF Bounds, NumbersOK
<1>0. 0 \in Ticks BY DEF Ticks
<1>t. ASSUME Touch PROVE last' \in Ticks /\ idle' \in Ages
  BY <1>t, TouchNumbers
<1>1. CASE Tick
  BY <1>1 DEF Tick, Older, Ages, Waits, sessionVars, sendVars, sockVars, updateVars, pingVars
<1>2. CASE Receive
  BY <1>2, <1>t DEF Receive, clockVars, sendVars, sockVars, updateVars
<1>3. CASE Clear
  BY <1>0, <1>t, <1>3 DEF Clear, ClearPending, ClearSentAt, PostRecv, clockVars, sendVars,
    sockVars, updateVars
<1>4. CASE Overflow
  <2>1. last' = 0 /\ idle' = 0 BY <1>4 DEF Overflow, SetLast
  <2>2. QED
    BY <1>0, <1>4, <2>1 DEF Overflow, clockVars, sendVars, updateVars, pingVars, Ages
<1>5. CASE AppSend
  BY <1>5, <1>t DEF AppSend, SocketTested, TestedBefore, Enqueue, SendsNow,
    SendFailsNow, Queues, clockVars, sockVars, touchVars, updateVars, pingVars
<1>6. CASE SendCompletes
  BY <1>6, <1>t DEF SendCompletes, clockVars, updateVars, pingVars
<1>7. CASE TransferFails \/ FallSilent
  BY <1>7 DEF TransferFails, FallSilent, clockVars, sendVars, sockVars,
    updateVars, historyVars, pingVars
<1>8. CASE SampleTimeout \/ ScanTimeout \/ RemoveTimedOut
  BY <1>0, <1>8 DEF SampleTimeout, ScanTimeout, RemoveTimedOut, SampleClock,
    EndPass, clockVars, sessionVars, sendVars, sockVars, historyVars, pingVars, Ages
<1>9. CASE SampleHeartbeat \/ ReadLast \/ LookAtHeartbeat \/ NoPing
  BY <1>0, <1>9 DEF SampleHeartbeat, ReadLast, LookAtHeartbeat, NoPing,
    SampleClock, EndPass, clockVars, sessionVars, sendVars, sockVars,
    historyVars, pingVars
<1>10. CASE PostPing
  BY <1>10, <1>t DEF PostPing, SocketTested, Enqueue, SendsNow, Queues,
    clockVars, sockVars, touchVars
<1>11. CASE PingFails
  BY <1>0, <1>t, <1>11 DEF PingFails, SocketClosed, SocketTested, TestedBefore,
    EndPass, Enqueue, SendFailsNow, clockVars, sendVars, sockVars, touchVars,
    pingVars
<1>12. CASE MarkPending \/ StampSentAt
  BY <1>0, <1>12 DEF MarkPending, StampSentAt, EndPass, clockVars, sendVars,
    sockVars, historyVars, pingVars, Waits
<1>13. CASE JudgeHeartbeat \/ Disconnect
  BY <1>0, <1>13 DEF JudgeHeartbeat, Disconnect, EndPass, clockVars, sessionVars,
    sendVars, sockVars, historyVars, pingVars
<1>14. CASE UNCHANGED vars
  BY <1>14 DEF vars, clockVars, sessionVars, sendVars, sockVars, updateVars,
    historyVars, pingVars
<1>15. QED
  BY <1>1, <1>2, <1>3, <1>4, <1>5, <1>6, <1>7, <1>8, <1>9, <1>10, <1>11, <1>12,
    <1>13, <1>14, Zenon DEF Next, Update

LEMMA FlagsStep == FlagsOK /\ [Next]_vars => FlagsOK'
<1> SUFFICES ASSUME FlagsOK, [Next]_vars PROVE FlagsOK'
  OBVIOUS
<1>t. ASSUME Touch PROVE touched' \in BOOLEAN
  BY <1>t, Zenon DEF Touch, SetLast
<1> USE DEF FlagsOK, clockVars, sessionVars, sendVars, sockVars,
  updateVars, touchVars, historyVars, pingVars, EndPass, SampleClock,
  SocketTested, SocketClosed, TestedBefore, Enqueue, SendsNow, SendFailsNow, Queues
<1>1. CASE Tick BY <1>1, <1>t DEF Tick
<1>2. CASE Receive BY <1>2, <1>t DEF Receive
<1>3a. CASE ClearPending
  <2>1. pending' \in BOOLEAN /\ worker' = "forget" BY <1>3a DEF ClearPending
  <2>2. /\ UNCHANGED <<alive, sending, silent, open, hearing, orphan>>
        /\ UNCHANGED <<late, touched, cleared, clearedAt, pc>>
    BY <1>3a DEF ClearPending
  <2>3. QED BY <2>1, <2>2
<1>3b. CASE ClearSentAt
  <2>1. cleared' \in BOOLEAN /\ worker' = "post" BY <1>3b DEF ClearSentAt
  <2>2. /\ UNCHANGED <<alive, pending, sending, silent, open, hearing, orphan>>
        /\ UNCHANGED <<late, touched, clearedAt, pc>>
    BY <1>3b DEF ClearSentAt
  <2>3. QED BY <2>1, <2>2
<1>3c. CASE PostRecv BY <1>3c, <1>t DEF PostRecv
<1>4. CASE Overflow BY <1>4, Zenon DEF Overflow, SetLast
<1>5. CASE AppSend
  <2>1. UNCHANGED <<alive, pending, silent, cleared, clearedAt, pc, worker>>
    BY <1>5 DEF AppSend
  <2>2. touched' \in BOOLEAN /\ sending' \in BOOLEAN /\ UNCHANGED <<open, hearing, orphan>>
    BY <1>5, <1>t DEF AppSend
  <2>3. late' \in BOOLEAN BY <1>5 DEF AppSend
  <2>4. QED BY <2>1, <2>2, <2>3
<1>6. CASE SendCompletes
  <2>1. /\ UNCHANGED <<alive, pending, silent, open, hearing>>
        /\ UNCHANGED <<late, cleared, clearedAt, pc, worker>>
    BY <1>6 DEF SendCompletes
  <2>2. touched' \in BOOLEAN /\ sending' \in BOOLEAN /\ orphan' = FALSE
    BY <1>6, <1>t DEF SendCompletes
  <2>3. orphan' \in BOOLEAN BY <2>2
  <2>4. alive' \in BOOLEAN /\ pending' \in BOOLEAN /\ silent' \in BOOLEAN
    BY <2>1
  <2>5. QED BY <2>1, <2>2, <2>3, <2>4
<1>7. CASE TransferFails
  <2>1. alive' \in BOOLEAN BY <1>7 DEF TransferFails
  <2>2. /\ UNCHANGED <<pending, sending, silent, open, hearing, orphan>>
        /\ UNCHANGED <<late, touched, cleared, clearedAt, pc, worker>>
    BY <1>7 DEF TransferFails
  <2>3. QED BY <2>1, <2>2
<1>8. CASE FallSilent BY <1>8, <1>t DEF FallSilent
<1>9. CASE SampleTimeout BY <1>9, <1>t DEF SampleTimeout
<1>10. CASE ScanTimeout
  <2>1. /\ UNCHANGED <<alive, pending, sending, silent, open, hearing>>
        /\ UNCHANGED <<orphan, late, cleared, clearedAt, worker>>
    BY <1>10, Zenon DEF ScanTimeout
  <2>2. touched' \in {FALSE, touched} /\ pc' \in {"remove", "sample"}
    BY <1>10, Zenon DEF ScanTimeout
  <2>3. touched' \in BOOLEAN BY <2>2
  <2>4. QED BY <2>1, <2>2, <2>3
<1>11. CASE RemoveTimedOut BY <1>11, <1>t DEF RemoveTimedOut
<1>12. CASE SampleHeartbeat BY <1>12, <1>t DEF SampleHeartbeat
<1>13. CASE ReadLast BY <1>13, <1>t DEF ReadLast
<1>14. CASE LookAtHeartbeat BY <1>14, <1>t DEF LookAtHeartbeat
<1>15. CASE NoPing BY <1>15, <1>t DEF NoPing
<1>16. CASE PostPing BY <1>16, <1>t DEF PostPing
<1>17. CASE PingFails BY <1>17, <1>t DEF PingFails
<1>18. CASE MarkPending BY <1>18, <1>t DEF MarkPending
<1>19. CASE StampSentAt BY <1>19, <1>t DEF StampSentAt
<1>20. CASE JudgeHeartbeat
  <2>1. /\ UNCHANGED <<alive, pending, sending, silent, open, hearing>>
        /\ UNCHANGED <<orphan, late, touched, cleared, worker>>
    BY <1>20 DEF JudgeHeartbeat
  <2>2. clearedAt' \in {FALSE, clearedAt} /\ pc' \in {"disconnect", "rest"}
    BY <1>20, Zenon DEF JudgeHeartbeat
  <2>3. clearedAt' \in BOOLEAN BY <2>2
  <2>4. QED BY <2>1, <2>2, <2>3
<1>21. CASE Disconnect BY <1>21, <1>t DEF Disconnect
<1>22. CASE UNCHANGED vars BY <1>22, <1>t DEF vars
<1>23. QED
  BY <1>1, <1>2, <1>3a, <1>3b, <1>3c, <1>4, <1>5, <1>6, <1>7, <1>8, <1>9, <1>10, <1>11, <1>12,
    <1>13, <1>14, <1>15, <1>16, <1>17, <1>18, <1>19, <1>20, <1>21, <1>22, Zenon
    DEF Next, Update, Clear

LEMMA TypeStep == TypeOK /\ [Next]_vars => TypeOK'
<1>1. NumbersOK' /\ FlagsOK' => TypeOK' BY Zenon DEF TypeOK, NumbersOK, FlagsOK
<1>2. QED BY <1>1, NumbersStep, FlagsStep, TypesSplit

-----------------------------------------------------------------------------
(***************************************************************************)
(* Removal for being idle.                                                 *)
(***************************************************************************)
LEMMA IdleInit == Init => IdleInv
  BY SinceNow DEF Init, IdleInv, IdleExact, SampleExact, RemovalSound, Ticks

(* A touch makes the age exact, spoils the sample, and excuses a removal. *)
LEMMA TouchIdle ==
  ASSUME NumbersOK, FlagsOK, IdleInv, Touch, UNCHANGED <<tick, now, idleAt>>,
         pc' = pc \/ pc' \notin {"scan", "remove"}
  PROVE  IdleInv'
<1>1. tick \in Ticks /\ Since(tick, tick) = 0 BY SinceNow DEF NumbersOK
<1>2. last' = tick /\ idle' = 0 BY DEF Touch, SetLast
<1>3. IdleExact' BY <1>1, <1>2 DEF IdleExact
<1>4. pc' = "scan" => touched' = TRUE BY Zenon DEF Touch, SetLast
<1>5. touched => touched' = TRUE BY Zenon DEF Touch, SetLast, FlagsOK
<1>6. SampleExact' BY <1>4, Zenon DEF SampleExact
<1>7. RemovalSound' BY <1>5, Zenon DEF IdleInv, RemovalSound
<1>8. QED BY <1>3, <1>6, <1>7, Zenon DEF IdleInv

(* What neither touches nor samples keeps the invariant. *)
LEMMA RestIdle ==
  ASSUME IdleInv, UNCHANGED <<tick, now, last, idle, idleAt, touched>>,
         pc' = pc \/ pc' \notin {"scan", "remove"}
  PROVE  IdleInv'
  BY Zenon DEF IdleInv, IdleExact, SampleExact, RemovalSound

LEMMA IdleStep == TypeOK /\ IdleInv /\ [Next]_vars => IdleInv'
<1> SUFFICES ASSUME NumbersOK, FlagsOK, IdleInv, [Next]_vars PROVE IdleInv'
  BY TypesSplit
<1> USE DEF clockVars, sessionVars, sendVars, sockVars, updateVars, touchVars,
  historyVars, pingVars
<1>1. CASE Tick
  <2>1. tick' = (tick + 1) % Wrap /\ idle' = Older(idle, MaxIdle)
        /\ UNCHANGED <<last, now, pc, idleAt, touched>>
    BY <1>1 DEF Tick
  <2>2. ASSUME last' # 0, idle' <= SessionTimeout
        PROVE  Since(tick', last') = idle'
    <3>1. idle' = idle + 1 /\ idle < SessionTimeout /\ Since(tick, last) = idle
      BY <2>1, <2>2, BoundsHold DEF Older, Bounds, NumbersOK, Ages, IdleInv, IdleExact
    <3>2. Since((tick + 1) % Wrap, last) = Since(tick, last) + 1
      BY <3>1, SinceGrows, BoundsHold DEF Bounds, NumbersOK, Ages
    <3>3. QED BY <2>1, <3>1, <3>2
  <2>3. IdleExact' BY <2>2 DEF IdleExact
  <2>4. SampleExact' /\ RemovalSound'
    BY <2>1, Zenon DEF IdleInv, SampleExact, RemovalSound
  <2>5. QED BY <2>3, <2>4 DEF IdleInv
<1>2. CASE Receive BY <1>2, TouchIdle DEF Receive
<1>3. CASE Clear
  BY <1>3, TouchIdle, RestIdle DEF Clear, ClearPending, ClearSentAt, PostRecv
<1>4. CASE Overflow
  <2>1. last' = 0 BY <1>4 DEF Overflow, SetLast
  <2>2. UNCHANGED <<pc, idleAt, now>> /\ (pc = "scan" \/ touched => touched' = TRUE)
    BY <1>4, Zenon DEF Overflow, SetLast, FlagsOK
  <2>3. QED
    BY <2>1, <2>2, Zenon DEF IdleInv, IdleExact, SampleExact, RemovalSound
<1>5. CASE AppSend
  BY <1>5, TouchIdle, RestIdle DEF AppSend, SocketTested, TestedBefore, SendsNow,
    SendFailsNow, Queues
<1>6. CASE SendCompletes BY <1>6, TouchIdle DEF SendCompletes
<1>7. CASE TransferFails BY <1>7, RestIdle DEF TransferFails
<1>8. CASE FallSilent BY <1>8, RestIdle DEF FallSilent
<1>9. CASE SampleTimeout
  <2>1. now' = tick /\ idleAt' = idle /\ pc' = "scan"
        /\ UNCHANGED <<tick, last, idle, touched>>
    BY <1>9 DEF SampleTimeout, SampleClock
  <2>2. QED
    BY <2>1, Zenon DEF IdleInv, IdleExact, SampleExact, RemovalSound
<1>10. CASE ScanTimeout
  <2>1. UNCHANGED <<tick, last, idle, now>> /\ pc = "scan" BY <1>10 DEF ScanTimeout
  <2>2. \/ TimedOut /\ pc' = "remove" /\ UNCHANGED <<idleAt, touched>>
        \/ pc' = "sample"
    BY <1>10, Zenon DEF ScanTimeout
  <2>3. IdleExact' /\ SampleExact'
    BY <2>1, <2>2 DEF IdleInv, IdleExact, SampleExact
  <2>4. ASSUME pc' = "sample" PROVE RemovalSound'
    BY <2>4 DEF RemovalSound
  <2>5. ASSUME TimedOut, UNCHANGED <<idleAt, touched>> PROVE RemovalSound'
    <3>1. ASSUME ~touched PROVE idleAt > SessionTimeout
      BY <2>1, <2>5, <3>1, BoundsHold
      DEF IdleInv, SampleExact, TimedOut, NumbersOK, Ages, Bounds
    <3>2. QED BY <2>5, <3>1, Zenon DEF RemovalSound
  <2>6. RemovalSound' BY <2>2, <2>4, <2>5
  <2>7. QED BY <2>3, <2>6 DEF IdleInv
<1>11. CASE RemoveTimedOut \/ Disconnect \/ NoPing
  <2>1. pc' = "rest" /\ UNCHANGED <<tick, last, idle>>
    BY <1>11 DEF RemoveTimedOut, Disconnect, NoPing, EndPass
  <2>2. QED BY <2>1 DEF IdleInv, IdleExact, SampleExact, RemovalSound
<1>12. CASE SampleHeartbeat \/ ReadLast \/ LookAtHeartbeat \/ JudgeHeartbeat
  <2>1. pc' \notin {"scan", "remove"} /\ UNCHANGED <<tick, last, idle>>
    BY <1>12 DEF SampleHeartbeat, ReadLast, LookAtHeartbeat, JudgeHeartbeat, EndPass
  <2>2. QED BY <2>1 DEF IdleInv, IdleExact, SampleExact, RemovalSound
<1>13. CASE PostPing \/ PingFails
  <2>1. pc' \notin {"scan", "remove"} /\ tick' = tick
    BY <1>13 DEF PostPing, PingFails, EndPass
  <2>2. Touch \/ UNCHANGED <<last, idle>>
    BY <1>13 DEF PostPing, PingFails, SocketTested, SocketClosed, TestedBefore,
      SendsNow, SendFailsNow, Queues
  <2>3. CASE Touch
    <3>1. last' = tick /\ idle' = 0 /\ Since(tick, tick) = 0
      BY <2>3, SinceNow DEF Touch, SetLast, NumbersOK
    <3>2. QED BY <2>1, <3>1 DEF IdleInv, IdleExact, SampleExact, RemovalSound
  <2>4. CASE UNCHANGED <<last, idle>>
    BY <2>1, <2>4 DEF IdleInv, IdleExact, SampleExact, RemovalSound
  <2>5. QED BY <2>2, <2>3, <2>4
<1>14. CASE MarkPending \/ StampSentAt
  <2>1. pc' \notin {"scan", "remove"} /\ UNCHANGED <<tick, last, idle>>
    BY <1>14 DEF MarkPending, StampSentAt, EndPass
  <2>2. QED BY <2>1 DEF IdleInv, IdleExact, SampleExact, RemovalSound
<1>15. CASE UNCHANGED vars BY <1>15, RestIdle DEF vars
<1>16. QED
  BY <1>1, <1>2, <1>3, <1>4, <1>5, <1>6, <1>7, <1>8, <1>9, <1>10, <1>11, <1>12,
    <1>13, <1>14, <1>15, Zenon DEF Next, Update

-----------------------------------------------------------------------------
(***************************************************************************)
(* No session stays idle.  MaxScan is the largest age a scan can meet; as  *)
(* long as that is below the period of the clock, ages up to MaxScan are   *)
(* known exactly.  Idle bounds the age by the time since the last sample.  *)
(***************************************************************************)
MaxScan == SessionTimeout + 2 * MaxLag

AgeExact == last # 0 /\ idle <= MaxScan => Since(tick, last) = idle

ScanExact ==
  pc = "scan" /\ ~touched /\ last # 0 /\ idleAt <= MaxScan
    => Since(now, last) = idleAt

Untouched == alive /\ pc \notin {"scan", "remove"} => ~touched

IdleBound ==
  alive /\ last # 0 =>
    /\ pc = "scan" => IF touched THEN idle <= lag
                      ELSE idleAt <= MaxScan /\ idle <= idleAt + lag
    /\ pc = "remove" => idle <= MaxScan + lag
    /\ pc = "sample" => idle <= SessionTimeout + lag
    /\ pc \notin {"scan", "remove", "sample"}
         => idle <= SessionTimeout + MaxLag + lag

AgeInv == AgeExact /\ ScanExact /\ Untouched /\ IdleBound

Numbers ==
  /\ idle \in Nat /\ idleAt \in Nat /\ lag \in 0 .. MaxLag
  /\ MaxLag \in Nat /\ SessionTimeout \in Nat
  /\ MaxScan \in Nat /\ MaxScan = SessionTimeout + 2 * MaxLag

LEMMA NumbersHold == NumbersOK => Numbers
  BY BoundsHold DEF NumbersOK, Numbers, Bounds, MaxScan, Ages

LEMMA AgeInit == Init => AgeInv
<1> SUFFICES ASSUME Init PROVE AgeInv
  OBVIOUS
<1>1. AgeExact /\ ScanExact /\ Untouched
  BY SinceNow DEF Init, AgeExact, ScanExact, Untouched
<1>2. IdleBound BY BoundsHold DEF Init, IdleBound, Bounds
<1>3. QED BY <1>1, <1>2 DEF AgeInv

(* A touch in the middle of anything. *)
Touched == /\ last' \in {0, tick} /\ idle' = 0
           /\ pc = "scan" \/ touched => touched'
           /\ touched' => touched \/ pc = "scan"

LEMMA TouchIsTouched == FlagsOK /\ (Touch \/ SetLast(0)) => Touched
<1>1. FlagsOK /\ Touch => Touched
  BY Zenon DEF Touch, SetLast, Touched, FlagsOK
<1>2. FlagsOK /\ SetLast(0) => Touched
  BY Zenon DEF SetLast, Touched, FlagsOK
<1>3. QED BY <1>1, <1>2

LEMMA TouchAge ==
  ASSUME NumbersOK, FlagsOK, AgeInv, Touched,
         UNCHANGED <<tick, lag, alive, now, idleAt, pc>>
  PROVE  AgeInv'
<1>1. AgeExact' BY SinceNow DEF AgeExact, NumbersOK, Touched
<1>2. ScanExact' BY Zenon DEF ScanExact, Touched
<1>3. Untouched' BY Zenon DEF AgeInv, Untouched, Touched
<1>4. IdleBound'
  <2>1. Numbers /\ Numbers' BY NumbersHold DEF Numbers, Touched
  <2>2. pc' = "scan" => touched' BY Zenon DEF Touched
  <2>3. QED BY <2>1, <2>2 DEF IdleBound, Numbers, Touched
<1>5. QED BY <1>1, <1>2, <1>3, <1>4 DEF AgeInv

(* Any other step that neither samples nor tests the clock. *)
LEMMA RestAge ==
  ASSUME NumbersOK, AgeInv, UNCHANGED <<tick, lag, last, idle, touched>>,
         alive' => alive,
         \/ pc' = pc /\ UNCHANGED <<now, idleAt>>
         \/ /\ pc \notin {"scan", "remove", "sample"}
            /\ pc' \notin {"scan", "remove", "sample"}
  PROVE  AgeInv'
<1>1. AgeExact' /\ ScanExact' /\ Untouched'
  BY DEF AgeInv, AgeExact, ScanExact, Untouched
<1>2. IdleBound' BY DEF AgeInv, IdleBound
<1>3. QED BY <1>1, <1>2 DEF AgeInv

LEMMA AgeStep ==
  ASSUME TypeOK, AgeInv, MaxScan < Wrap, [Next]_vars
  PROVE  AgeInv'
<1> NumbersOK /\ FlagsOK BY TypesSplit
<1> Numbers BY NumbersHold
<1> tick \in Ticks /\ 0 \in Ticks
  BY BoundsHold DEF NumbersOK, Bounds, Ticks
<1> USE DEF clockVars, sessionVars, sendVars, sockVars, updateVars, touchVars,
  historyVars, pingVars
<1>1. CASE Tick
  <2>1. /\ tick' = (tick + 1) % Wrap /\ idle' = Older(idle, MaxIdle)
        /\ lag' = lag + 1
        /\ UNCHANGED <<last, now, pc, idleAt, touched, alive>>
    BY <1>1 DEF Tick
  <2>2. idle' \in {idle, idle + 1}
    BY <2>1 DEF Older
  <2>3. ASSUME last' # 0, idle' <= MaxScan PROVE Since(tick', last') = idle'
    <3>1. idle' = idle + 1
      BY <2>1, <2>3, BoundsHold DEF Older, Bounds, Numbers
    <3>2. Since(tick, last) = idle /\ idle < Wrap - 1
      BY <2>1, <2>3, <3>1, BoundsHold DEF AgeInv, AgeExact, Numbers, Bounds
    <3>3. Since((tick + 1) % Wrap, last) = Since(tick, last) + 1
      BY <3>2, SinceGrows DEF NumbersOK
    <3>4. QED BY <2>1, <3>1, <3>2, <3>3
  <2>4. AgeExact' BY <2>3 DEF AgeExact
  <2>5. ScanExact' /\ Untouched' BY <2>1, Zenon DEF AgeInv, ScanExact, Untouched
  <2>6. IdleBound'
    BY <2>1, <2>2 DEF AgeInv, IdleBound, Numbers
  <2>7. QED BY <2>4, <2>5, <2>6 DEF AgeInv
<1>2. CASE Receive BY <1>2, TouchIsTouched, TouchAge DEF Receive
<1>3. CASE Clear
  <2>1. CASE ClearPending BY <2>1, RestAge DEF ClearPending
  <2>2. CASE ClearSentAt BY <2>2, RestAge DEF ClearSentAt
  <2>3. CASE PostRecv BY <2>3, TouchIsTouched, TouchAge DEF PostRecv
  <2>4. QED BY <1>3, <2>1, <2>2, <2>3 DEF Clear
<1>4. CASE Overflow BY <1>4, TouchIsTouched, TouchAge DEF Overflow
<1>5. CASE AppSend
  <2>1. Touch \/ UNCHANGED touchVars
    BY <1>5 DEF AppSend, TestedBefore, SendsNow, SendFailsNow, Queues
  <2>2. UNCHANGED <<tick, lag, alive, pc, now, idleAt>> BY <1>5 DEF AppSend
  <2>3. QED BY <2>1, <2>2, TouchIsTouched, TouchAge, RestAge
<1>6. CASE SendCompletes BY <1>6, TouchIsTouched, TouchAge DEF SendCompletes
<1>7. CASE TransferFails \/ FallSilent
  BY <1>7, RestAge DEF TransferFails, FallSilent
<1>8. CASE SampleTimeout
  <2>1. /\ pc = "rest" /\ pc' = "scan" /\ now' = tick /\ lag' = 0
        /\ idleAt' = idle /\ alive
        /\ UNCHANGED <<tick, last, idle, touched, alive>>
    BY <1>8 DEF SampleTimeout, SampleClock
  <2>2. ~touched BY <2>1 DEF AgeInv, Untouched
  <2>3. last # 0 => idle <= MaxScan
    BY <2>1 DEF AgeInv, IdleBound, Numbers
  <2>4. AgeExact' /\ ScanExact' /\ Untouched'
    BY <2>1 DEF AgeInv, AgeExact, ScanExact, Untouched
  <2>5. IdleBound' BY <2>1, <2>2, <2>3 DEF IdleBound, Numbers
  <2>6. QED BY <2>4, <2>5 DEF AgeInv
<1>9. CASE ScanTimeout
  <2>1. pc = "scan" /\ alive /\ UNCHANGED <<tick, lag, last, idle, now, alive>>
    BY <1>9 DEF ScanTimeout
  <2>2. AgeExact' BY <2>1 DEF AgeInv, AgeExact
  <2>3. CASE TimedOut /\ pc' = "remove"
    <3>1. IdleBound' BY <2>1, <2>3 DEF AgeInv, IdleBound, Numbers
    <3>2. QED BY <2>2, <2>3, <3>1 DEF AgeInv, ScanExact, Untouched
  <2>4. CASE ~TimedOut /\ pc' = "sample" /\ touched' = FALSE
    <3>1. last # 0 => Since(now, last) <= SessionTimeout
      <4>1. Since(now, last) \in Int
        BY SinceRange, BoundsHold DEF NumbersOK, Ticks, Bounds
      <4>2. QED BY <2>4, <4>1 DEF TimedOut, Numbers
    <3>2. last # 0 => idle <= SessionTimeout + lag
      BY <2>1, <3>1 DEF AgeInv, ScanExact, IdleBound, Numbers
    <3>3. IdleBound' BY <2>1, <2>4, <3>2 DEF IdleBound
    <3>4. QED BY <2>2, <2>4, <3>3 DEF AgeInv, ScanExact, Untouched
  <2>5. QED BY <1>9, <2>3, <2>4, Zenon DEF ScanTimeout
<1>10. CASE RemoveTimedOut \/ Disconnect
  <2>1. alive' = FALSE /\ pc' = "rest" /\ UNCHANGED <<tick, last, idle>>
    BY <1>10 DEF RemoveTimedOut, Disconnect, EndPass
  <2>2. QED BY <2>1 DEF AgeInv, AgeExact, ScanExact, Untouched, IdleBound
<1>11. CASE SampleHeartbeat
  <2>1. /\ pc = "sample" /\ pc' = "visit" /\ lag' = 0
        /\ UNCHANGED <<tick, last, idle, touched, alive>>
    BY <1>11 DEF SampleHeartbeat, SampleClock
  <2>2. IdleBound' BY <2>1 DEF AgeInv, IdleBound, Numbers
  <2>3. QED BY <2>1, <2>2 DEF AgeInv, AgeExact, ScanExact, Untouched
<1>12. CASE ReadLast \/ LookAtHeartbeat \/ NoPing \/ JudgeHeartbeat
  BY <1>12, RestAge DEF ReadLast, LookAtHeartbeat, NoPing, JudgeHeartbeat, EndPass
<1>13. CASE PostPing \/ PingFails
  <2>1. Touch \/ UNCHANGED touchVars
    BY <1>13 DEF PostPing, PingFails, SocketClosed, TestedBefore, SendsNow,
      SendFailsNow, Queues
  <2>2. pc = "ping" /\ pc' \in {"mark", "rest"} /\ UNCHANGED <<tick, lag, alive>>
    BY <1>13 DEF PostPing, PingFails, EndPass
  <2>3. CASE UNCHANGED touchVars BY <2>2, <2>3, RestAge
  <2>4. CASE Touch
    <3>1. last' = tick /\ idle' = 0 /\ touched' = touched
      BY <2>2, <2>4 DEF Touch, SetLast, FlagsOK
    <3>2. AgeExact' BY <2>2, <3>1, SinceNow DEF AgeExact
    <3>3. IdleBound' BY <2>2, <3>1 DEF IdleBound, Numbers
    <3>4. QED BY <2>2, <3>1, <3>2, <3>3 DEF AgeInv, ScanExact, Untouched
  <2>5. QED BY <2>1, <2>3, <2>4
<1>14. CASE MarkPending \/ StampSentAt
  BY <1>14, RestAge DEF MarkPending, StampSentAt, EndPass
<1>15. CASE UNCHANGED vars BY <1>15, RestAge DEF vars
<1>16. QED
  BY <1>1, <1>2, <1>3, <1>4, <1>5, <1>6, <1>7, <1>8, <1>9, <1>10, <1>11, <1>12,
    <1>13, <1>14, <1>15, Zenon DEF Next, Update

-----------------------------------------------------------------------------
(***************************************************************************)
(* Disconnection for a missed heartbeat.                                   *)
(***************************************************************************)
LEMMA BeatInit == Init => BeatInv
  BY DEF Init, BeatInv, WaitExact, JudgeExact, ClearedUnset, DisconnectSound

(* What leaves the heartbeat and the clock alone, and does not sample, judge
   or look. *)
LEMMA RestBeat ==
  ASSUME BeatInv, UNCHANGED <<tick, now, sentAt, waited, cleared, clearedAt>>,
         pc' = pc \/ pc' \in {"rest", "scan", "remove", "sample", "mark"}
  PROVE  BeatInv'
  BY Zenon DEF BeatInv, WaitExact, JudgeExact, ClearedUnset, DisconnectSound

(* The end of a pass. *)
LEMMA EndBeat ==
  ASSUME BeatInv, EndPass, UNCHANGED <<tick, sentAt, waited, cleared>>
  PROVE  BeatInv'
  BY DEF BeatInv, WaitExact, JudgeExact, ClearedUnset, DisconnectSound, EndPass

LEMMA BeatStep == TypeOK /\ BeatInv /\ [Next]_vars => BeatInv'
<1> SUFFICES ASSUME NumbersOK, FlagsOK, BeatInv, [Next]_vars PROVE BeatInv'
  BY TypesSplit
<1> USE DEF clockVars, sessionVars, sendVars, sockVars, updateVars, touchVars,
  historyVars, pingVars
<1>1. CASE Tick
  <2>1. tick' = (tick + 1) % Wrap /\ waited' = Older(waited, HeartbeatTimeout)
        /\ UNCHANGED <<sentAt, now, pc, cleared, clearedAt>>
    BY <1>1 DEF Tick
  <2>2. waited <= waited' /\ (waited' <= HeartbeatTimeout => waited' = waited + 1)
        /\ waited \in Nat /\ waited' \in Nat
    BY <2>1, BoundsHold DEF Older, Bounds, NumbersOK, Waits
  <2>3. ASSUME sentAt' # 0, waited' <= HeartbeatTimeout
        PROVE  Since(tick', sentAt') = waited'
    <3>1. waited < HeartbeatTimeout /\ Since(tick, sentAt) = waited
      BY <2>1, <2>2, <2>3, BoundsHold DEF Bounds, BeatInv, WaitExact
    <3>2. Since((tick + 1) % Wrap, sentAt) = Since(tick, sentAt) + 1
      BY <3>1, <2>2, SinceGrows, BoundsHold DEF Bounds, NumbersOK
    <3>3. QED BY <2>1, <2>2, <2>3, <3>1, <3>2
  <2>4. WaitExact' BY <2>3 DEF WaitExact
  <2>5. ASSUME now \in Ticks, sentAt \in Ticks PROVE Since(now, sentAt) \in Int
    BY <2>5, SinceRange, BoundsHold DEF Ticks, Bounds
  <2>6. JudgeExact'
    BY <2>1, <2>2, <2>5, BoundsHold DEF BeatInv, JudgeExact, NumbersOK, Bounds
  <2>7. ClearedUnset' BY <2>1, Zenon DEF BeatInv, ClearedUnset
  <2>8. waited > HeartbeatTimeout => waited' > HeartbeatTimeout
    BY <2>2, BoundsHold DEF Bounds
  <2>9. DisconnectSound' BY <2>1, <2>8, Zenon DEF BeatInv, DisconnectSound
  <2>10. QED BY <2>4, <2>6, <2>7, <2>9 DEF BeatInv
<1>2. CASE Receive BY <1>2, RestBeat DEF Receive
<1>3. CASE ClearPending BY <1>3, RestBeat DEF ClearPending
<1>4. CASE ClearSentAt
  <2>1. sentAt' = 0 /\ UNCHANGED <<pc, waited, clearedAt>>
    BY <1>4 DEF ClearSentAt
  <2>2. QED
    BY <2>1, Zenon
    DEF BeatInv, WaitExact, JudgeExact, ClearedUnset, DisconnectSound
<1>4b. CASE PostRecv BY <1>4b, RestBeat DEF PostRecv
<1>5. CASE Overflow BY <1>5, RestBeat DEF Overflow
<1>6. CASE AppSend BY <1>6, RestBeat DEF AppSend
<1>7. CASE SendCompletes BY <1>7, RestBeat DEF SendCompletes
<1>8. CASE TransferFails BY <1>8, RestBeat DEF TransferFails
<1>9. CASE FallSilent BY <1>9, RestBeat DEF FallSilent
<1>10. CASE SampleTimeout
  <2>1. pc' = "scan" /\ UNCHANGED <<tick, sentAt, waited, cleared>>
    BY <1>10 DEF SampleTimeout
  <2>2. QED
    BY <2>1 DEF BeatInv, WaitExact, JudgeExact, ClearedUnset, DisconnectSound
<1>11. CASE ScanTimeout
  <2>1. pc' \in {"remove", "sample"} /\ UNCHANGED <<tick, sentAt, waited, cleared>>
    BY <1>11, Zenon DEF ScanTimeout
  <2>2. QED
    BY <2>1 DEF BeatInv, WaitExact, JudgeExact, ClearedUnset, DisconnectSound
<1>12. CASE SampleHeartbeat
  <2>1. pc' = "visit" /\ now' = tick /\ UNCHANGED <<tick, sentAt, waited, cleared>>
    BY <1>12 DEF SampleHeartbeat, SampleClock
  <2>2. WaitExact' BY <2>1 DEF BeatInv, WaitExact
  <2>3. JudgeExact'
    BY <2>1, BoundsHold DEF BeatInv, WaitExact, JudgeExact, NumbersOK, Waits, Bounds
  <2>4. QED BY <2>1, <2>2, <2>3 DEF BeatInv, ClearedUnset, DisconnectSound
<1>13. CASE ReadLast
  <2>1. pc = "visit" /\ UNCHANGED <<tick, sentAt, waited, cleared, clearedAt>>
        /\ (EndPass \/ (pc' = "look" /\ now' = now))
    BY <1>13 DEF ReadLast
  <2>2. CASE EndPass BY <2>1, <2>2, EndBeat
  <2>3. CASE pc' = "look" /\ now' = now
    BY <2>1, <2>3 DEF BeatInv, WaitExact, JudgeExact, ClearedUnset, DisconnectSound
  <2>4. QED BY <2>1, <2>2, <2>3
<1>14. CASE LookAtHeartbeat
  <2>1. pc = "look" /\ UNCHANGED <<tick, now, sentAt, waited, cleared>>
        /\ ((pc' = "judge" /\ clearedAt' = cleared) \/ pc' = "ping")
    BY <1>14, Zenon DEF LookAtHeartbeat
  <2>2. QED
    BY <2>1 DEF BeatInv, WaitExact, JudgeExact, ClearedUnset, DisconnectSound
<1>15. CASE NoPing \/ PingFails \/ RemoveTimedOut \/ Disconnect
  BY <1>15, EndBeat DEF NoPing, PingFails, RemoveTimedOut, Disconnect
<1>16. CASE PostPing BY <1>16, RestBeat DEF PostPing
<1>17. CASE MarkPending
  <2>1. pc' = "stamp" /\ UNCHANGED <<tick, sentAt, waited, cleared>>
    BY <1>17 DEF MarkPending
  <2>2. QED
    BY <2>1 DEF BeatInv, WaitExact, JudgeExact, ClearedUnset, DisconnectSound
<1>18. CASE StampSentAt
  <2>1. pc' = "rest" /\ sentAt' = tick /\ waited' = 0 /\ cleared' = FALSE
        /\ tick' = tick /\ Since(tick, tick) = 0
    BY <1>18, SinceNow DEF StampSentAt, EndPass, NumbersOK
  <2>2. QED
    BY <2>1 DEF BeatInv, WaitExact, JudgeExact, ClearedUnset, DisconnectSound
<1>19. CASE JudgeHeartbeat
  <2>1. pc = "judge" /\ UNCHANGED <<tick, sentAt, waited, cleared>>
        /\ (EndPass \/ (Missed /\ pc' = "disconnect" /\ clearedAt' = clearedAt))
    BY <1>19 DEF JudgeHeartbeat
  <2>2. CASE EndPass BY <2>1, <2>2, EndBeat
  <2>3. CASE Missed /\ pc' = "disconnect" /\ clearedAt' = clearedAt
    <3>1. sentAt # 0 /\ Since(now, sentAt) > HeartbeatTimeout BY <2>3 DEF Missed
    <3>2. ~clearedAt BY <2>1, <3>1 DEF BeatInv, ClearedUnset
    <3>3. Since(now, sentAt) \in Int
      BY SinceRange, BoundsHold DEF NumbersOK, Ticks, Bounds
    <3>4. waited > HeartbeatTimeout
      BY <2>1, <3>1, <3>3, BoundsHold DEF BeatInv, JudgeExact, NumbersOK, Waits, Bounds
    <3>5. DisconnectSound' BY <2>1, <2>3, <3>2, <3>4 DEF DisconnectSound
    <3>6. QED
      BY <2>1, <2>3, <3>5 DEF BeatInv, WaitExact, JudgeExact, ClearedUnset
  <2>4. QED BY <2>1, <2>2, <2>3
<1>20. CASE UNCHANGED vars BY <1>20, RestBeat DEF vars
<1>21. QED
  BY <1>1, <1>2, <1>3, <1>4, <1>4b, <1>5, <1>6, <1>7, <1>8, <1>9, <1>10, <1>11, <1>12,
    <1>13, <1>14, <1>15, <1>16, <1>17, <1>18, <1>19, <1>20, Zenon
    DEF Next, Update, Clear

-----------------------------------------------------------------------------
(***************************************************************************)
(* The theorems.                                                           *)
(***************************************************************************)
(* Every variable of Heartbeat keeps its type: the clock and the time stamps
   stay below Wrap, the backlog within its limit (Session.h:62-63). *)
THEOREM ClocksTypeCorrect == Spec => []TypeOK
<1>1. Init => TypeOK BY TypeInit
<1>2. TypeOK /\ [Next]_vars => TypeOK' BY TypeStep
<1>3. QED BY <1>1, <1>2, PTL DEF Spec

(* For any timeouts below the period of the clock, a session is removed as
   timed out only if it had been idle for longer when Update read the clock,
   or was touched after that (SessionMgr.cpp:44-73). *)
THEOREM OnlyIdleRemoved == Spec => []IdleRemovalSound
<1>1. Init => TypeOK /\ IdleInv BY TypeInit, IdleInit
<1>2. TypeOK /\ IdleInv /\ [Next]_vars => TypeOK' /\ IdleInv'
  BY TypeStep, IdleStep
<1>3. IdleInv => IdleRemovalSound
  BY Zenon DEF IdleInv, RemovalSound, IdleRemovalSound
<1>4. QED BY <1>1, <1>2, <1>3, PTL DEF Spec

(* For any timeouts and any gaps between the samples of Update, such that the
   clock does not come full circle between a transfer and the second sample
   after the timeout, a session is removed before it has been idle for longer
   than the timeout and three gaps (NetLib.cpp:145-193). *)
THEOREM IdleRemovedInTime == Spec => []RemovedInTime
<1> DEFINE Ages1 == MaxScan < Wrap => AgeInv
<1>1. Init => TypeOK /\ Ages1 BY TypeInit, AgeInit
<1>2. TypeOK /\ Ages1 /\ [Next]_vars => TypeOK' /\ Ages1'
  BY TypeStep, AgeStep
<1>3. TypeOK /\ Ages1 => RemovedInTime
  <2> SUFFICES ASSUME TypeOK, AgeInv, alive, last # 0 PROVE idle <= MaxIdle
    BY DEF RemovedInTime, MaxScan
  <2>1. Numbers /\ MaxIdle = SessionTimeout + 3 * MaxLag
    BY TypesSplit, NumbersHold DEF MaxIdle
  <2>2. IF pc = "scan" /\ touched THEN idle <= lag
        ELSE idle <= MaxScan + lag
    BY <2>1 DEF AgeInv, IdleBound, Numbers
  <2>3. QED BY <2>1, <2>2 DEF Numbers
<1>4. QED BY <1>1, <1>2, <1>3, PTL DEF Spec

(* For any such timeouts and gaps, sessions are removed for being idle when
   they should. *)
THEOREM IdleRemovalAlwaysExact == Spec => []IdleRemovalExact
<1>1. TypeOK /\ IdleRemovalSound /\ RemovedInTime => IdleRemovalExact
  BY DEF IdleRemovalExact
<1>2. QED BY <1>1, ClocksTypeCorrect, OnlyIdleRemoved, IdleRemovedInTime, PTL

(* For any timeouts below the period of the clock, a session is disconnected
   for a missed heartbeat only if that was marked longer than the timeout ago
   and no receive had cleared it when Update looked (NetLib.cpp:180-188). *)
THEOREM OnlyMissedDisconnected == Spec => []DisconnectSound
<1>1. Init => TypeOK /\ BeatInv BY TypeInit, BeatInit
<1>2. TypeOK /\ BeatInv /\ [Next]_vars => TypeOK' /\ BeatInv'
  BY TypeStep, BeatStep
<1>3. BeatInv => DisconnectSound BY DEF BeatInv
<1>4. QED BY <1>1, <1>2, <1>3, PTL DEF Spec
=============================================================================
