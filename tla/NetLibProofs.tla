---------------------------- MODULE NetLibProofs ----------------------------
(***************************************************************************)
(* Theorems about NetLib, for any messages, sizes, threads and workers.    *)
(***************************************************************************)
EXTENDS NetLib, FiniteSetTheorems, SequenceTheorems, TLAPS

(***************************************************************************)
(* What a step of the server does to the messages of the session.          *)
(***************************************************************************)
SendStep ==
  /\ crash = NoMsg
  /\ \/ CreateSession \/ ApplyPolicy \/ InitialRecv \/ AcceptFails
     \/ \E t \in Posters, m \in Msgs : PostSend(t, m)
     \/ \E t \in Posters : PostSendDrop(t) \/ PostSendQueue(t)
     \/ DeleteRefusedPing
     \/ OnSendCompleted \/ SendFailed \/ RecvFailed \/ RecvOverflow \/ RecvNotReposted
     \/ Disconnect \/ DeleteSession

LEMMA NextSends == [Next]_vars => SendStep \/ UNCHANGED sendVars
<1> SUFFICES ASSUME [Next]_vars PROVE SendStep \/ UNCHANGED sendVars
  OBVIOUS
<1>0. CASE UNCHANGED vars BY <1>0 DEF vars
<1> SUFFICES ASSUME Next PROVE SendStep \/ UNCHANGED sendVars
  BY <1>0
<1>1. crash = NoMsg BY DEF Next
<1>2. CASE MainStep
  <2>1. CASE SpawnWorkers BY <2>1 DEF SpawnWorkers
  <2>2. CASE StartAccept BY <2>2 DEF StartAccept
  <2>3. CASE JoinAccept BY <2>3 DEF JoinAccept
  <2>4. CASE JoinWorkers BY <2>4 DEF JoinWorkers
  <2>5. CASE StopDone BY <1>1, <2>5 DEF StopDone, SendStep
  <2>6. CASE UpdateTasks BY <2>6 DEF UpdateTasks
  <2>7. CASE UpdateDone BY <2>7 DEF UpdateDone
  <2>8. CASE RunTasks BY <2>8 DEF RunTasks
  <2>9. QED BY <1>2, <2>1, <2>2, <2>3, <2>4, <2>5, <2>6, <2>7, <2>8 DEF MainStep
<1>3. CASE MainCalls
  <2>1. CASE StartListens BY <2>1 DEF StartListens
  <2>2. CASE StartFails BY <2>2 DEF StartFails
  <2>3. CASE StopBegin BY <2>3 DEF StopBegin
  <2>4. CASE DestroyNetLib BY <2>4 DEF DestroyNetLib
  <2>5. CASE UpdateSessions
    BY <1>1, <2>5, SendQueueAssumption DEF UpdateSessions, SendStep, Posters
  <2>6. QED BY <1>3, <2>1, <2>2, <2>3, <2>4, <2>5 DEF MainCalls
<1>4. CASE AcceptClient BY <1>1, <1>4 DEF AcceptClient, SendStep
<1>5. CASE ServeClient BY <1>1, <1>5 DEF ServeClient, SendStep
<1>6. CASE AcceptExits BY <1>6 DEF AcceptExits
<1>7. ASSUME NEW w \in Workers, Serve(w, Completion) \/ WorkerExits(w)
      PROVE  SendStep \/ UNCHANGED sendVars
  BY <1>1, <1>7 DEF Serve, Completion, WorkerExits, SendStep
<1>8. ASSUME NEW t \in Posters, InPostSend(t) PROVE SendStep
  BY <1>1, <1>8 DEF InPostSend, SendStep
<1>9. CASE AppUsesSession BY <1>1, <1>9 DEF AppUsesSession, SendStep, Posters
<1>10. CASE PushFromAnywhere BY <1>10 DEF PushFromAnywhere
<1>11. CASE LastRelease BY <1>1, <1>11 DEF LastRelease, SendStep
<1>12. QED
  BY <1>2, <1>3, <1>4, <1>5, <1>6, <1>7, <1>8, <1>9, <1>10, <1>11 DEF Next

-----------------------------------------------------------------------------
(***************************************************************************)
(* Types of the send side.  A ping is posted by Update only.               *)
(***************************************************************************)
PingsFromMain == posting[Main] \in Pings \cup {NoMsg}

SendTypes == SendTypeOK /\ PingsFromMain

LEMMA UseTyped ==
  ASSUME NEW S \in SUBSET Msgs, Use(S)
  PROVE  /\ crash' \in Msgs \cup {NoMsg}
         /\ crash' # NoMsg => crash' \in S \cap freed
  BY DEF Use

LEMMA QueuedTyped == SendTypeOK => Queued \subseteq Msgs
  BY DEF SendTypeOK, Queued

LEMMA CloseTyped ==
  ASSUME SendTypeOK, NEW S \in SUBSET Msgs, Close(S)
  PROVE  /\ open' = FALSE /\ sending' = FALSE
         /\ queue' \in Seq(Msgs) /\ crash' \in Msgs \cup {NoMsg}
         /\ freed' \in SUBSET Msgs
<1>1. Queued \cup S \in SUBSET Msgs BY QueuedTyped
<1>2. Use(Queued \cup S) /\ freed' = freed \cup (Queued \cup S)
  BY DEF Close, Delete
<1>3. crash' \in Msgs \cup {NoMsg} BY <1>1, <1>2, UseTyped
<1>4. freed' \in SUBSET Msgs BY <1>1, <1>2 DEF SendTypeOK
<1>5. queue' \in Seq(Msgs) BY DEF Close
<1>6. QED BY <1>3, <1>4, <1>5 DEF Close

LEMMA RemoveTyped ==
  ASSUME SendTypeOK, NEW S \in SUBSET Msgs, RemoveSession(S)
  PROVE  /\ inMap' = FALSE /\ open' \in BOOLEAN /\ sending' \in BOOLEAN
         /\ queue' \in Seq(Msgs) /\ crash' \in Msgs \cup {NoMsg}
         /\ freed' \in SUBSET Msgs
<1>1. CASE inMap
  <2>1. Close(S) /\ inMap' = FALSE BY <1>1 DEF RemoveSession
  <2>2. open' \in BOOLEAN /\ sending' \in BOOLEAN
    BY <2>1, CloseTyped, Zenon
  <2>3. QED BY <2>1, <2>2, CloseTyped
<1>2. CASE ~inMap
  <2>1. Use(S) /\ Delete(S) /\ UNCHANGED <<inMap, open, sending, queue>>
    BY <1>2 DEF RemoveSession
  <2>2. crash' \in Msgs \cup {NoMsg} BY <2>1, UseTyped
  <2>3. freed' \in SUBSET Msgs BY <2>1 DEF Delete, SendTypeOK
  <2>4. open' \in BOOLEAN /\ sending' \in BOOLEAN /\ inMap' = inMap
    BY <2>1, Zenon DEF SendTypeOK
  <2>5. inMap' = FALSE BY <1>2, <2>4 DEF SendTypeOK
  <2>6. QED BY <2>1, <2>2, <2>3, <2>4, <2>5 DEF SendTypeOK
<1>3. QED BY <1>1, <1>2

LEMMA SendTypesInit == Init => SendTypes
<1> SUFFICES ASSUME Init PROVE SendTypes
  OBVIOUS
<1> USE DEF Init, SendInit
<1>1. /\ queue \in Seq(Msgs) /\ flight \in Seq(Msgs) /\ wire \in Seq(Msgs)
      /\ cur \in Nat /\ max \in {0, Limit}
  OBVIOUS
<1>2. /\ inMap \in BOOLEAN /\ open \in BOOLEAN /\ leak \in BOOLEAN
      /\ sending \in BOOLEAN /\ failed \in BOOLEAN
  BY Zenon
<1>3. posting \in [Posters -> Msgs \cup {NoMsg}] /\ PingsFromMain
  BY DEF PingsFromMain, Posters
<1>4. QED BY <1>1, <1>2, <1>3 DEF SendTypes, SendTypeOK, Phases

LEMMA SendTypesStep ==
  ASSUME SendTypes, SendStep \/ UNCHANGED sendVars
  PROVE  SendTypes'
<1> USE SendQueueAssumption DEF SendTypes, SendTypeOK, PingsFromMain, Phases,
  Posters, sessVars, queueVars, msgVars, sendVars
<1>0. CASE UNCHANGED sendVars BY <1>0
<1> SUFFICES ASSUME SendStep PROVE SendTypes' BY <1>0
<1>1. CASE CreateSession BY <1>1 DEF CreateSession
<1>2. CASE ApplyPolicy BY <1>2 DEF ApplyPolicy
<1>3. CASE InitialRecv BY <1>3 DEF InitialRecv
<1>4. CASE AcceptFails BY <1>4, RemoveTyped DEF AcceptFails
<1>5. ASSUME NEW t \in Posters, NEW m \in Msgs, PostSend(t, m) PROVE SendTypes'
  BY <1>5 DEF PostSend, Delete, Refuse
<1>6. ASSUME NEW t \in Posters, PostSendDrop(t) PROVE SendTypes'
  <2>1. {posting[t]} \in SUBSET Msgs BY <1>6 DEF PostSendDrop
  <2>2. RemoveSession({posting[t]}) \/ (Delete({posting[t]}) /\ UNCHANGED <<inMap, open, sending, queue, crash>>)
    BY <1>6 DEF PostSendDrop
  <2>3. /\ inMap' \in BOOLEAN /\ open' \in BOOLEAN /\ sending' \in BOOLEAN
        /\ queue' \in Seq(Msgs) /\ crash' \in Msgs \cup {NoMsg}
        /\ freed' \in SUBSET Msgs
    BY <2>1, <2>2, RemoveTyped DEF Delete
  <2>4. refused' \in Pings \cup {NoMsg} BY <1>6 DEF PostSendDrop, Refuse
  <2>5. QED BY <1>6, <2>3, <2>4 DEF PostSendDrop, Leave
<1>7. ASSUME NEW t \in Posters, PostSendQueue(t) PROVE SendTypes'
  <2> DEFINE m == posting[t]
  <2>1. m \in Msgs /\ queue' = Append(queue, m) /\ queue' \in Seq(Msgs)
        /\ queue' # <<>> /\ Head(queue') \in Msgs
    BY <1>7 DEF PostSendQueue, Push
  <2>2. cur' \in Nat /\ early' \in SUBSET Msgs /\ refused' \in Pings \cup {NoMsg}
    BY <1>7, <2>1 DEF PostSendQueue, Push, Refuse
  <2>3. crash' \in Msgs \cup {NoMsg}
    BY <1>7, <2>1, UseTyped DEF PostSendQueue, FirstOf
  <2>4. flight' \in Seq(Msgs) /\ wire' \in Seq(Msgs)
    <3>1. /\ Append(flight, Head(queue')) \in Seq(Msgs)
          /\ Append(wire, Head(queue')) \in Seq(Msgs)
      BY <2>1
    <3>2. QED BY <1>7, <3>1 DEF PostSendQueue, Starts, Fails, FirstOf
  <2>6. sending' \in BOOLEAN /\ failed' \in BOOLEAN
    BY <1>7, Zenon DEF PostSendQueue, Starts, Fails
  <2>7. QED BY <1>7, <2>1, <2>2, <2>3, <2>4, <2>6 DEF PostSendQueue, Leave
<1>8. CASE DeleteRefusedPing
  BY <1>8, UseTyped DEF DeleteRefusedPing, Delete
<1>9. CASE OnSendCompleted
  <2> DEFINE rest == IF queue = <<>> THEN <<>> ELSE Tail(queue)
  <2>1. rest \in Seq(Msgs) /\ FirstAsSet(queue) \in SUBSET Msgs
        /\ FirstAsSet(rest) \in SUBSET Msgs /\ (rest # <<>> => Head(rest) \in Msgs)
    BY DEF FirstAsSet
  <2>2. Tail(flight) \in Seq(Msgs) BY <1>9 DEF OnSendCompleted
  <2>3. queue' = rest /\ cur' \in Nat
    BY <1>9 DEF OnSendCompleted, BytesAfter
  <2>4. crash' \in Msgs \cup {NoMsg} /\ freed' \in SUBSET Msgs
    BY <1>9, <2>1, UseTyped DEF OnSendCompleted, Delete
  <2>5. flight' \in Seq(Msgs) /\ wire' \in Seq(Msgs)
    <3>1. rest # <<>> => /\ Append(Tail(flight), Head(rest)) \in Seq(Msgs)
                         /\ Append(wire, Head(rest)) \in Seq(Msgs)
      BY <2>1, <2>2
    <3>2. QED BY <1>9, <2>2, <3>1 DEF OnSendCompleted, Starts, Fails
  <2>6. sending' \in BOOLEAN /\ failed' \in BOOLEAN /\ leak' \in BOOLEAN
    BY <1>9, Zenon DEF OnSendCompleted, Starts, Fails
  <2>7. QED BY <1>9, <2>1, <2>3, <2>4, <2>5, <2>6 DEF OnSendCompleted
<1>10. CASE SendFailed
  <2>1. Tail(flight) \in Seq(Msgs) BY <1>10 DEF SendFailed
  <2>2. RemoveSession({}) /\ leak' = TRUE /\ flight' = Tail(flight)
    BY <1>10 DEF SendFailed
  <2>3. leak' \in BOOLEAN BY <2>2, Zenon
  <2>4. QED BY <1>10, <2>1, <2>2, <2>3, RemoveTyped DEF SendFailed
<1>11. CASE RecvFailed BY <1>11, RemoveTyped DEF RecvFailed
<1>12. CASE RecvOverflow
  <2>1. Close({}) BY <1>12 DEF RecvOverflow
  <2>2. open' \in BOOLEAN /\ sending' \in BOOLEAN BY <2>1, CloseTyped, Zenon
  <2>3. QED BY <1>12, <2>1, <2>2, CloseTyped DEF RecvOverflow
<1>13. CASE RecvNotReposted BY <1>13 DEF RecvNotReposted
<1>14. CASE Disconnect BY <1>14, RemoveTyped DEF Disconnect
<1>15. CASE DeleteSession
  <2>1. Close({}) BY <1>15 DEF DeleteSession
  <2>2. open' \in BOOLEAN /\ sending' \in BOOLEAN BY <2>1, CloseTyped, Zenon
  <2>3. QED BY <1>15, <2>1, <2>2, CloseTyped DEF DeleteSession
<1>16. QED
  BY <1>1, <1>2, <1>3, <1>4, <1>5, <1>6, <1>7, <1>8, <1>9, <1>10, <1>11, <1>12,
    <1>13, <1>14, <1>15 DEF SendStep

LEMMA SendTypesAlways == Spec => []SendTypes
<1>1. SendTypes /\ [Next]_vars => SendTypes' BY NextSends, SendTypesStep
<1>2. QED BY SendTypesInit, <1>1, PTL DEF Spec

-----------------------------------------------------------------------------
(***************************************************************************)
(* The turns of the sends.  Only a session in the map has a socket, and    *)
(* nothing was sent before the session was there.                          *)
(***************************************************************************)
Untouched ==
  /\ ~inMap /\ ~sending /\ queue = <<>> /\ flight = <<>>
  /\ \A t \in Posters : posting[t] = NoMsg

TurnInv ==
  /\ SendsInTurn
  /\ open => inMap
  /\ phase = "none" => Untouched /\ ~open

LEMMA RemoveCloses ==
  ASSUME TurnInv, NEW S, RemoveSession(S)
  PROVE  ~open'
<1>1. CASE inMap BY <1>1 DEF RemoveSession, Close
<1>2. CASE ~inMap BY <1>2 DEF RemoveSession, TurnInv
<1>3. QED BY <1>1, <1>2

LEMMA TurnStep ==
  ASSUME SendTypes, SendTypes', TurnInv, SendStep \/ UNCHANGED sendVars
  PROVE  TurnInv'
<1> USE SendQueueAssumption DEF sessVars, queueVars, msgVars, sendVars
<1>0. CASE UNCHANGED sendVars
  BY <1>0 DEF TurnInv, SendsInTurn, Untouched
<1> SUFFICES ASSUME SendStep PROVE TurnInv' BY <1>0
<1>c. ASSUME ~open', phase' # "none" PROVE TurnInv'
  BY <1>c DEF TurnInv, SendsInTurn
<1>n. phase = "none" => Untouched /\ ~open BY DEF TurnInv
<1>1. CASE CreateSession
  BY <1>1, <1>n DEF CreateSession, TurnInv, SendsInTurn, Untouched
<1>2. CASE ApplyPolicy BY <1>2 DEF ApplyPolicy, TurnInv, SendsInTurn
<1>3. CASE InitialRecv BY <1>3 DEF InitialRecv, TurnInv, SendsInTurn
<1>4. CASE AcceptFails BY <1>4, <1>c, RemoveCloses DEF AcceptFails
<1>5. ASSUME NEW t \in Posters, NEW m \in Msgs, PostSend(t, m) PROVE TurnInv'
  BY <1>5 DEF PostSend, Alive, TurnInv, SendsInTurn
<1>6. ASSUME NEW t \in Posters, PostSendDrop(t) PROVE TurnInv'
  <2>1. phase' = phase /\ phase # "none"
    BY <1>6, <1>n DEF PostSendDrop, Untouched
  <2>2. CASE RemoveSession({posting[t]})
    BY <2>1, <2>2, <1>c, RemoveCloses
  <2>3. CASE UNCHANGED <<inMap, open, sending, queue>>
    BY <1>6, <2>1, <2>3 DEF PostSendDrop, TurnInv, SendsInTurn
  <2>4. QED BY <1>6, <2>2, <2>3 DEF PostSendDrop
<1>7. ASSUME NEW t \in Posters, PostSendQueue(t) PROVE TurnInv'
  <2> DEFINE m == posting[t]
  <2>1. phase' = phase /\ phase # "none" /\ inMap' = inMap /\ open' = open
    BY <1>7, <1>n DEF PostSendQueue, Untouched
  <2>2. m \in Msgs /\ queue' = Append(queue, m)
    BY <1>7 DEF PostSendQueue, Push, SendTypes, SendTypeOK
  <2>3. /\ queue' # <<>>
        /\ queue # <<>> => Head(queue') = Head(queue)
    BY <2>2 DEF SendTypes, SendTypeOK
  <2>4. CASE ~open BY <2>1, <2>4, <1>c
  <2>5. CASE open /\ sending
    <3>1. sending' = sending /\ flight' = flight /\ failed' = failed
      BY <1>7, <2>5 DEF PostSendQueue, SendInFlight
    <3>2. flight # <<>> /\ queue # <<>> /\ flight = <<Head(queue)>>
      BY <2>5 DEF TurnInv, SendsInTurn
    <3>3. QED BY <2>1, <2>3, <2>5, <3>1, <3>2 DEF TurnInv, SendsInTurn
  <2>6. CASE open /\ ~sending
    <3>1. flight = <<>> BY <2>6 DEF TurnInv, SendsInTurn
    <3>2. \/ flight' = <<Head(queue')>> /\ sending'
          \/ flight' = <<>> /\ ~sending' /\ failed'
      BY <1>7, <2>6, <3>1
         DEF PostSendQueue, SendInFlight, Starts, Fails, FirstOf
    <3>3. QED BY <2>1, <2>3, <2>6, <3>2 DEF TurnInv, SendsInTurn
  <2>7. QED BY <2>4, <2>5, <2>6
<1>8. CASE DeleteRefusedPing
  BY <1>8 DEF DeleteRefusedPing, TurnInv, SendsInTurn, Untouched
<1>9. CASE OnSendCompleted
  <2>1. phase' = phase /\ phase # "none" /\ inMap' = inMap /\ open' = open
    BY <1>9, <1>n DEF OnSendCompleted, Untouched
  <2>2. CASE ~open BY <2>1, <2>2, <1>c
  <2>3. CASE open
    <3>0. sending /\ queue # <<>> /\ flight = <<Head(queue)>>
      BY <1>9, <2>3 DEF OnSendCompleted, TurnInv, SendsInTurn
    <3>1. sending /\ queue # <<>> /\ Tail(flight) = <<>>
      <4>1. \A x : Tail(<<x>>) = <<>> OBVIOUS
      <4>2. QED BY <3>0, <4>1
    <3>2. queue' = Tail(queue) BY <1>9, <3>1 DEF OnSendCompleted
    <3>4. \A x : Append(<<>>, x) = <<x>> OBVIOUS
    <3>3. \/ queue' = <<>> /\ ~sending' /\ flight' = <<>>
          \/ queue' # <<>> /\ sending' /\ flight' = <<Head(queue')>>
          \/ queue' # <<>> /\ ~sending' /\ flight' = <<>> /\ failed'
      <4>1. CASE queue' = <<>>
        BY <1>9, <3>1, <3>2, <4>1 DEF OnSendCompleted
      <4>2. CASE queue' # <<>> /\ Fails(<<>>) BY <4>2 DEF Fails
      <4>3. CASE queue' # <<>> /\ Starts(Head(queue'), <<>>) /\ sending' = sending
        BY <3>1, <3>4, <4>3 DEF Starts
      <4>4. QED BY <1>9, <3>1, <3>2, <4>1, <4>2, <4>3 DEF OnSendCompleted
    <3>5. QED BY <2>1, <2>3, <3>3 DEF TurnInv, SendsInTurn
  <2>4. QED BY <2>2, <2>3
<1>10. CASE SendFailed
  BY <1>10, <1>c, <1>n, RemoveCloses DEF SendFailed, Untouched
<1>11. CASE RecvFailed BY <1>11, <1>c, RemoveCloses DEF RecvFailed
<1>12. CASE RecvOverflow BY <1>12, <1>c DEF RecvOverflow, Close
<1>13. CASE RecvNotReposted BY <1>13 DEF RecvNotReposted, TurnInv, SendsInTurn
<1>14. CASE Disconnect
  BY <1>14, <1>c, <1>n, RemoveCloses DEF Disconnect, Untouched
<1>15. CASE DeleteSession BY <1>15, <1>c DEF DeleteSession, Close
<1>16. QED
  BY <1>1, <1>2, <1>3, <1>4, <1>5, <1>6, <1>7, <1>8, <1>9, <1>10, <1>11, <1>12,
    <1>13, <1>14, <1>15 DEF SendStep

(* For any number of threads, messages of any size and any limit, an open
   session has one send in flight at most, that of the front of its queue, and
   no message waits without one unless WSASend failed (Session.cpp:148-173,
   :219-250). *)
THEOREM SendsTakeTurns == Spec => []SendsInTurn
<1>1. Init => TurnInv
  BY SendQueueAssumption
     DEF Init, SendInit, TurnInv, SendsInTurn, Untouched, Posters
<1>2. SendTypes /\ SendTypes' /\ TurnInv /\ [Next]_vars => TurnInv'
  BY NextSends, TurnStep
<1>3. TurnInv => SendsInTurn BY DEF TurnInv
<1>4. QED BY <1>1, <1>2, <1>3, SendTypesAlways, PTL DEF Spec

-----------------------------------------------------------------------------
(***************************************************************************)
(* The owners of the messages: the queue, PostSend, or nobody any more.    *)
(***************************************************************************)
Held == {posting[t] : t \in Posters} \ {NoMsg}

QueuedOnce == \A i, j \in DOMAIN queue : queue[i] = queue[j] => i = j

HeldOnce ==
  \A t, u \in Posters : posting[t] # NoMsg /\ posting[t] = posting[u] => t = u

OwnersApart ==
  /\ posted = Queued \cup freed \cup Held
  /\ Held \cap (Queued \cup freed) = {}
  /\ Queued \cap freed \subseteq Pings
  /\ refused # NoMsg => refused \in posted \ Held
  /\ crash # NoMsg => crash \in Pings

OwnInv == QueuedOnce /\ HeldOnce /\ OwnersApart

LEMMA QueueEmptied ==
  queue' = <<>> => Queued' = {} /\ QueuedOnce'
  BY DEF Queued, QueuedOnce

LEMMA HeadIsIn ==
  ASSUME NEW q \in Seq(Msgs), q # <<>>
  PROVE  Head(q) \in {q[i] : i \in DOMAIN q}
<1>1. 1 \in DOMAIN q /\ Head(q) = q[1] OBVIOUS
<1>2. QED BY <1>1

LEMMA QueuePushed ==
  ASSUME queue \in Seq(Msgs), NEW m \in Msgs \ Queued, queue' = Append(queue, m),
         QueuedOnce
  PROVE  Queued' = Queued \cup {m} /\ QueuedOnce'
<1>1. /\ DOMAIN queue = 1 .. Len(queue) /\ DOMAIN queue' = 1 .. Len(queue) + 1
      /\ Len(queue) \in Nat
      /\ \A i \in 1 .. Len(queue) : queue'[i] = queue[i]
      /\ queue'[Len(queue) + 1] = m
  OBVIOUS
<1>2. Queued' = Queued \cup {m} BY <1>1 DEF Queued
<1>3. \A i \in DOMAIN queue : queue[i] # m BY DEF Queued
<1>4. QED BY <1>1, <1>2, <1>3 DEF QueuedOnce

LEMMA QueuePopped ==
  ASSUME queue \in Seq(Msgs), queue # <<>>, queue' = Tail(queue), QueuedOnce
  PROVE  /\ Queued = {Head(queue)} \cup Queued' /\ Head(queue) \notin Queued'
         /\ QueuedOnce'
<1>1. /\ DOMAIN queue = 1 .. Len(queue) /\ Len(queue) \in Nat \ {0}
      /\ DOMAIN queue' = 1 .. Len(queue) - 1
      /\ \A i \in 1 .. Len(queue) - 1 : queue'[i] = queue[i + 1]
      /\ Head(queue) = queue[1]
  OBVIOUS
<1>2. \A i \in DOMAIN queue : i = 1 \/ (i - 1 \in DOMAIN queue' /\ queue[i] = queue'[i - 1])
  BY <1>1
<1>3. Queued = {Head(queue)} \cup Queued'
  <2>1. ASSUME NEW x \in Queued PROVE x \in {Head(queue)} \cup Queued'
    BY <1>1, <1>2 DEF Queued
  <2>2. Head(queue) \in Queued BY <1>1 DEF Queued
  <2>3. ASSUME NEW x \in Queued' PROVE x \in Queued
    <3>1. PICK i \in DOMAIN queue' : x = queue'[i] BY DEF Queued
    <3>2. i + 1 \in DOMAIN queue /\ x = queue[i + 1] BY <1>1, <3>1
    <3>3. QED BY <3>2 DEF Queued
  <2>4. QED BY <2>1, <2>2, <2>3
<1>4. \A i, j \in DOMAIN queue' : queue'[i] # queue[1] /\ (queue'[i] = queue'[j] => i = j)
  <2> SUFFICES ASSUME NEW i \in DOMAIN queue', NEW j \in DOMAIN queue'
               PROVE  queue'[i] # queue[1] /\ (queue'[i] = queue'[j] => i = j)
    OBVIOUS
  <2>1. /\ i \in Int /\ j \in Int
        /\ 1 \in DOMAIN queue /\ i + 1 \in DOMAIN queue /\ j + 1 \in DOMAIN queue
        /\ i + 1 # 1 /\ queue'[i] = queue[i + 1] /\ queue'[j] = queue[j + 1]
    BY <1>1
  <2>2. queue[i + 1] # queue[1] /\ (queue[i + 1] = queue[j + 1] => i + 1 = j + 1)
    BY <2>1 DEF QueuedOnce
  <2>3. i + 1 = j + 1 => i = j BY <2>1
  <2>4. QED BY <2>1, <2>2, <2>3, Zenon
<1>5. Head(queue) \notin Queued'
  <2>1. ASSUME NEW i \in DOMAIN queue' PROVE queue'[i] # Head(queue)
    BY <1>1, <1>4
  <2>2. QED BY <2>1 DEF Queued
<1>6. QED BY <1>3, <1>4, <1>5 DEF QueuedOnce

LEMMA PosterEnters ==
  ASSUME posting \in [Posters -> Msgs \cup {NoMsg}], NEW t \in Posters,
         posting[t] = NoMsg, NEW m \in Msgs \ Held, NoMsg \notin Msgs,
         posting' = [posting EXCEPT ![t] = m], HeldOnce
  PROVE  Held' = Held \cup {m} /\ HeldOnce'
<1>1. /\ posting'[t] = m /\ \A u \in Posters \ {t} : posting'[u] = posting[u]
  OBVIOUS
<1>2. Held' = Held \cup {m}
  <2>1. m \in Held' BY <1>1 DEF Held
  <2>2. ASSUME NEW x \in Held PROVE x \in Held'
    BY <1>1 DEF Held
  <2>3. ASSUME NEW x \in Held' PROVE x \in Held \cup {m}
    BY <1>1 DEF Held
  <2>4. QED BY <2>1, <2>2, <2>3
<1>3. \A u \in Posters : posting[u] # m BY DEF Held
<1>4. QED BY <1>1, <1>2, <1>3 DEF HeldOnce

LEMMA PosterLeaves ==
  ASSUME posting \in [Posters -> Msgs \cup {NoMsg}], NEW t \in Posters,
         posting[t] # NoMsg, Leave(t), HeldOnce
  PROVE  Held' = Held \ {posting[t]} /\ HeldOnce' /\ posting[t] \in Held
<1>1. /\ posting'[t] = NoMsg /\ \A u \in Posters \ {t} : posting'[u] = posting[u]
  BY DEF Leave
<1>2. \A u \in Posters \ {t} : posting[u] # posting[t] BY DEF HeldOnce
<1>3. Held' = Held \ {posting[t]} BY <1>1, <1>2 DEF Held
<1>4. posting[t] \in Held BY DEF Held
<1>5. QED BY <1>1, <1>3, <1>4 DEF HeldOnce

(***************************************************************************)
(* Close and RemoveSession delete what they use.                           *)
(***************************************************************************)
LEMMA RemoveOwns ==
  ASSUME SendTypes, OwnInv, crash = NoMsg, NEW S \in SUBSET (Msgs \ freed),
         RemoveSession(S) \/ Close(S)
  PROVE  /\ QueuedOnce' /\ (crash' # NoMsg => crash' \in Pings)
         /\ Queued' \cap freed' \subseteq Pings \cup (Queued \cap S)
         /\ Queued' \subseteq Queued
         /\ Queued' \cup freed' = Queued \cup freed \cup S
<1> USE DEF OwnInv, OwnersApart
<1>1. CASE Close(S)
  <2>1. Queued' = {} /\ QueuedOnce' BY <1>1, QueueEmptied DEF Close
  <2>2. freed' = freed \cup Queued \cup S BY <1>1 DEF Close, Delete
  <2>3. Use(Queued \cup S) /\ Queued \cup S \in SUBSET Msgs
    BY <1>1, QueuedTyped DEF Close, SendTypes
  <2>4. crash' # NoMsg => crash' \in (Queued \cup S) \cap freed
    BY <2>3, UseTyped
  <2>5. QED BY <2>1, <2>2, <2>4
<1>2. CASE ~inMap /\ RemoveSession(S)
  <2>1. Use(S) /\ freed' = freed \cup S /\ queue' = queue
    BY <1>2 DEF RemoveSession, Delete
  <2>2. Queued' = Queued /\ QueuedOnce' BY <2>1 DEF Queued, QueuedOnce
  <2>3. crash' = NoMsg BY <2>1 DEF Use
  <2>4. QED BY <2>1, <2>2, <2>3
<1>3. QED BY <1>1, <1>2 DEF RemoveSession

LEMMA OwnStep ==
  ASSUME SendTypes, SendTypes', OwnInv, SendStep \/ UNCHANGED sendVars
  PROVE  OwnInv'
<1> USE SendQueueAssumption DEF sessVars, queueVars, msgVars, sendVars, OwnInv
<1>q. ASSUME queue' = queue PROVE Queued' = Queued /\ QueuedOnce'
  BY <1>q DEF Queued, QueuedOnce
<1>h. ASSUME posting' = posting PROVE Held' = Held /\ HeldOnce'
  BY <1>h DEF Held, HeldOnce
<1>s. ASSUME queue' = queue, posting' = posting, UNCHANGED <<posted, refused, freed, crash>>
      PROVE  OwnInv'
  BY <1>s, <1>q, <1>h DEF OwnersApart
<1>0. CASE UNCHANGED sendVars BY <1>0, <1>s
<1> SUFFICES ASSUME SendStep PROVE OwnInv' BY <1>0
<1>c. crash = NoMsg BY DEF SendStep
<1>r. ASSUME RemoveSession({}) \/ Close({}), UNCHANGED <<posted, posting, refused>>
      PROVE  OwnInv'
  <2>1. /\ QueuedOnce' /\ (crash' # NoMsg => crash' \in Pings)
        /\ Queued' \cap freed' \subseteq Pings
        /\ Queued' \cup freed' = Queued \cup freed
    BY <1>r, <1>c, RemoveOwns
  <2>2. Held' = Held /\ HeldOnce' BY <1>r, <1>h
  <2>3. QED BY <1>r, <2>1, <2>2 DEF OwnersApart
<1>1. CASE CreateSession BY <1>1, <1>s DEF CreateSession
<1>2. CASE ApplyPolicy BY <1>2, <1>s DEF ApplyPolicy
<1>3. CASE InitialRecv BY <1>3, <1>s DEF InitialRecv
<1>4. CASE AcceptFails BY <1>4, <1>r DEF AcceptFails
<1>5. ASSUME NEW t \in Posters, NEW m \in Msgs, PostSend(t, m) PROVE OwnInv'
  <2> USE DEF OwnersApart
  <2>1. Queued' = Queued /\ QueuedOnce' BY <1>5, <1>q DEF PostSend
  <2>2. m \notin Held \cup Queued \cup freed BY <1>5 DEF PostSend
  <2>3. CASE posting' = [posting EXCEPT ![t] = m] /\ UNCHANGED <<refused, freed, crash>>
    <3>1. Held' = Held \cup {m} /\ HeldOnce'
      BY <1>5, <2>2, <2>3, PosterEnters DEF PostSend, SendTypes, SendTypeOK
    <3>2. posted' = posted \cup {m} /\ m \notin posted BY <1>5 DEF PostSend
    <3>3. QED BY <2>1, <2>2, <2>3, <3>1, <3>2
  <2>4. CASE Delete({m}) /\ Refuse(t, m) /\ UNCHANGED <<posting, crash>>
    <3>1. Held' = Held /\ HeldOnce' BY <1>h, <2>4
    <3>2. posted' = posted \cup {m} /\ freed' = freed \cup {m} /\ m \notin posted
      BY <1>5, <2>4 DEF PostSend, Delete
    <3>3. refused' = refused \/ refused' = m BY <2>4 DEF Refuse
    <3>4. QED BY <2>1, <2>2, <2>4, <3>1, <3>2, <3>3
  <2>5. QED BY <1>5, <2>3, <2>4 DEF PostSend
<1>6. ASSUME NEW t \in Posters, PostSendDrop(t) PROVE OwnInv'
  <2> USE DEF OwnersApart
  <2> DEFINE m == posting[t]
  <2>1. Held' = Held \ {m} /\ HeldOnce' /\ m \in Held
    BY <1>6, PosterLeaves DEF PostSendDrop, SendTypes, SendTypeOK
  <2>2. m \in Msgs /\ m \notin Queued /\ m \notin freed
    BY <1>6, <2>1 DEF PostSendDrop, SendTypes, SendTypeOK
  <2>3. posted' = posted /\ (refused' = refused \/ refused' = m)
    BY <1>6 DEF PostSendDrop, Refuse
  <2>4. /\ QueuedOnce' /\ (crash' # NoMsg => crash' \in Pings)
        /\ Queued' \cap freed' \subseteq Pings
        /\ Queued' \cup freed' = Queued \cup freed \cup {m}
    <3>1. CASE RemoveSession({m})
      BY <1>c, <2>2, <3>1, RemoveOwns
    <3>2. CASE Delete({m}) /\ UNCHANGED <<queue, crash>>
      BY <1>c, <1>q, <2>2, <3>2 DEF Delete
    <3>3. QED BY <1>6, <3>1, <3>2 DEF PostSendDrop
  <2>5. QED BY <2>1, <2>2, <2>3, <2>4
<1>7. ASSUME NEW t \in Posters, PostSendQueue(t) PROVE OwnInv'
  <2> USE DEF OwnersApart
  <2> DEFINE m == posting[t]
  <2>1. Held' = Held \ {m} /\ HeldOnce' /\ m \in Held
    BY <1>7, PosterLeaves DEF PostSendQueue, SendTypes, SendTypeOK
  <2>2. m \in Msgs \ Queued /\ m \notin freed /\ queue' = Append(queue, m)
    BY <1>7, <2>1 DEF PostSendQueue, Push, SendTypes, SendTypeOK
  <2>3. Queued' = Queued \cup {m} /\ QueuedOnce'
    BY <2>2, QueuePushed DEF SendTypes, SendTypeOK
  <2>4. /\ posted' = posted /\ freed' = freed
        /\ refused' = refused \/ refused' = m
    BY <1>7 DEF PostSendQueue, Refuse
  <2>5. crash' # NoMsg => crash' \in Pings
    <3>1. Head(queue') \in Queued'
      <4>1. queue' \in Seq(Msgs) /\ queue' # <<>>
        <5>1. queue \in Seq(Msgs) /\ m \in Msgs BY <2>2 DEF SendTypes, SendTypeOK
        <5>2. Append(queue, m) \in Seq(Msgs) /\ Append(queue, m) # <<>> BY <5>1
        <5>3. QED BY <2>2, <5>2
      <4>2. QED BY <4>1, HeadIsIn DEF Queued
    <3>2. crash' = NoMsg \/ Use({Head(queue')})
      BY <1>7, <1>c DEF PostSendQueue, FirstOf
    <3>3. Queued' \subseteq Msgs BY <2>2, QueuedTyped, <2>3 DEF SendTypes
    <3>4. crash' # NoMsg => crash' \in {Head(queue')} \cap freed
      BY <3>1, <3>2, <3>3, UseTyped
    <3>5. QED BY <2>2, <2>3, <3>1, <3>4
  <2>6. QED BY <2>1, <2>2, <2>3, <2>4, <2>5
<1>8. CASE DeleteRefusedPing
  <2> USE DEF OwnersApart
  <2>1. refused \in Pings /\ refused \in posted \ Held
    BY <1>8 DEF DeleteRefusedPing, SendTypes, SendTypeOK
  <2>2. /\ refused' = NoMsg /\ freed' = freed \cup {refused} /\ Use({refused})
        /\ queue' = queue /\ posting' = posting /\ posted' = posted
    BY <1>8 DEF DeleteRefusedPing, Delete
  <2>3. crash' # NoMsg => crash' \in Pings BY <2>1, <2>2, UseTyped
  <2>4. QED BY <1>q, <1>h, <2>1, <2>2, <2>3
<1>9. CASE OnSendCompleted
  <2> USE DEF OwnersApart
  <2>1. posted' = posted /\ refused' = refused /\ Held' = Held /\ HeldOnce'
    BY <1>9, <1>h DEF OnSendCompleted
  <2>2. CASE queue = <<>>
    <3>1. queue' = queue /\ Delete({}) /\ Use({})
      BY <1>9, <2>2 DEF OnSendCompleted, FirstAsSet
    <3>2. freed' = freed /\ crash' = NoMsg BY <3>1 DEF Delete, Use
    <3>3. QED BY <1>q, <2>1, <3>1, <3>2
  <2>3. CASE queue # <<>>
    <3>1. /\ queue' = Tail(queue) /\ freed' = freed \cup {Head(queue)}
          /\ Use({Head(queue)} \cup FirstAsSet(Tail(queue)))
      BY <1>9, <2>3 DEF OnSendCompleted, FirstAsSet, Delete
    <3>2. /\ Queued = {Head(queue)} \cup Queued' /\ Head(queue) \notin Queued'
          /\ QueuedOnce'
      BY <2>3, <3>1, QueuePopped DEF SendTypes, SendTypeOK
    <3>3. FirstAsSet(Tail(queue)) \subseteq Queued'
      <4>1. queue' \in Seq(Msgs) BY DEF SendTypes, SendTypeOK
      <4>2. queue' # <<>> => Head(queue') \in Queued' BY <4>1, HeadIsIn DEF Queued
      <4>3. QED BY <3>1, <4>2 DEF FirstAsSet
    <3>4. {Head(queue)} \cup FirstAsSet(Tail(queue)) \in SUBSET Queued
      BY <3>2, <3>3
    <3>5. Queued \subseteq Msgs BY QueuedTyped DEF SendTypes
    <3>6. crash' # NoMsg => crash' \in Queued \cap freed
      BY <3>1, <3>4, <3>5, UseTyped
    <3>7. QED BY <2>1, <3>1, <3>2, <3>6
  <2>4. QED BY <2>2, <2>3
<1>10. CASE SendFailed BY <1>10, <1>r DEF SendFailed
<1>11. CASE RecvFailed BY <1>11, <1>r DEF RecvFailed
<1>12. CASE RecvOverflow BY <1>12, <1>r DEF RecvOverflow
<1>13. CASE RecvNotReposted BY <1>13, <1>s DEF RecvNotReposted
<1>14. CASE Disconnect BY <1>14, <1>r DEF Disconnect
<1>15. CASE DeleteSession BY <1>15, <1>r DEF DeleteSession
<1>16. QED
  BY <1>1, <1>2, <1>3, <1>4, <1>5, <1>6, <1>7, <1>8, <1>9, <1>10, <1>11, <1>12,
    <1>13, <1>14, <1>15 DEF SendStep

(* For any messages, threads and limits, every message posted is owned by the
   queue, by one caller of PostSend or by nobody any more, and is deleted once,
   but for the ping that Update deletes after a failed PostSend
   (Session.cpp:72-142, :219-230; NetLib.cpp:173-176). *)
THEOREM MessagesOwnedOnce == Spec => []OwnedOnce
<1>1. Init => OwnInv
  BY SendQueueAssumption
     DEF Init, SendInit, OwnInv, QueuedOnce, HeldOnce, OwnersApart, Queued, Held
<1>2. SendTypes /\ SendTypes' /\ OwnInv /\ [Next]_vars => OwnInv'
  BY NextSends, OwnStep
<1>3. SendTypes /\ OwnInv => OwnedOnce
  <2> SUFFICES ASSUME SendTypes, OwnInv PROVE OwnedOnce
    OBVIOUS
  <2> USE DEF OwnInv, OwnersApart
  <2>1. ASSUME NEW m \in Msgs
        PROVE  /\ Count(m, queue) \in {0, 1}
               /\ Count(m, queue) = 1 <=> m \in Queued
    <3> DEFINE At == {i \in DOMAIN queue : queue[i] = m}
    <3>1. CASE m \in Queued
      <4>1. PICK i \in DOMAIN queue : queue[i] = m BY <3>1 DEF Queued
      <4>2. At = {i} BY <4>1 DEF QueuedOnce
      <4>3. Cardinality(At) = 1 BY <4>2, FS_Singleton
      <4>4. QED BY <3>1, <4>3 DEF Count
    <3>2. CASE m \notin Queued
      <4>1. At = {} BY <3>2 DEF Queued
      <4>2. Cardinality(At) = 0 BY <4>1, FS_EmptySet
      <4>3. QED BY <3>2, <4>2 DEF Count
    <3>3. QED BY <3>1, <3>2
  <2>2. ASSUME NEW m \in Msgs
        PROVE  /\ Cardinality({t \in Posters : posting[t] = m}) \in {0, 1}
               /\ Cardinality({t \in Posters : posting[t] = m}) = 1 <=> m \in Held
    <3> DEFINE In == {t \in Posters : posting[t] = m}
    <3>0. m # NoMsg BY SendQueueAssumption
    <3>1. CASE m \in Held
      <4>1. PICK t \in Posters : posting[t] = m BY <3>1 DEF Held
      <4>2. In = {t} BY <3>0, <4>1 DEF HeldOnce
      <4>3. Cardinality(In) = 1 BY <4>2, FS_Singleton
      <4>4. QED BY <3>1, <4>3
    <3>2. CASE m \notin Held
      <4>1. In = {} BY <3>0, <3>2 DEF Held
      <4>2. Cardinality(In) = 0 BY <4>1, FS_EmptySet
      <4>3. QED BY <3>2, <4>2
    <3>3. QED BY <3>1, <3>2
  <2>3. ASSUME NEW m \in posted
        PROVE  Owners(m) >= 1 /\ (m \notin Pings => Owners(m) = 1)
    <3>1. m \in Msgs BY DEF SendTypes, SendTypeOK
    <3>2. m \in Queued \/ m \in freed \/ m \in Held OBVIOUS
    <3>3. m \in Held => m \notin Queued /\ m \notin freed OBVIOUS
    <3>4. m \notin Pings => ~(m \in Queued /\ m \in freed) OBVIOUS
    <3> DEFINE c == Count(m, queue)
               p == Cardinality({t \in Posters : posting[t] = m})
               f == B2N(m \in freed)
    <3>5. /\ c \in {0, 1} /\ (c = 1 <=> m \in Queued)
          /\ p \in {0, 1} /\ (p = 1 <=> m \in Held)
      BY <3>1, <2>1, <2>2
    <3>6. f \in {0, 1} /\ (f = 1 <=> m \in freed) BY DEF B2N
    <3>7. Owners(m) = c + f + p BY DEF Owners
    <3> HIDE DEF c, p, f, OwnInv, OwnersApart
    <3>8. QED BY <3>2, <3>3, <3>4, <3>5, <3>6, <3>7
  <2>4. QED BY <2>3 DEF OwnedOnce
<1>4. QED BY <1>1, <1>2, <1>3, SendTypesAlways, PTL DEF Spec

-----------------------------------------------------------------------------
(***************************************************************************)
(* The byte count.  Messages accepted without a limit may exceed it; while *)
(* there is any other in the queue, it holds.                              *)
(***************************************************************************)
LEMMA BytesAdded ==
  ASSUME NEW S \in SUBSET Msgs, NEW m \in Msgs \ S, IsFiniteSet(BytesOf(S))
  PROVE  /\ IsFiniteSet(BytesOf(S \cup {m}))
         /\ Cardinality(BytesOf(S \cup {m})) = Cardinality(BytesOf(S)) + Size[m]
<1> DEFINE B == {m} \X (1 .. Size[m])
<1>1. Size[m] \in Nat \ {0} BY SendQueueAssumption
<1>2. IsFiniteSet(1 .. Size[m]) /\ Cardinality(1 .. Size[m]) = Size[m]
  BY <1>1, FS_Interval
<1>3. IsFiniteSet({m}) /\ Cardinality({m}) = 1 BY FS_Singleton
<1>4. IsFiniteSet(B) /\ Cardinality(B) = 1 * Size[m]
  BY <1>2, <1>3, FS_Product
<1>5. BytesOf(S \cup {m}) = BytesOf(S) \cup B BY DEF BytesOf
<1>6. BytesOf(S) \cap B = {} BY DEF BytesOf
<1>7. Cardinality(BytesOf(S)) \in Nat BY FS_CardinalityType
<1>8. /\ IsFiniteSet(BytesOf(S) \cup B)
      /\ Cardinality(BytesOf(S) \cup B)
           = Cardinality(BytesOf(S)) + Cardinality(B) - Cardinality({})
  BY <1>4, <1>6, FS_Union
<1> HIDE DEF B
<1>9. Cardinality({}) = 0 BY FS_EmptySet
<1>10. Cardinality(B) = Size[m] BY <1>1, <1>4
<1>11. Cardinality(BytesOf(S) \cup B) = Cardinality(BytesOf(S)) + Size[m]
  BY <1>1, <1>7, <1>8, <1>9, <1>10
<1>12. QED BY <1>5, <1>8, <1>11

LEMMA NoBytes ==
  BytesOf({}) = {} /\ IsFiniteSet(BytesOf({})) /\ Cardinality(BytesOf({})) = 0
<1>1. BytesOf({}) = {} BY DEF BytesOf
<1>2. QED BY <1>1, FS_EmptySet

BytesInv ==
  /\ IsFiniteSet(BytesOf(Queued))
  /\ open => cur = QueuedBytes
  /\ max = 0 => Queued \subseteq early
  /\ open /\ max > 0 /\ ~(Queued \subseteq early) => cur <= max
  /\ phase = "none" => cur = 0
  /\ phase \in {"none", "greeting"} => max = 0

Onward ==
  \/ phase' = phase
  \/ phase' \notin {"none", "greeting"}
  \/ phase = "none" /\ phase' = "greeting"

\* The queue is kept or emptied, and a session that is open stays as it was.
LEMMA BytesKept ==
  ASSUME SendTypes', TurnInv, BytesInv, UNCHANGED <<cur, max, early>>,
         queue' \in {queue, <<>>}, open' => (open \/ phase = "none") /\ queue' = queue,
         Onward
  PROVE  BytesInv'
<1>1. CASE queue' = queue
  <2>0. /\ phase' = "none" => phase = "none"
        /\ phase' \in {"none", "greeting"} => phase \in {"none", "greeting"}
    BY DEF Onward
  <2>1. Queued' = Queued BY <1>1 DEF Queued
  <2>2. BytesOf(Queued)' = BytesOf(Queued) BY <2>1 DEF BytesOf
  <2>3. QueuedBytes' = QueuedBytes BY <2>2 DEF QueuedBytes
  <2>4. CASE phase = "none"
    <3>1. Queued = {} /\ cur = 0 BY <2>4 DEF TurnInv, Untouched, Queued, BytesInv
    <3>2. QueuedBytes = 0 BY <3>1, NoBytes DEF QueuedBytes
    <3>3. QED BY <2>0, <2>1, <2>2, <2>3, <3>1, <3>2 DEF BytesInv
  <2>5. CASE phase # "none" BY <2>0, <2>1, <2>2, <2>3, <2>5 DEF BytesInv
  <2>6. QED BY <2>4, <2>5
<1>2. CASE queue' = <<>> /\ ~open'
  <2>1. Queued' = {} BY <1>2, QueueEmptied
  <2>2. IsFiniteSet(BytesOf(Queued)') BY <2>1, NoBytes DEF BytesOf
  <2>3. QED BY <1>2, <2>1, <2>2 DEF BytesInv, Onward
<1>3. QED BY <1>1, <1>2

LEMMA RemoveKeeps ==
  ASSUME TurnInv, NEW S, RemoveSession(S) \/ Close(S)
  PROVE  queue' \in {queue, <<>>} /\ ~open'
<1>1. CASE Close(S) BY <1>1 DEF Close
<1>2. CASE RemoveSession(S)
  <2>1. ~open' BY <1>2, RemoveCloses
  <2>2. QED BY <1>2, <2>1 DEF RemoveSession, Close
<1>3. QED BY <1>1, <1>2

LEMMA BytesStep ==
  ASSUME SendTypes, SendTypes', OwnInv, TurnInv, BytesInv,
         SendStep \/ UNCHANGED sendVars
  PROVE  BytesInv'
<1> USE SendQueueAssumption DEF sessVars, queueVars, msgVars, sendVars
<1>k. ASSUME UNCHANGED <<queue, cur, max, early, open, phase>> PROVE BytesInv'
  BY <1>k, BytesKept DEF Onward
<1>d. ASSUME NEW S, RemoveSession(S) \/ Close(S), UNCHANGED <<cur, max, early>>,
             phase' = phase \/ phase' = "deaf" \/ phase' = "gone"
      PROVE  BytesInv'
  BY <1>d, RemoveKeeps, BytesKept DEF Onward
<1>q. Queued \subseteq Msgs BY QueuedTyped DEF SendTypes
<1>t. /\ queue \in Seq(Msgs) /\ cur \in Nat /\ max \in Nat
      /\ IsFiniteSet(BytesOf(Queued))
  BY DEF SendTypes, SendTypeOK, BytesInv
<1>0. CASE UNCHANGED sendVars BY <1>0, <1>k
<1> SUFFICES ASSUME SendStep PROVE BytesInv' BY <1>0
<1>1. CASE CreateSession
  BY <1>1, BytesKept DEF CreateSession, Onward
<1>2. CASE ApplyPolicy
  <2>1. /\ Queued' = Queued /\ max = 0 /\ max' > 0
        /\ phase' = "limited"
        /\ UNCHANGED <<queue, cur, open, early>> /\ phase = "greeting"
    BY <1>2 DEF ApplyPolicy, Queued, BytesInv
  <2>2. BytesOf(Queued)' = BytesOf(Queued) /\ QueuedBytes' = QueuedBytes
    BY <2>1 DEF BytesOf, QueuedBytes
  <2>3. QED
    BY <1>t, <2>1, <2>2 DEF BytesInv
<1>3. CASE InitialRecv BY <1>3, BytesKept DEF InitialRecv, Onward
<1>4. CASE AcceptFails BY <1>4, <1>d DEF AcceptFails
<1>5. ASSUME NEW t \in Posters, NEW m \in Msgs, PostSend(t, m) PROVE BytesInv'
  BY <1>5, <1>k DEF PostSend
<1>6. ASSUME NEW t \in Posters, PostSendDrop(t) PROVE BytesInv'
  BY <1>6, <1>d, <1>k DEF PostSendDrop
<1>7. ASSUME NEW t \in Posters, PostSendQueue(t) PROVE BytesInv'
  <2> DEFINE m == posting[t]
  <2>1. /\ m \in Msgs /\ ~OverLimit(m) /\ queue' = Append(queue, m)
        /\ cur' = cur + Size[m] /\ UNCHANGED <<open, max, phase>>
        /\ early' = IF max = 0 THEN early \cup {m} ELSE early
    BY <1>7 DEF PostSendQueue, Push, SendTypes, SendTypeOK
  <2>2. m \in Msgs \ Queued
    <3>1. m \in Held BY <1>7, <2>1 DEF Held
    <3>2. QED BY <2>1, <3>1 DEF OwnInv, OwnersApart
  <2>3. Queued' = Queued \cup {m}
    BY <1>t, <2>1, <2>2, QueuePushed DEF OwnInv
  <2>4. phase' # "none"
    BY <1>7, <2>1 DEF TurnInv, Untouched, PostSendQueue
  <2>5. /\ IsFiniteSet(BytesOf(Queued \cup {m}))
        /\ Cardinality(BytesOf(Queued \cup {m})) = Cardinality(BytesOf(Queued)) + Size[m]
    BY <1>q, <1>t, <2>2, BytesAdded
  <2>6. BytesOf(Queued)' = BytesOf(Queued \cup {m}) BY <2>3 DEF BytesOf
  <2>7. open' => cur' = QueuedBytes'
    BY <2>1, <2>5, <2>6 DEF QueuedBytes, BytesInv
  <2>8. max' > 0 => cur' <= max'
    BY <1>t, <2>1 DEF OverLimit
  <2>9. max' = 0 => Queued' \subseteq early'
    BY <2>1, <2>3 DEF BytesInv
  <2>10. phase' \in {"none", "greeting"} => max' = 0 BY <2>1 DEF BytesInv
  <2>11. QED BY <2>4, <2>5, <2>6, <2>7, <2>8, <2>9, <2>10 DEF BytesInv
<1>8. CASE DeleteRefusedPing BY <1>8, <1>k DEF DeleteRefusedPing
<1>9. CASE OnSendCompleted
  <2>1. /\ UNCHANGED <<open, max, phase, early>> /\ phase # "none"
    BY <1>9 DEF OnSendCompleted, TurnInv, Untouched
  <2>2. CASE queue = <<>>
    BY <1>9, <2>1, <2>2, <1>k DEF OnSendCompleted
  <2>3. CASE queue # <<>>
    <3> DEFINE m == Head(queue)
    <3>1. queue' = Tail(queue) /\ cur' = BytesAfter(Size[m]) /\ m \in Msgs
      BY <1>9, <1>t, <2>3 DEF OnSendCompleted
    <3>2. Queued = {m} \cup Queued' /\ m \notin Queued'
      BY <1>t, <2>3, <3>1, QueuePopped DEF OwnInv
    <3>3. BytesOf(Queued') \in SUBSET BytesOf(Queued) BY <3>2 DEF BytesOf
    <3>4. IsFiniteSet(BytesOf(Queued')) BY <1>t, <3>3, FS_Subset
    <3>5. Cardinality(BytesOf(Queued)) = Cardinality(BytesOf(Queued')) + Size[m]
      <4>1. Queued = Queued' \cup {m} /\ Queued' \in SUBSET Msgs /\ m \in Msgs \ Queued'
        BY <1>q, <3>1, <3>2
      <4>2. Cardinality(BytesOf(Queued' \cup {m})) = Cardinality(BytesOf(Queued')) + Size[m]
        BY <3>4, <4>1, BytesAdded
      <4>3. QED BY <4>1, <4>2
    <3>6. BytesOf(Queued)' = BytesOf(Queued') BY DEF BytesOf
    <3>7. Size[m] \in Nat /\ Cardinality(BytesOf(Queued')) \in Nat
      BY <3>1, <3>4, FS_CardinalityType
    <3>8. open => cur' = Cardinality(BytesOf(Queued'))
      BY <1>t, <3>1, <3>5, <3>7 DEF BytesInv, QueuedBytes, BytesAfter
    <3>9. cur' <= cur BY <1>t, <3>1, <3>7 DEF BytesAfter
    <3>10. Queued' \subseteq Queued BY <3>2
    <3>11. open' => cur' = QueuedBytes' BY <2>1, <3>6, <3>8 DEF QueuedBytes
    <3>12. open' /\ max' > 0 /\ ~(Queued' \subseteq early') => cur' <= max'
      <4>1. cur' \in Nat BY DEF SendTypes, SendTypeOK
      <4>2. QED BY <1>t, <2>1, <3>9, <3>10, <4>1 DEF BytesInv
    <3>13. max' = 0 => Queued' \subseteq early' BY <2>1, <3>10 DEF BytesInv
    <3>14. QED BY <2>1, <3>4, <3>6, <3>11, <3>12, <3>13 DEF BytesInv
  <2>4. QED BY <2>2, <2>3
<1>10. CASE SendFailed BY <1>10, <1>d DEF SendFailed
<1>11. CASE RecvFailed BY <1>11, <1>d DEF RecvFailed
<1>12. CASE RecvOverflow BY <1>12, <1>d DEF RecvOverflow
<1>13. CASE RecvNotReposted
  BY <1>13, BytesKept DEF RecvNotReposted, Onward
<1>14. CASE Disconnect BY <1>14, <1>d DEF Disconnect
<1>15. CASE DeleteSession BY <1>15, <1>d DEF DeleteSession
<1>16. QED
  BY <1>1, <1>2, <1>3, <1>4, <1>5, <1>6, <1>7, <1>8, <1>9, <1>10, <1>11, <1>12,
    <1>13, <1>14, <1>15 DEF SendStep

(* For messages of any size and any limit, the byte count of an open session
   is that of its queue, and the backlog exceeds the limit only by messages
   accepted before the limit was applied (Session.cpp:118-146, :232-244). *)
THEOREM BacklogAlwaysAccounted == Spec => []BacklogAccounted
<1>1. Init => OwnInv /\ TurnInv /\ BytesInv
  <2> SUFFICES ASSUME Init PROVE OwnInv /\ TurnInv /\ BytesInv
    OBVIOUS
  <2>1. OwnInv /\ TurnInv
    BY SendQueueAssumption
       DEF Init, SendInit, OwnInv, QueuedOnce, HeldOnce, OwnersApart, Queued, Held,
           TurnInv, SendsInTurn, Untouched, Posters
  <2>2. Queued = {} BY DEF Init, SendInit, Queued
  <2>3. QED BY <2>1, <2>2, NoBytes DEF Init, SendInit, BytesInv
<1>2. SendTypes /\ SendTypes' /\ OwnInv /\ TurnInv /\ BytesInv /\ [Next]_vars
      => OwnInv' /\ TurnInv' /\ BytesInv'
  BY NextSends, OwnStep, TurnStep, BytesStep
<1>3. SendTypes /\ BytesInv => BacklogAccounted
  <2> SUFFICES ASSUME SendTypes, BytesInv, open PROVE BacklogAccounted
    BY DEF BacklogAccounted
  <2>1. cur = QueuedBytes BY DEF BytesInv
  <2>2. ASSUME Queued \cap early = {}, max > 0 PROVE cur <= max
    <3>1. CASE Queued = {}
      <4>1. cur = 0 BY <2>1, <3>1, NoBytes DEF QueuedBytes
      <4>2. QED BY <2>2, <4>1 DEF SendTypes, SendTypeOK
    <3>2. CASE Queued # {} BY <2>2, <3>2 DEF BytesInv
    <3>3. QED BY <3>1, <3>2
  <2>3. QED BY <2>1, <2>2 DEF BacklogAccounted
<1>4. QED BY <1>1, <1>2, <1>3, SendTypesAlways, PTL DEF Spec

-----------------------------------------------------------------------------
(***************************************************************************)
(* The tasks keep their types.                                             *)
(***************************************************************************)
TaskStep == PushTask \/ Execute \/ ExecuteStep \/ DropTasks

TaskTypes == TaskTypeOK /\ (execPc = "run" => task \in Tasks)

LEMMA NextTasks == [Next]_vars => TaskStep \/ UNCHANGED taskVars
<1> SUFFICES ASSUME [Next]_vars PROVE TaskStep \/ UNCHANGED taskVars
  OBVIOUS
<1>0. CASE UNCHANGED vars BY <1>0 DEF vars
<1>1. CASE MainStep
  BY <1>1 DEF MainStep, SpawnWorkers, StartAccept, JoinAccept, JoinWorkers,
    StopDone, UpdateTasks, UpdateDone, RunTasks, TaskStep
<1>2. CASE MainCalls
  BY <1>2 DEF MainCalls, StartListens, StartFails, StopBegin, DestroyNetLib,
    UpdateSessions, TaskStep
<1>3. CASE AcceptClient \/ ServeClient \/ AcceptExits
  BY <1>3 DEF AcceptClient, ServeClient, AcceptExits
<1>4. ASSUME NEW w \in Workers, Serve(w, Completion) \/ WorkerExits(w)
      PROVE  UNCHANGED taskVars
  BY <1>4 DEF Serve, WorkerExits
<1>5. ASSUME NEW t \in Posters, InPostSend(t) PROVE UNCHANGED taskVars
  BY <1>5 DEF InPostSend
<1>6. CASE AppUsesSession \/ PushFromAnywhere \/ LastRelease
  BY <1>6 DEF AppUsesSession, PushFromAnywhere, LastRelease, TaskStep
<1>7. QED BY <1>0, <1>1, <1>2, <1>3, <1>4, <1>5, <1>6 DEF Next

LEMMA TaskTypesStep ==
  ASSUME TaskTypes, TaskStep \/ UNCHANGED taskVars
  PROVE  TaskTypes'
<1> USE DEF TaskTypes, TaskTypeOK, taskVars
<1>0. CASE UNCHANGED taskVars BY <1>0
<1>1. CASE PushTask
  <2>1. Cardinality(taskDone) \in Nat
    <3>1. IsFiniteSet(Tasks)
      BY FS_Interval, TaskMgrAssumption DEF Tasks
    <3>2. QED BY <3>1, FS_Subset, FS_CardinalityType
  <2>2. Pushed \in Nat BY <2>1 DEF Pushed
  <2>3. Pushed + 1 \in Tasks
    BY <1>1, <2>2, TaskMgrAssumption DEF PushTask, Tasks
  <2>4. QED BY <1>1, <2>3 DEF PushTask
<1>2. CASE Execute BY <1>2 DEF Execute
<1>3. CASE PopTask
  <2>1. Head(taskQueue) \in Tasks /\ Tail(taskQueue) \in Seq(Tasks)
    BY <1>3 DEF PopTask
  <2>2. QED BY <1>3, <2>1 DEF PopTask
<1>4. CASE FoundEmpty BY <1>4 DEF FoundEmpty
<1>5. CASE TaskReturns BY <1>5 DEF TaskReturns
<1>6. CASE DropTasks
  <2>1. taskQueue' \in Seq(Tasks) BY <1>6 DEF DropTasks
  <2>2. QED BY <1>6, <2>1 DEF DropTasks
<1>7. QED BY <1>0, <1>1, <1>2, <1>3, <1>4, <1>5, <1>6 DEF TaskStep, ExecuteStep

LEMMA TaskTypesAlways == Spec => []TaskTypes
<1>1. Init => TaskTypes BY DEF Init, TaskInit, TaskTypes, TaskTypeOK
<1>2. TaskTypes /\ [Next]_vars => TaskTypes' BY NextTasks, TaskTypesStep
<1>3. QED BY <1>1, <1>2, PTL DEF Spec

-----------------------------------------------------------------------------
(***************************************************************************)
(* The life of the server: while it has what Start acquired it runs or is  *)
(* in the middle of Start or Stop; otherwise nothing of it is left.        *)
(***************************************************************************)
Acquired == running \/ mainPc \in {"spawn", "join", "workers", "close"}

MainPcs == {"out", "spawn", "thread", "sessions", "tasks", "join", "workers",
            "close"}

PcTypes ==
  /\ acceptPc \in {"none", "accept", "client", "exited"}
  /\ workerPc \in [Workers -> {"none", "wait", "exited"}]
  /\ mainPc \in MainPcs

FlagTypes ==
  /\ running \in BOOLEAN /\ working \in BOOLEAN
  /\ winsock \in BOOLEAN /\ port \in BOOLEAN /\ listening \in BOOLEAN
  /\ bound \in BOOLEAN /\ destroyed \in BOOLEAN

Served ==
  /\ listening /\ working
  /\ \E w \in Workers : workerPc[w] = "wait"
  /\ mainPc \in {"out", "thread", "sessions", "tasks"}
  /\ mainPc # "thread" => acceptPc \in {"accept", "client"}

Lifecycle ==
  /\ PcTypes
  /\ running => Served
  /\ mainPc = "thread" => running /\ acceptPc = "none"
  /\ ~Acquired \/ mainPc = "spawn" => Quiet
  /\ mainPc = "spawn" => listening
  /\ mainPc \in {"join", "workers", "close"} => ~listening
  /\ mainPc \in {"workers", "close"} => acceptPc = "none"
  /\ mainPc = "close" => \A w \in Workers : workerPc[w] = "none"

Accounts ==
  /\ spawnFails \in Nat /\ starts \in 0 .. MaxStarts
  /\ spawnFails + B2N(mainPc = "spawn") <= starts
  /\ ports = spawnFails + B2N(Acquired)
  /\ startups = spawnFails + B2N(Acquired)
  /\ Acquired => port /\ winsock
  /\ listening => Acquired \/ spawnFails > 0

ServerInv == Lifecycle /\ Accounts

(* Nothing but the accept thread puts the session into the map. *)
Calm == /\ UNCHANGED <<osVars, thrVars, histVars>>
        /\ inMap' => inMap

LEMMA StaysOut ==
  ASSUME SendStep, ~CreateSession
  PROVE  inMap' => inMap
  BY DEF SendStep, ApplyPolicy, InitialRecv, AcceptFails, PostSend,
    PostSendDrop, PostSendQueue, DeleteRefusedPing, OnSendCompleted, SendFailed,
    RecvFailed, RecvOverflow, RecvNotReposted, Disconnect, DeleteSession,
    RemoveSession, sessVars

LEMMA CalmStep ==
  ASSUME ServerInv, Calm
  PROVE  ServerInv'
  BY DEF ServerInv, Lifecycle, Accounts, PcTypes, Served, Acquired, Quiet, Calm,
    osVars, thrVars, histVars, B2N

LEMMA ServerStep ==
  ASSUME ServerInv, [Next]_vars
  PROVE  ServerInv'
<1> USE NetLibAssumption
    DEF ServerInv, Lifecycle, PcTypes, Served, Acquired, Quiet, osVars, thrVars,
        histVars, MainPcs
<1>i. ASSUME ~CreateSession PROVE inMap' => inMap
  <2>1. SendStep \/ UNCHANGED sendVars BY NextSends
  <2>2. UNCHANGED sendVars => inMap' = inMap BY DEF sendVars, sessVars
  <2>3. QED BY <1>i, <2>1, <2>2, StaysOut
<1>0. CASE UNCHANGED vars
  BY <1>0, CalmStep DEF Calm, vars, sendVars, sessVars
<1> SUFFICES ASSUME Next PROVE ServerInv'
  BY <1>0
<1>1. CASE SpawnWorkers
  <2>0. PICK crew \in SUBSET Workers :
          /\ workerPc' = [w \in Workers |-> IF w \in crew THEN "wait" ELSE "none"]
          /\ \/ crew = {} /\ mainPc' = "out" /\ running' = running
             \/ crew # {} /\ mainPc' = "thread" /\ running' = TRUE
    BY <1>1 DEF SpawnWorkers
  <2>q. /\ mainPc = "spawn" /\ ~running /\ listening /\ ~inMap /\ ~bound
        /\ acceptPc = "none"
        /\ working' = TRUE /\ UNCHANGED <<acceptPc, listening, inMap, bound>>
    BY <1>1 DEF SpawnWorkers, sendVars, sessVars
  <2>4. ASSUME crew = {} PROVE Lifecycle'
    <3>1. \A w \in Workers : workerPc'[w] = "none" BY <2>0, <2>4
    <3>2. mainPc' = "out" /\ ~running' BY <2>0, <2>4, <2>q
    <3>3. PcTypes' BY <2>0, <2>4, <2>q
    <3>4. Quiet' BY <2>q, <3>1
    <3> HIDE DEF PcTypes, Served, Quiet, ServerInv
    <3>5. QED BY <2>q, <3>2, <3>3, <3>4
  <2>5. ASSUME crew # {} PROVE Lifecycle'
    <3>1. \E w \in Workers : workerPc'[w] = "wait" BY <2>0, <2>5
    <3>2. mainPc' = "thread" /\ running' BY <2>0, <2>5
    <3>3. PcTypes' BY <2>0, <2>5, <2>q
    <3>4. Served' BY <2>q, <3>1, <3>2
    <3> HIDE DEF PcTypes, Served, Quiet, ServerInv
    <3>5. QED BY <2>q, <3>2, <3>3, <3>4
  <2>1. Lifecycle' BY <2>4, <2>5
  <2>2. Accounts' BY <1>1 DEF SpawnWorkers, Accounts, B2N
  <2>3. QED BY <2>1, <2>2
<1>2. CASE StartAccept
  <2>1. Lifecycle' BY <1>2 DEF StartAccept, sendVars, sessVars
  <2>2. Accounts' BY <1>2 DEF StartAccept, Accounts, B2N
  <2>3. QED BY <2>1, <2>2
<1>3. CASE JoinAccept
  <2>1. Lifecycle' BY <1>3 DEF JoinAccept, sendVars, sessVars
  <2>2. Accounts' BY <1>3 DEF JoinAccept, Accounts, B2N
  <2>3. QED BY <2>1, <2>2
<1>4. CASE JoinWorkers
  <2>1. Lifecycle' BY <1>4 DEF JoinWorkers, sendVars, sessVars
  <2>2. Accounts' BY <1>4 DEF JoinWorkers, Accounts, B2N
  <2>3. QED BY <2>1, <2>2
<1>5. CASE StopDone
  <2>1. ~inMap' BY <1>5 DEF StopDone, Disconnect, RemoveSession, sendVars, sessVars
  <2>2. Lifecycle' BY <1>5, <2>1 DEF StopDone
  <2>3. Accounts'
    BY <1>5 DEF StopDone, Accounts, B2N, CloseIOCP, CleanupWinsock
  <2>4. QED BY <2>2, <2>3
<1>6. CASE UpdateTasks
  <2>1. Lifecycle' BY <1>6 DEF UpdateTasks, sendVars, sessVars
  <2>2. Accounts' BY <1>6 DEF UpdateTasks, Accounts, B2N
  <2>3. QED BY <2>1, <2>2
<1>7. CASE UpdateDone
  <2>1. Lifecycle' BY <1>7 DEF UpdateDone, sendVars, sessVars
  <2>2. Accounts' BY <1>7 DEF UpdateDone, Accounts, B2N
  <2>3. QED BY <2>1, <2>2
<1>8. CASE RunTasks
  BY <1>8, CalmStep DEF RunTasks, Calm, sendVars, sessVars
<1>9. CASE StartListens
  <2>1. Lifecycle' BY <1>9 DEF StartListens, StartBegin, sendVars, sessVars
  <2>2. Accounts' BY <1>9 DEF StartListens, StartBegin, Accounts, B2N
  <2>3. QED BY <2>1, <2>2
<1>10. CASE StartFails
  <2>1. Lifecycle' BY <1>10 DEF StartFails, StartBegin, sendVars, sessVars
  <2>0. (listening' => listening) /\ UNCHANGED <<running, mainPc>>
    <3>1. listening' = FALSE \/ listening' = listening BY <1>10 DEF StartFails
    <3>2. listening' => listening BY <3>1, Zenon
    <3>3. QED BY <1>10, <3>2 DEF StartFails
  <2>a. /\ ~Acquired /\ ~Acquired' /\ mainPc' = "out" /\ starts' = starts + 1
        /\ starts < MaxStarts /\ UNCHANGED <<spawnFails, ports, startups>>
    BY <1>10 DEF StartFails, StartBegin
  <2>2. Accounts'
    <3> HIDE DEF Acquired, Lifecycle, ServerInv
    <3>1. B2N(Acquired) = 0 /\ B2N(Acquired') = 0 /\ B2N(mainPc' = "spawn") = 0
      BY <2>a DEF B2N
    <3>2. spawnFails' \in Nat /\ starts' \in 0 .. MaxStarts /\ spawnFails' <= starts'
      BY <2>a DEF Accounts, B2N, ServerInv
    <3>3. QED BY <2>0, <2>a, <3>1, <3>2 DEF Accounts, ServerInv
  <2>3. QED BY <2>1, <2>2
<1>11. CASE StopBegin
  <2>1. Lifecycle' BY <1>11 DEF StopBegin, sendVars, sessVars
  <2>2. Accounts' BY <1>11 DEF StopBegin, Accounts, B2N
  <2>3. QED BY <2>1, <2>2
<1>12. CASE DestroyNetLib
  <2>1. Lifecycle' BY <1>12 DEF DestroyNetLib, sendVars, sessVars
  <2>2. Accounts' BY <1>12 DEF DestroyNetLib, Accounts, B2N
  <2>3. QED BY <2>1, <2>2
<1>13. CASE UpdateSessions
  <2>0. ~CreateSession
    BY <1>13 DEF UpdateSessions, CreateSession, sendVars, sessVars, Disconnect,
      RemoveSession, PostSend
  <2>1. Lifecycle' BY <1>13, <2>0, <1>i DEF UpdateSessions
  <2>2. Accounts' BY <1>13 DEF UpdateSessions, Accounts, B2N
  <2>3. QED BY <2>1, <2>2
<1>14. CASE AcceptClient
  <2>1. Lifecycle' BY <1>14 DEF AcceptClient
  <2>2. Accounts' BY <1>14 DEF AcceptClient, Accounts, B2N
  <2>3. QED BY <2>1, <2>2
<1>15. CASE ServeClient
  <2>0. ~CreateSession
    BY <1>15 DEF ServeClient, CreateSession, ApplyPolicy, InitialRecv, AcceptFails
  <2>1. Lifecycle' BY <1>15, <2>0, <1>i DEF ServeClient
  <2>2. Accounts' BY <1>15 DEF ServeClient, Accounts, B2N
  <2>3. QED BY <2>1, <2>2
<1>16. CASE AcceptExits
  <2>1. Lifecycle' BY <1>16 DEF AcceptExits, sendVars, sessVars
  <2>2. Accounts' BY <1>16 DEF AcceptExits, Accounts, B2N
  <2>3. QED BY <2>1, <2>2
<1>17. ASSUME NEW w \in Workers, Serve(w, Completion) PROVE ServerInv'
  <2>1. ~CreateSession
    BY <1>17 DEF Serve, Completion, CreateSession, OnSendCompleted, SendFailed,
      RecvFailed, RecvOverflow, RecvNotReposted
  <2>2. QED BY <1>17, <1>i, <2>1, CalmStep DEF Serve, Calm
<1>18. ASSUME NEW w \in Workers, WorkerExits(w) PROVE ServerInv'
  <2>1. Lifecycle' BY <1>18 DEF WorkerExits, sendVars, sessVars
  <2>2. Accounts' BY <1>18 DEF WorkerExits, Accounts, B2N
  <2>3. QED BY <2>1, <2>2
<1>19. ASSUME NEW t \in Posters, InPostSend(t) PROVE ServerInv'
  <2>1. ~CreateSession
    BY <1>19 DEF InPostSend, CreateSession, PostSendDrop, PostSendQueue,
      DeleteRefusedPing, sessVars
  <2>2. QED BY <1>19, <1>i, <2>1, CalmStep DEF InPostSend, Calm
<1>20. CASE AppUsesSession
  BY <1>20, CalmStep DEF AppUsesSession, Calm
<1>21. CASE PushFromAnywhere
  BY <1>21, CalmStep DEF PushFromAnywhere, Calm, sendVars, sessVars
<1>22. CASE LastRelease
  BY <1>22, CalmStep DEF LastRelease, Calm, DeleteSession
<1>23. QED
  BY <1>1, <1>2, <1>3, <1>4, <1>5, <1>6, <1>7, <1>8, <1>9, <1>10, <1>11, <1>12,
    <1>13, <1>14, <1>15, <1>16, <1>17, <1>18, <1>19, <1>20, <1>21, <1>22
    DEF Next, MainStep, MainCalls

LEMMA ServerInvAlways == Spec => []ServerInv
<1>1. Init => ServerInv
  BY NetLibAssumption
     DEF Init, SendInit, ServerInv, Lifecycle, PcTypes, MainPcs, Served,
         Acquired, Quiet, Accounts, B2N
<1>2. ServerInv /\ [Next]_vars => ServerInv' BY ServerStep
<1>3. QED BY <1>1, <1>2, PTL DEF Spec

(* For any number of workers and of calls, Winsock and the completion port
   are released as often as they were acquired, but for the calls of Start
   that got no worker (NetLib.cpp:79-143). *)
THEOREM ReleasedAlways == Spec => []ReleasedButForSpawn
<1>1. ServerInv => ReleasedButForSpawn
  BY DEF ServerInv, Lifecycle, Accounts, Served, Acquired, ReleasedButForSpawn,
     B2N, PcTypes, MainPcs
<1>2. QED BY <1>1, ServerInvAlways, PTL

(***************************************************************************)
(* What the main thread waits for.  The accept thread serves a client      *)
(* exactly while the session is being set up.                              *)
(***************************************************************************)
SettingUp == {"greeting", "limited"}

HoldInv ==
  /\ acceptPc = "client" => phase \in SettingUp
  /\ phase \in SettingUp => acceptPc = "client"
  /\ mainPc \in {"workers", "close"} => ~working
  /\ execPc # "out" => mainPc = "tasks"

\* Steps of the other threads.
HoldsOn == /\ UNCHANGED <<acceptPc, mainPc, working, execPc>>
           /\ phase' = phase \/ {phase, phase'} \cap SettingUp = {}

LEMMA HoldsOnStep == HoldInv /\ HoldsOn => HoldInv'
  BY DEF HoldInv, HoldsOn

LEMMA HoldStep ==
  ASSUME ServerInv, HoldInv, [Next]_vars
  PROVE  HoldInv'
<1> USE DEF osVars, thrVars, histVars, taskVars, sessVars, queueVars, msgVars,
            sendVars
<1>0. CASE UNCHANGED vars BY <1>0 DEF vars, HoldInv
<1>d. ASSUME Disconnect PROVE phase' = phase BY <1>d DEF Disconnect
<1>p. ASSUME NEW t, NEW k, PostSend(t, k) PROVE phase' = phase
  BY <1>p DEF PostSend
<1>1. CASE SpawnWorkers
  <2>1. mainPc' \in {"out", "thread"} /\ UNCHANGED <<acceptPc, phase, execPc>>
    BY <1>1 DEF SpawnWorkers
  <2>2. mainPc = "spawn" BY <1>1 DEF SpawnWorkers
  <2>3. QED BY <2>1, <2>2 DEF HoldInv
<1>2. CASE StartAccept
  <2>1. mainPc = "thread" /\ mainPc' = "out" /\ acceptPc' = "accept"
        /\ UNCHANGED <<phase, execPc>>
    BY <1>2 DEF StartAccept
  <2>2. acceptPc = "none" BY <2>1 DEF ServerInv, Lifecycle
  <2>3. QED BY <2>1, <2>2 DEF HoldInv
<1>3. CASE JoinAccept BY <1>3 DEF JoinAccept, HoldInv
<1>4. CASE JoinWorkers BY <1>4 DEF JoinWorkers, HoldInv
<1>5. CASE StopDone BY <1>5, <1>d DEF StopDone, HoldInv
<1>6. CASE UpdateTasks BY <1>6 DEF UpdateTasks, Execute, HoldInv
<1>7. CASE UpdateDone BY <1>7 DEF UpdateDone, HoldInv
<1>8. CASE RunTasks
  <2>1. execPc # "out" /\ UNCHANGED <<acceptPc, mainPc, working, phase>>
    BY <1>8 DEF RunTasks, ExecuteStep, PopTask, FoundEmpty, TaskReturns
  <2>2. QED BY <2>1 DEF HoldInv
<1>9. CASE StartListens
  <2>1. mainPc = "out" /\ mainPc' = "spawn" /\ UNCHANGED <<acceptPc, phase, execPc>>
    BY <1>9 DEF StartListens, StartBegin
  <2>2. QED BY <2>1 DEF HoldInv
<1>10. CASE StartFails BY <1>10 DEF StartFails, HoldInv
<1>11. CASE StopBegin
  <2>1. mainPc \in {"out", "thread"} /\ mainPc' = "join"
        /\ UNCHANGED <<acceptPc, phase, execPc>>
    BY <1>11 DEF StopBegin
  <2>2. QED BY <2>1 DEF HoldInv
<1>12. CASE DestroyNetLib
  <2>1. mainPc = "out" /\ UNCHANGED <<acceptPc, mainPc, phase, execPc>>
    BY <1>12 DEF DestroyNetLib, DropTasks
  <2>2. QED BY <2>1 DEF HoldInv
<1>13. CASE UpdateSessions
  <2>1. mainPc = "out" /\ mainPc' = "sessions" /\ UNCHANGED <<acceptPc, execPc>>
    BY <1>13 DEF UpdateSessions
  <2>2. phase' = phase BY <1>13, <1>d, <1>p DEF UpdateSessions
  <2>3. QED BY <2>1, <2>2 DEF HoldInv
<1>14. CASE AcceptClient
  <2>1. acceptPc' = "client" /\ phase' = "greeting"
        /\ UNCHANGED <<mainPc, working, execPc>>
    BY <1>14 DEF AcceptClient, CreateSession
  <2>2. QED BY <2>1 DEF HoldInv, SettingUp
<1>15. CASE ServeClient
  <2>1. acceptPc = "client" /\ UNCHANGED <<mainPc, working, execPc>>
    BY <1>15 DEF ServeClient
  <2>2. \/ phase' = "limited" /\ acceptPc' = acceptPc
        \/ phase' \in {"listening", "deaf"} /\ acceptPc' = "accept"
    BY <1>15 DEF ServeClient, ApplyPolicy, InitialRecv, AcceptFails
  <2>3. QED BY <2>1, <2>2 DEF HoldInv, SettingUp
<1>16. CASE AcceptExits BY <1>16 DEF AcceptExits, HoldInv
<1>17. ASSUME NEW w \in Workers, Serve(w, Completion) PROVE HoldInv'
  <2>1. UNCHANGED <<acceptPc, mainPc, working, execPc>> BY <1>17 DEF Serve
  <2>2. phase' = phase \/ (phase = "listening" /\ phase' = "deaf")
    BY <1>17 DEF Serve, Completion, OnSendCompleted, SendFailed, RecvFailed,
      RecvOverflow, RecvNotReposted
  <2>3. HoldsOn BY <2>1, <2>2 DEF HoldsOn, SettingUp
  <2>4. QED BY <2>3, HoldsOnStep
<1>18. ASSUME NEW w \in Workers, WorkerExits(w) PROVE HoldInv'
  BY <1>18, HoldsOnStep DEF WorkerExits, HoldsOn
<1>19. ASSUME NEW t \in Posters, InPostSend(t) PROVE HoldInv'
  <2>1. phase' = phase
    BY <1>19 DEF InPostSend, PostSendDrop, PostSendQueue, DeleteRefusedPing
  <2>2. QED BY <1>19, <2>1, HoldsOnStep DEF InPostSend, HoldsOn
<1>20. CASE AppUsesSession
  <2>1. phase' = phase BY <1>20, <1>d, <1>p DEF AppUsesSession
  <2>2. QED BY <1>20, <2>1, HoldsOnStep DEF AppUsesSession, HoldsOn
<1>21. CASE PushFromAnywhere
  BY <1>21, HoldsOnStep DEF PushFromAnywhere, PushTask, HoldsOn
<1>22. CASE LastRelease
  <2>1. phase = "deaf" /\ phase' = "gone" BY <1>22 DEF LastRelease, DeleteSession
  <2>2. HoldsOn BY <1>22, <2>1 DEF LastRelease, HoldsOn, SettingUp
  <2>3. QED BY <2>2, HoldsOnStep
<1>23. QED
  BY <1>0, <1>1, <1>2, <1>3, <1>4, <1>5, <1>6, <1>7, <1>8, <1>9, <1>10, <1>11,
    <1>12, <1>13, <1>14, <1>15, <1>16, <1>17, <1>18, <1>19, <1>20, <1>21, <1>22
    DEF Next, MainStep, MainCalls

(* For any number of workers and of calls, whatever Start, Update and Stop
   wait for is able to happen (NetLib.cpp:121-193, :205-252). *)
THEOREM CallsNeverHeldUp == Spec => []NothingHoldsUp
<1>1. Init => HoldInv
  BY DEF Init, SendInit, TaskInit, HoldInv, SettingUp
<1>2. ServerInv /\ HoldInv /\ [Next]_vars => HoldInv' BY HoldStep
<1>3. ServerInv /\ HoldInv => NothingHoldsUp
  <2> SUFFICES ASSUME ServerInv, HoldInv PROVE NothingHoldsUp
    OBVIOUS
  <2>1. ASSUME mainPc = "join"
        PROVE  ~running /\ acceptPc \in {"none", "accept", "client", "exited"}
    BY <2>1 DEF ServerInv, Lifecycle, Served, PcTypes
  <2>2. QED BY <2>1 DEF HoldInv, SettingUp, NothingHoldsUp
<1>4. QED BY <1>1, <1>2, <1>3, ServerInvAlways, PTL DEF Spec

(***************************************************************************)
(* The flags are Booleans, whoever sets them.                              *)
(***************************************************************************)
LEMMA FlagsStep ==
  ASSUME FlagTypes, [Next]_vars
  PROVE  FlagTypes'
<1> USE DEF FlagTypes, osVars, thrVars, histVars
<1>s. ASSUME UNCHANGED <<osVars, thrVars, histVars>> PROVE FlagTypes'
  BY <1>s
<1>0. CASE UNCHANGED vars BY <1>0, <1>s DEF vars
<1>1. CASE SpawnWorkers BY <1>1 DEF SpawnWorkers
<1>2. CASE StartAccept BY <1>2 DEF StartAccept
<1>3. CASE JoinAccept BY <1>3 DEF JoinAccept
<1>4. CASE JoinWorkers BY <1>4 DEF JoinWorkers
<1>5. CASE StopDone BY <1>5 DEF StopDone, CloseIOCP, CleanupWinsock
<1>6. CASE UpdateTasks BY <1>6 DEF UpdateTasks
<1>7. CASE UpdateDone BY <1>7 DEF UpdateDone
<1>8. CASE RunTasks BY <1>8, <1>s DEF RunTasks
<1>9. CASE StartListens BY <1>9 DEF StartListens, StartBegin
<1>10. CASE StartFails BY <1>10 DEF StartFails, StartBegin
<1>11. CASE StopBegin BY <1>11 DEF StopBegin
<1>12. CASE DestroyNetLib BY <1>12 DEF DestroyNetLib
<1>13. CASE UpdateSessions BY <1>13 DEF UpdateSessions
<1>14. CASE AcceptClient BY <1>14 DEF AcceptClient
<1>15. CASE ServeClient BY <1>15 DEF ServeClient
<1>16. CASE AcceptExits BY <1>16 DEF AcceptExits
<1>17. ASSUME NEW w \in Workers, Serve(w, Completion) \/ WorkerExits(w)
       PROVE  FlagTypes'
  BY <1>17, <1>s DEF Serve, WorkerExits
<1>18. ASSUME NEW t \in Posters, InPostSend(t) PROVE FlagTypes'
  BY <1>18, <1>s DEF InPostSend
<1>19. CASE AppUsesSession \/ PushFromAnywhere \/ LastRelease
  BY <1>19, <1>s DEF AppUsesSession, PushFromAnywhere, LastRelease
<1>20. QED
  BY <1>0, <1>1, <1>2, <1>3, <1>4, <1>5, <1>6, <1>7, <1>8, <1>9, <1>10, <1>11,
    <1>12, <1>13, <1>14, <1>15, <1>16, <1>17, <1>18, <1>19
    DEF Next, MainStep, MainCalls

(* For any number of workers and of calls, between two calls the server either
   serves with all that Start set up, or nothing of it is left running
   (NetLib.cpp:67-143). *)
THEOREM ServesOrStoppedAlways == Spec => []ServesOrStopped
<1>1. Init => FlagTypes BY DEF Init, FlagTypes
<1>2. FlagTypes /\ [Next]_vars => FlagTypes' BY FlagsStep
<1>3. SendTypes /\ TaskTypes /\ FlagTypes /\ ServerInv => ServesOrStopped
  <2> SUFFICES ASSUME SendTypes, TaskTypes, FlagTypes, ServerInv
               PROVE  ServesOrStopped
    OBVIOUS
  <2>1. /\ startups \in Nat /\ ports \in Nat /\ starts \in 0 .. MaxStarts
        /\ spawnFails \in 0 .. MaxStarts
    BY NetLibAssumption DEF ServerInv, Accounts, B2N
  <2>2. TypeOK
    BY <2>1 DEF TypeOK, SendTypes, TaskTypes, FlagTypes, ServerInv, Lifecycle,
      PcTypes, MainPcs
  <2>3. mainPc = "out" /\ running => Serving
    BY DEF ServerInv, Lifecycle, Served, Accounts, Acquired, Serving
  <2>4. mainPc = "out" /\ ~running => Quiet
    BY DEF ServerInv, Lifecycle, Acquired
  <2>5. QED BY <2>2, <2>3, <2>4 DEF ServesOrStopped
<1>4. QED
  BY <1>1, <1>2, <1>3, SendTypesAlways, TaskTypesAlways, ServerInvAlways, PTL
     DEF Spec

-----------------------------------------------------------------------------
(***************************************************************************)
(* The send side implements SendChannel.  What the network was given, once *)
(* and for all, is not in a caller's hands and not among what waits.       *)
(***************************************************************************)
Waiting ==
  IF ~open THEN <<>> ELSE IF flight = <<>> THEN queue ELSE Tail(queue)

WireInv ==
  /\ \A i \in DOMAIN wire : wire[i] \in posted \ Held
  /\ phase = "none" => wire = <<>>

Sends(q) ==
  q # <<>> /\ wire' = Append(wire, Head(q)) /\ Waiting' = Tail(q)

\* What a step may do to the channel, apart from opening it.
ChannelStep ==
  \/ UNCHANGED <<open, Waiting, wire>>
  \/ open /\ ~open' /\ UNCHANGED wire
  \/ open /\ Sends(Waiting) /\ UNCHANGED open
  \/ \E m \in Held \ Held' :
       /\ open /\ UNCHANGED open
       /\ \/ Waiting' = Append(Waiting, m) /\ UNCHANGED wire
          \/ Sends(Append(Waiting, m))

LEMMA TailOfAppend ==
  ASSUME NEW q \in Seq(Msgs), q # <<>>, NEW m \in Msgs
  PROVE  Tail(Append(q, m)) = Append(Tail(q), m)
<1>1. /\ Len(q) \in Nat \ {0} /\ Tail(q) \in Seq(Msgs)
      /\ Len(Tail(Append(q, m))) = Len(q) /\ Len(Append(Tail(q), m)) = Len(q)
      /\ Tail(Append(q, m)) \in Seq(Msgs) /\ Append(Tail(q), m) \in Seq(Msgs)
  OBVIOUS
<1>2. \A i \in 1 .. Len(q) : Tail(Append(q, m))[i] = Append(Tail(q), m)[i]
  OBVIOUS
<1>3. QED BY <1>1, <1>2, SeqEqual

LEMMA SessionEnds ==
  ASSUME SendTypes, TurnInv, NEW S, RemoveSession(S) \/ Close(S),
         UNCHANGED wire
  PROVE  ChannelStep
<1>1. ~open' BY RemoveCloses DEF Close
<1>2. CASE open BY <1>1, <1>2 DEF ChannelStep
<1>3. CASE ~open
  <2>1. open' = FALSE \/ open' = open BY DEF RemoveSession, Close
  <2>2. open' = open BY <1>3, <2>1, Zenon DEF SendTypes, SendTypeOK
  <2>3. Waiting' = Waiting BY <1>1, <1>3 DEF Waiting
  <2>4. QED BY <2>2, <2>3 DEF ChannelStep
<1>4. QED BY <1>2, <1>3

LEMMA ChannelSteps ==
  ASSUME SendTypes, SendTypes', TurnInv, TurnInv', OwnInv,
         SendStep \/ UNCHANGED sendVars, ~CreateSession
  PROVE  ChannelStep
<1> USE DEF sessVars, queueVars, msgVars, sendVars
<1>s. ASSUME UNCHANGED <<open, flight, queue, wire>> PROVE ChannelStep
  BY <1>s DEF ChannelStep, Waiting
<1>c. ASSUME ~open, UNCHANGED <<open, wire>> PROVE ChannelStep
  BY <1>c DEF ChannelStep, Waiting
<1>0. CASE UNCHANGED sendVars BY <1>0, <1>s
<1> SUFFICES ASSUME SendStep PROVE ChannelStep BY <1>0
<1>1. CASE ApplyPolicy BY <1>1, <1>s DEF ApplyPolicy
<1>2. CASE InitialRecv BY <1>2, <1>s DEF InitialRecv
<1>3. CASE AcceptFails BY <1>3, SessionEnds DEF AcceptFails
<1>4. ASSUME NEW t \in Posters, NEW m \in Msgs, PostSend(t, m) PROVE ChannelStep
  BY <1>4, <1>s DEF PostSend
<1>5. ASSUME NEW t \in Posters, PostSendDrop(t) PROVE ChannelStep
  BY <1>5, <1>s, SessionEnds DEF PostSendDrop
<1>6. ASSUME NEW t \in Posters, PostSendQueue(t) PROVE ChannelStep
  <2> DEFINE m == posting[t]
  <2>1. open' = open BY <1>6 DEF PostSendQueue
  <2>2. m \in Msgs /\ queue \in Seq(Msgs) /\ queue' = Append(queue, m)
    BY <1>6 DEF PostSendQueue, Push, SendTypes, SendTypeOK
  <2>3. m \in Held \ Held'
    BY <1>6, PosterLeaves DEF PostSendQueue, SendTypes, SendTypeOK, OwnInv
  <2>4. CASE ~open
    BY <1>6, <1>c, <2>1, <2>4 DEF PostSendQueue, Starts, Fails
  <2>5. CASE open /\ sending
    <3>1. UNCHANGED <<flight, wire>> BY <1>6, <2>5 DEF PostSendQueue, SendInFlight
    <3>2. flight # <<>> /\ queue # <<>> BY <2>5 DEF TurnInv, SendsInTurn
    <3>3. Waiting = Tail(queue) /\ Waiting' = Tail(queue')
      BY <2>1, <2>5, <3>1, <3>2 DEF Waiting
    <3>4. Waiting' = Append(Waiting, m) BY <2>2, <3>2, <3>3, TailOfAppend
    <3>5. QED BY <2>1, <2>3, <2>5, <3>1, <3>4 DEF ChannelStep
  <2>6. CASE open /\ ~sending
    <3>1. flight = <<>> BY <2>6 DEF TurnInv, SendsInTurn
    <3>2. Waiting = queue BY <2>6, <3>1 DEF Waiting
    <3>3. CASE Starts(FirstOf(queue'), flight)
      <4>1. flight' # <<>> BY <3>3 DEF Starts, TurnInv, SendsInTurn
      <4>2. Waiting' = Tail(queue') BY <2>1, <2>6, <4>1 DEF Waiting
      <4>3. queue' # <<>> /\ wire' = Append(wire, Head(queue'))
        BY <2>2, <3>3 DEF Starts, FirstOf
      <4>4. Sends(Append(Waiting, m)) BY <2>2, <3>2, <4>2, <4>3 DEF Sends
      <4>5. QED BY <2>1, <2>3, <2>6, <4>4 DEF ChannelStep
    <3>4. CASE Fails(flight)
      <4>1. Waiting' = Append(Waiting, m) /\ UNCHANGED wire
        BY <2>1, <2>2, <2>6, <3>1, <3>2, <3>4 DEF Fails, Waiting
      <4>2. QED BY <2>1, <2>3, <2>6, <4>1 DEF ChannelStep
    <3>5. QED BY <1>6, <2>6, <3>3, <3>4 DEF PostSendQueue, SendInFlight
  <2>7. QED BY <2>4, <2>5, <2>6
<1>7. CASE DeleteRefusedPing BY <1>7, <1>s DEF DeleteRefusedPing
<1>8. CASE OnSendCompleted
  <2>1. open' = open BY <1>8 DEF OnSendCompleted
  <2>2. CASE ~open
    BY <1>8, <1>c, <2>1, <2>2 DEF OnSendCompleted, Starts, Fails
  <2>3. CASE open
    <3>1. flight # <<>> /\ queue # <<>> /\ flight = <<Head(queue)>>
      BY <1>8, <2>3 DEF OnSendCompleted, TurnInv, SendsInTurn
    <3>2. Tail(flight) = <<>>
      <4>1. \A x : Tail(<<x>>) = <<>> OBVIOUS
      <4>2. QED BY <3>1, <4>1
    <3>3. queue' = Tail(queue) BY <1>8, <3>1 DEF OnSendCompleted
    <3>4. Waiting = queue' BY <2>3, <3>1, <3>3 DEF Waiting
    <3>5. CASE wire' = wire /\ flight' = <<>>
      BY <2>1, <2>3, <3>4, <3>5 DEF ChannelStep, Waiting
    <3>6. CASE queue' # <<>> /\ Starts(Head(queue'), <<>>)
      <4>1. flight' # <<>> BY <3>6 DEF Starts
      <4>2. Waiting' = Tail(queue') BY <2>1, <2>3, <4>1 DEF Waiting
      <4>3. Sends(Waiting) BY <3>4, <3>6, <4>2 DEF Sends, Starts
      <4>4. QED BY <2>1, <2>3, <4>3 DEF ChannelStep
    <3>7. QED
      BY <1>8, <3>1, <3>2, <3>3, <3>5, <3>6 DEF OnSendCompleted, Fails
  <2>4. QED BY <2>2, <2>3
<1>9. CASE SendFailed BY <1>9, SessionEnds DEF SendFailed
<1>10. CASE RecvFailed BY <1>10, SessionEnds DEF RecvFailed
<1>11. CASE RecvOverflow BY <1>11, SessionEnds DEF RecvOverflow
<1>12. CASE RecvNotReposted BY <1>12, <1>s DEF RecvNotReposted
<1>13. CASE Disconnect BY <1>13, SessionEnds DEF Disconnect
<1>14. CASE DeleteSession BY <1>14, SessionEnds DEF DeleteSession
<1>15. QED
  BY <1>1, <1>2, <1>3, <1>4, <1>5, <1>6, <1>7, <1>8, <1>9, <1>10, <1>11, <1>12,
    <1>13, <1>14 DEF SendStep

(* Messages stay posted, and only new ones get into a caller's hands. *)
Grows ==
  /\ posted \subseteq posted' /\ Held' \subseteq Held \cup (posted' \ posted)
  /\ phase' = "none" => phase = "none"
  /\ \/ wire' = wire
     \/ open /\ queue' # <<>> /\ wire' = Append(wire, Head(queue'))

LEMMA Growing ==
  ASSUME SendTypes, SendTypes', OwnInv, SendStep \/ UNCHANGED sendVars
  PROVE  Grows
<1> USE DEF sessVars, queueVars, msgVars, sendVars
<1>s. ASSUME UNCHANGED <<posted, posting, wire>>, phase' = "none" => phase = "none"
      PROVE  Grows
  BY <1>s DEF Grows, Held
<1>0. CASE UNCHANGED sendVars BY <1>0, <1>s
<1> SUFFICES ASSUME SendStep PROVE Grows BY <1>0
<1>1. CASE CreateSession BY <1>1, <1>s DEF CreateSession
<1>2. CASE ApplyPolicy BY <1>2, <1>s DEF ApplyPolicy
<1>3. CASE InitialRecv BY <1>3, <1>s DEF InitialRecv
<1>4. CASE AcceptFails BY <1>4, <1>s DEF AcceptFails
<1>5. ASSUME NEW t \in Posters, NEW m \in Msgs, PostSend(t, m) PROVE Grows
  <2>1. m \notin posted /\ posted' = posted \cup {m} /\ phase' = phase /\ wire' = wire
    BY <1>5 DEF PostSend
  <2>2. Held' = Held \/ Held' = Held \cup {m}
    <3>1. CASE posting' = posting BY <3>1 DEF Held
    <3>2. CASE posting' = [posting EXCEPT ![t] = m]
      BY <1>5, <2>1, <3>2, PosterEnters, SendQueueAssumption
         DEF PostSend, SendTypes, SendTypeOK, OwnInv, OwnersApart
    <3>3. QED BY <1>5, <3>1, <3>2 DEF PostSend
  <2>3. QED BY <2>1, <2>2 DEF Grows
<1>6. ASSUME NEW t \in Posters, PostSendDrop(t) PROVE Grows
  <2>1. Held' = Held \ {posting[t]}
    BY <1>6, PosterLeaves DEF PostSendDrop, SendTypes, SendTypeOK, OwnInv
  <2>2. QED BY <1>6, <2>1 DEF PostSendDrop, Grows
<1>7. ASSUME NEW t \in Posters, PostSendQueue(t) PROVE Grows
  <2>1. Held' = Held \ {posting[t]}
    BY <1>7, PosterLeaves DEF PostSendQueue, SendTypes, SendTypeOK, OwnInv
  <2>2. posting[t] \in Msgs /\ queue \in Seq(Msgs) /\ queue' = Append(queue, posting[t])
    BY <1>7 DEF PostSendQueue, Push, SendTypes, SendTypeOK
  <2>3. queue' # <<>> BY <2>2
  <2>4. QED
    BY <1>7, <2>1, <2>3 DEF PostSendQueue, Starts, Fails, FirstOf, Grows
<1>8. CASE DeleteRefusedPing BY <1>8, <1>s DEF DeleteRefusedPing
<1>9. CASE OnSendCompleted
  <2>1. UNCHANGED <<posted, posting, phase>> BY <1>9 DEF OnSendCompleted
  <2>2. wire' = wire \/ (open /\ queue' # <<>> /\ wire' = Append(wire, Head(queue')))
    BY <1>9 DEF OnSendCompleted, Starts, Fails
  <2>3. QED BY <2>1, <2>2 DEF Grows, Held
<1>10. CASE SendFailed BY <1>10, <1>s DEF SendFailed
<1>11. CASE RecvFailed BY <1>11, <1>s DEF RecvFailed
<1>12. CASE RecvOverflow BY <1>12, <1>s DEF RecvOverflow
<1>13. CASE RecvNotReposted BY <1>13, <1>s DEF RecvNotReposted
<1>14. CASE Disconnect BY <1>14, <1>s DEF Disconnect
<1>15. CASE DeleteSession BY <1>15, <1>s DEF DeleteSession
<1>16. QED
  BY <1>1, <1>2, <1>3, <1>4, <1>5, <1>6, <1>7, <1>8, <1>9, <1>10, <1>11, <1>12,
    <1>13, <1>14, <1>15 DEF SendStep

LEMMA WireStep ==
  ASSUME SendTypes, SendTypes', TurnInv, OwnInv', WireInv, Grows
  PROVE  WireInv'
<1>1. CASE wire' = wire BY <1>1 DEF WireInv, Grows
<1>2. CASE open /\ queue' # <<>> /\ wire' = Append(wire, Head(queue'))
  <2>1. phase' # "none" BY <1>2 DEF TurnInv, Grows
  <2>2. Head(queue') \in Queued'
    BY <1>2, HeadIsIn DEF Queued, SendTypes, SendTypeOK
  <2>3. Head(queue') \in posted' \ Held' BY <2>2 DEF OwnInv, OwnersApart
  <2>4. wire \in Seq(Msgs) BY DEF SendTypes, SendTypeOK
  <2>5. \A j \in DOMAIN wire' :
          wire'[j] = Head(queue') \/ (j \in DOMAIN wire /\ wire'[j] = wire[j])
    BY <1>2, <2>4
  <2>6. \A j \in DOMAIN wire : wire[j] \in posted' \ Held'
    BY DEF WireInv, Grows
  <2>7. QED BY <2>1, <2>3, <2>5, <2>6 DEF WireInv
<1>3. QED BY <1>1, <1>2 DEF Grows

LEMMA WaitingQueued ==
  ASSUME SendTypes
  PROVE  \A i \in DOMAIN Waiting : Waiting[i] \in Queued
<1>1. queue \in Seq(Msgs) BY DEF SendTypes, SendTypeOK
<1>2. CASE queue = <<>> \/ Waiting = <<>> \/ Waiting = queue
  <2>1. Waiting = <<>> \/ Waiting = queue BY <1>2 DEF Waiting
  <2>2. QED BY <2>1 DEF Queued
<1>3. CASE queue # <<>> /\ Waiting = Tail(queue)
  <2>1. \A i \in DOMAIN Tail(queue) :
          i + 1 \in DOMAIN queue /\ Tail(queue)[i] = queue[i + 1]
    BY <1>1, <1>3
  <2>2. QED BY <1>3, <2>1 DEF Queued
<1>4. QED BY <1>2, <1>3 DEF Waiting

(* The send side is a FIFO channel that sends each message at most once and
   nothing after Close (Session.cpp:112-176, :219-256), for any messages,
   sizes, limits, threads and workers. *)
THEOREM ChannelImplemented == Spec => ImplementsChannel
<1>i. Init => OwnInv /\ TurnInv /\ WireInv
  BY SendQueueAssumption
     DEF Init, SendInit, OwnInv, QueuedOnce, HeldOnce, OwnersApart, Queued, Held,
         TurnInv, SendsInTurn, Untouched, Posters, WireInv
<1>n. /\ SendTypes /\ SendTypes' /\ OwnInv /\ TurnInv /\ WireInv /\ [Next]_vars
      => OwnInv' /\ TurnInv' /\ WireInv'
  BY NextSends, OwnStep, TurnStep, Growing, WireStep
<1>1. Init => Channel!Init
  BY Zenon DEF Init, SendInit, Channel!Init
<1>2. SendTypes /\ SendTypes' /\ OwnInv /\ TurnInv /\ WireInv /\ TurnInv' /\ [Next]_vars
      => [Channel!Next]_(Channel!channelVars)
  <2> SUFFICES ASSUME SendTypes, SendTypes', OwnInv, TurnInv, WireInv, TurnInv',
                      [Next]_vars
               PROVE  [Channel!Next]_(Channel!channelVars)
    OBVIOUS
  <2> USE DEF Channel!Next, Channel!channelVars
  <2>1. CASE CreateSession
    <3>1. /\ phase = "none" /\ open' = TRUE
          /\ UNCHANGED <<queue, flight, wire>>
      BY <2>1 DEF CreateSession, queueVars
    <3>2. ~open /\ wire = <<>> /\ queue = <<>> /\ flight = <<>>
      BY <3>1 DEF TurnInv, Untouched, WireInv
    <3>3. Channel!Open BY <3>1, <3>2 DEF Channel!Open
    <3>4. QED BY <3>3
  <2>2. CASE ~CreateSession
    <3>1. ChannelStep BY <2>2, NextSends, ChannelSteps
    <3>2. CASE UNCHANGED <<open, Waiting, wire>>
      BY <3>2 DEF Waiting
    <3>3. CASE open /\ ~open' /\ UNCHANGED wire
      <4>1. open' = FALSE BY <3>3 DEF SendTypes, SendTypeOK
      <4>2. Channel!Break BY <3>3, <4>1 DEF Channel!Break
      <4>3. QED BY <4>2
    <3>4. CASE open /\ Sends(Waiting) /\ UNCHANGED open
      <4>1. Channel!Transmit
        BY <3>4 DEF Channel!Transmit, Channel!Send, Sends, Waiting
      <4>2. QED BY <4>1
    <3>5. ASSUME NEW m \in Held \ Held', open, UNCHANGED open,
                 \/ Waiting' = Append(Waiting, m) /\ UNCHANGED wire
                 \/ Sends(Append(Waiting, m))
          PROVE  Channel!Next
      <4>1. m \in Msgs BY DEF Held, SendTypes, SendTypeOK
      <4>2. ~Channel!In(m, Waiting)
        BY WaitingQueued DEF Channel!In, OwnInv, OwnersApart
      <4>3. ~Channel!In(m, wire) BY DEF Channel!In, WireInv
      <4>4. Channel!Accept(m)
        BY <3>5, <4>2, <4>3 DEF Channel!Accept, Channel!Send, Sends, Waiting
      <4>5. QED BY <4>1, <4>4
    <3>6. QED BY <3>1, <3>2, <3>3, <3>4, <3>5 DEF ChannelStep
  <2>3. QED BY <2>1, <2>2
<1>3. QED
  BY <1>i, <1>n, <1>1, <1>2, SendTypesAlways, PTL
     DEF Spec, ImplementsChannel, Channel!Spec

-----------------------------------------------------------------------------
(***************************************************************************)
(* The tasks: they are executed in the order of their numbers, and after   *)
(* the destructor nobody pushes.                                           *)
(***************************************************************************)
DoneCount == Cardinality(taskDone)
RunCount  == IF task = NoTask THEN 0 ELSE 1

TaskOrder ==
  /\ DoneCount \in Nat /\ taskDone = 1 .. DoneCount
  /\ execPc = "run" => task = DoneCount + 1
  /\ execPc # "run" => task = NoTask
  /\ \A i \in DOMAIN taskQueue : taskQueue[i] = DoneCount + RunCount + i
  /\ \A i \in DOMAIN dropped : dropped[i] = DoneCount + RunCount + i
  /\ IF destroyed THEN taskQueue = <<>> ELSE dropped = <<>>

\* A step of the task manager, with what NetLib knows of the destructor.
TaskStepOf ==
  \/ ~destroyed /\ ~destroyed' /\ PushTask
  \/ (Execute \/ ExecuteStep) /\ UNCHANGED destroyed
  \/ ~destroyed /\ destroyed' /\ DropTasks
  \/ UNCHANGED taskVars /\ UNCHANGED destroyed

LEMMA NextTasksOf == [Next]_vars => TaskStepOf
<1> SUFFICES ASSUME [Next]_vars PROVE TaskStepOf
  OBVIOUS
<1> USE DEF TaskStepOf, histVars
<1>0. CASE UNCHANGED vars BY <1>0 DEF vars
<1>1. CASE MainStep
  BY <1>1 DEF MainStep, SpawnWorkers, StartAccept, JoinAccept, JoinWorkers,
    StopDone, UpdateTasks, UpdateDone, RunTasks
<1>2. CASE MainCalls
  BY <1>2 DEF MainCalls, StartListens, StartFails, StopBegin, DestroyNetLib,
    UpdateSessions
<1>3. CASE AcceptClient \/ ServeClient \/ AcceptExits
  BY <1>3 DEF AcceptClient, ServeClient, AcceptExits
<1>4. ASSUME NEW w \in Workers, Serve(w, Completion) \/ WorkerExits(w)
      PROVE  TaskStepOf
  BY <1>4 DEF Serve, WorkerExits
<1>5. ASSUME NEW t \in Posters, InPostSend(t) PROVE TaskStepOf
  BY <1>5 DEF InPostSend
<1>6. CASE AppUsesSession \/ PushFromAnywhere \/ LastRelease
  BY <1>6 DEF AppUsesSession, PushFromAnywhere, LastRelease
<1>7. QED BY <1>0, <1>1, <1>2, <1>3, <1>4, <1>5, <1>6 DEF Next

LEMMA PushNext ==
  ASSUME TaskTypes, TaskOrder, ~destroyed, PushTask
  PROVE  /\ taskQueue' = Append(taskQueue, DoneCount + RunCount + Len(taskQueue) + 1)
         /\ Pushed + 1 = DoneCount + RunCount + Len(taskQueue) + 1
         /\ Pushed + 1 \in Tasks
<1>1. dropped = <<>> BY DEF TaskOrder
<1>2. Pushed = DoneCount + RunCount + Len(taskQueue)
  BY <1>1 DEF Pushed, DoneCount, RunCount, TaskOrder, TaskTypes, TaskTypeOK
<1>3. DoneCount \in Nat /\ RunCount \in Nat /\ Len(taskQueue) \in Nat
  BY DEF RunCount, TaskOrder, TaskTypes, TaskTypeOK
<1>4. QED
  BY <1>2, <1>3, TaskMgrAssumption DEF PushTask, Tasks

LEMMA TaskOrderStep ==
  ASSUME TaskTypes, TaskTypes', TaskOrder, TaskStepOf
  PROVE  TaskOrder'
<1> USE DEF taskVars
<1>t. /\ taskQueue \in Seq(Tasks) /\ dropped \in Seq(Tasks) /\ DoneCount \in Nat
      /\ RunCount \in Nat
  BY DEF TaskTypes, TaskTypeOK, TaskOrder, RunCount
<1>1. CASE ~destroyed /\ ~destroyed' /\ PushTask
  <2>1. /\ taskQueue' = Append(taskQueue, DoneCount + RunCount + Len(taskQueue) + 1)
        /\ UNCHANGED <<task, execPc, taskDone, dropped>>
    BY <1>1, PushNext DEF PushTask
  <2>2. DoneCount' = DoneCount /\ RunCount' = RunCount
    BY <2>1 DEF DoneCount, RunCount
  <2>3. \A i \in DOMAIN taskQueue' : taskQueue'[i] = DoneCount + RunCount + i
    <3> DEFINE n == DoneCount + RunCount
    <3>1. n \in Nat /\ \A i \in DOMAIN taskQueue : taskQueue[i] = n + i
      BY <1>t DEF TaskOrder
    <3> HIDE DEF n
    <3>2. ASSUME NEW i \in 1 .. Len(taskQueue) + 1,
                 taskQueue' = Append(taskQueue, n + Len(taskQueue) + 1)
          PROVE  taskQueue'[i] = n + i
      <4>1. CASE i = Len(taskQueue) + 1 BY <1>t, <3>1, <3>2, <4>1
      <4>2. CASE i \in DOMAIN taskQueue BY <1>t, <3>1, <3>2, <4>2
      <4>3. QED BY <1>t, <4>1, <4>2
    <3>3. DOMAIN taskQueue' = 1 .. Len(taskQueue) + 1 BY <1>t, <2>1
    <3>4. QED BY <2>1, <3>2, <3>3 DEF n
  <2>4. QED BY <1>1, <2>1, <2>2, <2>3 DEF TaskOrder
<1>2. CASE (Execute \/ FoundEmpty) /\ UNCHANGED destroyed
  <2>1. UNCHANGED <<task, taskDone, taskQueue, dropped>>
        /\ execPc # "run" /\ execPc' # "run"
    BY <1>2 DEF Execute, FoundEmpty
  <2>2. QED BY <1>2, <2>1 DEF TaskOrder, DoneCount, RunCount
<1>3. CASE PopTask /\ UNCHANGED destroyed
  <2>1. /\ taskQueue # <<>> /\ execPc = "test" /\ execPc' = "run"
        /\ task' = Head(taskQueue) /\ taskQueue' = Tail(taskQueue)
        /\ UNCHANGED <<taskDone, dropped, destroyed>>
    BY <1>3 DEF PopTask
  <2>2. ~destroyed /\ dropped = <<>> /\ RunCount = 0 /\ DoneCount' = DoneCount
    BY <2>1 DEF TaskOrder, RunCount, DoneCount
  <2>3. task' = DoneCount + 1
    BY <1>t, <2>1, <2>2 DEF TaskOrder
  <2>4. RunCount' = 1 BY <1>t, <2>3 DEF RunCount, NoTask
  <2>5. \A i \in DOMAIN taskQueue' :
          i \in Nat /\ i + 1 \in DOMAIN taskQueue /\ taskQueue'[i] = taskQueue[i + 1]
    BY <1>t, <2>1
  <2>6. \A i \in DOMAIN taskQueue' : taskQueue'[i] = DoneCount + 1 + i
    BY <1>t, <2>2, <2>5 DEF TaskOrder
  <2>7. QED BY <2>1, <2>2, <2>3, <2>4, <2>6 DEF TaskOrder
<1>4. CASE TaskReturns /\ UNCHANGED destroyed
  <2>1. /\ execPc = "run" /\ execPc' = "test" /\ task' = NoTask
        /\ taskDone' = taskDone \cup {task}
        /\ UNCHANGED <<taskQueue, dropped, destroyed>>
    BY <1>4 DEF TaskReturns
  <2>2. task = DoneCount + 1 /\ taskDone = 1 .. DoneCount
    BY <2>1 DEF TaskOrder
  <2>3. taskDone' = 1 .. DoneCount + 1 BY <1>t, <2>1, <2>2
  <2>4. DoneCount' = DoneCount + 1
    BY <1>t, <2>3, FS_Interval DEF DoneCount
  <2>5. RunCount = 1 /\ RunCount' = 0
    BY <1>t, <2>1, <2>2 DEF RunCount, NoTask
  <2>6. QED BY <1>t, <2>1, <2>3, <2>4, <2>5 DEF TaskOrder
<1>5. CASE ~destroyed /\ destroyed' /\ DropTasks
  <2>1. /\ taskQueue' = <<>> /\ dropped' = taskQueue
        /\ UNCHANGED <<task, execPc, taskDone>>
    BY <1>5 DEF DropTasks
  <2>2. QED BY <1>5, <2>1 DEF TaskOrder, DoneCount, RunCount
<1>6. CASE UNCHANGED taskVars /\ UNCHANGED destroyed
  BY <1>6 DEF TaskOrder, DoneCount, RunCount
<1>7. QED BY <1>1, <1>2, <1>3, <1>4, <1>5, <1>6 DEF TaskStepOf, ExecuteStep

(* The task manager is a FIFO executor with one thread that starts every task
   at most once, for any number of tasks, whoever pushes them
   (Task.cpp:9-40). *)
THEOREM TaskThreadImplemented == Spec => RunsTasksInOrder
<1>i. Init => TaskOrder
  BY FS_EmptySet DEF Init, TaskInit, TaskOrder, DoneCount, RunCount
<1>n. TaskTypes /\ TaskTypes' /\ TaskOrder /\ [Next]_vars => TaskOrder'
  BY NextTasksOf, TaskOrderStep
<1>1. Init => TaskThread!Init
  BY DEF Init, TaskInit, TaskThread!Init
<1>2. TaskTypes /\ TaskTypes' /\ TaskOrder /\ TaskOrder' /\ [Next]_vars
      => [TaskThread!Next]_(TaskThread!execVars)
  <2> SUFFICES ASSUME TaskTypes, TaskTypes', TaskOrder, TaskOrder', [Next]_vars
               PROVE  [TaskThread!Next]_(TaskThread!execVars)
    OBVIOUS
  <2> USE DEF TaskThread!Next, TaskThread!execVars
  <2>t. /\ taskQueue \in Seq(Tasks) /\ dropped \in Seq(Tasks) /\ DoneCount \in Nat
        /\ RunCount \in Nat
    BY DEF TaskTypes, TaskTypeOK, TaskOrder, RunCount
  <2>e. \A q \in Seq(Tasks) : q \o <<>> = q /\ <<>> \o q = q
    BY ConcatEmptySeq
  <2>1. CASE ~destroyed /\ ~destroyed' /\ PushTask
    <3> DEFINE k == Pushed + 1
    <3>1. /\ k \in Tasks /\ k = DoneCount + RunCount + Len(taskQueue) + 1
          /\ taskQueue' = Append(taskQueue, k)
          /\ UNCHANGED <<task, execPc, taskDone, dropped>>
      BY <2>1, PushNext DEF PushTask
    <3>2. dropped = <<>> BY <2>1 DEF TaskOrder
    <3>3. taskQueue \o dropped = taskQueue /\ (taskQueue \o dropped)' = taskQueue'
      BY <2>t, <2>e, <3>1, <3>2
    <3>4. \A i \in DOMAIN taskQueue : taskQueue[i] # k
      BY <2>t, <3>1 DEF TaskOrder
    <3>5. k \notin taskDone /\ k \notin {task} \ {NoTask}
      BY <2>t, <3>1 DEF TaskOrder, RunCount
    <3>6. ~TaskThread!Known(k)
      BY <3>3, <3>4, <3>5 DEF TaskThread!Known
    <3>7. TaskThread!Enqueue(k)
      BY <3>1, <3>3, <3>6 DEF TaskThread!Enqueue
    <3>8. QED BY <3>1, <3>7
  <2>2. CASE Execute \/ FoundEmpty BY <2>2 DEF Execute, FoundEmpty
  <2>3. CASE PopTask
    <3>1. /\ taskQueue # <<>> /\ task = NoTask /\ task' = Head(taskQueue)
          /\ taskQueue' = Tail(taskQueue) /\ UNCHANGED <<taskDone, dropped>>
      BY <2>3 DEF PopTask, TaskOrder
    <3>2. dropped = <<>> BY <3>1 DEF TaskOrder
    <3>3. taskQueue \o dropped = taskQueue /\ (taskQueue \o dropped)' = Tail(taskQueue)
      BY <2>t, <2>e, <3>1, <3>2
    <3>4. Head(taskQueue) \in Tasks /\ Head(taskQueue) # NoTask
      <4>1. Head(taskQueue) \in Tasks BY <2>t, <3>1
      <4>2. QED BY <4>1 DEF Tasks, NoTask
    <3>5. {task} \ {NoTask} = {} /\ ({task} \ {NoTask})' = {Head(taskQueue)}
      BY <3>1, <3>4
    <3>6. Cardinality({task} \ {NoTask}) < 1 BY <3>5, FS_EmptySet
    <3>7. TaskThread!Start
      <4>1. taskQueue \o dropped # <<>> BY <3>1, <3>3
      <4>2. /\ ({task} \ {NoTask})'
                 = ({task} \ {NoTask}) \cup {Head(taskQueue \o dropped)}
            /\ (taskQueue \o dropped)' = Tail(taskQueue \o dropped)
        BY <3>3, <3>5
      <4>3. taskDone' = taskDone BY <3>1
      <4>4. TaskThread!Cardinality({task} \ {NoTask}) = Cardinality({task} \ {NoTask})
        BY DEF Cardinality, TaskThread!Cardinality
      <4>5. QED BY <3>6, <4>1, <4>2, <4>3, <4>4 DEF TaskThread!Start
    <3>8. QED BY <3>7
  <2>4. CASE TaskReturns
    <3>1. /\ task \in Tasks /\ task # NoTask /\ task' = NoTask
          /\ taskDone' = taskDone \cup {task} /\ UNCHANGED <<taskQueue, dropped>>
      BY <2>4 DEF TaskReturns, TaskTypes, Tasks, NoTask
    <3>2. TaskThread!Finish(task) BY <3>1 DEF TaskThread!Finish
    <3>3. QED BY <3>1, <3>2
  <2>5. CASE ~destroyed /\ DropTasks
    <3>1. /\ dropped = <<>> /\ taskQueue' = <<>> /\ dropped' = taskQueue
          /\ UNCHANGED <<task, taskDone>>
      BY <2>5 DEF DropTasks, TaskOrder
    <3>2. (taskQueue \o dropped)' = taskQueue \o dropped
      BY <2>t, <2>e, <3>1
    <3>3. QED BY <3>1, <3>2
  <2>6. CASE UNCHANGED taskVars BY <2>6 DEF taskVars
  <2>7. QED
    BY NextTasksOf, <2>1, <2>2, <2>3, <2>4, <2>5, <2>6 DEF TaskStepOf, ExecuteStep
<1>3. QED
  BY <1>i, <1>n, <1>1, <1>2, TaskTypesAlways, PTL
     DEF Spec, RunsTasksInOrder, TaskThread!Spec
=============================================================================
