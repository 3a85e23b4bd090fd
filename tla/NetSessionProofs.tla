-------------------------- MODULE NetSessionProofs --------------------------
(* Proofs about NetSession, for any sets of sessions and threads: the        *)
(* reference count is exact and no owner of a session sees it deleted.       *)
EXTENDS NetSession, FiniteSetTheorems, TLAPS

\* The object exists exactly while its count is positive.
LifeExact == \A s \in Sessions : life[s] = "live" <=> refCnt[s] > 0

\* Every place belongs to the function whose frame is on the stack.
FrameOk(t) ==
  /\ pc[t] = "idle" <=> frame[t] = "none"
  /\ pc[t] = "send.done" <=> frame[t] = "send"
  /\ pc[t] \in RecvSites => frame[t] = "recv"
  /\ pc[t] \in {"post", "issue"} => frame[t] \in {"recv", "acc"}
  /\ pc[t] \in {"acc.bind", "acc.conn"} => frame[t] = "conn"
  /\ pc[t] \in {"acc.policy", "acc.fail"} => frame[t] = "acc"
  /\ pc[t] \in {"upd.loop", "upd.visit", "upd.mark"} => frame[t] = "upd"
  /\ pc[t] \in {"stop.accept", "stop.workers", "stop.lock", "stop.loop",
                "stopped"} => frame[t] = "stop"

FramesOk == \A t \in Threads : FrameOk(t)

\* A worker in DisconnectGracefully has leaked the reference it came with.
FailLeaked == \A t \in Threads : frame[t] = "fail" => leak[at[t]] > 0

\* The inductive invariant.
IInv == TypeOK /\ LifeExact /\ FramesOk /\ FailLeaked /\ RefExact

-----------------------------------------------------------------------------
(* Only thread t moves. *)
OnlyMoves(t) ==
  \A u \in Threads \ {t} : pc'[u] = pc[u] /\ frame'[u] = frame[u]
                                          /\ at'[u] = at[u]

(* Counting over a finite set: when membership changes for t alone, the
   cardinality changes by what t contributes. *)
LEMMA CountMove ==
  ASSUME NEW A, NEW B, NEW t, IsFiniteSet(A), IsFiniteSet(B),
         A \ {t} = B \ {t}
  PROVE  /\ Cardinality(A) \in Nat
         /\ Cardinality(B) \in Nat
         /\ Cardinality(B) = Cardinality(A) - B2N(t \in A) + B2N(t \in B)
<1>1. IsFiniteSet(A \ {t}) /\ Cardinality(A \ {t}) \in Nat
  BY FS_Subset, FS_CardinalityType
<1>2. Cardinality(A) = Cardinality(A \ {t}) + B2N(t \in A)
  <2>1. CASE t \in A
    BY <2>1, <1>1, FS_RemoveElement, FS_CardinalityType DEF B2N
  <2>2. CASE t \notin A
    <3>1. A \ {t} = A
      BY <2>2
    <3>2. Cardinality(A) = Cardinality(A \ {t})
      BY <3>1, Zenon
    <3>3. QED
      BY <3>2, <2>2, <1>1 DEF B2N
  <2>3. QED
    BY <2>1, <2>2
<1>3. Cardinality(B) = Cardinality(A \ {t}) + B2N(t \in B)
  <2>1. CASE t \in B
    BY <2>1, <1>1, FS_RemoveElement, FS_CardinalityType DEF B2N
  <2>2. CASE t \notin B
    <3>1. A \ {t} = B
      BY <2>2
    <3>2. Cardinality(B) = Cardinality(A \ {t})
      BY <3>1, Zenon
    <3>3. QED
      BY <3>2, <2>2, <1>1 DEF B2N
  <2>3. QED
    BY <2>1, <2>2
<1>4. QED
  BY <1>1, <1>2, <1>3, FS_CardinalityType DEF B2N

Held(t, s) == B2N(Serves(t, s)) + B2N(Removes(t, s)) + B2N(Issues(t, s))

(* What the threads hold on s changes by what the moving thread holds. *)
LEMMA HeldMove ==
  ASSUME NEW t \in Threads, NEW s \in Sessions, OnlyMoves(t)
  PROVE  /\ HeldByThreads(s) \in Nat
         /\ HeldByThreads(s)' = HeldByThreads(s) - Held(t, s) + Held(t, s)'
<1> DEFINE S == {u \in Threads : Serves(u, s)}
           R == {u \in Threads : Removes(u, s)}
           I == {u \in Threads : Issues(u, s)}
<1>1. IsFiniteSet(S) /\ IsFiniteSet(R) /\ IsFiniteSet(I)
      /\ IsFiniteSet(S') /\ IsFiniteSet(R') /\ IsFiniteSet(I')
  <2>1. S \subseteq Threads /\ R \subseteq Threads /\ I \subseteq Threads
        /\ S' \subseteq Threads /\ R' \subseteq Threads /\ I' \subseteq Threads
    OBVIOUS
  <2>2. QED
    BY <2>1, ThreadsAssumption, FS_Subset
<1>2. S \ {t} = S' \ {t} /\ R \ {t} = R' \ {t} /\ I \ {t} = I' \ {t}
  BY DEF OnlyMoves, Serves, Removes, Issues
<1>3. /\ Cardinality(S) \in Nat /\ Cardinality(S') \in Nat
      /\ Cardinality(S') = Cardinality(S) - B2N(t \in S) + B2N(t \in S')
  BY <1>1, <1>2, CountMove
<1>4. /\ Cardinality(R) \in Nat /\ Cardinality(R') \in Nat
      /\ Cardinality(R') = Cardinality(R) - B2N(t \in R) + B2N(t \in R')
  BY <1>1, <1>2, CountMove
<1>5. /\ Cardinality(I) \in Nat /\ Cardinality(I') \in Nat
      /\ Cardinality(I') = Cardinality(I) - B2N(t \in I) + B2N(t \in I')
  BY <1>1, <1>2, CountMove
<1>6. /\ B2N(t \in S) = B2N(Serves(t, s))
      /\ B2N(t \in R) = B2N(Removes(t, s))
      /\ B2N(t \in I) = B2N(Issues(t, s))
      /\ B2N(t \in S') = B2N(Serves(t, s)')
      /\ B2N(t \in R') = B2N(Removes(t, s)')
      /\ B2N(t \in I') = B2N(Issues(t, s)')
  BY DEF B2N
<1>7. /\ HeldByThreads(s) = Cardinality(S) + Cardinality(R) + Cardinality(I)
      /\ HeldByThreads(s)' = Cardinality(S') + Cardinality(R')
                               + Cardinality(I')
  BY DEF HeldByThreads
<1>8. /\ B2N(Serves(t, s)) \in Nat /\ B2N(Serves(t, s)') \in Nat
      /\ B2N(Removes(t, s)) \in Nat /\ B2N(Removes(t, s)') \in Nat
      /\ B2N(Issues(t, s)) \in Nat /\ B2N(Issues(t, s)') \in Nat
  BY DEF B2N
<1>9. /\ Held(t, s) = B2N(Serves(t, s)) + B2N(Removes(t, s))
                        + B2N(Issues(t, s))
      /\ Held(t, s)' = B2N(Serves(t, s)') + B2N(Removes(t, s)')
                         + B2N(Issues(t, s)')
  BY DEF Held, B2N
<1>10. QED
  BY <1>3, <1>4, <1>5, <1>6, <1>7, <1>8, <1>9

-----------------------------------------------------------------------------
(* Every step is a move of one thread. *)
\* What the owners of s hold changes as its count does.
Balanced(t, s) ==
  refCnt'[s] + B2N(s \in sessionMap) + recvIO[s] + sendIO[s] + leak[s]
      + Held(t, s)
    = refCnt[s] + B2N(s \in sessionMap') + recvIO'[s] + sendIO'[s] + leak'[s]
        + Held(t, s)'

Move(t) ==
  /\ OnlyMoves(t)
  /\ FrameOk(t)'
  /\ LifeExact'
  /\ FailLeaked'
  /\ \A s \in Sessions : Balanced(t, s)

\* Thread t moves and neither gains nor drops a reference.
Quiet(t) ==
  /\ UNCHANGED <<sessionMap, life, refCnt, leak, recvIO, sendIO>>
  /\ \A s \in Sessions : /\ Serves(t, s)' <=> Serves(t, s)
                         /\ Removes(t, s)' <=> Removes(t, s)
                         /\ Issues(t, s)' <=> Issues(t, s)
  /\ frame'[t] = "fail" => frame[t] = "fail" /\ at'[t] = at[t]

(* A quiet step preserves the object invariants. *)
LEMMA QuietMove ==
  ASSUME TypeOK, LifeExact, FailLeaked,
         NEW t \in Threads, OnlyMoves(t), FrameOk(t)', Quiet(t)
  PROVE  Move(t)
<1>1. LifeExact'
  BY DEF LifeExact, Quiet
<1>2. FailLeaked'
  BY DEF FailLeaked, Quiet, OnlyMoves, TypeOK, ThreadTypeOK
<1>3. ASSUME NEW s \in Sessions PROVE Balanced(t, s)
  <2>1. Held(t, s)' = Held(t, s)
    BY DEF Held, Quiet, B2N
  <2>2. QED
    BY <2>1 DEF Balanced, Quiet
<1>4. QED
  BY <1>1, <1>2, <1>3 DEF Move

(* PostSend, PostRecv, DisconnectGracefully and RemoveSession, on any thread. *)
LEMMA AnyThreadMoves ==
  ASSUME IInv, NEW t \in Threads, AnyThread(t)
  PROVE  Move(t)
<1> USE ThreadsAssumption DEF Threads, IInv, Is, Goto, Enter, Return, After,
  SendReturn, RecvReturn, RemoveReturn, Close, TypeOK, ThreadTypeOK,
  ObjectTypeOK, TouchSites, RecvSites, RemoveSites, RawSites, OtherSites,
  Frames, threadVars, data, objVars, ioVars, FramesOk, FrameOk
<1>a. t \in Threads
  OBVIOUS
<1>1. ASSUME RemoveErase(t) PROVE Move(t)
  <2>1. OnlyMoves(t) /\ FrameOk(t)'
    BY <1>1 DEF RemoveErase, OnlyMoves
  <2>2. LifeExact'
    BY <1>1 DEF RemoveErase, LifeExact
  <2>3. FailLeaked'
    BY <1>1 DEF RemoveErase, FailLeaked
  <2>4. ASSUME NEW s \in Sessions PROVE Balanced(t, s)
    BY <1>1 DEF RemoveErase, Balanced, Held, Serves, Removes, Issues, B2N
  <2>5. QED
    BY <2>1, <2>2, <2>3, <2>4 DEF Move
<1>2. ASSUME RemoveClose(t) PROVE Move(t)
  <2>1. OnlyMoves(t) /\ FrameOk(t)'
    BY <1>2 DEF RemoveClose, OnlyMoves
  <2>2. Quiet(t)
    BY <1>2 DEF RemoveClose, Quiet, Serves, Removes, Issues
  <2>3. QED
    BY <2>1, <2>2, <1>a, QuietMove
<1>3. ASSUME RemoveRelease(t) PROVE Move(t)
  <2>1. OnlyMoves(t) /\ FrameOk(t)'
    BY <1>3 DEF RemoveRelease, OnlyMoves
  <2>2. LifeExact'
    BY <1>3 DEF RemoveRelease, LifeExact, Release, Last
  <2>3. FailLeaked'
    BY <1>3 DEF RemoveRelease, FailLeaked, Release, Last
  <2>4. ASSUME NEW s \in Sessions PROVE Balanced(t, s)
    BY <1>3 DEF RemoveRelease, Balanced, Held, Serves, Removes, Issues, B2N,
      Release, Last
  <2>5. QED
    BY <2>1, <2>2, <2>3, <2>4 DEF Move
<1>4. ASSUME DisconnectNotify(t) PROVE Move(t)
  <2>1. OnlyMoves(t) /\ FrameOk(t)'
    BY <1>4 DEF DisconnectNotify, OnlyMoves
  <2>2. Quiet(t)
    BY <1>4 DEF DisconnectNotify, Quiet, Serves, Removes, Issues
  <2>3. QED
    BY <2>1, <2>2, <1>a, QuietMove
<1>5. ASSUME DisconnectRemove(t) PROVE Move(t)
  <2>1. OnlyMoves(t) /\ FrameOk(t)'
    BY <1>5 DEF DisconnectRemove, OnlyMoves
  <2>2. Quiet(t)
    BY <1>5 DEF DisconnectRemove, Quiet, Serves, Removes, Issues
  <2>3. QED
    BY <2>1, <2>2, <1>a, QuietMove
<1>6. ASSUME PostSendCheck(t) PROVE Move(t)
  <2>1. OnlyMoves(t) /\ FrameOk(t)'
    BY <1>6 DEF PostSendCheck, OnlyMoves
  <2>2. Quiet(t)
    BY <1>6 DEF PostSendCheck, Quiet, Serves, Removes, Issues
  <2>3. QED
    BY <2>1, <2>2, <1>a, QuietMove
<1>7. ASSUME PostSendRefuse(t) PROVE Move(t)
  <2>1. OnlyMoves(t) /\ FrameOk(t)'
    BY <1>7 DEF PostSendRefuse, OnlyMoves
  <2>2. Quiet(t)
    BY <1>7 DEF PostSendRefuse, Quiet, Serves, Removes, Issues
  <2>3. QED
    BY <2>1, <2>2, <1>a, QuietMove
<1>8. ASSUME PostSendFar(t) PROVE Move(t)
  <2>1. OnlyMoves(t) /\ FrameOk(t)'
    BY <1>8 DEF PostSendFar, OnlyMoves
  <2>2. Quiet(t)
    BY <1>8 DEF PostSendFar, Quiet, Serves, Removes, Issues
  <2>3. QED
    BY <2>1, <2>2, <1>a, QuietMove
<1>9. ASSUME PostSendQueue(t) PROVE Move(t)
  <2>1. OnlyMoves(t) /\ FrameOk(t)'
    BY <1>9 DEF PostSendQueue, OnlyMoves
  <2>2. LifeExact'
    BY <1>9 DEF PostSendQueue, LifeExact, StartSend, FailSend, AddRef
  <2>3. FailLeaked'
    BY <1>9 DEF PostSendQueue, FailLeaked, StartSend, FailSend, AddRef
  <2>4. ASSUME NEW s \in Sessions PROVE Balanced(t, s)
    BY <1>9 DEF PostSendQueue, Balanced, Held, Serves, Removes, Issues, B2N,
      StartSend, FailSend, AddRef
  <2>5. QED
    BY <2>1, <2>2, <2>3, <2>4 DEF Move
<1>10. ASSUME PostRecvCheck(t) PROVE Move(t)
  <2>1. OnlyMoves(t) /\ FrameOk(t)'
    BY <1>10 DEF PostRecvCheck, OnlyMoves
  <2>2. LifeExact'
    BY <1>10 DEF PostRecvCheck, LifeExact, AddRef
  <2>3. FailLeaked'
    BY <1>10 DEF PostRecvCheck, FailLeaked, AddRef
  <2>4. ASSUME NEW s \in Sessions PROVE Balanced(t, s)
    BY <1>10 DEF PostRecvCheck, Balanced, Held, Serves, Removes, Issues, B2N,
      AddRef
  <2>5. QED
    BY <2>1, <2>2, <2>3, <2>4 DEF Move
<1>11. ASSUME PostRecvIssue(t) PROVE Move(t)
  <2>1. OnlyMoves(t) /\ FrameOk(t)'
    BY <1>11 DEF PostRecvIssue, OnlyMoves
  <2>2. LifeExact'
    BY <1>11 DEF PostRecvIssue, LifeExact, Release, Last
  <2>3. FailLeaked'
    BY <1>11 DEF PostRecvIssue, FailLeaked, Release, Last
  <2>4. ASSUME NEW s \in Sessions PROVE Balanced(t, s)
    BY <1>11 DEF PostRecvIssue, Balanced, Held, Serves, Removes, Issues, B2N,
      Release, Last
  <2>5. QED
    BY <2>1, <2>2, <2>3, <2>4 DEF Move
<1>12. ASSUME UseAfterFree(t) PROVE Move(t)
  <2>1. OnlyMoves(t) /\ FrameOk(t)'
    BY <1>12 DEF UseAfterFree, OnlyMoves
  <2>2. Quiet(t)
    BY <1>12 DEF UseAfterFree, Quiet, Serves, Removes, Issues
  <2>3. QED
    BY <2>1, <2>2, <1>a, QuietMove
<1>13. QED
  BY <1>1, <1>2, <1>3, <1>4, <1>5, <1>6, <1>7, <1>8, <1>9, <1>10, <1>11, <1>12
    DEF AnyThread

(* The completions. *)
LEMMA WorkerMoves ==
  ASSUME IInv, NEW t \in Workers, Worker(t)
  PROVE  Move(t)
<1> USE ThreadsAssumption DEF Threads, IInv, Is, Goto, Enter, Return, After,
  SendReturn, RecvReturn, RemoveReturn, Close, TypeOK, ThreadTypeOK,
  ObjectTypeOK, TouchSites, RecvSites, RemoveSites, RawSites, OtherSites,
  Frames, threadVars, data, objVars, ioVars, FramesOk, FrameOk
<1>a. t \in Threads
  OBVIOUS
<1>1. ASSUME NEW c \in Sessions, RecvCompletes(t, c) PROVE Move(t)
  <2>1. OnlyMoves(t) /\ FrameOk(t)'
    BY <1>1 DEF RecvCompletes, OnlyMoves
  <2>2. LifeExact'
    BY <1>1 DEF RecvCompletes, LifeExact
  <2>3. FailLeaked'
    BY <1>1 DEF RecvCompletes, FailLeaked
  <2>4. ASSUME NEW s \in Sessions PROVE Balanced(t, s)
    BY <1>1 DEF RecvCompletes, Balanced, Held, Serves, Removes, Issues, B2N
  <2>5. QED
    BY <2>1, <2>2, <2>3, <2>4 DEF Move
<1>2. ASSUME NEW c \in Sessions, SendCompletes(t, c) PROVE Move(t)
  <2>1. OnlyMoves(t) /\ FrameOk(t)'
    BY <1>2 DEF SendCompletes, OnlyMoves
  <2>2. LifeExact'
    BY <1>2 DEF SendCompletes, LifeExact
  <2>3. FailLeaked'
    BY <1>2 DEF SendCompletes, FailLeaked
  <2>4. ASSUME NEW s \in Sessions PROVE Balanced(t, s)
    BY <1>2 DEF SendCompletes, Balanced, Held, Serves, Removes, Issues, B2N
  <2>5. QED
    BY <2>1, <2>2, <2>3, <2>4 DEF Move
<1>3. ASSUME NEW c \in Sessions, IoFails(t, c) PROVE Move(t)
  <2>1. OnlyMoves(t) /\ FrameOk(t)'
    BY <1>3 DEF IoFails, OnlyMoves
  <2>2. LifeExact'
    BY <1>3 DEF IoFails, LifeExact
  <2>3. FailLeaked'
    BY <1>3 DEF IoFails, FailLeaked
  <2>4. ASSUME NEW s \in Sessions PROVE Balanced(t, s)
    BY <1>3 DEF IoFails, Balanced, Held, Serves, Removes, Issues, B2N
  <2>5. QED
    BY <2>1, <2>2, <2>3, <2>4 DEF Move
<1>4. ASSUME RecvCopy(t) PROVE Move(t)
  <2>1. OnlyMoves(t) /\ FrameOk(t)'
    BY <1>4 DEF RecvCopy, OnlyMoves
  <2>2. Quiet(t)
    BY <1>4 DEF RecvCopy, Quiet, Serves, Removes, Issues
  <2>3. QED
    BY <2>1, <2>2, <1>a, QuietMove
<1>5. ASSUME RecvOverflow(t) PROVE Move(t)
  <2>1. OnlyMoves(t) /\ FrameOk(t)'
    BY <1>5 DEF RecvOverflow, OnlyMoves
  <2>2. Quiet(t)
    BY <1>5 DEF RecvOverflow, Quiet, Serves, Removes, Issues
  <2>3. QED
    BY <2>1, <2>2, <1>a, QuietMove
<1>6. ASSUME ParseDone(t) PROVE Move(t)
  <2>1. OnlyMoves(t) /\ FrameOk(t)'
    BY <1>6 DEF ParseDone, OnlyMoves
  <2>2. Quiet(t)
    BY <1>6 DEF ParseDone, Quiet, Serves, Removes, Issues
  <2>3. QED
    BY <2>1, <2>2, <1>a, QuietMove
<1>7. ASSUME RecvRelease(t) PROVE Move(t)
  <2>1. OnlyMoves(t) /\ FrameOk(t)'
    BY <1>7 DEF RecvRelease, OnlyMoves
  <2>2. LifeExact'
    BY <1>7 DEF RecvRelease, LifeExact, Release, Last
  <2>3. FailLeaked'
    BY <1>7 DEF RecvRelease, FailLeaked, Release, Last
  <2>4. ASSUME NEW s \in Sessions PROVE Balanced(t, s)
    BY <1>7 DEF RecvRelease, Balanced, Held, Serves, Removes, Issues, B2N,
      Release, Last
  <2>5. QED
    BY <2>1, <2>2, <2>3, <2>4 DEF Move
<1>8. ASSUME SendNext(t) PROVE Move(t)
  <2>1. OnlyMoves(t) /\ FrameOk(t)'
    BY <1>8 DEF SendNext, OnlyMoves
  <2>2. LifeExact'
    BY <1>8 DEF SendNext, LifeExact, StartSend, FailSend, AddRef
  <2>3. FailLeaked'
    BY <1>8 DEF SendNext, FailLeaked, StartSend, FailSend, AddRef
  <2>4. ASSUME NEW s \in Sessions PROVE Balanced(t, s)
    BY <1>8 DEF SendNext, Balanced, Held, Serves, Removes, Issues, B2N,
      StartSend, FailSend, AddRef
  <2>5. QED
    BY <2>1, <2>2, <2>3, <2>4 DEF Move
<1>9. ASSUME SendDrained(t) PROVE Move(t)
  <2>1. OnlyMoves(t) /\ FrameOk(t)'
    BY <1>9 DEF SendDrained, OnlyMoves
  <2>2. LifeExact'
    BY <1>9 DEF SendDrained, LifeExact, Release, Last
  <2>3. FailLeaked'
    BY <1>9 DEF SendDrained, FailLeaked, Release, Last
  <2>4. ASSUME NEW s \in Sessions PROVE Balanced(t, s)
    BY <1>9 DEF SendDrained, Balanced, Held, Serves, Removes, Issues, B2N,
      Release, Last
  <2>5. QED
    BY <2>1, <2>2, <2>3, <2>4 DEF Move
<1>10. QED
  BY <1>1, <1>2, <1>3, <1>4, <1>5, <1>6, <1>7, <1>8, <1>9 DEF Worker

(* The callbacks of the server. *)
LEMMA CallbackMoves ==
  ASSUME IInv, NEW t \in Workers \cup {Acceptor}, Callback(t)
  PROVE  Move(t)
<1> USE ThreadsAssumption DEF Threads, IInv, Is, Goto, Enter, Return, After,
  SendReturn, RecvReturn, RemoveReturn, Close, TypeOK, ThreadTypeOK,
  ObjectTypeOK, TouchSites, RecvSites, RemoveSites, RawSites, OtherSites,
  Frames, threadVars, data, objVars, ioVars, FramesOk, FrameOk
<1>a. t \in Threads
  OBVIOUS
<1>1. ASSUME CallbackSend(t) PROVE Move(t)
  <2>1. OnlyMoves(t) /\ FrameOk(t)'
    BY <1>1 DEF CallbackSend, OnlyMoves
  <2>2. Quiet(t)
    BY <1>1 DEF CallbackSend, Quiet, Serves, Removes, Issues
  <2>3. QED
    BY <2>1, <2>2, <1>a, QuietMove
<1>2. ASSUME CallbackRemove(t) PROVE Move(t)
  <2>1. OnlyMoves(t) /\ FrameOk(t)'
    BY <1>2 DEF CallbackRemove, OnlyMoves
  <2>2. Quiet(t)
    BY <1>2 DEF CallbackRemove, Quiet, Serves, Removes, Issues
  <2>3. QED
    BY <2>1, <2>2, <1>a, QuietMove
<1>3. QED
  BY <1>1, <1>2 DEF Callback

(* The accept thread. *)
LEMMA AcceptMoves ==
  ASSUME IInv, Accept
  PROVE  Move(Acceptor)
<1> USE ThreadsAssumption DEF Threads, IInv, Is, Goto, Enter, Return, After,
  SendReturn, RecvReturn, RemoveReturn, Close, TypeOK, ThreadTypeOK,
  ObjectTypeOK, TouchSites, RecvSites, RemoveSites, RawSites, OtherSites,
  Frames, threadVars, data, objVars, ioVars, FramesOk, FrameOk
<1>a. Acceptor \in Threads
  OBVIOUS
<1>1. ASSUME NEW c \in Sessions, CreateSession(c) PROVE Move(Acceptor)
  <2>1. OnlyMoves(Acceptor) /\ FrameOk(Acceptor)'
    BY <1>1 DEF CreateSession, OnlyMoves
  <2>2. LifeExact'
    BY <1>1 DEF CreateSession, LifeExact
  <2>3. FailLeaked'
    BY <1>1 DEF CreateSession, FailLeaked
  <2>4. refCnt[c] = 0 /\ c \notin sessionMap
    <3>1. refCnt[c] = 0 /\ HeldByThreads(c) \in Nat
      BY <1>1, <2>1, <1>a, HeldMove DEF CreateSession, LifeExact
    <3>2. QED
      BY <3>1 DEF RefExact, B2N
  <2>5. ASSUME NEW s \in Sessions PROVE Balanced(Acceptor, s)
    BY <1>1, <2>4 DEF CreateSession, Balanced, Held, Serves, Removes, Issues,
      B2N
  <2>6. QED
    BY <2>1, <2>2, <2>3, <2>5 DEF Move
<1>2. ASSUME BindSocket PROVE Move(Acceptor)
  <2>1. OnlyMoves(Acceptor) /\ FrameOk(Acceptor)'
    BY <1>2 DEF BindSocket, OnlyMoves
  <2>2. Quiet(Acceptor)
    BY <1>2 DEF BindSocket, Quiet, Serves, Removes, Issues
  <2>3. QED
    BY <2>1, <2>2, <1>a, QuietMove
<1>3. ASSUME ConnectedReturns PROVE Move(Acceptor)
  <2>1. OnlyMoves(Acceptor) /\ FrameOk(Acceptor)'
    BY <1>3 DEF ConnectedReturns, OnlyMoves
  <2>2. Quiet(Acceptor)
    BY <1>3 DEF ConnectedReturns, Quiet, Serves, Removes, Issues
  <2>3. QED
    BY <2>1, <2>2, <1>a, QuietMove
<1>4. ASSUME ApplyPolicy PROVE Move(Acceptor)
  <2>1. OnlyMoves(Acceptor) /\ FrameOk(Acceptor)'
    BY <1>4 DEF ApplyPolicy, OnlyMoves
  <2>2. Quiet(Acceptor)
    BY <1>4 DEF ApplyPolicy, Quiet, Serves, Removes, Issues
  <2>3. QED
    BY <2>1, <2>2, <1>a, QuietMove
<1>5. ASSUME AcceptFails PROVE Move(Acceptor)
  <2>1. OnlyMoves(Acceptor) /\ FrameOk(Acceptor)'
    BY <1>5 DEF AcceptFails, OnlyMoves
  <2>2. Quiet(Acceptor)
    BY <1>5 DEF AcceptFails, Quiet, Serves, Removes, Issues
  <2>3. QED
    BY <2>1, <2>2, <1>a, QuietMove
<1>6. QED
  BY <1>1, <1>2, <1>3, <1>4, <1>5 DEF Accept

(* Application threads. *)
LEMMA AppMoves ==
  ASSUME IInv, NEW t \in Apps, App(t)
  PROVE  Move(t)
<1> USE ThreadsAssumption DEF Threads, IInv, Is, Goto, Enter, Return, After,
  SendReturn, RecvReturn, RemoveReturn, Close, TypeOK, ThreadTypeOK,
  ObjectTypeOK, TouchSites, RecvSites, RemoveSites, RawSites, OtherSites,
  Frames, threadVars, data, objVars, ioVars, FramesOk, FrameOk
<1>a. t \in Threads
  OBVIOUS
<1>1. ASSUME NEW c \in Sessions, AppSend(t, c) PROVE Move(t)
  <2>1. OnlyMoves(t) /\ FrameOk(t)'
    BY <1>1 DEF AppSend, OnlyMoves
  <2>2. Quiet(t)
    BY <1>1 DEF AppSend, Quiet, Serves, Removes, Issues
  <2>3. QED
    BY <2>1, <2>2, <1>a, QuietMove
<1>2. ASSUME NEW c \in Sessions, AppRemove(t, c) PROVE Move(t)
  <2>1. OnlyMoves(t) /\ FrameOk(t)'
    BY <1>2 DEF AppRemove, OnlyMoves
  <2>2. Quiet(t)
    BY <1>2 DEF AppRemove, Quiet, Serves, Removes, Issues
  <2>3. QED
    BY <2>1, <2>2, <1>a, QuietMove
<1>3. QED
  BY <1>1, <1>2 DEF App

(* CNetLib::Update. *)
LEMMA UpdateMoves ==
  ASSUME IInv, Update
  PROVE  Move(Main)
<1> USE ThreadsAssumption DEF Threads, IInv, Is, Goto, Enter, Return, After,
  SendReturn, RecvReturn, RemoveReturn, Close, TypeOK, ThreadTypeOK,
  ObjectTypeOK, TouchSites, RecvSites, RemoveSites, RawSites, OtherSites,
  Frames, threadVars, data, objVars, ioVars, FramesOk, FrameOk
<1>a. Main \in Threads
  OBVIOUS
<1>1. ASSUME NEW c \in Sessions, TimeOut(c) PROVE Move(Main)
  <2>1. OnlyMoves(Main) /\ FrameOk(Main)'
    BY <1>1 DEF TimeOut, OnlyMoves
  <2>2. Quiet(Main)
    BY <1>1 DEF TimeOut, Quiet, Serves, Removes, Issues
  <2>3. QED
    BY <2>1, <2>2, <1>a, QuietMove
<1>2. ASSUME NEW c \in Sessions, UpdateNext(c) PROVE Move(Main)
  <2>1. OnlyMoves(Main) /\ FrameOk(Main)'
    BY <1>2 DEF UpdateNext, OnlyMoves
  <2>2. Quiet(Main)
    BY <1>2 DEF UpdateNext, Quiet, Serves, Removes, Issues
  <2>3. QED
    BY <2>1, <2>2, <1>a, QuietMove
<1>3. ASSUME GetAllSessions PROVE Move(Main)
  <2>1. OnlyMoves(Main) /\ FrameOk(Main)'
    BY <1>3 DEF GetAllSessions, OnlyMoves
  <2>2. Quiet(Main)
    BY <1>3 DEF GetAllSessions, Quiet, Serves, Removes, Issues
  <2>3. QED
    BY <2>1, <2>2, <1>a, QuietMove
<1>4. ASSUME UpdateVisit PROVE Move(Main)
  <2>1. OnlyMoves(Main) /\ FrameOk(Main)'
    BY <1>4 DEF UpdateVisit, OnlyMoves
  <2>2. Quiet(Main)
    BY <1>4 DEF UpdateVisit, Quiet, Serves, Removes, Issues
  <2>3. QED
    BY <2>1, <2>2, <1>a, QuietMove
<1>5. ASSUME UpdateMark PROVE Move(Main)
  <2>1. OnlyMoves(Main) /\ FrameOk(Main)'
    BY <1>5 DEF UpdateMark, OnlyMoves
  <2>2. Quiet(Main)
    BY <1>5 DEF UpdateMark, Quiet, Serves, Removes, Issues
  <2>3. QED
    BY <2>1, <2>2, <1>a, QuietMove
<1>6. ASSUME UpdateDone PROVE Move(Main)
  <2>1. OnlyMoves(Main) /\ FrameOk(Main)'
    BY <1>6 DEF UpdateDone, OnlyMoves
  <2>2. Quiet(Main)
    BY <1>6 DEF UpdateDone, Quiet, Serves, Removes, Issues
  <2>3. QED
    BY <2>1, <2>2, <1>a, QuietMove
<1>7. QED
  BY <1>1, <1>2, <1>3, <1>4, <1>5, <1>6 DEF Update

(* CNetLib::Stop. *)
LEMMA StopMoves ==
  ASSUME IInv, Stop
  PROVE  Move(Main)
<1> USE ThreadsAssumption DEF Threads, IInv, Is, Goto, Enter, Return, After,
  SendReturn, RecvReturn, RemoveReturn, Close, TypeOK, ThreadTypeOK,
  ObjectTypeOK, TouchSites, RecvSites, RemoveSites, RawSites, OtherSites,
  Frames, threadVars, data, objVars, ioVars, FramesOk, FrameOk
<1>a. Main \in Threads
  OBVIOUS
<1>1. ASSUME StopBegin PROVE Move(Main)
  <2>1. OnlyMoves(Main) /\ FrameOk(Main)'
    BY <1>1 DEF StopBegin, OnlyMoves
  <2>2. Quiet(Main)
    BY <1>1 DEF StopBegin, Quiet, Serves, Removes, Issues
  <2>3. QED
    BY <2>1, <2>2, <1>a, QuietMove
<1>2. ASSUME StopJoinAccept PROVE Move(Main)
  <2>1. OnlyMoves(Main) /\ FrameOk(Main)'
    BY <1>2 DEF StopJoinAccept, OnlyMoves
  <2>2. Quiet(Main)
    BY <1>2 DEF StopJoinAccept, Quiet, Serves, Removes, Issues
  <2>3. QED
    BY <2>1, <2>2, <1>a, QuietMove
<1>3. ASSUME StopJoinWorkers PROVE Move(Main)
  <2>1. OnlyMoves(Main) /\ FrameOk(Main)'
    BY <1>3 DEF StopJoinWorkers, OnlyMoves
  <2>2. Quiet(Main)
    BY <1>3 DEF StopJoinWorkers, Quiet, Serves, Removes, Issues
  <2>3. QED
    BY <2>1, <2>2, <1>a, QuietMove
<1>4. ASSUME CloseAllLock PROVE Move(Main)
  <2>1. OnlyMoves(Main) /\ FrameOk(Main)'
    BY <1>4 DEF CloseAllLock, OnlyMoves
  <2>2. Quiet(Main)
    BY <1>4 DEF CloseAllLock, Quiet, Serves, Removes, Issues
  <2>3. QED
    BY <2>1, <2>2, <1>a, QuietMove
<1>5. ASSUME CloseAllDone PROVE Move(Main)
  <2>1. OnlyMoves(Main) /\ FrameOk(Main)'
    BY <1>5 DEF CloseAllDone, OnlyMoves
  <2>2. Quiet(Main)
    BY <1>5 DEF CloseAllDone, Quiet, Serves, Removes, Issues
  <2>3. QED
    BY <2>1, <2>2, <1>a, QuietMove
<1>6. ASSUME NEW c \in Sessions, CloseAllNext(c) PROVE Move(Main)
  <2>1. OnlyMoves(Main) /\ FrameOk(Main)'
    BY <1>6 DEF CloseAllNext, OnlyMoves
  <2>2. LifeExact'
    BY <1>6 DEF CloseAllNext, LifeExact
  <2>3. FailLeaked'
    BY <1>6 DEF CloseAllNext, FailLeaked
  <2>4. ASSUME NEW s \in Sessions PROVE Balanced(Main, s)
    BY <1>6 DEF CloseAllNext, Balanced, Held, Serves, Removes, Issues, B2N
  <2>5. QED
    BY <2>1, <2>2, <2>3, <2>4 DEF Move
<1>7. QED
  BY <1>1, <1>2, <1>3, <1>4, <1>5, <1>6 DEF Stop

-----------------------------------------------------------------------------
(* Every step preserves the types; a Release finds a positive count because
   the object it releases exists. *)
LEMMA TypeStep ==
  ASSUME TypeOK, LifeExact, Next
  PROVE  TypeOK'
<1> USE ThreadsAssumption, BoundsAssumption DEF Threads, Is, Goto, Enter,
  Return, After, SendReturn, RecvReturn, RemoveReturn, Close, TypeOK,
  ThreadTypeOK, ObjectTypeOK, StateTypeOK, ControlTypeOK, TouchSites,
  RecvSites, RemoveSites, RawSites, OtherSites, Frames, threadVars, data,
  objVars, ioVars, queueVars, lockVars, ctlVars, LifeExact, AddRef, Release,
  Last, StartSend, FailSend, PopSent
<1>1. ASSUME NEW t \in Threads, AnyThread(t) PROVE TypeOK'
  <2>1. CASE RemoveErase(t)
    BY <2>1 DEF RemoveErase
  <2>2. CASE RemoveClose(t)
    BY <2>2 DEF RemoveClose
  <2>3. CASE RemoveRelease(t)
    BY <2>3 DEF RemoveRelease
  <2>4. CASE DisconnectNotify(t)
    BY <2>4 DEF DisconnectNotify
  <2>5. CASE DisconnectRemove(t)
    BY <2>5 DEF DisconnectRemove
  <2>6. CASE PostSendCheck(t)
    BY <2>6 DEF PostSendCheck
  <2>7. CASE PostSendRefuse(t)
    BY <2>7 DEF PostSendRefuse
  <2>8. CASE PostSendFar(t)
    BY <2>8 DEF PostSendFar
  <2>9. CASE PostSendQueue(t)
    <3>1. ObjectTypeOK'
      BY <2>9 DEF PostSendQueue
    <3>2. StateTypeOK'
      <4>1. queue' \in [Sessions -> Nat] /\ curBytes' \in [Sessions -> Nat]
        BY <2>9 DEF PostSendQueue
      <4>2. stamped' \in [Sessions -> BOOLEAN]
        BY <2>9 DEF PostSendQueue
      <4>3. sending' \in [Sessions -> BOOLEAN]
        BY <2>9 DEF PostSendQueue
      <4>4. QED
        BY <4>1, <4>2, <4>3, <2>9 DEF PostSendQueue
    <3>3. ThreadTypeOK' /\ ControlTypeOK'
      BY <2>9 DEF PostSendQueue
    <3>4. QED
      BY <3>1, <3>2, <3>3
  <2>10. CASE PostRecvCheck(t)
    <3>1. ObjectTypeOK'
      BY <2>10 DEF PostRecvCheck
    <3>2. StateTypeOK'
      BY <2>10 DEF PostRecvCheck
    <3>3. ThreadTypeOK' /\ ControlTypeOK'
      BY <2>10 DEF PostRecvCheck
    <3>4. QED
      BY <3>1, <3>2, <3>3
  <2>11. CASE PostRecvIssue(t)
    <3>1. ObjectTypeOK'
      BY <2>11 DEF PostRecvIssue
    <3>2. StateTypeOK'
      BY <2>11 DEF PostRecvIssue
    <3>3. ThreadTypeOK' /\ ControlTypeOK'
      BY <2>11 DEF PostRecvIssue
    <3>4. QED
      BY <3>1, <3>2, <3>3
  <2>12. CASE UseAfterFree(t)
    BY <2>12 DEF UseAfterFree
  <2>13. QED
    BY <1>1, <2>1, <2>2, <2>3, <2>4, <2>5, <2>6, <2>7, <2>8, <2>9, <2>10,
      <2>11, <2>12 DEF AnyThread
<1>2. ASSUME NEW t \in Workers, Worker(t) PROVE TypeOK'
  <2>1. ASSUME NEW c \in Sessions, RecvCompletes(t, c) PROVE TypeOK'
    BY <2>1 DEF RecvCompletes
  <2>2. ASSUME NEW c \in Sessions, SendCompletes(t, c) PROVE TypeOK'
    BY <2>2 DEF SendCompletes
  <2>3. ASSUME NEW c \in Sessions, IoFails(t, c) PROVE TypeOK'
    BY <2>3 DEF IoFails
  <2>4. CASE RecvCopy(t)
    <3>1. stamped' \in [Sessions -> BOOLEAN]
      BY <2>4 DEF RecvCopy
    <3>2. ThreadTypeOK'
      BY <2>4 DEF RecvCopy
    <3>3. QED
      BY <2>4, <3>1, <3>2 DEF RecvCopy
  <2>5. CASE RecvOverflow(t)
    BY <2>5 DEF RecvOverflow
  <2>6. CASE ParseDone(t)
    BY <2>6 DEF ParseDone
  <2>7. CASE RecvRelease(t)
    BY <2>7 DEF RecvRelease
  <2>8. CASE SendNext(t)
    <3>1. ObjectTypeOK'
      BY <2>8 DEF SendNext
    <3>2. StateTypeOK'
      <4>1. queue' \in [Sessions -> Nat] /\ curBytes' \in [Sessions -> Nat]
        BY <2>8 DEF SendNext
      <4>2. stamped' \in [Sessions -> BOOLEAN]
        BY <2>8 DEF SendNext
      <4>3. sending' \in [Sessions -> BOOLEAN]
        BY <2>8 DEF SendNext
      <4>4. QED
        BY <4>1, <4>2, <4>3, <2>8 DEF SendNext
    <3>3. ThreadTypeOK' /\ ControlTypeOK'
      BY <2>8 DEF SendNext
    <3>4. QED
      BY <3>1, <3>2, <3>3
  <2>9. CASE SendDrained(t)
    BY <2>9 DEF SendDrained
  <2>10. QED
    BY <1>2, <2>1, <2>2, <2>3, <2>4, <2>5, <2>6, <2>7, <2>8, <2>9 DEF Worker
<1>3. ASSUME NEW t \in Workers \cup {Acceptor}, Callback(t) PROVE TypeOK'
  <2>1. CASE CallbackSend(t)
    BY <2>1 DEF CallbackSend
  <2>2. CASE CallbackRemove(t)
    BY <2>2 DEF CallbackRemove
  <2>3. QED
    BY <1>3, <2>1, <2>2 DEF Callback
<1>4. ASSUME Accept PROVE TypeOK'
  <2>1. ASSUME NEW c \in Sessions, CreateSession(c) PROVE TypeOK'
    BY <2>1 DEF CreateSession
  <2>2. CASE BindSocket
    BY <2>2 DEF BindSocket
  <2>3. CASE ConnectedReturns
    BY <2>3 DEF ConnectedReturns
  <2>4. CASE ApplyPolicy
    BY <2>4 DEF ApplyPolicy
  <2>5. CASE AcceptFails
    BY <2>5 DEF AcceptFails
  <2>6. QED
    BY <1>4, <2>1, <2>2, <2>3, <2>4, <2>5 DEF Accept
<1>5. ASSUME NEW t \in Apps, App(t) PROVE TypeOK'
  <2>1. ASSUME NEW c \in Sessions, AppSend(t, c) PROVE TypeOK'
    BY <2>1 DEF AppSend
  <2>2. ASSUME NEW c \in Sessions, AppRemove(t, c) PROVE TypeOK'
    BY <2>2 DEF AppRemove
  <2>3. QED
    BY <1>5, <2>1, <2>2 DEF App
<1>6. ASSUME Update PROVE TypeOK'
  <2>1. ASSUME NEW c \in Sessions, TimeOut(c) PROVE TypeOK'
    BY <2>1 DEF TimeOut
  <2>2. ASSUME NEW c \in Sessions, UpdateNext(c) PROVE TypeOK'
    BY <2>2 DEF UpdateNext
  <2>3. CASE GetAllSessions
    BY <2>3 DEF GetAllSessions
  <2>4. CASE UpdateVisit
    BY <2>4 DEF UpdateVisit
  <2>5. CASE UpdateMark
    BY <2>5 DEF UpdateMark
  <2>6. CASE UpdateDone
    BY <2>6 DEF UpdateDone
  <2>7. QED
    BY <1>6, <2>1, <2>2, <2>3, <2>4, <2>5, <2>6 DEF Update
<1>7. ASSUME Stop PROVE TypeOK'
  <2>1. CASE StopBegin
    BY <2>1 DEF StopBegin
  <2>2. CASE StopJoinAccept
    BY <2>2 DEF StopJoinAccept
  <2>3. CASE StopJoinWorkers
    BY <2>3 DEF StopJoinWorkers
  <2>4. CASE CloseAllLock
    BY <2>4 DEF CloseAllLock
  <2>5. CASE CloseAllDone
    BY <2>5 DEF CloseAllDone
  <2>6. ASSUME NEW c \in Sessions, CloseAllNext(c) PROVE TypeOK'
    BY <2>6 DEF CloseAllNext
  <2>7. QED
    BY <1>7, <2>1, <2>2, <2>3, <2>4, <2>5, <2>6 DEF Stop
<1>8. QED
  BY <1>1, <1>2, <1>3, <1>4, <1>5, <1>6, <1>7 DEF Next

-----------------------------------------------------------------------------
(* Initially no session exists and no thread holds one. *)
LEMMA InitIInv == Init => IInv
<1> SUFFICES ASSUME Init PROVE IInv
  OBVIOUS
<1>1. \E s : s \in Sessions
  BY SessionsAssumption
<1>2. (CHOOSE s \in Sessions : TRUE) \in Sessions
  BY <1>1
<1>3. TypeOK
  BY <1>2 DEF Init, TypeOK, ObjectTypeOK, StateTypeOK, ThreadTypeOK,
    ControlTypeOK, TouchSites, OtherSites, Frames
<1>4. LifeExact
  BY DEF Init, LifeExact
<1>5. FramesOk
  BY DEF Init, FramesOk, FrameOk, RecvSites
<1>6. FailLeaked
  BY DEF Init, FailLeaked
<1>7. RefExact
  <2>1. ASSUME NEW s \in Sessions PROVE HeldByThreads(s) = 0
    <3>1. /\ {t \in Threads : Serves(t, s)} = {}
          /\ {t \in Threads : Removes(t, s)} = {}
          /\ {t \in Threads : Issues(t, s)} = {}
      BY DEF Init, Serves, Removes, Issues, RemoveSites
    <3>2. QED
      BY <3>1, FS_EmptySet DEF HeldByThreads
  <2>2. QED
    BY <2>1 DEF Init, RefExact, B2N
<1>8. QED
  BY <1>3, <1>4, <1>5, <1>6, <1>7 DEF IInv

(* The move of a thread keeps every count exact. *)
LEMMA MoveIInv ==
  ASSUME IInv, TypeOK', NEW t \in Threads, Move(t)
  PROVE  IInv'
<1>1. FramesOk'
  BY DEF IInv, Move, OnlyMoves, FramesOk, FrameOk
<1>2. RefExact'
  <2>1. SUFFICES ASSUME NEW s \in Sessions
        PROVE  refCnt'[s] = B2N(s \in sessionMap') + recvIO'[s] + sendIO'[s]
                              + leak'[s] + HeldByThreads(s)'
    BY DEF RefExact, B2N, HeldByThreads
  <2>2. /\ HeldByThreads(s) \in Nat
        /\ HeldByThreads(s)' = HeldByThreads(s) - Held(t, s) + Held(t, s)'
    BY HeldMove DEF Move
  <2>3. Held(t, s) \in Nat /\ Held(t, s)' \in Nat
    BY DEF Held, B2N
  <2>4. Balanced(t, s)
    BY DEF Move
  <2>5. refCnt[s] = B2N(s \in sessionMap) + recvIO[s] + sendIO[s] + leak[s]
                      + HeldByThreads(s)
    BY DEF IInv, RefExact
  <2>6. /\ B2N(s \in sessionMap) \in Nat
        /\ B2N(s \in sessionMap') \in Nat
    BY DEF B2N
  <2>7. /\ refCnt[s] \in Nat /\ recvIO[s] \in Nat /\ sendIO[s] \in Nat
        /\ leak[s] \in Nat
        /\ refCnt'[s] \in Nat /\ recvIO'[s] \in Nat /\ sendIO'[s] \in Nat
        /\ leak'[s] \in Nat
    BY DEF IInv, TypeOK, ObjectTypeOK
  <2>8. QED
    BY <2>2, <2>3, <2>4, <2>5, <2>6, <2>7 DEF Balanced
<1>3. QED
  BY <1>1, <1>2 DEF IInv, Move

(* The invariant is inductive: every disjunct of Next is the move of one
   thread. *)
LEMMA StepIInv == IInv /\ [Next]_vars => IInv'
<1> SUFFICES ASSUME IInv, [Next]_vars PROVE IInv'
  OBVIOUS
<1>1. CASE Next
  <2>1. TypeOK'
    BY <1>1, TypeStep DEF IInv
  <2>2. \E t \in Threads : Move(t)
    <3>1. Acceptor \in Threads /\ Main \in Threads
      BY DEF Threads
    <3>2. Workers \subseteq Threads /\ Apps \subseteq Threads
      BY DEF Threads
    <3>3. QED
      BY <1>1, <3>1, <3>2, AnyThreadMoves, WorkerMoves, CallbackMoves,
        AcceptMoves, AppMoves, UpdateMoves, StopMoves DEF Next
  <2>3. QED
    BY <2>1, <2>2, MoveIInv
<1>2. CASE UNCHANGED vars
  BY <1>2 DEF vars, data, objVars, queueVars, ioVars, lockVars, threadVars,
    ctlVars, IInv, TypeOK, ObjectTypeOK, StateTypeOK, ThreadTypeOK,
    ControlTypeOK, LifeExact, FramesOk, FrameOk, FailLeaked, RefExact,
    HeldByThreads, Serves, Removes, Issues
<1>3. QED
  BY <1>1, <1>2

(* The inductive invariant holds in every reachable state. *)
LEMMA Invariance == Spec => []IInv
  BY InitIInv, StepIInv, PTL DEF Spec

(* The types, and with them: no count, queue length or byte count is ever
   negative, for any number of sessions and threads. *)
THEOREM TypeCorrect == Spec => []TypeOK
<1>1. IInv => TypeOK
  BY DEF IInv
<1>2. QED
  BY <1>1, Invariance, PTL

(* The reference count of CSession (Session.cpp:28-41) is the number of its
   owners plus the references leaked. *)
THEOREM RefExactAlways == Spec => []RefExact
<1>1. IInv => RefExact
  BY DEF IInv
<1>2. QED
  BY <1>1, Invariance, PTL

(* A session whose reference a thread holds, or whose completion it serves,
   is counted. *)
LEMMA HeldCounted ==
  ASSUME NEW s \in Sessions, NEW t \in Threads,
         Serves(t, s) \/ Removes(t, s) \/ Issues(t, s)
  PROVE  HeldByThreads(s) \in Nat /\ HeldByThreads(s) > 0
<1> DEFINE S == {u \in Threads : Serves(u, s)}
           R == {u \in Threads : Removes(u, s)}
           I == {u \in Threads : Issues(u, s)}
<1>1. S \subseteq Threads /\ R \subseteq Threads /\ I \subseteq Threads
  OBVIOUS
<1>2. IsFiniteSet(S) /\ IsFiniteSet(R) /\ IsFiniteSet(I)
  BY <1>1, ThreadsAssumption, FS_Subset
<1>3. /\ Cardinality(S) \in Nat
      /\ Cardinality(R) \in Nat
      /\ Cardinality(I) \in Nat
  BY <1>2, FS_CardinalityType
<1>4. S # {} \/ R # {} \/ I # {}
  OBVIOUS
<1>5. Cardinality(S) # 0 \/ Cardinality(R) # 0 \/ Cardinality(I) # 0
  BY <1>2, <1>4, FS_EmptySet
<1>6. HeldByThreads(s) = Cardinality(S) + Cardinality(R) + Cardinality(I)
  BY DEF HeldByThreads
<1>7. QED
  BY <1>3, <1>5, <1>6

(* What the threads hold is a number. *)
LEMMA HeldNat == \A s \in Sessions : HeldByThreads(s) \in Nat
<1>1. TAKE s \in Sessions
<1>2. /\ {t \in Threads : Serves(t, s)} \subseteq Threads
      /\ {t \in Threads : Removes(t, s)} \subseteq Threads
      /\ {t \in Threads : Issues(t, s)} \subseteq Threads
  OBVIOUS
<1>3. /\ IsFiniteSet({t \in Threads : Serves(t, s)})
      /\ IsFiniteSet({t \in Threads : Removes(t, s)})
      /\ IsFiniteSet({t \in Threads : Issues(t, s)})
  BY <1>2, ThreadsAssumption, FS_Subset
<1>4. QED
  BY <1>3, FS_CardinalityType DEF HeldByThreads

(* Whoever is counted keeps the object alive. *)
LEMMA OwnedLive ==
  ASSUME IInv, NEW s \in Sessions,
         \/ s \in sessionMap \/ recvIO[s] > 0 \/ sendIO[s] > 0
         \/ leak[s] > 0 \/ HeldByThreads(s) > 0
  PROVE  life[s] = "live"
<1>1. /\ recvIO[s] \in Nat /\ sendIO[s] \in Nat /\ leak[s] \in Nat
      /\ HeldByThreads(s) \in Nat
  BY HeldNat DEF IInv, TypeOK, ObjectTypeOK
<1>2. refCnt[s] = B2N(s \in sessionMap) + recvIO[s] + sendIO[s] + leak[s]
                    + HeldByThreads(s)
  BY DEF IInv, RefExact
<1>3. /\ B2N(s \in sessionMap) \in Nat
      /\ s \in sessionMap => B2N(s \in sessionMap) = 1
  BY DEF B2N
<1>4. refCnt[s] > 0
  BY <1>1, <1>2, <1>3
<1>5. QED
  BY <1>4 DEF IInv, LifeExact

(* No thread that serves, removes or issues finds its session deleted. *)
LEMMA HolderLive ==
  ASSUME IInv, NEW t \in Threads,
         \/ frame[t] \in {"recv", "send", "fail"}
         \/ pc[t] \in RemoveSites \cup {"issue"}
  PROVE  life[at[t]] = "live"
<1>1. at[t] \in Sessions
  BY DEF IInv, TypeOK, ThreadTypeOK
<1>2. CASE frame[t] = "fail"
  BY <1>1, <1>2, OwnedLive DEF IInv, FailLeaked
<1>3. CASE frame[t] \in {"recv", "send"} \/ pc[t] \in RemoveSites \cup {"issue"}
  <2>1. HeldByThreads(at[t]) > 0
    BY <1>1, <1>3, HeldCounted DEF Serves, Removes, Issues
  <2>2. QED
    BY <1>1, <2>1, OwnedLive
<1>4. QED
  BY <1>2, <1>3

(* No session is deleted under its map entry, an operation in the kernel, a
   completion being served, or RemoveSession ("delete this",
   Session.cpp:33-41). *)
THEOREM OwnersLive == Spec => []NoFreedOwner
<1>1. IInv => NoFreedOwner
  BY OwnedLive, HolderLive DEF NoFreedOwner
<1>2. QED
  BY <1>1, Invariance, PTL

(* Only a pointer held without a reference, or the guard that leaves
   m_sendLock after OnSendCompleted released the last reference
   (Session.cpp:254-256), can touch a deleted session. *)
THEOREM FreedUseSites == Spec => []UseAfterFreeSites
<1>1. Init => UseAfterFreeSites
  BY DEF Init, UseAfterFreeSites
<1>2. IInv /\ UseAfterFreeSites /\ [Next]_vars => UseAfterFreeSites'
  <2> SUFFICES ASSUME IInv, UseAfterFreeSites, [Next]_vars
      PROVE  UseAfterFreeSites'
    OBVIOUS
  <2> USE DEF UseAfterFreeSites, ctlVars
  <2>1. ASSUME NEW t \in Threads, UseAfterFree(t) PROVE UseAfterFreeSites'
    <3>1. /\ pc[t] \in RecvSites => frame[t] = "recv"
          /\ pc[t] = "send.done" => frame[t] = "send"
      BY DEF IInv, FramesOk, FrameOk
    <3>2. pc[t] \in RawSites
      BY <2>1, <3>1, HolderLive DEF UseAfterFree, TouchSites
    <3>3. QED
      BY <2>1, <3>2 DEF UseAfterFree
  <2>2. ASSUME NEW t \in Threads, AnyThread(t) PROVE UseAfterFreeSites'
    BY <2>1, <2>2 DEF AnyThread, RemoveErase, RemoveClose, RemoveRelease,
      DisconnectNotify, DisconnectRemove, PostSendCheck, PostSendRefuse,
      PostSendFar, PostSendQueue, PostRecvCheck, PostRecvIssue
  <2>3. ASSUME NEW t \in Workers \cup {Acceptor}, Callback(t)
        PROVE  UseAfterFreeSites'
    BY <2>3 DEF Callback, CallbackSend, CallbackRemove
  <2>4. ASSUME NEW t \in Workers, Worker(t) PROVE UseAfterFreeSites'
    BY <2>4 DEF Worker, RecvCompletes, SendCompletes, IoFails, RecvCopy,
      RecvOverflow, ParseDone, RecvRelease, SendNext, SendDrained
  <2>5. ASSUME NEW t \in Apps, App(t) PROVE UseAfterFreeSites'
    BY <2>5 DEF App, AppSend, AppRemove
  <2>6. CASE Accept
    BY <2>6 DEF Accept, CreateSession, BindSocket, ConnectedReturns,
      ApplyPolicy, AcceptFails
  <2>7. CASE Update
    BY <2>7 DEF Update, TimeOut, UpdateNext, GetAllSessions, UpdateVisit,
      UpdateMark, UpdateDone
  <2>8. CASE Stop
    BY <2>8 DEF Stop, StopBegin, StopJoinAccept, StopJoinWorkers,
      CloseAllLock, CloseAllNext, CloseAllDone
  <2>9. CASE UNCHANGED vars
    BY <2>9 DEF vars
  <2>10. QED
    BY <2>2, <2>3, <2>4, <2>5, <2>6, <2>7, <2>8, <2>9 DEF Next
<1>3. QED
  BY <1>1, <1>2, Invariance, PTL DEF Spec

-----------------------------------------------------------------------------
(***************************************************************************)
(* One operation of each kind.  A receive is in flight, or its completion  *)
(* is being served, or AcceptLoop is going to issue the first one; a send  *)
(* is in flight or its completion is being served.                         *)
(***************************************************************************)
Rx(t, s) == /\ at[t] = s
            /\ \/ frame[t] = "recv" /\ pc[t] # "recv.release"
               \/ frame[t] = "conn"
               \/ frame[t] = "acc" /\ pc[t] \in {"acc.policy", "post", "issue"}

Tx(t, s) == at[t] = s /\ frame[t] = "send"

RxAll(s) == recvIO[s] + Cardinality({t \in Threads : Rx(t, s)})
TxAll(s) == sendIO[s] + Cardinality({t \in Threads : Tx(t, s)})

IoInv ==
  \A s \in Sessions :
    /\ RxAll(s) <= 1
    /\ open[s] => TxAll(s) <= 1 /\ (TxAll(s) = 1 => sending[s])
    /\ \A t \in Threads : Rx(t, s) => life[s] # "none"

\* A step of thread t adds no receive, and a send only when none was started.
RecvLess(t, s) == recvIO'[s] + B2N(Rx(t, s)') <= recvIO[s] + B2N(Rx(t, s))

SendLess(t, s) ==
  open'[s] =>
    /\ open[s]
    /\ LET before == sendIO[s] + B2N(Tx(t, s))
           after  == sendIO'[s] + B2N(Tx(t, s)')
       IN \/ after = before /\ (sending[s] => sending'[s])
          \/ after + 1 = before
          \/ after = before + 1 /\ ~sending[s] /\ sending'[s]

IoStep(t) ==
  \A s \in Sessions :
    /\ RecvLess(t, s) /\ SendLess(t, s)
    /\ life'[s] = "none" => life[s] = "none"

(* PostSend, PostRecv and RemoveSession, on any thread. *)
LEMMA AnyThreadIo ==
  ASSUME IInv, NEW t \in Threads, AnyThread(t)
  PROVE  IoStep(t)
<1> USE ThreadsAssumption DEF Threads, IInv, Is, Goto, Enter, Return, After,
  SendReturn, RecvReturn, RemoveReturn, Close, TypeOK, ThreadTypeOK,
  ObjectTypeOK, StateTypeOK, TouchSites, RecvSites, RemoveSites, RawSites,
  OtherSites, Frames, threadVars, data, objVars, ioVars, queueVars, FramesOk,
  FrameOk, IoStep, RecvLess, SendLess, Rx, Tx, B2N
<1>1. ASSUME RemoveErase(t) PROVE IoStep(t)
  BY <1>1 DEF RemoveErase
<1>2. ASSUME RemoveClose(t) PROVE IoStep(t)
  BY <1>2 DEF RemoveClose
<1>3. ASSUME RemoveRelease(t) PROVE IoStep(t)
  BY <1>3 DEF RemoveRelease, Release, Last
<1>4. ASSUME DisconnectNotify(t) PROVE IoStep(t)
  BY <1>4 DEF DisconnectNotify
<1>5. ASSUME DisconnectRemove(t) PROVE IoStep(t)
  BY <1>5 DEF DisconnectRemove
<1>6. ASSUME PostSendCheck(t) PROVE IoStep(t)
  BY <1>6 DEF PostSendCheck
<1>7. ASSUME PostSendRefuse(t) PROVE IoStep(t)
  BY <1>7 DEF PostSendRefuse
<1>8. ASSUME PostSendFar(t) PROVE IoStep(t)
  BY <1>8 DEF PostSendFar
<1>9. ASSUME PostSendQueue(t) PROVE IoStep(t)
  BY <1>9 DEF PostSendQueue, StartSend, FailSend, AddRef
<1>10. ASSUME PostRecvCheck(t) PROVE IoStep(t)
  BY <1>10 DEF PostRecvCheck, AddRef
<1>11. ASSUME PostRecvIssue(t) PROVE IoStep(t)
  BY <1>11 DEF PostRecvIssue, Release, Last
<1>12. ASSUME UseAfterFree(t) PROVE IoStep(t)
  BY <1>12 DEF UseAfterFree
<1>13. QED
  BY <1>1, <1>2, <1>3, <1>4, <1>5, <1>6, <1>7, <1>8, <1>9, <1>10, <1>11, <1>12 DEF AnyThread

(* The completions. *)
LEMMA WorkerIo ==
  ASSUME IInv, NEW t \in Workers, Worker(t)
  PROVE  IoStep(t)
<1> USE ThreadsAssumption DEF Threads, IInv, Is, Goto, Enter, Return, After,
  SendReturn, RecvReturn, RemoveReturn, Close, TypeOK, ThreadTypeOK,
  ObjectTypeOK, StateTypeOK, TouchSites, RecvSites, RemoveSites, RawSites,
  OtherSites, Frames, threadVars, data, objVars, ioVars, queueVars, FramesOk,
  FrameOk, IoStep, RecvLess, SendLess, Rx, Tx, B2N
<1>1. ASSUME NEW c \in Sessions, RecvCompletes(t, c) PROVE IoStep(t)
  BY <1>1 DEF RecvCompletes
<1>2. ASSUME NEW c \in Sessions, SendCompletes(t, c) PROVE IoStep(t)
  BY <1>2 DEF SendCompletes
<1>3. ASSUME NEW c \in Sessions, IoFails(t, c) PROVE IoStep(t)
  BY <1>3 DEF IoFails
<1>4. ASSUME RecvCopy(t) PROVE IoStep(t)
  BY <1>4 DEF RecvCopy
<1>5. ASSUME RecvOverflow(t) PROVE IoStep(t)
  BY <1>5 DEF RecvOverflow
<1>6. ASSUME ParseDone(t) PROVE IoStep(t)
  BY <1>6 DEF ParseDone
<1>7. ASSUME RecvRelease(t) PROVE IoStep(t)
  BY <1>7 DEF RecvRelease, Release, Last
<1>8. ASSUME SendNext(t) PROVE IoStep(t)
  BY <1>8 DEF SendNext, StartSend, FailSend, AddRef, PopSent
<1>9. ASSUME SendDrained(t) PROVE IoStep(t)
  BY <1>9 DEF SendDrained, Release, Last, PopSent
<1>10. QED
  BY <1>1, <1>2, <1>3, <1>4, <1>5, <1>6, <1>7, <1>8, <1>9 DEF Worker

(* The callbacks of the server. *)
LEMMA CallbackIo ==
  ASSUME IInv, NEW t \in Workers \cup {Acceptor}, Callback(t)
  PROVE  IoStep(t)
<1> USE ThreadsAssumption DEF Threads, IInv, Is, Goto, Enter, Return, After,
  SendReturn, RecvReturn, RemoveReturn, Close, TypeOK, ThreadTypeOK,
  ObjectTypeOK, StateTypeOK, TouchSites, RecvSites, RemoveSites, RawSites,
  OtherSites, Frames, threadVars, data, objVars, ioVars, queueVars, FramesOk,
  FrameOk, IoStep, RecvLess, SendLess, Rx, Tx, B2N
<1>1. ASSUME CallbackSend(t) PROVE IoStep(t)
  BY <1>1 DEF CallbackSend
<1>2. ASSUME CallbackRemove(t) PROVE IoStep(t)
  BY <1>2 DEF CallbackRemove
<1>3. QED
  BY <1>1, <1>2 DEF Callback

(* Application threads. *)
LEMMA AppIo ==
  ASSUME IInv, NEW t \in Apps, App(t)
  PROVE  IoStep(t)
<1> USE ThreadsAssumption DEF Threads, IInv, Is, Goto, Enter, Return, After,
  SendReturn, RecvReturn, RemoveReturn, Close, TypeOK, ThreadTypeOK,
  ObjectTypeOK, StateTypeOK, TouchSites, RecvSites, RemoveSites, RawSites,
  OtherSites, Frames, threadVars, data, objVars, ioVars, queueVars, FramesOk,
  FrameOk, IoStep, RecvLess, SendLess, Rx, Tx, B2N
<1>1. ASSUME NEW c \in Sessions, AppSend(t, c) PROVE IoStep(t)
  BY <1>1 DEF AppSend
<1>2. ASSUME NEW c \in Sessions, AppRemove(t, c) PROVE IoStep(t)
  BY <1>2 DEF AppRemove
<1>3. QED
  BY <1>1, <1>2 DEF App

(* CNetLib::Update. *)
LEMMA UpdateIo ==
  ASSUME IInv, Update
  PROVE  IoStep(Main)
<1> USE ThreadsAssumption DEF Threads, IInv, Is, Goto, Enter, Return, After,
  SendReturn, RecvReturn, RemoveReturn, Close, TypeOK, ThreadTypeOK,
  ObjectTypeOK, StateTypeOK, TouchSites, RecvSites, RemoveSites, RawSites,
  OtherSites, Frames, threadVars, data, objVars, ioVars, queueVars, FramesOk,
  FrameOk, IoStep, RecvLess, SendLess, Rx, Tx, B2N
<1>1. ASSUME NEW c \in Sessions, TimeOut(c) PROVE IoStep(Main)
  BY <1>1 DEF TimeOut
<1>2. ASSUME NEW c \in Sessions, UpdateNext(c) PROVE IoStep(Main)
  BY <1>2 DEF UpdateNext
<1>3. ASSUME GetAllSessions PROVE IoStep(Main)
  BY <1>3 DEF GetAllSessions
<1>4. ASSUME UpdateVisit PROVE IoStep(Main)
  BY <1>4 DEF UpdateVisit
<1>5. ASSUME UpdateMark PROVE IoStep(Main)
  BY <1>5 DEF UpdateMark
<1>6. ASSUME UpdateDone PROVE IoStep(Main)
  BY <1>6 DEF UpdateDone
<1>7. QED
  BY <1>1, <1>2, <1>3, <1>4, <1>5, <1>6 DEF Update

(* CNetLib::Stop. *)
LEMMA StopIo ==
  ASSUME IInv, Stop
  PROVE  IoStep(Main)
<1> USE ThreadsAssumption DEF Threads, IInv, Is, Goto, Enter, Return, After,
  SendReturn, RecvReturn, RemoveReturn, Close, TypeOK, ThreadTypeOK,
  ObjectTypeOK, StateTypeOK, TouchSites, RecvSites, RemoveSites, RawSites,
  OtherSites, Frames, threadVars, data, objVars, ioVars, queueVars, FramesOk,
  FrameOk, IoStep, RecvLess, SendLess, Rx, Tx, B2N
<1>1. ASSUME StopBegin PROVE IoStep(Main)
  BY <1>1 DEF StopBegin
<1>2. ASSUME StopJoinAccept PROVE IoStep(Main)
  BY <1>2 DEF StopJoinAccept
<1>3. ASSUME StopJoinWorkers PROVE IoStep(Main)
  BY <1>3 DEF StopJoinWorkers
<1>4. ASSUME CloseAllLock PROVE IoStep(Main)
  BY <1>4 DEF CloseAllLock
<1>5. ASSUME CloseAllDone PROVE IoStep(Main)
  BY <1>5 DEF CloseAllDone
<1>6. ASSUME NEW c \in Sessions, CloseAllNext(c) PROVE IoStep(Main)
  BY <1>6 DEF CloseAllNext
<1>7. QED
  BY <1>1, <1>2, <1>3, <1>4, <1>5, <1>6 DEF Stop

(* The accept thread, once it has a session. *)
LEMMA AcceptIo ==
  ASSUME IInv, Accept, \A s \in Sessions : ~CreateSession(s)
  PROVE  IoStep(Acceptor)
<1> USE ThreadsAssumption DEF Threads, IInv, Is, Goto, Enter, Return, After,
  SendReturn, RecvReturn, RemoveReturn, Close, TypeOK, ThreadTypeOK,
  ObjectTypeOK, StateTypeOK, TouchSites, RecvSites, RemoveSites, RawSites,
  OtherSites, Frames, threadVars, data, objVars, ioVars, queueVars, FramesOk,
  FrameOk, IoStep, RecvLess, SendLess, Rx, Tx, B2N
<1>1. ASSUME BindSocket PROVE IoStep(Acceptor)
  BY <1>1 DEF BindSocket
<1>2. ASSUME ConnectedReturns PROVE IoStep(Acceptor)
  BY <1>2 DEF ConnectedReturns
<1>3. ASSUME ApplyPolicy PROVE IoStep(Acceptor)
  BY <1>3 DEF ApplyPolicy
<1>4. ASSUME AcceptFails PROVE IoStep(Acceptor)
  BY <1>4 DEF AcceptFails
<1>5. QED
  BY <1>1, <1>2, <1>3, <1>4 DEF Accept

LEMMA SumsMove ==
  ASSUME NEW m \in Nat, NEW n \in Nat, NEW j \in Nat, NEW k \in Nat,
         NEW x \in Nat, NEW y \in Nat, k = j - x + y
  PROVE  m + j \in Nat /\ n + k \in Nat /\ (n + k) - (m + j) = n + y - (m + x)
  OBVIOUS

(* Counting receives and sends as one thread moves. *)
LEMMA IoMove ==
  ASSUME NEW t \in Threads, NEW s \in Sessions, OnlyMoves(t),
         recvIO[s] \in Nat, recvIO'[s] \in Nat, sendIO[s] \in Nat, sendIO'[s] \in Nat
  PROVE  /\ RxAll(s) \in Nat /\ RxAll(s)' \in Nat
         /\ TxAll(s) \in Nat /\ TxAll(s)' \in Nat
         /\ RxAll(s)' - RxAll(s)
              = recvIO'[s] + B2N(Rx(t, s)') - (recvIO[s] + B2N(Rx(t, s)))
         /\ TxAll(s)' - TxAll(s)
              = sendIO'[s] + B2N(Tx(t, s)') - (sendIO[s] + B2N(Tx(t, s)))
<1> DEFINE R == {u \in Threads : Rx(u, s)}
           T == {u \in Threads : Tx(u, s)}
<1>1. IsFiniteSet(R) /\ IsFiniteSet(R') /\ IsFiniteSet(T) /\ IsFiniteSet(T')
  <2>1. R \subseteq Threads /\ R' \subseteq Threads
        /\ T \subseteq Threads /\ T' \subseteq Threads
    OBVIOUS
  <2>2. QED BY <2>1, ThreadsAssumption, FS_Subset
<1>2. R \ {t} = R' \ {t} /\ T \ {t} = T' \ {t}
  BY DEF OnlyMoves, Rx, Tx
<1>3. /\ Cardinality(R) \in Nat /\ Cardinality(R') \in Nat
      /\ Cardinality(R') = Cardinality(R) - B2N(t \in R) + B2N(t \in R')
  BY <1>1, <1>2, CountMove
<1>4. /\ Cardinality(T) \in Nat /\ Cardinality(T') \in Nat
      /\ Cardinality(T') = Cardinality(T) - B2N(t \in T) + B2N(t \in T')
  BY <1>1, <1>2, CountMove
<1> DEFINE r0 == B2N(Rx(t, s))  r1 == B2N(Rx(t, s)')
           t0 == B2N(Tx(t, s))  t1 == B2N(Tx(t, s)')
<1>5. /\ B2N(t \in R) = r0 /\ B2N(t \in R') = r1
      /\ B2N(t \in T) = t0 /\ B2N(t \in T') = t1
      /\ r0 \in Nat /\ r1 \in Nat /\ t0 \in Nat /\ t1 \in Nat
  BY DEF B2N
<1>6. /\ RxAll(s) = recvIO[s] + Cardinality(R)
      /\ RxAll(s)' = recvIO'[s] + Cardinality(R')
      /\ TxAll(s) = sendIO[s] + Cardinality(T)
      /\ TxAll(s)' = sendIO'[s] + Cardinality(T')
  BY DEF RxAll, TxAll
<1>7. /\ Cardinality(R') = Cardinality(R) - r0 + r1
      /\ Cardinality(T') = Cardinality(T) - t0 + t1
  BY <1>3, <1>4, <1>5
<1> HIDE DEF r0, r1, t0, t1, R, T
<1>8. /\ RxAll(s) \in Nat /\ RxAll(s)' \in Nat
      /\ TxAll(s) \in Nat /\ TxAll(s)' \in Nat
      /\ RxAll(s)' - RxAll(s) = recvIO'[s] + r1 - (recvIO[s] + r0)
      /\ TxAll(s)' - TxAll(s) = sendIO'[s] + t1 - (sendIO[s] + t0)
  <2>1. /\ recvIO[s] + Cardinality(R) \in Nat /\ recvIO'[s] + Cardinality(R') \in Nat
        /\ (recvIO'[s] + Cardinality(R')) - (recvIO[s] + Cardinality(R))
             = recvIO'[s] + r1 - (recvIO[s] + r0)
    BY <1>3, <1>5, <1>7, SumsMove
  <2>2. /\ sendIO[s] + Cardinality(T) \in Nat /\ sendIO'[s] + Cardinality(T') \in Nat
        /\ (sendIO'[s] + Cardinality(T')) - (sendIO[s] + Cardinality(T))
             = sendIO'[s] + t1 - (sendIO[s] + t0)
    BY <1>4, <1>5, <1>7, SumsMove
  <2>3. QED BY <1>6, <2>1, <2>2
<1>9. QED BY <1>8 DEF r0, r1, t0, t1

(* A session nobody has created has no operation and nobody at work on it. *)
LEMMA UnbornIdle ==
  ASSUME IInv, IoInv, NEW s \in Sessions, life[s] = "none"
  PROVE  RxAll(s) = 0 /\ TxAll(s) = 0
<1>1. recvIO[s] = 0 /\ sendIO[s] = 0
  <2>1. recvIO[s] \in Nat /\ sendIO[s] \in Nat
    BY DEF IInv, TypeOK, ObjectTypeOK
  <2>2. ~(recvIO[s] > 0) /\ ~(sendIO[s] > 0) BY OwnedLive
  <2>3. QED BY <2>1, <2>2
<1>2. ASSUME NEW t \in Threads PROVE ~Rx(t, s) /\ ~Tx(t, s)
  BY <1>2, HolderLive DEF IoInv, Tx
<1>3. {t \in Threads : Rx(t, s)} = {} /\ {t \in Threads : Tx(t, s)} = {}
  BY <1>2
<1>4. QED BY <1>1, <1>3, FS_EmptySet DEF RxAll, TxAll

LEMMA IoStepInv ==
  ASSUME IInv, IInv', IoInv, NEW t \in Threads, OnlyMoves(t), IoStep(t)
  PROVE  IoInv'
<1> SUFFICES ASSUME NEW s \in Sessions
             PROVE  /\ RxAll(s)' <= 1
                    /\ open'[s] => TxAll(s)' <= 1 /\ (TxAll(s)' = 1 => sending'[s])
                    /\ \A u \in Threads : Rx(u, s)' => life'[s] # "none"
  BY DEF IoInv, RxAll, TxAll
<1>1. /\ recvIO[s] \in Nat /\ recvIO'[s] \in Nat
      /\ sendIO[s] \in Nat /\ sendIO'[s] \in Nat
  BY DEF IInv, TypeOK, ObjectTypeOK
<1>2. /\ RxAll(s) \in Nat /\ RxAll(s)' \in Nat /\ TxAll(s) \in Nat /\ TxAll(s)' \in Nat
      /\ RxAll(s)' - RxAll(s)
           = recvIO'[s] + B2N(Rx(t, s)') - (recvIO[s] + B2N(Rx(t, s)))
      /\ TxAll(s)' - TxAll(s)
           = sendIO'[s] + B2N(Tx(t, s)') - (sendIO[s] + B2N(Tx(t, s)))
  BY <1>1, IoMove
<1>3. RxAll(s)' <= RxAll(s)
  BY <1>1, <1>2 DEF IoStep, RecvLess, B2N
<1>4. RxAll(s) <= 1 BY DEF IoInv
<1>5. ASSUME open'[s] PROVE TxAll(s)' <= 1 /\ (TxAll(s)' = 1 => sending'[s])
  <2>1. TxAll(s) <= 1 /\ (TxAll(s) = 1 => sending[s])
    BY <1>5 DEF IoStep, SendLess, IoInv
  <2>2. \/ TxAll(s)' = TxAll(s) /\ (sending[s] => sending'[s])
        \/ TxAll(s)' + 1 = TxAll(s)
        \/ TxAll(s)' = TxAll(s) + 1 /\ ~sending[s] /\ sending'[s]
    <3> DEFINE t0 == B2N(Tx(t, s))  t1 == B2N(Tx(t, s)')
    <3>1. t0 \in Nat /\ t1 \in Nat BY DEF B2N
    <3>2. \/ sendIO'[s] + t1 = sendIO[s] + t0 /\ (sending[s] => sending'[s])
          \/ sendIO'[s] + t1 + 1 = sendIO[s] + t0
          \/ sendIO'[s] + t1 = sendIO[s] + t0 + 1 /\ ~sending[s] /\ sending'[s]
      BY <1>5 DEF IoStep, SendLess
    <3>3. TxAll(s)' - TxAll(s) = sendIO'[s] + t1 - (sendIO[s] + t0)
      BY <1>2
    <3> HIDE DEF t0, t1
    <3>4. QED BY <1>1, <1>2, <3>1, <3>2, <3>3
  <2>3. QED BY <1>2, <2>1, <2>2
<1>6. ASSUME NEW u \in Threads, Rx(u, s)' PROVE life'[s] # "none"
  <2>1. CASE life[s] # "none" BY <2>1 DEF IoStep
  <2>2. CASE life[s] = "none"
    <3>1. RxAll(s)' = 0 BY <1>2, <1>3, <2>2, UnbornIdle
    <3>2. {v \in Threads : Rx(v, s)'} # {} BY <1>6
    <3>3. IsFiniteSet({v \in Threads : Rx(v, s)'})
      <4>1. {v \in Threads : Rx(v, s)'} \subseteq Threads OBVIOUS
      <4>2. QED BY <4>1, ThreadsAssumption, FS_Subset
    <3>4. /\ Cardinality({v \in Threads : Rx(v, s)'}) \in Nat
          /\ Cardinality({v \in Threads : Rx(v, s)'}) # 0
      BY <3>2, <3>3, FS_EmptySet, FS_CardinalityType
    <3>5. QED BY <1>1, <3>1, <3>4 DEF RxAll
  <2>3. QED BY <2>1, <2>2
<1>7. QED BY <1>2, <1>3, <1>4, <1>5, <1>6

LEMMA CreateInv ==
  ASSUME IInv, IInv', IoInv, NEW c \in Sessions, CreateSession(c)
  PROVE  IoInv'
<1> USE ThreadsAssumption DEF Threads
<1> SUFFICES ASSUME NEW s \in Sessions
             PROVE  /\ RxAll(s)' <= 1
                    /\ open'[s] => TxAll(s)' <= 1 /\ (TxAll(s)' = 1 => sending'[s])
                    /\ \A u \in Threads : Rx(u, s)' => life'[s] # "none"
  BY DEF IoInv, RxAll, TxAll
<1>1. OnlyMoves(Acceptor)
  BY DEF CreateSession, Is, Enter, OnlyMoves, IInv, TypeOK, ThreadTypeOK
<1>2. /\ recvIO[s] \in Nat /\ recvIO'[s] = recvIO[s]
      /\ sendIO[s] \in Nat /\ sendIO'[s] = sendIO[s] /\ sending'[s] = sending[s]
      /\ life[c] = "none" /\ life' = [life EXCEPT ![c] = "live"]
      /\ open' = [open EXCEPT ![c] = TRUE]
  BY DEF CreateSession, ioVars, queueVars, IInv, TypeOK, ObjectTypeOK
<1>3. /\ frame[Acceptor] = "none" /\ frame'[Acceptor] = "conn" /\ at'[Acceptor] = c
  BY DEF CreateSession, Is, Enter, IInv, TypeOK, ThreadTypeOK, FramesOk, FrameOk
<1>4. /\ ~Rx(Acceptor, s) /\ (Rx(Acceptor, s)' <=> s = c)
      /\ ~Tx(Acceptor, s) /\ ~Tx(Acceptor, s)'
  BY <1>3 DEF Rx, Tx
<1>5. /\ RxAll(s) \in Nat /\ TxAll(s) \in Nat /\ TxAll(s)' = TxAll(s)
      /\ RxAll(s)' = RxAll(s) + B2N(s = c)
  <2>1. /\ B2N(Rx(Acceptor, s)) = 0 /\ B2N(Tx(Acceptor, s)) = 0
        /\ B2N(Rx(Acceptor, s)') = B2N(s = c) /\ B2N(Tx(Acceptor, s)') = 0
        /\ B2N(s = c) \in Nat
    BY <1>4 DEF B2N
  <2> DEFINE new == B2N(s = c)
  <2>2. /\ RxAll(s) \in Nat /\ RxAll(s)' \in Nat /\ TxAll(s) \in Nat /\ TxAll(s)' \in Nat
        /\ RxAll(s)' - RxAll(s) = recvIO'[s] + new - (recvIO[s] + 0)
        /\ TxAll(s)' - TxAll(s) = sendIO'[s] + 0 - (sendIO[s] + 0)
    <3>1. Acceptor \in Threads OBVIOUS
    <3>2. recvIO'[s] \in Nat /\ sendIO'[s] \in Nat BY <1>2
    <3>3. QED BY <1>1, <1>2, <2>1, <3>1, <3>2, IoMove
  <2>3. new \in Nat BY <2>1
  <2> HIDE DEF new
  <2>4. /\ RxAll(s) \in Nat /\ TxAll(s) \in Nat /\ TxAll(s)' = TxAll(s)
        /\ RxAll(s)' = RxAll(s) + new
    <3>1. \A i, m, n, x \in Nat : n - m = i + x - (i + 0) => n = m + x
      OBVIOUS
    <3>2. RxAll(s)' - RxAll(s) = recvIO[s] + new - (recvIO[s] + 0)
      BY <1>2, <2>2
    <3>3. TxAll(s)' - TxAll(s) = sendIO[s] + 0 - (sendIO[s] + 0)
      BY <1>2, <2>2
    <3>4. recvIO[s] \in Nat /\ sendIO[s] \in Nat BY <1>2
    <3>5. RxAll(s)' = RxAll(s) + new BY <2>2, <2>3, <3>1, <3>2, <3>4
    <3>6. TxAll(s)' = TxAll(s) + 0 BY <2>2, <3>1, <3>3, <3>4
    <3>7. QED BY <2>2, <3>5, <3>6
  <2>5. QED BY <2>4 DEF new
<1>6. CASE s = c
  <2>1. RxAll(s) = 0 /\ TxAll(s) = 0 BY <1>2, <1>6, UnbornIdle
  <2>2. RxAll(s)' <= 1 /\ TxAll(s)' = 0 BY <1>5, <1>6, <2>1 DEF B2N
  <2>3. life'[s] = "live" BY <1>2, <1>6 DEF IInv, TypeOK, ObjectTypeOK
  <2>4. QED BY <2>2, <2>3
<1>7. CASE s # c
  <2>1. open'[s] = open[s] /\ life'[s] = life[s]
    BY <1>2, <1>7 DEF IInv, TypeOK, ObjectTypeOK, StateTypeOK
  <2>2. RxAll(s)' = RxAll(s) BY <1>5, <1>7 DEF B2N
  <2>3. ASSUME NEW u \in Threads, Rx(u, s)' PROVE Rx(u, s)
    BY <1>1, <1>4, <1>7, <2>3 DEF OnlyMoves, Rx
  <2>4. QED BY <1>2, <1>5, <2>1, <2>2, <2>3 DEF IoInv
<1>8. QED BY <1>6, <1>7

(* For any number of sessions and threads, a session never has two receives
   or, while its socket is open, two sends in flight or being completed
   (Session.cpp:88-110, :148, :232). *)
THEOREM OneOperationAlways == Spec => []OneOperationOfEach
<1>1. Init => IoInv
  <2> SUFFICES ASSUME Init, NEW s \in Sessions
               PROVE  /\ RxAll(s) <= 1 /\ ~open[s]
                      /\ \A t \in Threads : ~Rx(t, s)
    BY DEF IoInv
  <2>1. \A t \in Threads : ~Rx(t, s) BY DEF Init, Rx
  <2>2. {t \in Threads : Rx(t, s)} = {} BY <2>1
  <2>3. RxAll(s) = 0 BY <2>2, FS_EmptySet DEF RxAll, Init
  <2>4. QED BY <2>1, <2>3 DEF Init
<1>2. IInv /\ IInv' /\ IoInv /\ [Next]_vars => IoInv'
  <2> SUFFICES ASSUME IInv, IInv', IoInv, [Next]_vars PROVE IoInv'
    OBVIOUS
  <2>0. CASE UNCHANGED vars
    BY <2>0 DEF vars, data, objVars, queueVars, ioVars, threadVars, IoInv,
      RxAll, TxAll, Rx, Tx
  <2>1. CASE \E c \in Sessions : CreateSession(c) BY <2>1, CreateInv
  <2>2. CASE Next /\ \A c \in Sessions : ~CreateSession(c)
    <3>1. Acceptor \in Threads /\ Main \in Threads
          /\ Workers \subseteq Threads /\ Apps \subseteq Threads
      BY DEF Threads
    <3>2. \E t \in Threads : OnlyMoves(t) /\ IoStep(t)
      <4> USE DEF Move
      <4>1. ASSUME NEW t \in Threads, AnyThread(t) PROVE OnlyMoves(t) /\ IoStep(t)
        BY <4>1, AnyThreadMoves, AnyThreadIo
      <4>2. ASSUME NEW t \in Workers \cup {Acceptor}, Callback(t)
            PROVE  OnlyMoves(t) /\ IoStep(t)
        BY <4>2, CallbackMoves, CallbackIo
      <4>3. ASSUME NEW t \in Workers, Worker(t) PROVE OnlyMoves(t) /\ IoStep(t)
        BY <4>3, WorkerMoves, WorkerIo
      <4>4. ASSUME NEW t \in Apps, App(t) PROVE OnlyMoves(t) /\ IoStep(t)
        BY <4>4, AppMoves, AppIo
      <4>5. Accept => OnlyMoves(Acceptor) /\ IoStep(Acceptor)
        BY <2>2, AcceptMoves, AcceptIo
      <4>6. Update => OnlyMoves(Main) /\ IoStep(Main) BY UpdateMoves, UpdateIo
      <4>7. Stop => OnlyMoves(Main) /\ IoStep(Main) BY StopMoves, StopIo
      <4>8. QED BY <2>2, <3>1, <4>1, <4>2, <4>3, <4>4, <4>5, <4>6, <4>7 DEF Next
    <3>3. QED BY <3>2, IoStepInv
  <2>3. QED BY <2>0, <2>1, <2>2
<1>3. IInv /\ IoInv => OneOperationOfEach
  <2> SUFFICES ASSUME IInv, IoInv, NEW s \in Sessions
               PROVE  /\ open[s] => sendIO[s] <= 1 /\ (sendIO[s] = 1 => sending[s])
                      /\ recvIO[s] + Cardinality({t \in Threads :
                           /\ at[t] = s
                           /\ pc[t] # "recv.release"
                           /\ frame[t] = "recv" \/ pc[t] = "issue"}) <= 1
    BY DEF OneOperationOfEach
  <2> DEFINE P == {t \in Threads : /\ at[t] = s
                                   /\ pc[t] # "recv.release"
                                   /\ frame[t] = "recv" \/ pc[t] = "issue"}
             R == {t \in Threads : Rx(t, s)}
             T == {t \in Threads : Tx(t, s)}
  <2>1. P \subseteq R /\ R \subseteq Threads /\ T \subseteq Threads
    BY DEF Rx, IInv, FramesOk, FrameOk
  <2>2. /\ Cardinality(P) \in Nat /\ Cardinality(R) \in Nat
        /\ Cardinality(T) \in Nat /\ Cardinality(P) <= Cardinality(R)
    BY <2>1, ThreadsAssumption, FS_Subset, FS_CardinalityType
  <2>3. /\ recvIO[s] \in Nat /\ sendIO[s] \in Nat
        /\ recvIO[s] + Cardinality(R) <= 1
        /\ open[s] => /\ sendIO[s] + Cardinality(T) <= 1
                      /\ sendIO[s] + Cardinality(T) = 1 => sending[s]
    BY DEF IInv, TypeOK, ObjectTypeOK, IoInv, RxAll, TxAll
  <2> HIDE DEF P, R, T
  <2>4. recvIO[s] + Cardinality(P) <= 1 BY <2>2, <2>3
  <2>5. open[s] => sendIO[s] <= 1 /\ (sendIO[s] = 1 => sending[s])
    BY <2>2, <2>3
  <2>6. QED BY <2>4, <2>5 DEF P
<1>4. QED BY <1>1, <1>2, <1>3, Invariance, PTL DEF Spec
-----------------------------------------------------------------------------
(***************************************************************************)
(* The two locks.  m_mgrLock is held from the erase of RemoveSession to    *)
(* its release, and throughout CloseAll; m_sendLock is held across a       *)
(* blocking call only by a sender far over the limit, on the session it    *)
(* disconnects, and never by the thread of Stop.                           *)
(***************************************************************************)
LockSites == RemoveSites \cup {"stop.loop"}
FarSites  == {"disc", "disc.id", "rm.lock", "rm.close", "rm.release", "ps.far"}

LockOk(t) ==
  /\ pc[t] \in LockSites <=> mgrLock = t
  /\ \A s \in Sessions :
       sendLock[s] = t => at[t] = s /\ pc[t] \in FarSites /\ frame[t] # "stop"
  /\ pc[t] \in {"ps.check", "ps.lock", "ps.far", "disc", "disc.id", "rm.lock"}
       => frame[t] # "stop"
  /\ frame[t] = "stop" => t = Main

LocksOk == \A t \in Threads : LockOk(t)

\* Without a send limit nobody is far over it.
NoLimitNoHolder ==
  MaxQueue = 0 => \A s \in Sessions : maxBytes[s] = 0 /\ sendLock[s] = NoOne

\* A step of thread t takes no lock from another thread and gives it none.
LockStep(t) ==
  /\ LockOk(t)'
  /\ \A u \in Threads \ {t} :
       /\ mgrLock' = u <=> mgrLock = u
       /\ \A s \in Sessions : sendLock'[s] = u => sendLock[s] = u
  /\ \A s \in Sessions :
       /\ maxBytes'[s] \in {maxBytes[s], MaxQueue}
       /\ sendLock'[s] \in {sendLock[s], NoOne} \/ maxBytes[s] > 0

(* PostSend, PostRecv and RemoveSession, on any thread. *)
LEMMA AnyThreadLocks ==
  ASSUME IInv, LocksOk, NEW t \in Threads, AnyThread(t)
  PROVE  LockStep(t)
<1> USE ThreadsAssumption DEF Threads, IInv, Is, Goto, Enter, Return, After,
  SendReturn, RecvReturn, RemoveReturn, TypeOK, ThreadTypeOK, ControlTypeOK,
  StateTypeOK, data, TouchSites, RecvSites, RemoveSites, RawSites,
  OtherSites, Frames, lockVars, FramesOk, FrameOk, LocksOk, LockOk, LockStep,
  LockSites, FarSites
<1>1. ASSUME RemoveErase(t) PROVE LockStep(t)
  BY <1>1 DEF RemoveErase
<1>2. ASSUME RemoveClose(t) PROVE LockStep(t)
  BY <1>2 DEF RemoveClose
<1>3. ASSUME RemoveRelease(t) PROVE LockStep(t)
  BY <1>3 DEF RemoveRelease, Release
<1>4. ASSUME DisconnectNotify(t) PROVE LockStep(t)
  BY <1>4 DEF DisconnectNotify
<1>5. ASSUME DisconnectRemove(t) PROVE LockStep(t)
  BY <1>5 DEF DisconnectRemove
<1>6. ASSUME PostSendCheck(t) PROVE LockStep(t)
  BY <1>6 DEF PostSendCheck
<1>7. ASSUME PostSendRefuse(t) PROVE LockStep(t)
  BY <1>7 DEF PostSendRefuse, OverLimit
<1>8. ASSUME PostSendFar(t) PROVE LockStep(t)
  BY <1>8 DEF PostSendFar
<1>9. ASSUME PostSendQueue(t) PROVE LockStep(t)
  BY <1>9 DEF PostSendQueue
<1>10. ASSUME PostRecvCheck(t) PROVE LockStep(t)
  BY <1>10 DEF PostRecvCheck
<1>11. ASSUME PostRecvIssue(t) PROVE LockStep(t)
  BY <1>11 DEF PostRecvIssue
<1>12. ASSUME UseAfterFree(t) PROVE LockStep(t)
  BY <1>12 DEF UseAfterFree, threadVars
<1>13. QED
  BY <1>1, <1>2, <1>3, <1>4, <1>5, <1>6, <1>7, <1>8, <1>9, <1>10, <1>11, <1>12 DEF AnyThread

(* The completions. *)
LEMMA WorkerLocks ==
  ASSUME IInv, LocksOk, NEW t \in Workers, Worker(t)
  PROVE  LockStep(t)
<1> USE ThreadsAssumption DEF Threads, IInv, Is, Goto, Enter, Return, After,
  SendReturn, RecvReturn, RemoveReturn, TypeOK, ThreadTypeOK, ControlTypeOK,
  StateTypeOK, data, TouchSites, RecvSites, RemoveSites, RawSites,
  OtherSites, Frames, lockVars, FramesOk, FrameOk, LocksOk, LockOk, LockStep,
  LockSites, FarSites
<1>1. ASSUME NEW c \in Sessions, RecvCompletes(t, c) PROVE LockStep(t)
  BY <1>1 DEF RecvCompletes
<1>2. ASSUME NEW c \in Sessions, SendCompletes(t, c) PROVE LockStep(t)
  BY <1>2 DEF SendCompletes
<1>3. ASSUME NEW c \in Sessions, IoFails(t, c) PROVE LockStep(t)
  BY <1>3 DEF IoFails
<1>4. ASSUME RecvCopy(t) PROVE LockStep(t)
  BY <1>4 DEF RecvCopy
<1>5. ASSUME RecvOverflow(t) PROVE LockStep(t)
  BY <1>5 DEF RecvOverflow
<1>6. ASSUME ParseDone(t) PROVE LockStep(t)
  BY <1>6 DEF ParseDone
<1>7. ASSUME RecvRelease(t) PROVE LockStep(t)
  BY <1>7 DEF RecvRelease
<1>8. ASSUME SendNext(t) PROVE LockStep(t)
  BY <1>8 DEF SendNext
<1>9. ASSUME SendDrained(t) PROVE LockStep(t)
  BY <1>9 DEF SendDrained
<1>10. QED
  BY <1>1, <1>2, <1>3, <1>4, <1>5, <1>6, <1>7, <1>8, <1>9 DEF Worker

(* The callbacks of the server. *)
LEMMA CallbackLocks ==
  ASSUME IInv, LocksOk, NEW t \in Workers \cup {Acceptor}, Callback(t)
  PROVE  LockStep(t)
<1> USE ThreadsAssumption DEF Threads, IInv, Is, Goto, Enter, Return, After,
  SendReturn, RecvReturn, RemoveReturn, TypeOK, ThreadTypeOK, ControlTypeOK,
  StateTypeOK, data, TouchSites, RecvSites, RemoveSites, RawSites,
  OtherSites, Frames, lockVars, FramesOk, FrameOk, LocksOk, LockOk, LockStep,
  LockSites, FarSites
<1>1. ASSUME CallbackSend(t) PROVE LockStep(t)
  BY <1>1 DEF CallbackSend
<1>2. ASSUME CallbackRemove(t) PROVE LockStep(t)
  BY <1>2 DEF CallbackRemove
<1>3. QED
  BY <1>1, <1>2 DEF Callback

(* The accept thread. *)
LEMMA AcceptLocks ==
  ASSUME IInv, LocksOk, Accept
  PROVE  LockStep(Acceptor)
<1> USE ThreadsAssumption DEF Threads, IInv, Is, Goto, Enter, Return, After,
  SendReturn, RecvReturn, RemoveReturn, TypeOK, ThreadTypeOK, ControlTypeOK,
  StateTypeOK, data, TouchSites, RecvSites, RemoveSites, RawSites,
  OtherSites, Frames, lockVars, FramesOk, FrameOk, LocksOk, LockOk, LockStep,
  LockSites, FarSites
<1>1. ASSUME NEW c \in Sessions, CreateSession(c) PROVE LockStep(Acceptor)
  BY <1>1 DEF CreateSession
<1>2. ASSUME BindSocket PROVE LockStep(Acceptor)
  BY <1>2 DEF BindSocket
<1>3. ASSUME ConnectedReturns PROVE LockStep(Acceptor)
  BY <1>3 DEF ConnectedReturns
<1>4. ASSUME ApplyPolicy PROVE LockStep(Acceptor)
  BY <1>4 DEF ApplyPolicy
<1>5. ASSUME AcceptFails PROVE LockStep(Acceptor)
  BY <1>5 DEF AcceptFails
<1>6. QED
  BY <1>1, <1>2, <1>3, <1>4, <1>5 DEF Accept

(* Application threads. *)
LEMMA AppLocks ==
  ASSUME IInv, LocksOk, NEW t \in Apps, App(t)
  PROVE  LockStep(t)
<1> USE ThreadsAssumption DEF Threads, IInv, Is, Goto, Enter, Return, After,
  SendReturn, RecvReturn, RemoveReturn, TypeOK, ThreadTypeOK, ControlTypeOK,
  StateTypeOK, data, TouchSites, RecvSites, RemoveSites, RawSites,
  OtherSites, Frames, lockVars, FramesOk, FrameOk, LocksOk, LockOk, LockStep,
  LockSites, FarSites
<1>1. ASSUME NEW c \in Sessions, AppSend(t, c) PROVE LockStep(t)
  BY <1>1 DEF AppSend
<1>2. ASSUME NEW c \in Sessions, AppRemove(t, c) PROVE LockStep(t)
  BY <1>2 DEF AppRemove
<1>3. QED
  BY <1>1, <1>2 DEF App

(* CNetLib::Update. *)
LEMMA UpdateLocks ==
  ASSUME IInv, LocksOk, Update
  PROVE  LockStep(Main)
<1> USE ThreadsAssumption DEF Threads, IInv, Is, Goto, Enter, Return, After,
  SendReturn, RecvReturn, RemoveReturn, TypeOK, ThreadTypeOK, ControlTypeOK,
  StateTypeOK, data, TouchSites, RecvSites, RemoveSites, RawSites,
  OtherSites, Frames, lockVars, FramesOk, FrameOk, LocksOk, LockOk, LockStep,
  LockSites, FarSites
<1>1. ASSUME NEW c \in Sessions, TimeOut(c) PROVE LockStep(Main)
  BY <1>1 DEF TimeOut
<1>2. ASSUME NEW c \in Sessions, UpdateNext(c) PROVE LockStep(Main)
  BY <1>2 DEF UpdateNext
<1>3. ASSUME GetAllSessions PROVE LockStep(Main)
  BY <1>3 DEF GetAllSessions
<1>4. ASSUME UpdateVisit PROVE LockStep(Main)
  BY <1>4 DEF UpdateVisit
<1>5. ASSUME UpdateMark PROVE LockStep(Main)
  BY <1>5 DEF UpdateMark
<1>6. ASSUME UpdateDone PROVE LockStep(Main)
  BY <1>6 DEF UpdateDone
<1>7. QED
  BY <1>1, <1>2, <1>3, <1>4, <1>5, <1>6 DEF Update

(* CNetLib::Stop. *)
LEMMA StopLocks ==
  ASSUME IInv, LocksOk, Stop
  PROVE  LockStep(Main)
<1> USE ThreadsAssumption DEF Threads, IInv, Is, Goto, Enter, Return, After,
  SendReturn, RecvReturn, RemoveReturn, TypeOK, ThreadTypeOK, ControlTypeOK,
  StateTypeOK, data, TouchSites, RecvSites, RemoveSites, RawSites,
  OtherSites, Frames, lockVars, FramesOk, FrameOk, LocksOk, LockOk, LockStep,
  LockSites, FarSites
<1>1. ASSUME StopBegin PROVE LockStep(Main)
  BY <1>1 DEF StopBegin
<1>2. ASSUME StopJoinAccept PROVE LockStep(Main)
  BY <1>2 DEF StopJoinAccept
<1>3. ASSUME StopJoinWorkers PROVE LockStep(Main)
  BY <1>3 DEF StopJoinWorkers
<1>4. ASSUME CloseAllLock PROVE LockStep(Main)
  BY <1>4 DEF CloseAllLock
<1>5. ASSUME CloseAllDone PROVE LockStep(Main)
  BY <1>5 DEF CloseAllDone
<1>6. ASSUME NEW c \in Sessions, CloseAllNext(c) PROVE LockStep(Main)
  BY <1>6 DEF CloseAllNext
<1>7. QED
  BY <1>1, <1>2, <1>3, <1>4, <1>5, <1>6 DEF Stop

(* What the lock sites say of each lock's holder is inductive. *)
LEMMA LocksInvariant == Spec => [](IInv /\ LocksOk /\ NoLimitNoHolder)
<1>1. Init => LocksOk /\ NoLimitNoHolder
  BY ThreadsAssumption DEF Init, LocksOk, LockOk, LockSites, RemoveSites,
    FarSites, NoLimitNoHolder
<1>2. ASSUME IInv, LocksOk, NEW t \in Threads, OnlyMoves(t), LockStep(t)
      PROVE  LocksOk' /\ (NoLimitNoHolder => NoLimitNoHolder')
  <2>0. NoLimitNoHolder => NoLimitNoHolder'
    BY <1>2 DEF NoLimitNoHolder, LockStep
  <2>1. SUFFICES ASSUME NEW u \in Threads \ {t} PROVE LockOk(u)'
    BY <1>2, <2>0 DEF LocksOk, LockStep
  <2>2. /\ pc'[u] = pc[u] /\ frame'[u] = frame[u] /\ at'[u] = at[u]
        /\ LockOk(u)
    BY <1>2 DEF OnlyMoves, LocksOk
  <2>3. QED
    BY <1>2, <2>0, <2>2 DEF LockOk, LockStep
<1>3. IInv /\ LocksOk /\ NoLimitNoHolder /\ [Next]_vars
        => LocksOk' /\ NoLimitNoHolder'
  <2> SUFFICES ASSUME IInv, LocksOk, NoLimitNoHolder, [Next]_vars
               PROVE  LocksOk' /\ NoLimitNoHolder'
    OBVIOUS
  <2>1. CASE UNCHANGED vars
    BY <2>1 DEF vars, data, lockVars, threadVars, LocksOk, LockOk,
      NoLimitNoHolder
  <2>2. CASE Next
    <3>1. Acceptor \in Threads /\ Main \in Threads
          /\ Workers \subseteq Threads /\ Apps \subseteq Threads
      BY DEF Threads
    <3>2. \E t \in Threads : OnlyMoves(t) /\ LockStep(t)
      <4> USE DEF Move
      <4>1. ASSUME NEW t \in Threads, AnyThread(t)
            PROVE  OnlyMoves(t) /\ LockStep(t)
        BY <4>1, AnyThreadMoves, AnyThreadLocks
      <4>2. ASSUME NEW t \in Workers \cup {Acceptor}, Callback(t)
            PROVE  OnlyMoves(t) /\ LockStep(t)
        BY <4>2, CallbackMoves, CallbackLocks
      <4>3. ASSUME NEW t \in Workers, Worker(t)
            PROVE  OnlyMoves(t) /\ LockStep(t)
        BY <4>3, WorkerMoves, WorkerLocks
      <4>4. ASSUME NEW t \in Apps, App(t) PROVE OnlyMoves(t) /\ LockStep(t)
        BY <4>4, AppMoves, AppLocks
      <4>5. Accept => OnlyMoves(Acceptor) /\ LockStep(Acceptor)
        BY AcceptMoves, AcceptLocks
      <4>6. Update => OnlyMoves(Main) /\ LockStep(Main)
        BY UpdateMoves, UpdateLocks
      <4>7. Stop => OnlyMoves(Main) /\ LockStep(Main)
        BY StopMoves, StopLocks
      <4>8. QED
        BY <2>2, <3>1, <4>1, <4>2, <4>3, <4>4, <4>5, <4>6, <4>7 DEF Next
    <3>3. QED
      BY <3>2, <1>2
  <2>3. QED
    BY <2>1, <2>2
<1>4. QED
  BY <1>1, <1>3, Invariance, PTL DEF Spec

(* A thread that others wait for, in a lock or a last release, and that
   waits itself, is one of the two that cross. *)
LEMMA WaitersCross ==
  ASSUME IInv, LocksOk, NEW D, D \subseteq Threads, Deadlocked(D)
  PROVE  \E h, u \in D : LocksCross(h, u)
<1> USE ThreadsAssumption DEF LocksOk, LockOk, LockSites, RemoveSites, FarSites
<1>1. \A t \in D : /\ t \in Threads /\ t # NoOne
                   /\ \E u \in D : WaitsFor(t, u)
  BY DEF Deadlocked
<1>2. ASSUME NEW t \in D, pc[t] = "rm.lock" PROVE mgrLock \in D
  BY <1>1, <1>2 DEF WaitsFor, MgrLockSites, SendLockSites, DeletesNext
<1>3. ASSUME NEW s \in Sessions, sendLock[s] \in D PROVE mgrLock \in D
  <2>1. PICK u \in D : u = sendLock[s]
    BY <1>3
  <2>2. pc[u] \in FarSites
    BY <1>1, <2>1
  <2>3. CASE pc[u] \in RemoveSites
    BY <1>1, <2>3
  <2>4. CASE pc[u] \notin RemoveSites
    <3>1. pc[u] = "rm.lock"
      BY <1>1, <2>2, <2>4 DEF WaitsFor, MgrLockSites, SendLockSites,
        DeletesNext
    <3>2. QED
      BY <3>1, <1>2
  <2>5. QED
    BY <2>3, <2>4
<1>4. ASSUME NEW t \in D, pc[t] \notin {"stop.accept", "stop.workers"}
      PROVE  mgrLock \in D
  <2>1. at[t] \in Sessions
    BY <1>1 DEF IInv, TypeOK, ThreadTypeOK
  <2>2. mgrLock \in D \/ sendLock[at[t]] \in D
    BY <1>1, <1>4 DEF WaitsFor
  <2>3. QED
    BY <1>3, <2>1, <2>2
<1>5. mgrLock \in D
  <2>1. PICK t \in D : TRUE
    BY DEF Deadlocked
  <2>2. CASE pc[t] \notin {"stop.accept", "stop.workers"}
    BY <1>4, <2>2
  <2>3. CASE pc[t] \in {"stop.accept", "stop.workers"}
    <3>1. PICK u \in D : WaitsFor(t, u)
      BY <1>1
    <3>2. u = Acceptor \/ u \in Workers
      BY <2>3, <3>1 DEF WaitsFor, MgrLockSites, SendLockSites, DeletesNext
    <3>3. pc[u] \notin {"stop.accept", "stop.workers"}
      BY <1>1, <3>2 DEF IInv, FramesOk, FrameOk
    <3>4. QED
      BY <1>4, <3>3
  <2>4. QED
    BY <2>2, <2>3
<1>6. PICK h \in D : h = mgrLock
  BY <1>5
<1>7. h \in Threads /\ pc[h] \in LockSites /\ at[h] \in Sessions
  BY <1>1, <1>6 DEF IInv, TypeOK, ThreadTypeOK
<1>8. PICK u \in D : u # h /\ sendLock[at[h]] = u /\ pc[h] \in RemoveSites
  BY <1>1, <1>6, <1>7 DEF WaitsFor, MgrLockSites, SendLockSites, DeletesNext
<1>9. at[u] = at[h] /\ pc[u] \in FarSites \ RemoveSites
  BY <1>1, <1>6, <1>7, <1>8
<1>10. pc[u] = "rm.lock"
  BY <1>1, <1>9 DEF WaitsFor, MgrLockSites, SendLockSites, DeletesNext
<1>11. QED
  BY <1>6, <1>8, <1>9, <1>10 DEF LocksCross

(* For any sessions and threads: threads that wait for each other without end
   hold the two locks in opposite orders, RemoveSession or CloseAll those of a
   session it removes, PostSend those of a session far over its limit
   (Session.cpp:137, SessionMgr.cpp:67-77). *)
THEOREM DeadlocksAlwaysCross == Spec => []DeadlocksCross
<1>1. IInv /\ LocksOk => DeadlocksCross
  BY WaitersCross DEF DeadlocksCross
<1>2. QED
  BY <1>1, LocksInvariant, PTL

(* A server that sets no send limit (m_dwMaxSendQueueBytes = 0) cannot
   deadlock in NetLib: no set of its threads waits for itself. *)
THEOREM NoLimitNoDeadlock ==
  Spec => [](MaxQueue = 0 => \A D \in SUBSET Threads : ~Deadlocked(D))
<1>1. IInv /\ LocksOk /\ NoLimitNoHolder
        => (MaxQueue = 0 => \A D \in SUBSET Threads : ~Deadlocked(D))
  <2> SUFFICES ASSUME IInv, LocksOk, NoLimitNoHolder, MaxQueue = 0,
                      NEW D \in SUBSET Threads, Deadlocked(D)
               PROVE  FALSE
    OBVIOUS
  <2>1. PICK h, u \in D : LocksCross(h, u)
    BY WaitersCross
  <2>2. u \in Threads /\ at[u] \in Sessions /\ sendLock[at[u]] = u
    BY <2>1 DEF LocksCross, IInv, TypeOK, ThreadTypeOK
  <2>3. QED
    BY <2>2, ThreadsAssumption DEF NoLimitNoHolder
<1>2. QED
  BY <1>1, LocksInvariant, PTL

-----------------------------------------------------------------------------
LEMMA SumIsZero ==
  ASSUME NEW a \in Nat, NEW b \in Nat, NEW c \in Nat, NEW d \in Nat,
         NEW e \in Nat, NEW n, n = a + b + c + d + e
  PROVE  n = 0 <=> a = 0 /\ b = 0 /\ c = 0 /\ d = 0 /\ e = 0
  OBVIOUS

(* For any sessions and threads, a session that has left the map is deleted at
   the very step that takes its last owner away, unless one of its references
   was leaked; and no other session is (Session.cpp:33-41). *)
THEOREM DeletedWithLastOwner == Spec => []FreedExactly
<1>1. IInv => FreedExactly
  <2> SUFFICES ASSUME IInv, NEW s \in Sessions, life[s] # "none"
               PROVE  life[s] = "freed" <=> Unowned(s) /\ leak[s] = 0
    BY DEF FreedExactly
  <2>1. /\ refCnt[s] \in Nat /\ recvIO[s] \in Nat /\ sendIO[s] \in Nat
        /\ leak[s] \in Nat /\ HeldByThreads(s) \in Nat
        /\ B2N(s \in sessionMap) \in Nat
        /\ B2N(s \in sessionMap) = 0 <=> s \notin sessionMap
    BY HeldNat DEF IInv, TypeOK, ObjectTypeOK, B2N
  <2>2. refCnt[s] = B2N(s \in sessionMap) + recvIO[s] + sendIO[s] + leak[s]
                      + HeldByThreads(s)
    BY DEF IInv, RefExact
  <2> DEFINE inMap == B2N(s \in sessionMap)
             held  == HeldByThreads(s)
  <2>3. refCnt[s] = 0 <=> Unowned(s) /\ leak[s] = 0
    <3>1. inMap \in Nat /\ held \in Nat
          /\ refCnt[s] = inMap + recvIO[s] + sendIO[s] + leak[s] + held
      BY <2>1, <2>2
    <3>2. Unowned(s) <=> inMap = 0 /\ recvIO[s] = 0 /\ sendIO[s] = 0 /\ held = 0
      BY <2>1 DEF Unowned
    <3> HIDE DEF inMap, held
    <3>3. recvIO[s] \in Nat /\ sendIO[s] \in Nat /\ leak[s] \in Nat
      BY <2>1
    <3>4. refCnt[s] = 0 <=> /\ inMap = 0 /\ recvIO[s] = 0 /\ sendIO[s] = 0
                            /\ held = 0 /\ leak[s] = 0
      BY <3>1, <3>3, SumIsZero
    <3>5. QED
      BY <3>2, <3>4
  <2>4. life[s] = "freed" <=> ~(refCnt[s] > 0)
    BY DEF IInv, LifeExact, TypeOK, ObjectTypeOK
  <2>5. QED
    BY <2>1, <2>3, <2>4
<1>2. QED
  BY <1>1, Invariance, PTL
=============================================================================
