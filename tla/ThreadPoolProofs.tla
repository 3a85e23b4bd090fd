-------------------------- MODULE ThreadPoolProofs --------------------------
(* Proofs about ThreadPool, for any sets of workers, clients and tasks: no   *)
(* wakeup is lost, and the destructor leaves no task behind.                 *)
EXTENDS ThreadPool, FiniteSetTheorems, TLAPS

\* Workers leave the pool only once it is being destroyed, and then no client
\* enqueues; a worker has a task exactly while it executes it.
ExitOk ==
  /\ isShutdown <=> dtor # "none"
  /\ \A w \in crew : /\ pc[w] = "exited" => isShutdown
                     /\ pc[w] \in InPlaces
                     /\ pc[w] \in {"run", "signal"} <=> job[w] # NoTask
  /\ \A w \in Workers \ crew : pc[w] = "out"
  /\ dtor # "none" => \A c \in Clients : pc[c] = "out"
  /\ dtor = "destroyed" => \A w \in crew : pc[w] = "exited"

\* The last worker to leave has seen the queue empty.
LastSawEmpty ==
  crew # {} /\ (\A w \in crew : pc[w] = "exited") => queue = <<>>

PInv ==
  TypeOK /\ ExitOk /\ LastSawEmpty /\ QueueHasTokens /\ TokensExact

-----------------------------------------------------------------------------
(* The two sets of threads that account for tokens on their way are finite. *)
LEMMA FiniteWays ==
  ASSUME TypeOK
  PROVE  /\ IsFiniteSet(Holding) /\ Cardinality(Holding) \in Nat
         /\ IsFiniteSet(Pending) /\ Cardinality(Pending) \in Nat
<1>1. Holding \subseteq Workers
  BY DEF Holding, TypeOK
<1>2. Pending \subseteq Workers \cup Clients
  BY DEF Pending, Threads
<1>3. IsFiniteSet(Workers \cup Clients)
  BY PoolAssumption, FS_Union
<1>4. IsFiniteSet(Holding) /\ IsFiniteSet(Pending)
  BY <1>1, <1>2, <1>3, PoolAssumption, FS_Subset
<1>5. QED
  BY <1>4, FS_CardinalityType

(* Types are preserved by every step. *)
LEMMA PoolTypes == TypeOK /\ ExitOk /\ [Next]_vars => TypeOK'
<1> SUFFICES ASSUME TypeOK, ExitOk, [Next]_vars PROVE TypeOK'
  OBVIOUS
<1> USE DEF TypeOK, Goto, InPlaces, Threads
<1>1. ASSUME NEW t \in Threads, SignalTask(t) PROVE TypeOK'
  BY <1>1 DEF SignalTask
<1>2. ASSUME NEW t \in Threads, NEW k \in Tasks, PushTask(t, k) PROVE TypeOK'
  BY <1>2 DEF PushTask
<1>3. ASSUME NEW w \in crew, WorkerStep(w) PROVE TypeOK'
  <2>1. CASE TakeToken(w)
    BY <2>1 DEF TakeToken
  <2>2. CASE CheckShutdown(w)
    BY <2>2 DEF CheckShutdown
  <2>3. CASE PopTask(w)
    <3>1. CASE queue # <<>>
      <4>1. Head(queue) \in Tasks /\ Tail(queue) \in Seq(Tasks)
        BY <3>1
      <4>2. QED
        BY <2>3, <3>1, <4>1 DEF PopTask
    <3>2. CASE queue = <<>>
      BY <2>3, <3>2 DEF PopTask
    <3>3. QED
      BY <3>1, <3>2
  <2>4. CASE TaskReturns(w)
    <3>1. job[w] \in Tasks
      BY <1>3, <2>4 DEF TaskReturns, ExitOk
    <3>2. QED
      BY <2>4, <3>1 DEF TaskReturns
  <2>5. QED
    BY <1>3, <2>1, <2>2, <2>3, <2>4 DEF WorkerStep
<1>4. CASE Destroy
  <2>1. IsFiniteSet(crew) /\ Cardinality(crew) \in Nat
    BY PoolAssumption, FS_Subset, FS_CardinalityType
  <2>2. CASE DestroyBegin
    BY <2>2 DEF DestroyBegin
  <2>3. CASE DestroySignal
    BY <2>3, <2>1 DEF DestroySignal
  <2>4. CASE DestroyJoined
    BY <2>4 DEF DestroyJoined
  <2>5. QED
    BY <1>4, <2>2, <2>3, <2>4 DEF Destroy
<1>5. CASE UNCHANGED vars
  BY <1>5 DEF vars
<1>6. QED
  BY <1>1, <1>2, <1>3, <1>4, <1>5 DEF Next

(* ExitOk is preserved by every step. *)
LEMMA PoolExits == TypeOK /\ ExitOk /\ [Next]_vars => ExitOk'
<1> SUFFICES ASSUME TypeOK, ExitOk, [Next]_vars PROVE ExitOk'
  OBVIOUS
<1> USE PoolAssumption DEF TypeOK, ExitOk, Goto, InPlaces, Threads
<1>1. ASSUME NEW t \in Threads, SignalTask(t) PROVE ExitOk'
  BY <1>1 DEF SignalTask
<1>2. ASSUME NEW t \in Threads, NEW k \in Tasks, PushTask(t, k) PROVE ExitOk'
  BY <1>2 DEF PushTask, CanEnqueue
<1>3. ASSUME NEW w \in crew, WorkerStep(w) PROVE ExitOk'
  <2>1. CASE TakeToken(w)
    BY <2>1 DEF TakeToken
  <2>2. CASE CheckShutdown(w)
    BY <2>2 DEF CheckShutdown
  <2>3. CASE PopTask(w)
    <3>1. CASE queue # <<>>
      <4>1. Head(queue) \in Tasks
        BY <3>1
      <4>2. QED
        BY <2>3, <3>1, <4>1 DEF PopTask
    <3>2. CASE queue = <<>>
      BY <2>3, <3>2 DEF PopTask
    <3>3. QED
      BY <3>1, <3>2
  <2>4. CASE TaskReturns(w)
    BY <2>4 DEF TaskReturns
  <2>5. QED
    BY <1>3, <2>1, <2>2, <2>3, <2>4 DEF WorkerStep
<1>4. CASE Destroy
  BY <1>4 DEF Destroy, DestroyBegin, DestroySignal, DestroyJoined
<1>5. CASE UNCHANGED vars
  BY <1>5 DEF vars
<1>6. QED
  BY <1>1, <1>2, <1>3, <1>4, <1>5 DEF Next

(* Only running workers and, before the destructor, clients enqueue: once
   all workers have left, the queue stays as the last one saw it. *)
LEMMA PoolLast ==
  TypeOK /\ ExitOk /\ LastSawEmpty /\ [Next]_vars => LastSawEmpty'
<1> SUFFICES ASSUME TypeOK, ExitOk, LastSawEmpty, [Next]_vars
    PROVE  LastSawEmpty'
  OBVIOUS
<1> USE PoolAssumption DEF TypeOK, ExitOk, LastSawEmpty, Goto, Threads
<1>1. ASSUME NEW t \in Threads, SignalTask(t) PROVE LastSawEmpty'
  BY <1>1 DEF SignalTask
<1>2. ASSUME NEW t \in Threads, NEW k \in Tasks, PushTask(t, k)
      PROVE  LastSawEmpty'
  BY <1>2 DEF PushTask, CanEnqueue
<1>3. ASSUME NEW w \in crew, WorkerStep(w) PROVE LastSawEmpty'
  BY <1>3 DEF WorkerStep, TakeToken, CheckShutdown, PopTask, TaskReturns
<1>4. CASE Destroy
  BY <1>4 DEF Destroy, DestroyBegin, DestroySignal, DestroyJoined
<1>5. CASE UNCHANGED vars
  BY <1>5 DEF vars
<1>6. QED
  BY <1>1, <1>2, <1>3, <1>4, <1>5 DEF Next

(* No step loses a wakeup: a token moves with the thread that carries it. *)
LEMMA PoolWakeups ==
  TypeOK /\ ExitOk /\ QueueHasTokens /\ [Next]_vars => QueueHasTokens'
<1> SUFFICES ASSUME TypeOK, ExitOk, QueueHasTokens, [Next]_vars
    PROVE  QueueHasTokens'
  OBVIOUS
<1> USE PoolAssumption DEF Goto, QueueHasTokens, Threads
<1>1. /\ IsFiniteSet(Holding) /\ Cardinality(Holding) \in Nat
      /\ IsFiniteSet(Pending) /\ Cardinality(Pending) \in Nat
      /\ Len(queue) \in Nat /\ tokens \in Nat
  BY FiniteWays DEF TypeOK
<1>2. ASSUME NEW t \in Threads, SignalTask(t) PROVE QueueHasTokens'
  <2>1. Pending' = Pending \ {t} /\ t \in Pending
    BY <1>2 DEF SignalTask, Pending, TypeOK
  <2>2. Cardinality(Pending') = Cardinality(Pending) - 1
    BY <2>1, <1>1, FS_RemoveElement
  <2>3. Holding' = Holding
    BY <1>2 DEF SignalTask, Holding, TypeOK, ExitOk
  <2>4. QED
    BY <1>1, <1>2, <2>2, <2>3 DEF SignalTask
<1>3. ASSUME NEW t \in Threads, NEW k \in Tasks, PushTask(t, k)
      PROVE  QueueHasTokens'
  <2>1. Pending' = Pending \cup {t} /\ t \notin Pending
    BY <1>3 DEF PushTask, CanEnqueue, Pending, TypeOK
  <2>2. Cardinality(Pending') = Cardinality(Pending) + 1
    BY <2>1, <1>1, FS_AddElement
  <2>3. Holding' = Holding
    BY <1>3 DEF PushTask, CanEnqueue, Holding, TypeOK
  <2>4. Len(queue') = Len(queue) + 1
    BY <1>3 DEF PushTask, TypeOK
  <2>5. QED
    BY <1>1, <1>3, <2>2, <2>3, <2>4 DEF PushTask
<1>4. ASSUME NEW w \in crew, WorkerStep(w) PROVE QueueHasTokens'
  <2>1. CASE TakeToken(w)
    <3>1. Holding' = Holding \cup {w} /\ w \notin Holding
      BY <1>4, <2>1 DEF TakeToken, Holding, TypeOK
    <3>2. Cardinality(Holding') = Cardinality(Holding) + 1
      BY <3>1, <1>1, FS_AddElement
    <3>3. Pending' = Pending
      BY <2>1 DEF TakeToken, Pending, TypeOK
    <3>4. QED
      BY <1>1, <2>1, <3>2, <3>3 DEF TakeToken
  <2>2. CASE CheckShutdown(w)
    <3>1. Pending' = Pending
      BY <2>2 DEF CheckShutdown, Pending, TypeOK
    <3>2. CASE isShutdown /\ queue = <<>>
      <4>1. Holding' \subseteq Holding
        BY <2>2 DEF CheckShutdown, Holding, TypeOK
      <4>2. Cardinality(Holding') \in Nat
        BY <4>1, <1>1, FS_Subset, FS_CardinalityType
      <4>3. Len(queue') = 0
        BY <2>2, <3>2 DEF CheckShutdown
      <4>4. QED
        BY <1>1, <2>2, <3>1, <4>2, <4>3 DEF CheckShutdown
    <3>3. CASE ~(isShutdown /\ queue = <<>>)
      <4>1. Holding' = Holding
        BY <2>2, <3>3 DEF CheckShutdown, Holding, TypeOK
      <4>2. QED
        BY <2>2, <3>1, <4>1 DEF CheckShutdown
    <3>4. QED
      BY <3>2, <3>3
  <2>3. CASE PopTask(w)
    <3>1. Holding' = Holding \ {w} /\ w \in Holding
      BY <1>4, <2>3 DEF PopTask, Holding, TypeOK
    <3>2. Cardinality(Holding') = Cardinality(Holding) - 1
      BY <3>1, <1>1, FS_RemoveElement
    <3>3. Pending' = Pending
      BY <2>3 DEF PopTask, Pending, TypeOK
    <3>4. CASE queue # <<>>
      <4>1. Len(queue') = Len(queue) - 1
        BY <2>3, <3>4 DEF PopTask, TypeOK
      <4>2. QED
        BY <1>1, <2>3, <3>2, <3>3, <4>1 DEF PopTask
    <3>5. CASE queue = <<>>
      <4>1. Len(queue') = 0
        BY <2>3, <3>5 DEF PopTask
      <4>2. Cardinality(Holding') \in Nat
        BY <3>1, <1>1, FS_RemoveElement, FS_CardinalityType
      <4>3. QED
        BY <1>1, <2>3, <3>3, <4>1, <4>2 DEF PopTask
    <3>6. QED
      BY <3>4, <3>5
  <2>4. CASE TaskReturns(w)
    <3>1. Holding' = Holding /\ Pending' = Pending
      BY <2>4 DEF TaskReturns, Holding, Pending, TypeOK
    <3>2. QED
      BY <2>4, <3>1 DEF TaskReturns
  <2>5. QED
    BY <1>4, <2>1, <2>2, <2>3, <2>4 DEF WorkerStep
<1>5. CASE Destroy
  <2>1. IsFiniteSet(crew) /\ Cardinality(crew) \in Nat
    BY FS_Subset, FS_CardinalityType DEF TypeOK
  <2>2. Holding' = Holding /\ Pending' = Pending
    BY <1>5 DEF Destroy, DestroyBegin, DestroySignal, DestroyJoined, Holding,
      Pending
  <2>3. queue' = queue /\ (tokens' = tokens \/ tokens' = tokens
                                                 + Cardinality(crew))
    BY <1>5 DEF Destroy, DestroyBegin, DestroySignal, DestroyJoined
  <2>4. QED
    BY <1>1, <2>1, <2>2, <2>3
<1>6. CASE UNCHANGED vars
  BY <1>6 DEF vars, Holding, Pending
<1>7. QED
  BY <1>2, <1>3, <1>4, <1>5, <1>6 DEF Next

B2N(b) == IF b THEN 1 ELSE 0

\* Thread t carries one at p.
Carries(t, p) ==
  p = "signal" \/ (t \in crew /\ p \in {"check", "pop", "exited"})

(* Counting over a finite set: when membership changes for t alone, the
   cardinality changes by what t contributes. *)
LEMMA CountMove ==
  ASSUME NEW A, NEW B, NEW t, IsFiniteSet(A), IsFiniteSet(B),
         A \ {t} = B \ {t}
  PROVE  /\ Cardinality(A) \in Nat /\ Cardinality(B) \in Nat
         /\ Cardinality(B) = Cardinality(A) - B2N(t \in A) + B2N(t \in B)
<1>1. IsFiniteSet(A \ {t}) /\ Cardinality(A \ {t}) \in Nat
  BY FS_Subset, FS_CardinalityType
<1>2. ASSUME NEW C, IsFiniteSet(C), C \ {t} = A \ {t}
      PROVE  Cardinality(C) = Cardinality(A \ {t}) + B2N(t \in C)
  <2>1. CASE t \in C
    <3>1. Cardinality(C \ {t}) = Cardinality(C) - 1
      BY <1>2, <2>1, FS_RemoveElement
    <3>2. Cardinality(C) \in Nat
      BY <1>2, FS_CardinalityType
    <3>3. Cardinality(C \ {t}) = Cardinality(A \ {t})
      BY <1>2
    <3>4. QED
      BY <1>1, <2>1, <3>1, <3>2, <3>3 DEF B2N
  <2>2. CASE t \notin C
    <3>1. C = A \ {t}
      BY <1>2, <2>2
    <3>2. QED
      BY <1>1, <2>2, <3>1 DEF B2N
  <2>3. QED
    BY <2>1, <2>2
<1>3. /\ Cardinality(A) = Cardinality(A \ {t}) + B2N(t \in A)
      /\ Cardinality(B) = Cardinality(A \ {t}) + B2N(t \in B)
  BY <1>2
<1>4. QED
  BY <1>1, <1>3 DEF B2N

LEMMA DisjointSum ==
  ASSUME NEW A, NEW B, IsFiniteSet(A), IsFiniteSet(B), A \cap B = {}
  PROVE  /\ IsFiniteSet(A \cup B)
         /\ Cardinality(A \cup B) = Cardinality(A) + Cardinality(B)
<1>1. Cardinality(A \cap B) = 0
  BY FS_EmptySet
<1>2. /\ IsFiniteSet(A \cup B)
      /\ Cardinality(A \cup B)
           = Cardinality(A) + Cardinality(B) - Cardinality(A \cap B)
  BY FS_Union
<1>3. QED
  BY <1>1, <1>2, FS_CardinalityType

(* A thread that goes from one place to another changes what is carried by
   what it carries itself. *)
LEMMA CarriedMove ==
  ASSUME TypeOK, NEW t \in Threads, NEW p, Goto(t, p), crew' = crew
  PROVE  /\ Carried \in Nat /\ Carried' \in Nat
         /\ Carried' = Carried - B2N(Carries(t, pc[t])) + B2N(Carries(t, p))
<1>1. /\ Holding \subseteq Workers /\ Holding' \subseteq Workers
      /\ Exited \subseteq Workers /\ Exited' \subseteq Workers
      /\ Pending \subseteq Threads /\ Pending' \subseteq Threads
  BY DEF Holding, Exited, Pending, TypeOK
<1>2. IsFiniteSet(Workers) /\ IsFiniteSet(Threads)
  BY PoolAssumption, FS_Union DEF Threads
<1>3. /\ IsFiniteSet(Holding) /\ IsFiniteSet(Holding')
      /\ IsFiniteSet(Exited) /\ IsFiniteSet(Exited')
      /\ IsFiniteSet(Pending) /\ IsFiniteSet(Pending')
  BY <1>1, <1>2, FS_Subset
<1>4. /\ Holding \ {t} = Holding' \ {t}
      /\ Exited \ {t} = Exited' \ {t}
      /\ Pending \ {t} = Pending' \ {t}
  BY DEF Holding, Exited, Pending, Goto, TypeOK, Threads
<1> DEFINE h0 == B2N(t \in Holding)  h1 == B2N(t \in Holding')
           x0 == B2N(t \in Exited)   x1 == B2N(t \in Exited')
           p0 == B2N(t \in Pending)  p1 == B2N(t \in Pending')
<1>5. /\ Cardinality(Holding) \in Nat /\ Cardinality(Holding') \in Nat
      /\ Cardinality(Holding') = Cardinality(Holding) - h0 + h1
  BY <1>3, <1>4, CountMove
<1>6. /\ Cardinality(Exited) \in Nat /\ Cardinality(Exited') \in Nat
      /\ Cardinality(Exited') = Cardinality(Exited) - x0 + x1
  BY <1>3, <1>4, CountMove
<1>7. /\ Cardinality(Pending) \in Nat /\ Cardinality(Pending') \in Nat
      /\ Cardinality(Pending') = Cardinality(Pending) - p0 + p1
  BY <1>3, <1>4, CountMove
<1>8. B2N(Carries(t, pc[t])) = h0 + x0 + p0
  BY DEF Carries, B2N, Holding, Exited, Pending
<1>9. B2N(Carries(t, p)) = h1 + x1 + p1
  <2>1. pc'[t] = p
    BY DEF Goto, TypeOK
  <2>2. QED
    BY <2>1 DEF Carries, B2N, Holding, Exited, Pending
<1>10. /\ h0 \in Nat /\ h1 \in Nat /\ x0 \in Nat /\ x1 \in Nat
       /\ p0 \in Nat /\ p1 \in Nat
  BY DEF B2N
<1> HIDE DEF h0, h1, x0, x1, p0, p1
<1>11. QED
  BY <1>5, <1>6, <1>7, <1>8, <1>9, <1>10 DEF Carried

(* Every step keeps the account of the tokens. *)
LEMMA PoolTokens ==
  TypeOK /\ ExitOk /\ TokensExact /\ [Next]_vars => TokensExact'
<1> SUFFICES ASSUME TypeOK, ExitOk, TokensExact, [Next]_vars
    PROVE  TokensExact'
  OBVIOUS
<1> USE PoolAssumption DEF TokensExact, Joining
<1>1. /\ Carried \in Nat /\ Cardinality(crew) \in Nat
      /\ Len(queue) \in Nat /\ tokens \in Nat /\ wasted \in Nat
  <2>1. Exited \subseteq Workers /\ crew \subseteq Workers
    BY DEF Exited, TypeOK
  <2>2. Cardinality(Exited) \in Nat /\ Cardinality(crew) \in Nat
    BY <2>1, FS_Subset, FS_CardinalityType
  <2>3. QED
    BY <2>2, FiniteWays DEF TypeOK, Carried
<1>2. ASSUME NEW t \in Threads, SignalTask(t) PROVE TokensExact'
  <2>1. Carried' = Carried - 1
    <3>1. ~Carries(t, IF t \in Clients THEN "out" ELSE "run")
          /\ Carries(t, pc[t])
      BY <1>2 DEF SignalTask, Carries
    <3>2. QED
      BY <1>1, <1>2, <3>1, CarriedMove DEF SignalTask, B2N
  <2>2. QED
    BY <1>1, <1>2, <2>1 DEF SignalTask
<1>3. ASSUME NEW t \in Threads, NEW k \in Tasks, PushTask(t, k)
      PROVE  TokensExact'
  <2>1. Carried' = Carried + 1
    <3>1. ~Carries(t, pc[t]) /\ Carries(t, "signal")
      BY <1>3 DEF PushTask, CanEnqueue, Carries
    <3>2. QED
      BY <1>1, <1>3, <3>1, CarriedMove DEF PushTask, B2N
  <2>2. Len(queue') = Len(queue) + 1
    BY <1>3 DEF PushTask, TypeOK
  <2>3. QED
    BY <1>1, <1>3, <2>1, <2>2 DEF PushTask
<1>4. ASSUME NEW w \in crew, WorkerStep(w) PROVE TokensExact'
  <2> USE DEF Carries
  <2>0. w \in Threads
    BY DEF TypeOK, Threads
  <2>1. CASE TakeToken(w)
    <3>1. Carried' = Carried + 1
      BY <1>1, <2>0, <2>1, CarriedMove DEF TakeToken, B2N
    <3>2. QED
      BY <1>1, <2>1, <3>1 DEF TakeToken
  <2>2. CASE CheckShutdown(w)
    <3>1. Carried' = Carried
      BY <1>1, <2>0, <2>2, CarriedMove DEF CheckShutdown, B2N
    <3>2. QED
      BY <1>1, <2>2, <3>1 DEF CheckShutdown
  <2>3. CASE PopTask(w)
    <3>1. CASE queue # <<>>
      <4>1. Carried' = Carried - 1
        <5>1. Goto(w, "run") /\ crew' = crew /\ pc[w] = "pop"
          BY <2>3, <3>1 DEF PopTask
        <5>2. QED
          BY <1>1, <2>0, <5>1, CarriedMove DEF B2N
      <4>2. Len(queue') = Len(queue) - 1
        BY <2>3, <3>1 DEF PopTask, TypeOK
      <4>3. UNCHANGED <<tokens, wasted, crew, dtor>>
        BY <2>3, <3>1 DEF PopTask
      <4>4. QED
        BY <1>1, <4>1, <4>2, <4>3
    <3>2. CASE queue = <<>>
      <4>1. Carried' = Carried - 1
        <5>1. Goto(w, "wait") /\ crew' = crew /\ pc[w] = "pop"
          BY <2>3, <3>2 DEF PopTask
        <5>2. QED
          BY <1>1, <2>0, <5>1, CarriedMove DEF B2N
      <4>2. QED
        BY <1>1, <2>3, <3>2, <4>1 DEF PopTask
    <3>3. QED
      BY <3>1, <3>2
  <2>4. CASE TaskReturns(w)
    <3>1. Carried' = Carried
      BY <1>1, <2>0, <2>4, CarriedMove DEF TaskReturns, B2N
    <3>2. QED
      BY <1>1, <2>4, <3>1 DEF TaskReturns
  <2>5. QED
    BY <1>4, <2>1, <2>2, <2>3, <2>4 DEF WorkerStep
<1>5. CASE Destroy
  <2>1. Carried' = Carried
    BY <1>5 DEF Destroy, DestroyBegin, DestroySignal, DestroyJoined, Carried,
      Holding, Pending, Exited
  <2>2. QED
    BY <1>1, <1>5, <2>1 DEF Destroy, DestroyBegin, DestroySignal,
      DestroyJoined
<1>6. CASE UNCHANGED vars
  BY <1>6 DEF vars, Carried, Holding, Pending, Exited
<1>7. QED
  BY <1>2, <1>3, <1>4, <1>5, <1>6 DEF Next

(* Workers that wait, carry a token or have left are different workers. *)
LEMMA WaitersHaveTokens ==
  ASSUME TypeOK, ExitOk, TokensExact, Joining
  PROVE  Cardinality(Waiting) <= tokens + wasted
<1>1. /\ Waiting \subseteq crew /\ Holding \subseteq crew
      /\ Exited \subseteq crew /\ Pending \subseteq crew
  BY DEF Waiting, Holding, Exited, Pending, Joining, ExitOk, Threads, TypeOK,
    InPlaces
<1>2. IsFiniteSet(crew)
  BY PoolAssumption, FS_Subset DEF TypeOK
<1>3. /\ IsFiniteSet(Waiting) /\ IsFiniteSet(Holding)
      /\ IsFiniteSet(Exited) /\ IsFiniteSet(Pending)
  BY <1>1, <1>2, FS_Subset
<1> DEFINE A == Waiting \cup Holding
           B == A \cup Pending
           C == B \cup Exited
<1>4. IsFiniteSet(A) /\ Cardinality(A) = Cardinality(Waiting) + Cardinality(Holding)
  <2>1. Waiting \cap Holding = {}
    BY DEF Waiting, Holding
  <2>2. QED
    BY <1>3, <2>1, DisjointSum
<1>5. IsFiniteSet(B) /\ Cardinality(B) = Cardinality(A) + Cardinality(Pending)
  <2>1. A \cap Pending = {}
    BY DEF Waiting, Holding, Pending
  <2> HIDE DEF A
  <2>2. QED
    BY <1>3, <1>4, <2>1, DisjointSum
<1>6. IsFiniteSet(C) /\ Cardinality(C) = Cardinality(B) + Cardinality(Exited)
  <2>1. B \cap Exited = {}
    BY DEF Waiting, Holding, Pending, Exited
  <2> HIDE DEF B
  <2>2. QED
    BY <1>3, <1>5, <2>1, DisjointSum
<1>7. Cardinality(C) <= Cardinality(crew)
  BY <1>1, <1>2, FS_Subset
<1>8. /\ Cardinality(Waiting) \in Nat /\ Cardinality(Holding) \in Nat
      /\ Cardinality(Exited) \in Nat /\ Cardinality(Pending) \in Nat
      /\ Cardinality(crew) \in Nat
      /\ Len(queue) \in Nat /\ tokens \in Nat /\ wasted \in Nat
  BY <1>2, <1>3, FS_CardinalityType DEF TypeOK
<1>9. tokens + (Cardinality(Holding) + Cardinality(Pending)
                  + Cardinality(Exited)) + wasted
        = Len(queue) + Cardinality(crew)
  BY DEF TokensExact, Carried
<1> HIDE DEF A, B, C
<1>10. QED
  BY <1>4, <1>5, <1>6, <1>7, <1>8, <1>9

(* PInv holds initially. *)
LEMMA PoolInit == Init => PInv
<1> SUFFICES ASSUME Init PROVE PInv
  OBVIOUS
<1> USE PoolAssumption DEF Init, Threads, InPlaces
<1>1. TypeOK
  <2>1. crew \subseteq Workers /\ queue \in Seq(Tasks) /\ tokens \in Nat
    OBVIOUS
  <2>2. pc \in [Threads -> InPlaces \cup {"out"}]
    OBVIOUS
  <2>3. job \in [Workers -> Tasks \cup {NoTask}]
    OBVIOUS
  <2>4. /\ isShutdown \in BOOLEAN /\ wasted \in Nat
        /\ dtor \in {"none", "signal", "join", "destroyed"}
        /\ done \subseteq Tasks
    OBVIOUS
  <2>5. QED
    BY <2>1, <2>2, <2>3, <2>4 DEF TypeOK
<1>2. ExitOk
  BY DEF ExitOk
<1>3. LastSawEmpty
  BY DEF LastSawEmpty
<1>4. QueueHasTokens
  BY <1>1, FiniteWays DEF QueueHasTokens
<1>5. TokensExact
  <2>1. Holding = {} /\ Pending = {} /\ Exited = {}
    BY DEF Holding, Pending, Exited
  <2>2. Carried = 0
    BY <2>1, FS_EmptySet DEF Carried
  <2>3. QED
    BY <2>2 DEF TokensExact, Joining
<1>6. QED
  BY <1>1, <1>2, <1>3, <1>4, <1>5 DEF PInv

(* PInv is an invariant. *)
LEMMA PoolInvariance == Spec => []PInv
<1>1. PInv /\ [Next]_vars => PInv'
  BY PoolTypes, PoolExits, PoolLast, PoolWakeups, PoolTokens DEF PInv
<1>2. QED
  BY <1>1, PoolInit, PTL DEF Spec

(* The types of the pool: the token count is never negative. *)
THEOREM PoolTypeCorrect == Spec => []TypeOK
<1>1. PInv => TypeOK
  BY DEF PInv
<1>2. QED
  BY <1>1, PoolInvariance, PTL

(* For any workers, clients and tasks: every queued task has a token on its
   way, and the destructor joins no worker that waits without one, but for as
   many as wasted a token (ThreadPool.h:23-36, :38-74). *)
THEOREM WakeupsKept == Spec => []NoLostWakeup
<1>1. PInv => NoLostWakeup
  BY WaitersHaveTokens DEF PInv, NoLostWakeup
<1>2. QED
  BY <1>1, PoolInvariance, PTL

(* The account of the tokens is exact: none is added twice or lost. *)
THEOREM TokensAccounted == Spec => []TokensExact
<1>1. PInv => TokensExact
  BY DEF PInv
<1>2. QED
  BY <1>1, PoolInvariance, PTL

(* The destructor leaves no task behind (ThreadPool.h:23-36). *)
THEOREM Drained == Spec => []DrainedOnDestroy
<1>1. PInv => DrainedOnDestroy
  BY DEF PInv, DrainedOnDestroy, ExitOk, LastSawEmpty
<1>2. QED
  BY <1>1, PoolInvariance, PTL

-----------------------------------------------------------------------------
(***************************************************************************)
(* The pool implements TaskExecutor.  A task that returns leaves the set   *)
(* of running tasks only if no other worker runs it too.                   *)
(***************************************************************************)
QueuedOnce == \A i, j \in DOMAIN queue : queue[i] = queue[j] => i = j

QueuedNotRun == \A i \in DOMAIN queue, w \in crew : queue[i] # job[w]

RunOnce ==
  \A v, w \in crew : job[v] # NoTask /\ job[v] = job[w] => v = w

OnceInv == QueuedOnce /\ QueuedNotRun /\ RunOnce

Running == {job[w] : w \in crew} \ {NoTask}

\* A worker that looks at a queue that is not empty.
Pops(w) ==
  /\ pc[w] = "pop" /\ queue # <<>>
  /\ job' = [job EXCEPT ![w] = Head(queue)]
  /\ queue' = Tail(queue)
  /\ UNCHANGED <<crew, done>>

(* What a step does to queue, tasks and workers: nothing but these three. *)
LEMMA PoolMoves ==
  ASSUME [Next]_vars
  PROVE  \/ \E t \in Threads, k \in Tasks : PushTask(t, k)
         \/ \E w \in crew : Pops(w)
         \/ \E w \in crew : TaskReturns(w)
         \/ UNCHANGED <<crew, queue, job, done>>
<1>1. ASSUME NEW t \in Threads, SignalTask(t)
      PROVE  UNCHANGED <<crew, queue, job, done>>
  BY <1>1 DEF SignalTask
<1>2. ASSUME NEW w \in crew, TakeToken(w) \/ CheckShutdown(w)
      PROVE  UNCHANGED <<crew, queue, job, done>>
  BY <1>2 DEF TakeToken, CheckShutdown
<1>3. ASSUME NEW w \in crew, PopTask(w)
      PROVE  Pops(w) \/ UNCHANGED <<crew, queue, job, done>>
  BY <1>3 DEF PopTask, Pops
<1>4. CASE Destroy
  BY <1>4 DEF Destroy, DestroyBegin, DestroySignal, DestroyJoined
<1>5. CASE UNCHANGED vars
  BY <1>5 DEF vars
<1>6. QED
  BY <1>1, <1>2, <1>3, <1>4, <1>5 DEF Next, WorkerStep

LEMMA OnceStep ==
  ASSUME TypeOK, OnceInv, [Next]_vars
  PROVE  OnceInv'
<1> USE DEF OnceInv, QueuedOnce, QueuedNotRun, RunOnce
<1>t. /\ queue \in Seq(Tasks) /\ crew \subseteq Workers
      /\ job \in [Workers -> Tasks \cup {NoTask}]
  BY DEF TypeOK
<1>1. ASSUME NEW t \in Threads, NEW k \in Tasks, PushTask(t, k) PROVE OnceInv'
  <2>1. /\ ~Enqueued(k) /\ queue' = Append(queue, k)
        /\ UNCHANGED <<crew, job>>
    BY <1>1 DEF PushTask
  <2>2. /\ \A i \in DOMAIN queue : queue[i] # k
        /\ \A w \in crew : job[w] # k
    BY <2>1 DEF Enqueued
  <2>3. \A i \in DOMAIN queue' :
          \/ i \in DOMAIN queue /\ queue'[i] = queue[i]
          \/ i = Len(queue) + 1 /\ queue'[i] = k
    BY <1>t, <2>1
  <2>4. QED BY <2>1, <2>2, <2>3
<1>2. ASSUME NEW w \in crew, Pops(w) PROVE OnceInv'
  <2>1. /\ queue # <<>> /\ queue' = Tail(queue) /\ crew' = crew
        /\ job' = [job EXCEPT ![w] = Head(queue)]
    BY <1>2 DEF Pops
  <2>2. /\ \A i \in DOMAIN queue' :
             i \in Nat /\ i + 1 \in DOMAIN queue /\ queue'[i] = queue[i + 1] /\ i # 0
        /\ 1 \in DOMAIN queue /\ Head(queue) = queue[1]
    BY <1>t, <2>1
  <2>3. \A v \in crew : job'[v] = IF v = w THEN queue[1] ELSE job[v]
    BY <1>t, <2>1, <2>2
  <2>4. QueuedOnce'
    <3> SUFFICES ASSUME NEW i \in DOMAIN queue', NEW j \in DOMAIN queue',
                        queue'[i] = queue'[j]
                 PROVE  i = j
      OBVIOUS
    <3>1. i + 1 = j + 1 BY <2>2
    <3>2. QED BY <2>2, <3>1
  <2>5. QueuedNotRun'
    <3> SUFFICES ASSUME NEW i \in DOMAIN queue', NEW v \in crew
                 PROVE  queue'[i] # job'[v]
      BY <2>1
    <3>1. i + 1 # 1 /\ queue'[i] = queue[i + 1] /\ i + 1 \in DOMAIN queue BY <2>2
    <3>2. QED BY <2>2, <2>3, <3>1
  <2>6. RunOnce' BY <2>1, <2>2, <2>3
  <2>7. QED BY <2>4, <2>5, <2>6
<1>3. ASSUME NEW w \in crew, TaskReturns(w) PROVE OnceInv'
  <2>1. /\ queue' = queue /\ crew' = crew
        /\ \A v \in crew : job'[v] = IF v = w THEN NoTask ELSE job[v]
    BY <1>t, <1>3 DEF TaskReturns
  <2>2. \A i \in DOMAIN queue : queue[i] # NoTask
    BY <1>t, PoolAssumption
  <2>3. QED BY <2>1, <2>2
<1>4. CASE UNCHANGED <<crew, queue, job, done>>
  BY <1>4
<1>5. QED
  BY PoolMoves, <1>1, <1>2, <1>3, <1>4

(* There are fewer running tasks than workers while one of them has none. *)
LEMMA SpareWorker ==
  ASSUME TypeOK, NEW w \in crew, job[w] = NoTask
  PROVE  Cardinality(Running) < Cardinality(Workers)
<1> DEFINE busy == {v \in crew : job[v] # NoTask}
           f == [v \in busy |-> job[v]]
<1>1. busy \subseteq Workers \ {w} /\ w \in Workers
  BY DEF TypeOK
<1>2. /\ IsFiniteSet(Workers \ {w})
      /\ Cardinality(Workers \ {w}) = Cardinality(Workers) - 1
  BY <1>1, PoolAssumption, FS_RemoveElement
<1>3. IsFiniteSet(busy) /\ Cardinality(busy) <= Cardinality(Workers \ {w})
  BY <1>1, <1>2, FS_Subset
<1>4. f \in Surjection(busy, Running)
  BY DEF Surjection, Running
<1>5. IsFiniteSet(Running) /\ Cardinality(Running) <= Cardinality(busy)
  <2> HIDE DEF f, busy
  <2>1. QED BY <1>3, <1>4, FS_Surjection
<1>6. /\ Cardinality(Running) \in Nat /\ Cardinality(busy) \in Nat
      /\ Cardinality(Workers) \in Nat
  BY <1>3, <1>5, PoolAssumption, FS_CardinalityType
<1>7. QED
  BY <1>2, <1>3, <1>5, <1>6

(* For any numbers of workers, clients and tasks the pool is a FIFO executor
   that starts each task at most once, on at most as many threads as it has
   (ThreadPool.h:38-79). *)
THEOREM PoolImplemented == Spec => ImplementsExecutor
<1>1. Init => OnceInv /\ Executor!Init
  <2> SUFFICES ASSUME Init PROVE OnceInv /\ Executor!Init
    OBVIOUS
  <2>1. queue = <<>> /\ crew \subseteq Workers /\ done = {}
        /\ \A w \in crew : job[w] = NoTask
    BY DEF Init
  <2>2. QED
    BY <2>1 DEF OnceInv, QueuedOnce, QueuedNotRun, RunOnce, Executor!Init
<1>2. TypeOK /\ OnceInv /\ [Next]_vars => OnceInv'
  BY OnceStep
<1>3. TypeOK /\ TypeOK' /\ ExitOk /\ OnceInv /\ [Next]_vars
      => [Executor!Next]_(Executor!execVars)
  <2> SUFFICES ASSUME TypeOK, TypeOK', ExitOk, OnceInv, [Next]_vars
               PROVE  [Executor!Next]_(Executor!execVars)
    OBVIOUS
  <2> USE DEF Executor!Next, Executor!execVars, Running
  <2>t. /\ queue \in Seq(Tasks) /\ crew \subseteq Workers
        /\ job \in [Workers -> Tasks \cup {NoTask}]
    BY DEF TypeOK
  <2>1. ASSUME NEW t \in Threads, NEW k \in Tasks, PushTask(t, k)
        PROVE  Executor!Enqueue(k)
    <3>1. /\ ~Enqueued(k) /\ queue' = Append(queue, k)
          /\ UNCHANGED <<crew, job, done>>
      BY <2>1 DEF PushTask
    <3>2. ~Executor!Known(k)
      BY <3>1 DEF Enqueued, Executor!Known
    <3>3. QED BY <3>1, <3>2 DEF Executor!Enqueue
  <2>2. ASSUME NEW w \in crew, Pops(w) PROVE Executor!Start
    <3>1. /\ queue # <<>> /\ queue' = Tail(queue) /\ UNCHANGED <<crew, done>>
          /\ job' = [job EXCEPT ![w] = Head(queue)] /\ pc[w] = "pop"
      BY <2>2 DEF Pops
    <3>2. job[w] = NoTask BY <3>1 DEF ExitOk
    <3>3. Cardinality(Running) < Cardinality(Workers) BY <3>2, SpareWorker
    <3>4. Executor!Cardinality(Running) = Cardinality(Running)
      BY DEF Cardinality, Executor!Cardinality
    <3>5. Head(queue) \in Tasks /\ Head(queue) # NoTask
      <4>1. Head(queue) \in Tasks BY <2>t, <3>1
      <4>2. QED BY <4>1, PoolAssumption
    <3>6. \A v \in crew : job'[v] = IF v = w THEN Head(queue) ELSE job[v]
      BY <2>t, <3>1
    <3>7. Running' = Running \cup {Head(queue)}
      <4>1. Running' = {job'[v] : v \in crew} \ {NoTask} BY <3>1
      <4>2. QED BY <3>2, <3>5, <3>6, <4>1
    <3>8. QED BY <3>1, <3>3, <3>4, <3>7 DEF Executor!Start
  <2>3. ASSUME NEW w \in crew, TaskReturns(w), NEW k \in Tasks, k = job[w]
        PROVE  Executor!Finish(k)
    <3>1. /\ pc[w] = "run" /\ done' = done \cup {k}
          /\ UNCHANGED <<crew, queue>>
          /\ \A v \in crew : job'[v] = IF v = w THEN NoTask ELSE job[v]
      BY <2>t, <2>3 DEF TaskReturns
    <3>2. job[w] # NoTask BY <3>1 DEF ExitOk
    <3>3. Running' = Running \ {k} /\ k \in Running
      <4>1. Running' = {job'[v] : v \in crew} \ {NoTask} BY <3>1
      <4>2. \A v \in crew : job[v] = job[w] => v = w
        BY <3>2 DEF OnceInv, RunOnce
      <4>3. QED BY <2>3, <3>1, <3>2, <4>1, <4>2
    <3>4. QED BY <3>1, <3>3 DEF Executor!Finish
  <2>4. ASSUME NEW w \in crew, TaskReturns(w) PROVE job[w] \in Tasks
    BY <2>t, <2>4 DEF TaskReturns, ExitOk
  <2>5. CASE \E t \in Threads, k \in Tasks : PushTask(t, k)
    BY <2>1, <2>5
  <2>6. CASE \E w \in crew : Pops(w)
    BY <2>2, <2>6
  <2>7. CASE \E w \in crew : TaskReturns(w)
    <3>1. PICK w \in crew : TaskReturns(w) BY <2>7
    <3>2. PICK k \in Tasks : k = job[w] BY <2>4, <3>1
    <3>3. Executor!Finish(k) BY <2>3, <3>1, <3>2
    <3>4. QED BY <3>3
  <2>8. CASE UNCHANGED <<crew, queue, job, done>>
    BY <2>8
  <2>9. QED
    BY PoolMoves, <2>5, <2>6, <2>7, <2>8
<1>4. PInv => TypeOK /\ ExitOk
  BY DEF PInv
<1>5. QED
  BY <1>1, <1>2, <1>3, <1>4, PoolInvariance, PTL
     DEF Spec, ImplementsExecutor, Executor!Spec
=============================================================================
