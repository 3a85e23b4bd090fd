----------------------------- MODULE ThreadPool -----------------------------
(***************************************************************************)
(* CThreadPool: a queue of tasks under a lock, a semaphore with one token  *)
(* per task, workers that take a token before they look at the queue, and  *)
(* a destructor that adds one token per worker and joins them.             *)
(*                                                                         *)
(* Tasks come from client threads and from tasks that are running.  The    *)
(* destructor starts when no client is inside EnqueueTask any more.        *)
(***************************************************************************)
EXTENDS Integers, Sequences, FiniteSets

CONSTANTS
  Workers,   \* the threads the constructor tries to create
  Clients,   \* the threads that call EnqueueTask from outside the pool
  Tasks,     \* the tasks, each enqueued at most once (bounds the run)
  NoTask     \* task.first = NULL

ASSUME PoolAssumption ==
  /\ IsFiniteSet(Workers)
  /\ IsFiniteSet(Clients)
  /\ Workers \cap Clients = {}
  /\ NoTask \notin Tasks

Threads == Workers \cup Clients

VARIABLES
  crew,       \* m_workerThreads: the workers _beginthreadex did create
  queue,      \* m_taskQueue
  tokens,     \* the count of m_taskSemaphore
  isShutdown, \* m_isShutdown
  pc,         \* where each thread is
  job,        \* the task each worker executes
  dtor,       \* where the destructor is
  done,       \* history: the tasks that have returned
  wasted      \* history: tokens spent on an empty queue

vars == <<crew, queue, tokens, isShutdown, pc, job, dtor, done, wasted>>

InPlaces == {"wait", "check", "pop", "run", "signal", "exited"}

TypeOK ==
  /\ crew \subseteq Workers
  /\ queue \in Seq(Tasks)
  /\ tokens \in Nat
  /\ isShutdown \in BOOLEAN
  /\ pc \in [Threads -> InPlaces \cup {"out"}]
  /\ job \in [Workers -> Tasks \cup {NoTask}]
  /\ dtor \in {"none", "signal", "join", "destroyed"}
  /\ done \subseteq Tasks
  /\ wasted \in Nat

\* A worker whose thread could not be created never runs.
Init ==
  /\ crew \in SUBSET Workers
  /\ queue = <<>>
  /\ tokens = 0
  /\ isShutdown = FALSE
  /\ pc = [t \in Threads |-> IF t \in crew THEN "wait" ELSE "out"]
  /\ job = [w \in Workers |-> NoTask]
  /\ dtor = "none"
  /\ done = {}
  /\ wasted = 0

Goto(t, p) == pc' = [pc EXCEPT ![t] = p]

Enqueued(k) ==
  \/ \E i \in DOMAIN queue : queue[i] = k
  \/ \E w \in crew : job[w] = k
  \/ k \in done

(***************************************************************************)
(* EnqueueTask: the push is under m_queueLock, the token comes after it.   *)
(***************************************************************************)
CanEnqueue(t) ==
  \/ t \in Clients /\ pc[t] = "out" /\ dtor = "none"
  \/ t \in crew /\ pc[t] = "run"

PushTask(t, k) ==
  /\ CanEnqueue(t)
  /\ ~Enqueued(k)
  /\ queue' = Append(queue, k)
  /\ Goto(t, "signal")
  /\ UNCHANGED <<crew, tokens, isShutdown, job, dtor, done, wasted>>

\* Mutant: EnqueueTask does not release the semaphore.
SignalTaskLost(t) ==
  /\ pc[t] = "signal"
  /\ Goto(t, IF t \in Clients THEN "out" ELSE "run")
  /\ UNCHANGED <<crew, queue, tokens, isShutdown, job, dtor, done, wasted>>

SignalTask(t) ==
  /\ pc[t] = "signal"
  /\ tokens' = tokens + 1
  /\ Goto(t, IF t \in Clients THEN "out" ELSE "run")
  /\ UNCHANGED <<crew, queue, isShutdown, job, dtor, done, wasted>>

(***************************************************************************)
(* WorkerThread                                                            *)
(***************************************************************************)
TakeToken(w) ==
  /\ pc[w] = "wait"
  /\ tokens > 0
  /\ tokens' = tokens - 1
  /\ Goto(w, "check")
  /\ UNCHANGED <<crew, queue, isShutdown, job, dtor, done, wasted>>

\* Mutant: the worker leaves on m_isShutdown without looking at the queue.
CheckShutdownOnly(w) ==
  /\ pc[w] = "check"
  /\ Goto(w, IF isShutdown THEN "exited" ELSE "pop")
  /\ UNCHANGED <<crew, queue, tokens, isShutdown, job, dtor, done, wasted>>

CheckShutdown(w) ==
  /\ pc[w] = "check"
  /\ Goto(w, IF isShutdown /\ queue = <<>> THEN "exited" ELSE "pop")
  /\ UNCHANGED <<crew, queue, tokens, isShutdown, job, dtor, done, wasted>>

\* Mutant: the task is read but not popped.
PopTaskKept(w) ==
  /\ pc[w] = "pop"
  /\ queue # <<>>
  /\ job' = [job EXCEPT ![w] = Head(queue)]
  /\ Goto(w, "run")
  /\ UNCHANGED <<crew, queue, tokens, isShutdown, dtor, done, wasted>>

PopTask(w) ==
  /\ pc[w] = "pop"
  /\ \/ /\ queue # <<>>
        /\ job' = [job EXCEPT ![w] = Head(queue)]
        /\ queue' = Tail(queue)
        /\ Goto(w, "run")
        /\ UNCHANGED wasted
     \/ /\ queue = <<>>
        /\ wasted' = wasted + 1
        /\ Goto(w, "wait")
        /\ UNCHANGED <<job, queue>>
  /\ UNCHANGED <<crew, tokens, isShutdown, dtor, done>>

TaskReturns(w) ==
  /\ pc[w] = "run"
  /\ done' = done \cup {job[w]}
  /\ job' = [job EXCEPT ![w] = NoTask]
  /\ Goto(w, "wait")
  /\ UNCHANGED <<crew, queue, tokens, isShutdown, dtor, wasted>>

(***************************************************************************)
(* ~CThreadPool                                                            *)
(***************************************************************************)
DestroyBegin ==
  /\ dtor = "none"
  /\ \A c \in Clients : pc[c] = "out"
  /\ isShutdown' = TRUE
  /\ dtor' = "signal"
  /\ UNCHANGED <<crew, queue, tokens, pc, job, done, wasted>>

\* Mutant: one token too few.
DestroySignalShort ==
  /\ dtor = "signal"
  /\ tokens' = tokens + (IF crew = {} THEN 0 ELSE Cardinality(crew) - 1)
  /\ dtor' = "join"
  /\ UNCHANGED <<crew, queue, isShutdown, pc, job, done, wasted>>

DestroySignal ==
  /\ dtor = "signal"
  /\ tokens' = tokens + Cardinality(crew)
  /\ dtor' = "join"
  /\ UNCHANGED <<crew, queue, isShutdown, pc, job, done, wasted>>

DestroyJoined ==
  /\ dtor = "join"
  /\ \A w \in crew : pc[w] = "exited"
  /\ dtor' = "destroyed"
  /\ UNCHANGED <<crew, queue, tokens, isShutdown, pc, job, done, wasted>>

WorkerStep(w) ==
  \/ TakeToken(w) \/ CheckShutdown(w) \/ PopTask(w) \/ TaskReturns(w)

Destroy == DestroyBegin \/ DestroySignal \/ DestroyJoined

Next ==
  \/ \E t \in Threads : SignalTask(t) \/ \E k \in Tasks : PushTask(t, k)
  \/ \E w \in crew : WorkerStep(w)
  \/ Destroy

Spec == Init /\ [][Next]_vars

\* Threads are scheduled, a waiting thread gets a token in the end, tasks
\* return; nobody is obliged to enqueue a task or to destroy the pool.
Fairness ==
  /\ \A t \in Threads : WF_vars(SignalTask(t))
  /\ \A w \in Workers : WF_vars(w \in crew /\ WorkerStep(w))
  /\ WF_vars(DestroySignal \/ DestroyJoined)

FairSpec == Spec /\ Fairness
-----------------------------------------------------------------------------
Holding == {w \in crew : pc[w] \in {"check", "pop"}}
Pending == {t \in Threads : pc[t] = "signal"}

Exited  == {w \in crew : pc[w] = "exited"}
Waiting == {w \in crew : pc[w] = "wait"}
Joining == dtor \in {"join", "destroyed"}

\* Tokens on their way: to the queue, to the semaphore, out of the pool.
Carried == Cardinality(Holding) + Cardinality(Pending) + Cardinality(Exited)

(* Where every token is: each task enqueued and each worker to be joined
   brought one, and it waits in the semaphore, is on its way, was wasted, or
   has fetched its task. *)
TokensExact ==
  tokens + Carried + wasted
    = Len(queue) + (IF Joining THEN Cardinality(crew) ELSE 0)

QueueHasTokens == Len(queue) <= tokens + Cardinality(Holding)
                                  + Cardinality(Pending)

(* No lost wakeup (ThreadPool.h:23-36, :38-74).  Every queued task has a token
   that waits for a worker, is in the hands of one that is about to look at
   the queue, or is about to be added by EnqueueTask, in spite of the tokens
   that the destructor adds and the workers waste.  And the destructor joins
   no worker that has no token to wake up with, but for as many as wasted
   one. *)
NoLostWakeup ==
  /\ QueueHasTokens
  /\ Joining => Cardinality(Waiting) <= tokens + wasted

(* The destructor drains the pool: when it has joined its workers, whatever
   was enqueued, by running tasks too, has been executed, unless no worker
   could be created (ThreadPool.h:23-36, :58). *)
DrainedOnDestroy ==
  dtor = "destroyed" /\ crew # {} =>
    queue = <<>> /\ \A w \in crew : job[w] = NoTask

(* Every enqueued task is executed, also when the pool is being destroyed,
   unless no worker could be created. *)
TaskIsExecuted ==
  \A k \in Tasks : Enqueued(k) ~> (k \in done \/ crew = {})

(* The destructor returns, unless a worker spent a token on a queue that
   another worker had emptied between its test and its pop: the tokens then
   no longer suffice for the workers that still wait (ThreadPool.h:27-32). *)
DestroyReturns == dtor = "signal" ~> (dtor = "destroyed" \/ wasted > 0)

(* The pool is a FIFO executor that starts every task once. *)
Executor == INSTANCE TaskExecutor WITH
  Capacity <- Cardinality(Workers),
  waiting  <- queue,
  started  <- {job[w] : w \in crew} \ {NoTask},
  finished <- done

ImplementsExecutor == Executor!Spec
=============================================================================
