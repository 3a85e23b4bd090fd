---------------------------- MODULE TaskExecutor ----------------------------
(***************************************************************************)
(* What CThreadPool promises its callers: tasks start in the order in      *)
(* which they were enqueued, each at most once, and never more of them at  *)
(* a time than the pool has threads.                                       *)
(***************************************************************************)
EXTENDS Naturals, Sequences, FiniteSets

CONSTANTS
  Tasks,     \* the tasks that may be enqueued, each of them once
  Capacity   \* how many threads the pool has

VARIABLES
  waiting,   \* the tasks enqueued and not started, in order
  started,   \* the tasks being executed
  finished   \* the tasks that have returned

execVars == <<waiting, started, finished>>

Init == waiting = <<>> /\ started = {} /\ finished = {}

Known(k) ==
  \/ \E i \in DOMAIN waiting : waiting[i] = k
  \/ k \in started \cup finished

Enqueue(k) ==
  /\ ~Known(k)
  /\ waiting' = Append(waiting, k)
  /\ UNCHANGED <<started, finished>>

Start ==
  /\ waiting # <<>>
  /\ Cardinality(started) < Capacity
  /\ started' = started \cup {Head(waiting)}
  /\ waiting' = Tail(waiting)
  /\ UNCHANGED finished

Finish(k) ==
  /\ k \in started
  /\ started' = started \ {k}
  /\ finished' = finished \cup {k}
  /\ UNCHANGED waiting

Next == Start \/ \E k \in Tasks : Enqueue(k) \/ Finish(k)

Spec == Init /\ [][Next]_execVars
=============================================================================
