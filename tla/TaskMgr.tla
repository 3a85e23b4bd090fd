------------------------------ MODULE TaskMgr ------------------------------
(***************************************************************************)
(* CTaskMgr of NetLib: any thread pushes tasks, and the thread that calls  *)
(* CNetLib::Update pops and executes them one after the other until it     *)
(* finds the queue empty.  A task may push further tasks.  Execute is the  *)
(* only consumer, so that its IsEmpty and its PopTask act as one.          *)
(*                                                                         *)
(* Tasks are numbered in the order in which they are pushed.               *)
(***************************************************************************)
EXTENDS Integers, Sequences, FiniteSets

CONSTANT MaxTasks   \* bound: how many tasks are pushed

ASSUME TaskMgrAssumption == MaxTasks \in Nat

Tasks  == 1 .. MaxTasks
NoTask == 0

VARIABLES
  taskQueue,  \* m_taskQueue
  task,       \* the task Execute is executing
  execPc,     \* where Execute is
  taskDone,   \* history: the tasks executed
  dropped     \* history: the tasks the destructor deleted unexecuted

taskVars == <<taskQueue, task, execPc, taskDone, dropped>>

TaskTypeOK ==
  /\ taskQueue \in Seq(Tasks) /\ dropped \in Seq(Tasks)
  /\ task \in Tasks \cup {NoTask}
  /\ execPc \in {"out", "test", "run"}
  /\ taskDone \subseteq Tasks

TaskInit ==
  /\ taskQueue = <<>> /\ dropped = <<>>
  /\ task = NoTask
  /\ execPc = "out"
  /\ taskDone = {}

Pushed == Len(taskQueue) + Len(dropped) + Cardinality(taskDone)
            + (IF task = NoTask THEN 0 ELSE 1)

\* Mutant: a task is put in front of those that wait.
PushTaskFirst ==
  /\ Pushed < MaxTasks
  /\ taskQueue' = <<Pushed + 1>> \o taskQueue
  /\ UNCHANGED <<task, execPc, taskDone, dropped>>

PushTask ==
  /\ Pushed < MaxTasks
  /\ taskQueue' = Append(taskQueue, Pushed + 1)
  /\ UNCHANGED <<task, execPc, taskDone, dropped>>

Execute ==
  /\ execPc = "out"
  /\ execPc' = "test"
  /\ UNCHANGED <<taskQueue, task, taskDone, dropped>>

PopTask ==
  /\ execPc = "test" /\ taskQueue # <<>>
  /\ task' = Head(taskQueue)
  /\ taskQueue' = Tail(taskQueue)
  /\ execPc' = "run"
  /\ UNCHANGED <<taskDone, dropped>>

FoundEmpty ==
  /\ execPc = "test" /\ taskQueue = <<>>
  /\ execPc' = "out"
  /\ UNCHANGED <<taskQueue, task, taskDone, dropped>>

TaskReturns ==
  /\ execPc = "run"
  /\ taskDone' = taskDone \cup {task}
  /\ task' = NoTask
  /\ execPc' = "test"
  /\ UNCHANGED <<taskQueue, dropped>>

ExecuteStep == PopTask \/ FoundEmpty \/ TaskReturns

\* ~CTaskMgr
DropTasks ==
  /\ execPc = "out"
  /\ taskQueue' = <<>>
  /\ dropped' = taskQueue
  /\ UNCHANGED <<task, execPc, taskDone>>

-----------------------------------------------------------------------------
(* The task manager is a FIFO executor with one thread that starts every
   task at most once; the tasks dropped by its destructor stay unstarted. *)
TaskThread == INSTANCE TaskExecutor WITH
  Capacity <- 1,
  waiting  <- taskQueue \o dropped,
  started  <- {task} \ {NoTask},
  finished <- taskDone

RunsTasksInOrder == TaskThread!Spec
=============================================================================
