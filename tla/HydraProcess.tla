---------------------------- MODULE HydraProcess ----------------------------
(***************************************************************************)
(* CHydraProcess, the singleton that owns the thread pool and the managers *)
(* of a server: its constructor, InitDbMgr, InitRefDataMgr and             *)
(* InitObjectMgr, the tasks that use what it owns, ENQUEUETASK, and its    *)
(* destructor.  It composes the reference data over the database pools     *)
(* (RefData) with a thread pool, which is taken for the TaskExecutor that  *)
(* ThreadPool implements.                                                  *)
(*                                                                         *)
(* The main thread runs init_localdata, InitializeData and the destructor. *)
(* A behaviour is followed up to the first use of the deleted pool.        *)
(***************************************************************************)
EXTENDS RefData

CONSTANTS
  Tasks,      \* the tasks that may be enqueued, each of them once
  Outsiders,  \* threads that are not of the pool and enqueue tasks
  MaxThreads, \* threads the constructor tries to create: 5
  NoThread

ASSUME ProcessAssumption ==
  /\ Users = Tasks \cup {Loader} /\ Loader \notin Tasks
  /\ IsFiniteSet(Outsiders) /\ Outsiders \cap Users = {}
  /\ NoThread \notin Tasks \cup Outsiders
  /\ MaxThreads \in Nat

VARIABLES
  process,  \* "none" created yet, "up", "dying" in its destructor, or "gone"
  stage,    \* how far the destructor is (see DestroyOrder)
  crew,     \* how many threads the pool could create
  waiting,  \* the pool: tasks enqueued,
  started,  \* tasks being executed,
  finished, \* tasks that have returned
  deleted,  \* what the destructor has deleted
  dbMgr,    \* m_DbMgr # NULL
  refMgr,   \* m_RefDataMgr # NULL
  objMgr,   \* m_ObjMgr # NULL
  passed,   \* who has found g_pHFW and its pool not NULL in ENQUEUETASK
  crash     \* NoThread, or the thread that used the deleted pool

Pool == INSTANCE TaskExecutor WITH Capacity <- MaxThreads

lifeVars == <<process, stage>>
poolVars == <<crew, waiting, started, finished, passed>>
mgrVars  == <<dbMgr, refMgr, objMgr>>
vars == <<dbVars, refVars, lifeVars, poolVars, deleted, mgrVars, crash>>

\* Mutant: the managers go before the pool.
DestroyPoolLast == <<"refdata", "objmgr", "dbmgr", "join", "joined">>

\* The order of ~CHydraProcess; "joined": the workers have been waited for.
DestroyOrder == <<"join", "joined", "refdata", "objmgr", "dbmgr">>

ProcessTypeOK ==
  /\ process \in {"none", "up", "dying", "gone"}
  /\ stage \in 0 .. Len(DestroyOrder) + 1
  /\ crew \in 0 .. MaxThreads
  /\ waiting \in Seq(Tasks) /\ started \subseteq Tasks /\ finished \subseteq Tasks
  /\ deleted \subseteq {"pool", "refdata", "objmgr", "dbmgr"}
  /\ dbMgr \in BOOLEAN /\ refMgr \in BOOLEAN /\ objMgr \in BOOLEAN
  /\ passed \subseteq Tasks \cup Outsiders
  /\ crash \in Tasks \cup Outsiders \cup {NoThread}

HydraInit ==
  /\ RefInit
  /\ Pool!Init
  /\ process = "none" /\ stage = 0 /\ crew = 0 /\ deleted = {}
  /\ dbMgr = FALSE /\ refMgr = FALSE /\ objMgr = FALSE
  /\ passed = {} /\ crash = NoThread

\* The destructor is about to do what.
Doing(what) ==
  process = "dying" /\ stage \in DOMAIN DestroyOrder /\ DestroyOrder[stage] = what

MainIsFree ==
  /\ process = "up" /\ phase = "out"
  /\ dbMgr => initResult # "running"

-----------------------------------------------------------------------------
(***************************************************************************)
(* Creation                                                                *)
(***************************************************************************)
CreateInstance ==
  /\ process = "none"
  /\ process' = "up" /\ UNCHANGED stage
  /\ crew' \in 0 .. MaxThreads
  /\ UNCHANGED <<dbVars, refVars, waiting, started, finished, passed, deleted,
                 mgrVars, crash>>

\* new CDbManager, whose InitDB then runs.
InitDbMgr ==
  /\ MainIsFree /\ ~dbMgr
  /\ dbMgr' = TRUE
  /\ UNCHANGED <<dbVars, refVars, lifeVars, poolVars, deleted, refMgr, objMgr,
                 crash>>

RunInitDB ==
  /\ process = "up" /\ dbMgr
  /\ InitDB
  /\ UNCHANGED <<refVars, lifeVars, poolVars, deleted, mgrVars, crash>>

DbIsReady == dbMgr /\ connected

InitRefDataMgr ==
  /\ MainIsFree /\ DbIsReady /\ ~refMgr
  /\ refMgr' = TRUE
  /\ UNCHANGED <<dbVars, refVars, lifeVars, poolVars, deleted, dbMgr, objMgr,
                 crash>>

InitObjectMgr ==
  /\ MainIsFree /\ DbIsReady /\ ~objMgr
  /\ objMgr' = TRUE
  /\ UNCHANGED <<dbVars, refVars, lifeVars, poolVars, deleted, dbMgr, refMgr,
                 crash>>

LoadRefData ==
  /\ process = "up" /\ refMgr
  /\ Load
  /\ UNCHANGED <<lifeVars, poolVars, deleted, mgrVars, crash>>

-----------------------------------------------------------------------------
(***************************************************************************)
(* Tasks and ENQUEUETASK                                                   *)
(***************************************************************************)
PoolStep ==
  UNCHANGED <<refVars, lifeVars, crew, deleted, mgrVars>>

\* The main thread does not meet its own destructor here.
MainEnqueues(k) ==
  /\ MainIsFree
  /\ Pool!Enqueue(k)
  /\ UNCHANGED <<dbVars, passed, crash>> /\ PoolStep

\* The macro tests two pointers; the destructor resets neither of them, only
\* that of the base class resets g_pHFW.
EnqueueTests(t) ==
  /\ process \notin {"none", "gone"}
  /\ t \in Outsiders \cup started /\ t \notin passed
  /\ passed' = passed \cup {t}
  /\ UNCHANGED <<dbVars, waiting, started, finished, crash>> /\ PoolStep

EnqueueTask(t, k) ==
  /\ t \in passed
  /\ passed' = passed \ {t}
  /\ \/ "pool" \notin deleted /\ Pool!Enqueue(k) /\ UNCHANGED crash
     \/ "pool" \in deleted /\ crash' = t /\ UNCHANGED <<waiting, started, finished>>
  /\ UNCHANGED dbVars /\ PoolStep

\* The workers exit when the destructor has begun and the queue is empty.
TaskStarts ==
  /\ process # "none" /\ ~Doing("joined") /\ "pool" \notin deleted
  /\ Cardinality(started) < crew
  /\ Pool!Start
  /\ UNCHANGED <<dbVars, passed, crash>> /\ PoolStep

\* A task waits for IsDbConnected, and gives back what it borrows.
TaskUsesDb(k) ==
  /\ k \in started
  /\ (dbMgr /\ Borrow(k, "SHARD")) \/ ReleaseConnection(k, "SHARD")
  /\ UNCHANGED <<waiting, started, finished, passed, crash>> /\ PoolStep

TaskReturns(k) ==
  /\ k \notin passed
  /\ \A p \in Pools : held[k][p] = NoConn
  /\ Pool!Finish(k)
  /\ UNCHANGED <<dbVars, passed, crash>> /\ PoolStep

-----------------------------------------------------------------------------
(***************************************************************************)
(* ~CHydraProcess, which runs on the main thread                           *)
(***************************************************************************)
Proceed == stage' = stage + 1 /\ UNCHANGED process

DestroyBegin ==
  /\ MainIsFree
  /\ process' = "dying" /\ stage' = 1
  /\ UNCHANGED <<dbVars, refVars, poolVars, deleted, mgrVars, crash>>

\* Mutant: the pool is deleted while tasks run.
JoinNothing ==
  /\ Doing("join")
  /\ Proceed
  /\ UNCHANGED <<dbVars, refVars, poolVars, deleted, mgrVars, crash>>

\* ~CThreadPool waits for its workers, if there are any.
JoinPool ==
  /\ Doing("join")
  /\ started = {} /\ (crew = 0 \/ waiting = <<>>)
  /\ Proceed
  /\ UNCHANGED <<dbVars, refVars, poolVars, deleted, mgrVars, crash>>

DeletePool ==
  /\ Doing("joined")
  /\ deleted' = deleted \cup {"pool"}
  /\ Proceed
  /\ UNCHANGED <<dbVars, refVars, poolVars, mgrVars, crash>>

DeleteRefDataMgr ==
  /\ Doing("refdata")
  /\ \/ refMgr /\ CleanUp /\ deleted' = deleted \cup {"refdata"}
     \/ ~refMgr /\ UNCHANGED <<refVars, deleted>>
  /\ Proceed
  /\ UNCHANGED <<dbVars, poolVars, mgrVars, crash>>

DeleteObjMgr ==
  /\ Doing("objmgr")
  /\ deleted' = IF objMgr THEN deleted \cup {"objmgr"} ELSE deleted
  /\ Proceed
  /\ UNCHANGED <<dbVars, refVars, poolVars, mgrVars, crash>>

DeleteDbMgr ==
  /\ Doing("dbmgr")
  /\ \/ dbMgr /\ ShutdownPools /\ deleted' = deleted \cup {"dbmgr"}
     \/ ~dbMgr /\ UNCHANGED <<dbVars, deleted>>
  /\ Proceed
  /\ UNCHANGED <<refVars, poolVars, mgrVars, crash>>

ResetSingleton ==
  /\ process = "dying" /\ stage = Len(DestroyOrder) + 1
  /\ process' = "gone" /\ UNCHANGED stage
  /\ UNCHANGED <<dbVars, refVars, poolVars, deleted, mgrVars, crash>>

Destroy ==
  \/ DestroyBegin \/ JoinPool \/ DeletePool \/ DeleteRefDataMgr
  \/ DeleteObjMgr \/ DeleteDbMgr \/ ResetSingleton

TasksRun ==
  \/ \E k \in Tasks : MainEnqueues(k) \/ TaskUsesDb(k) \/ TaskReturns(k)
  \/ \E t \in Tasks \cup Outsiders :
       EnqueueTests(t) \/ \E k \in Tasks : EnqueueTask(t, k)
  \/ TaskStarts

HydraNext ==
  /\ crash = NoThread /\ nullUsed = "no"
  /\ \/ CreateInstance \/ InitDbMgr \/ RunInitDB
     \/ InitRefDataMgr \/ InitObjectMgr \/ LoadRefData
     \/ TasksRun
     \/ Destroy

HydraSpec == HydraInit /\ [][HydraNext]_vars

-----------------------------------------------------------------------------
(***************************************************************************)
(* Properties                                                              *)
(***************************************************************************)
(* While a task of the pool runs, what it may use is there: no manager is
   deleted before the pool has waited for its workers, and no task meets the
   pool deleted in ENQUEUETASK.  Only threads that are not of the pool do,
   from its deletion on, as m_ThreadPool keeps its value
   (HydraFramework.cpp:89-95, HydraFramework.h:13-16). *)
TasksMeetManagers ==
  /\ RefTypeOK /\ ProcessTypeOK
  /\ started # {} => deleted = {}
  /\ crash \notin Tasks

(* The database pools are used as they rely upon: nobody borrows before they
   are connected, and when their destructor runs InitDB has returned and
   everybody has returned what he held (HydraFramework.cpp:36-95,
   DbManager.cpp:11-17).  So what DbPool promises holds in this process. *)
DbPoolsUsedAsAssumed == Spec
=============================================================================
