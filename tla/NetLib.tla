------------------------------- MODULE NetLib -------------------------------
(***************************************************************************)
(* CNetLib from Start to its destructor: Winsock, the completion port, the *)
(* listening socket, the accept thread, the workers that serve completions *)
(* and the thread that calls Start, Update and Stop.  It composes the send *)
(* side of one session (SendQueue) and the task manager (TaskMgr).         *)
(*                                                                         *)
(* A worker in GetQueuedCompletionStatus wakes up at least once a second,  *)
(* so the empty completions of StopAll only make it wake up earlier and    *)
(* are left out.                                                           *)
(***************************************************************************)
EXTENDS SendQueue, TaskMgr

CONSTANTS
  Workers,    \* the threads SpawnWorkers tries to create
  MaxStarts   \* bound: calls of Start, the last of which finds the client

ASSUME NetLibAssumption == IsFiniteSet(Workers) /\ MaxStarts \in Nat

VARIABLES
  running,    \* m_bIsRunning
  working,    \* m_threadMgr.m_bRunning
  winsock,    \* m_bWinsockInit
  startups,   \* WSAStartup calls without their WSACleanup
  port,       \* m_hIOCP # NULL
  ports,      \* open completion ports of this object
  listening,  \* m_listenSocket is open
  acceptPc,   \* the accept thread
  workerPc,   \* the worker threads
  mainPc,     \* the thread that calls Start, Update and Stop
  bound,      \* the session's socket belongs to an open completion port
  starts,     \* how often Start was called (bound)
  spawnFails, \* history: calls of Start that got no worker
  destroyed   \* ~CNetLib has run

osVars   == <<winsock, startups, port, ports, listening>>
thrVars  == <<running, working, acceptPc, workerPc, mainPc>>
histVars == <<bound, starts, spawnFails, destroyed>>
vars == <<sendVars, taskVars, osVars, thrVars, histVars>>

TypeOK ==
  /\ SendTypeOK /\ TaskTypeOK
  /\ running \in BOOLEAN /\ working \in BOOLEAN
  /\ winsock \in BOOLEAN /\ port \in BOOLEAN /\ listening \in BOOLEAN
  /\ startups \in Nat /\ ports \in Nat
  /\ acceptPc \in {"none", "accept", "client", "exited"}
  /\ workerPc \in [Workers -> {"none", "wait", "exited"}]
  /\ mainPc \in {"out", "spawn", "thread", "sessions", "tasks", "join",
                 "workers", "close"}
  /\ bound \in BOOLEAN /\ destroyed \in BOOLEAN
  /\ starts \in 0 .. MaxStarts /\ spawnFails \in 0 .. MaxStarts

Init ==
  /\ SendInit /\ TaskInit
  /\ running = FALSE /\ working = FALSE
  /\ winsock = FALSE /\ startups = 0 /\ port = FALSE /\ ports = 0
  /\ listening = FALSE
  /\ acceptPc = "none" /\ workerPc = [w \in Workers |-> "none"]
  /\ mainPc = "out"
  /\ bound = FALSE /\ destroyed = FALSE
  /\ starts = 0 /\ spawnFails = 0

-----------------------------------------------------------------------------
(***************************************************************************)
(* CNetLib::Start; on a running server it only returns true.               *)
(***************************************************************************)
StartBegin ==
  /\ mainPc = "out" /\ ~running /\ ~destroyed
  /\ starts < MaxStarts
  /\ starts' = starts + 1

\* m_hIOCP is overwritten: an earlier port is lost.
StartListens ==
  /\ StartBegin
  /\ winsock' = TRUE /\ startups' = startups + 1
  /\ port' = TRUE /\ ports' = ports + 1
  /\ listening' = TRUE
  /\ mainPc' = "spawn"
  /\ UNCHANGED <<sendVars, taskVars, running, working, acceptPc, workerPc,
                 bound, spawnFails, destroyed>>

\* CreateIOCP fails, or StartServer does after CreateSocket has closed an
\* earlier listening socket: CleanupWinsock undoes the WSAStartup.  Nothing
\* changes when InitWinsock fails.
StartFails ==
  /\ StartBegin
  /\ \/ winsock' = FALSE /\ port' = FALSE /\ listening' \in {FALSE, listening}
     \/ UNCHANGED <<winsock, port, listening>>
  /\ UNCHANGED <<startups, ports>>
  /\ UNCHANGED <<sendVars, taskVars, thrVars, bound, spawnFails, destroyed>>

\* Without a single worker Start calls Stop, which returns at once.
SpawnWorkers ==
  /\ mainPc = "spawn"
  /\ working' = TRUE
  /\ \E crew \in SUBSET Workers :
       /\ workerPc' = [w \in Workers |-> IF w \in crew THEN "wait" ELSE "none"]
       /\ \/ /\ crew = {}
             /\ mainPc' = "out"
             /\ spawnFails' = spawnFails + 1
             /\ UNCHANGED running
          \/ /\ crew # {}
             /\ mainPc' = "thread"
             /\ running' = TRUE
             /\ UNCHANGED spawnFails
  /\ UNCHANGED <<sendVars, taskVars, osVars, acceptPc, bound, starts, destroyed>>

\* The flag is set before the accept thread, whose loop tests it, exists.
StartAccept ==
  /\ mainPc = "thread"
  /\ acceptPc' = "accept" /\ mainPc' = "out"
  /\ UNCHANGED <<sendVars, taskVars, osVars, running, working, workerPc,
                 histVars>>

-----------------------------------------------------------------------------
(***************************************************************************)
(* CNetLib::Stop and ~CNetLib                                              *)
(***************************************************************************)
\* Stop, also as called by a Start that got no accept thread.
StopBegin ==
  /\ mainPc \in {"out", "thread"} /\ running
  /\ running' = FALSE /\ listening' = FALSE /\ mainPc' = "join"
  /\ UNCHANGED <<sendVars, taskVars, winsock, startups, port, ports, working,
                 workerPc, acceptPc, histVars>>

\* Then StopAll: m_bRunning is cleared.
JoinAccept ==
  /\ mainPc = "join"
  /\ acceptPc \in {"none", "exited"}
  /\ acceptPc' = "none" /\ working' = FALSE /\ mainPc' = "workers"
  /\ UNCHANGED <<sendVars, taskVars, osVars, running, workerPc, histVars>>

\* Mutant: the workers are not waited for.
JoinNoWorkers ==
  /\ mainPc = "workers"
  /\ mainPc' = "close"
  /\ UNCHANGED <<sendVars, taskVars, osVars, running, working, acceptPc,
                 workerPc, histVars>>

JoinWorkers ==
  /\ mainPc = "workers"
  /\ \A w \in Workers : workerPc[w] \in {"none", "exited"}
  /\ workerPc' = [w \in Workers |-> "none"] /\ mainPc' = "close"
  /\ UNCHANGED <<sendVars, taskVars, osVars, running, working, acceptPc,
                 histVars>>

\* Mutant: m_hIOCP is forgotten, not closed.
CloseIOCPForgets == port' = FALSE /\ UNCHANGED ports

CloseIOCP == port' = FALSE /\ ports' = IF port THEN ports - 1 ELSE ports

CleanupWinsock ==
  /\ winsock' = FALSE
  /\ startups' = IF winsock THEN startups - 1 ELSE startups

\* CSessionMgr::CloseAll; completions still in the port are lost with it.
StopDone ==
  /\ mainPc = "close"
  /\ Disconnect \/ (~inMap /\ UNCHANGED sendVars)
  /\ CloseIOCP /\ CleanupWinsock
  /\ bound' = FALSE /\ mainPc' = "out"
  /\ UNCHANGED <<taskVars, listening, running, working, acceptPc,
                 workerPc, starts, spawnFails, destroyed>>

\* ~CNetLib after its Stop: the members are destroyed, m_taskMgr first.
DestroyNetLib ==
  /\ mainPc = "out" /\ ~running /\ ~destroyed
  /\ \A t \in Posters : posting[t] = NoMsg
  /\ DropTasks
  /\ working' = FALSE /\ listening' = FALSE /\ destroyed' = TRUE
  /\ UNCHANGED <<sendVars, winsock, startups, port, ports, running, acceptPc,
                 workerPc, mainPc, bound, starts, spawnFails>>

-----------------------------------------------------------------------------
(***************************************************************************)
(* CNetLib::Update: RemoveTimedOutSessions, then the heartbeat (time is    *)
(* abstracted: any of its outcomes), then the tasks.                       *)
(***************************************************************************)
UpdateSessions ==
  /\ mainPc = "out" /\ ~destroyed
  /\ mainPc' = "sessions"
  /\ \/ UNCHANGED sendVars
     \/ Disconnect
     \/ inMap /\ \E p \in Pings : PostSend(Main, p)
  /\ UNCHANGED <<taskVars, osVars, running, working, acceptPc, workerPc,
                 histVars>>

UpdateTasks ==
  /\ mainPc = "sessions"
  /\ posting[Main] = NoMsg /\ refused = NoMsg
  /\ Execute
  /\ mainPc' = "tasks"
  /\ UNCHANGED <<sendVars, osVars, running, working, acceptPc, workerPc,
                 histVars>>

UpdateDone ==
  /\ mainPc = "tasks" /\ execPc = "out"
  /\ mainPc' = "out"
  /\ UNCHANGED <<sendVars, taskVars, osVars, running, working, acceptPc,
                 workerPc, histVars>>

-----------------------------------------------------------------------------
(***************************************************************************)
(* CNetLib::AcceptLoop                                                     *)
(***************************************************************************)
AcceptClient ==
  /\ acceptPc = "accept" /\ listening /\ starts = MaxStarts
  /\ CreateSession
  /\ acceptPc' = "client" /\ bound' = TRUE
  /\ UNCHANGED <<taskVars, osVars, running, working, workerPc, mainPc, starts,
                 spawnFails, destroyed>>

ServeClient ==
  /\ acceptPc = "client"
  /\ \/ ApplyPolicy /\ UNCHANGED acceptPc
     \/ (InitialRecv \/ AcceptFails) /\ acceptPc' = "accept"
  /\ UNCHANGED <<taskVars, osVars, running, working, workerPc, mainPc,
                 histVars>>

\* The loop test fails, or accept does on the closed socket.
AcceptExits ==
  /\ acceptPc = "accept" /\ ~running
  /\ acceptPc' = "exited"
  /\ UNCHANGED <<sendVars, taskVars, osVars, running, working, workerPc,
                 mainPc, histVars>>

(***************************************************************************)
(* CThreadMgr::Run                                                         *)
(***************************************************************************)
Serve(w, completion) ==
  /\ workerPc[w] = "wait" /\ bound
  /\ completion
  /\ UNCHANGED <<taskVars, osVars, thrVars, histVars>>

\* Mutant: the loop does not test m_bRunning.
WorkerNeverExits(w) == FALSE /\ UNCHANGED vars

WorkerExits(w) ==
  /\ workerPc[w] = "wait" /\ ~working
  /\ workerPc' = [workerPc EXCEPT ![w] = "exited"]
  /\ UNCHANGED <<sendVars, taskVars, osVars, running, working, acceptPc,
                 mainPc, histVars>>

-----------------------------------------------------------------------------
(***************************************************************************)
(* Whoever is in PostSend, the threads of the server, and the tasks.       *)
(***************************************************************************)
InPostSend(t) ==
  /\ PostSendDrop(t) \/ PostSendQueue(t) \/ (t = Main /\ DeleteRefusedPing)
  /\ UNCHANGED <<taskVars, osVars, thrVars, histVars>>

AppUsesSession ==
  /\ ~destroyed /\ inMap
  /\ Disconnect \/ \E t \in Apps, m \in Msgs : PostSend(t, m)
  /\ UNCHANGED <<taskVars, osVars, thrVars, histVars>>

\* GetTaskMgr().PushTask by another thread, or by the task being executed.
\* Bound: before the client comes, which meets tasks only in Update's order.
PushFromAnywhere ==
  /\ ~destroyed /\ phase = "none"
  /\ PushTask
  /\ UNCHANGED <<sendVars, osVars, thrVars, histVars>>

LastRelease ==
  /\ DeleteSession
  /\ UNCHANGED <<taskVars, osVars, thrVars, histVars>>

RunTasks ==
  /\ ExecuteStep
  /\ UNCHANGED <<sendVars, osVars, thrVars, histVars>>

MainStep ==
  \/ SpawnWorkers \/ StartAccept
  \/ JoinAccept \/ JoinWorkers \/ StopDone
  \/ UpdateTasks \/ UpdateDone \/ RunTasks

MainCalls ==
  StartListens \/ StartFails \/ StopBegin \/ DestroyNetLib \/ UpdateSessions

Next ==
  /\ crash = NoMsg
  /\ \/ MainStep \/ MainCalls
     \/ AcceptClient \/ ServeClient \/ AcceptExits
     \/ \E w \in Workers : Serve(w, Completion) \/ WorkerExits(w)
     \/ \E t \in Posters : InPostSend(t)
     \/ AppUsesSession \/ PushFromAnywhere \/ LastRelease

Spec == Init /\ [][Next]_vars

(***************************************************************************)
(* Fairness: threads run; a send completes, well or not, and a worker that *)
(* waits takes the completion.  Nobody is obliged to call Start, Update or *)
(* Stop, to connect or to post.                                            *)
(***************************************************************************)
Live(A) == crash = NoMsg /\ A

FairSpec ==
  /\ Spec
  /\ WF_vars(Live(MainStep))
  /\ WF_vars(Live(ServeClient \/ AcceptExits))
  /\ WF_vars(Live(\E w \in Workers : WorkerExits(w)))
  /\ WF_vars(Live(\E w \in Workers : Serve(w, OnSendCompleted \/ SendFailed)))
  /\ \A t \in Posters : WF_vars(Live(InPostSend(t)))
-----------------------------------------------------------------------------
(***************************************************************************)
(* Properties                                                              *)
(***************************************************************************)
Serving ==
  /\ listening /\ working /\ port
  /\ acceptPc \in {"accept", "client"}
  /\ \E w \in Workers : workerPc[w] = "wait"

Quiet ==
  /\ acceptPc = "none"
  /\ \A w \in Workers : workerPc[w] = "none"
  /\ ~inMap /\ ~bound

(* Between two calls the server either serves, with everything Start set up,
   or nothing of it is left running: no accept thread, no worker, no session
   in the map (NetLib.cpp:67-143). *)
ServesOrStopped ==
  /\ TypeOK
  /\ mainPc = "out" => IF running THEN Serving ELSE Quiet

(* Winsock and the completion port are released as often as they were
   acquired, whichever step of Start failed, but for the calls of Start that
   got no worker: their Stop does nothing (NetLib.cpp:79-115, :121-124), and
   each leaves a port, a WSAStartup and maybe the listening socket. *)
ReleasedButForSpawn ==
  mainPc = "out" =>
    /\ ports = spawnFails + B2N(running)
    /\ startups = spawnFails + B2N(running)
    /\ listening => running \/ spawnFails > 0

(* Nothing the main thread waits for is held up.  The accept thread is in its
   callback, which it can leave, or in a loop whose test fails; the workers'
   loop test fails as well; and tasks are executed by Update alone, one call
   at a time, so that no Stop and no destructor finds one being executed
   (NetLib.cpp:121-193, :205-252, ThreadMgr.cpp:16-57, Task.cpp:18-29). *)
NothingHoldsUp ==
  /\ mainPc = "join" =>
       \/ acceptPc \in {"none", "exited"}
       \/ acceptPc = "accept" /\ ~running
       \/ acceptPc = "client" /\ phase \in {"greeting", "limited"}
  /\ mainPc = "workers" => ~working
  /\ execPc # "out" => mainPc = "tasks"

(* Start, Update and Stop return: their joins wait for threads that all get
   out of their loops, and Execute ends when no further task is pushed
   (NetLib.cpp:67-193, Task.cpp:18-29). *)
CallsReturn == mainPc # "out" ~> (mainPc = "out" \/ crash # NoMsg)

=============================================================================
