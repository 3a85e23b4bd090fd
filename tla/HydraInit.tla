------------------------------ MODULE HydraInit ------------------------------
(***************************************************************************)
(* hydrafwlib.dll in its host program: DllMain hooks GetCommandLine, and   *)
(* the first thread that asks for the command line runs                    *)
(* CLibrary::DoSomeWork, which looks the program up in the table of        *)
(* modules, names its Vanguard DLL, loads the extension and patches the    *)
(* program.  Any thread of the host may ask, and so does an extension      *)
(* while it is loaded, on the thread that does the work.  The main thread  *)
(* asks in its start-up code, before it enters WinMain.                    *)
(*                                                                         *)
(* A patch is one of the calls of CServer::Initialize and its table entry  *)
(* that put a hook in place; addresses and bytes are left out.             *)
(***************************************************************************)
EXTENDS Sequences, Naturals, FiniteSets, SequencesExt

CONSTANTS Threads, Main

ASSUME HydraInitAssumption == Main \in Threads

Detoured == {"GatewayServer", "GlobalManager", "SR_GameServer", "SR_ShardManager"}
Hooked   == {"AgentServer", "DownloadServer", "FarmManager", "MachineManager"}
Servers  == Detoured \cup Hooked

\* g_ModuleTable: no name in it ends with another one, so a program matches at
\* most one entry.
ModuleTable == Servers \cup {"SMC"}
Programs == ModuleTable \cup {"other"}

\* What Initialize hooks, in order.
Patches(p) ==
  IF p \in {"FarmManager", "GlobalManager"}
  THEN <<"LogWriter", "WinMain", "CServer", "CMainProcess">>
  ELSE IF p \in Servers
  THEN <<"LogWriter", "CMainProcess", "WinMain", "CServer">>
  ELSE IF p = "SMC" THEN <<"byte">> ELSE <<>>

VARIABLES
  server,         \* the host program this process runs
  hydraInitState, \* HydraInitState
  asking,         \* where a thread is: "out", it "saw" state 0, does the "work",
                  \* or has its command line ("got")
  work,           \* where a thread is in DoSomeWork
  patched,        \* the patches applied, in order
  vanguard,       \* CVanguard: "none", or "named" with its path set
  terminated,     \* TerminateProcess has been called
  overtook        \* history: threads that got it while another was at work

loaderVars == <<hydraInitState, asking, work, patched, vanguard, terminated,
                overtook>>

LoaderTypeOK ==
  /\ server \in Programs
  /\ hydraInitState \in 0 .. 2
  /\ asking \in [Threads -> {"out", "saw", "work", "got"}]
  /\ work \in [Threads -> {"none", "load", "vanguard", "extension", "patch"}]
  /\ patched \in Seq({"LogWriter", "CMainProcess", "WinMain", "CServer", "byte"})
  /\ vanguard \in {"none", "named"}
  /\ terminated \in BOOLEAN
  /\ overtook \subseteq Threads

DllMain ==
  /\ server \in Programs
  /\ hydraInitState = 0
  /\ asking = [t \in Threads |-> "out"]
  /\ work = [t \in Threads |-> "none"]
  /\ patched = <<>> /\ vanguard = "none"
  /\ terminated = FALSE /\ overtook = {}

AtWork == {t \in Threads : asking[t] = "work"}

-----------------------------------------------------------------------------
(* TriggerHydraInit *)

GotIt(t) ==
  /\ asking' = [asking EXCEPT ![t] = "got"]
  /\ overtook' = IF AtWork \ {t} = {} THEN overtook ELSE overtook \cup {t}

\* The thread that does the work may ask again: nothing changes then.
GetCommandLine(t) ==
  /\ asking[t] = "out"
  /\ \/ hydraInitState > 0 /\ GotIt(t)
     \/ hydraInitState = 0 /\ asking' = [asking EXCEPT ![t] = "saw"]
        /\ UNCHANGED overtook
  /\ UNCHANGED <<server, hydraInitState, work, patched, vanguard, terminated>>

\* Mutant: a test and an assignment instead of InterlockedCompareExchange; the
\* thread has made the test already.
SetWithoutCompare(t) ==
  /\ asking[t] = "saw"
  /\ hydraInitState' = 2
  /\ asking' = [asking EXCEPT ![t] = "work"]
  /\ work' = [work EXCEPT ![t] = "load"]
  /\ UNCHANGED <<server, patched, vanguard, terminated, overtook>>

CompareExchange(t) ==
  /\ asking[t] = "saw"
  /\ \/ /\ hydraInitState = 0
        /\ hydraInitState' = 1
        /\ asking' = [asking EXCEPT ![t] = "work"]
        /\ UNCHANGED overtook
     \/ /\ hydraInitState > 0
        /\ UNCHANGED hydraInitState
        /\ GotIt(t)
  /\ UNCHANGED <<server, work, patched, vanguard, terminated>>

StartWork(t) ==
  /\ asking[t] = "work" /\ work[t] = "none"
  /\ hydraInitState' = 2
  /\ work' = [work EXCEPT ![t] = "load"]
  /\ UNCHANGED <<server, asking, patched, vanguard, terminated, overtook>>

-----------------------------------------------------------------------------
(* DoSomeWork *)

WorkReturns(t) ==
  /\ work' = [work EXCEPT ![t] = "none"]
  /\ GotIt(t)

\* The configuration file is loaded, and the program looked up in the table.
LoadIni(t) ==
  /\ work[t] = "load"
  /\ \/ terminated' = TRUE /\ UNCHANGED <<asking, work, overtook>>
     \/ /\ server \in ModuleTable
        /\ work' = [work EXCEPT ![t] = "vanguard"]
        /\ UNCHANGED <<asking, terminated, overtook>>
     \/ server \notin ModuleTable /\ WorkReturns(t) /\ UNCHANGED terminated
  /\ UNCHANGED <<server, hydraInitState, patched, vanguard>>

\* Its ini and its DLL may be there or not.
InitVanguard(t) ==
  /\ work[t] = "vanguard"
  /\ vanguard' \in {vanguard, "named"}
  /\ work' = [work EXCEPT ![t] = "extension"]
  /\ UNCHANGED <<server, hydraInitState, asking, patched, terminated, overtook>>

LoadExtension(t) ==
  /\ work[t] = "extension"
  /\ \/ work' = [work EXCEPT ![t] = "patch"] /\ UNCHANGED terminated
     \/ terminated' = TRUE /\ UNCHANGED work
  /\ UNCHANGED <<server, hydraInitState, asking, patched, vanguard, overtook>>

\* specialPatches, one after the other; DoSomeWork returns after the last.
Patch(t) ==
  /\ work[t] = "patch"
  /\ patched' = Append(patched, Patches(server)[Len(patched) + 1])
  /\ IF Len(patched') = Len(Patches(server))
     THEN WorkReturns(t)
     ELSE UNCHANGED <<asking, work, overtook>>
  /\ UNCHANGED <<server, hydraInitState, vanguard, terminated>>

LoaderStep ==
  /\ ~terminated
  /\ \E t \in Threads :
       \/ GetCommandLine(t) \/ CompareExchange(t) \/ StartWork(t)
       \/ LoadIni(t) \/ InitVanguard(t) \/ LoadExtension(t) \/ Patch(t)

-----------------------------------------------------------------------------
(* Whichever thread asks first, and however many ask at once, one of them does
   the work, every patch of the program's table entry is applied once and in
   order, and a thread that has its command line runs in a program that is
   patched completely, unless it asked while another thread was at work
   (Hydra.cpp:17-27, Library.cpp:286-336). *)
PatchedBeforeHost ==
  /\ LoaderTypeOK
  /\ Cardinality(AtWork) <= 1
  /\ IsPrefix(patched, Patches(server))
  /\ \A t \in Threads :
       asking[t] = "got" /\ t \notin overtook => patched = Patches(server)
=============================================================================
