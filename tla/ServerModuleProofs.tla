-------------------------- MODULE ServerModuleProofs --------------------------
(***************************************************************************)
(* Proofs about HydraInit and ServerModule, for any threads, IDs and       *)
(* certifications: the program is patched once and completely before a     *)
(* thread runs in it, the host gets its messages as they came, the nine    *)
(* maps hold what was read last, and so do the database configuration and  *)
(* the routes made from them.                                              *)
(***************************************************************************)
EXTENDS ServerModule, FiniteSetTheorems, WellFoundedInduction, TLAPS

-----------------------------------------------------------------------------
(***************************************************************************)
(* The start-up: who is at work, and how far.                              *)
(***************************************************************************)
PatchNames == {"LogWriter", "CMainProcess", "WinMain", "CServer", "byte"}

OneAtWork ==
  \A t, u \in Threads : asking[t] = "work" /\ asking[u] = "work" => t = u

\* The state of TriggerHydraInit tells whether the work was begun and done.
StateTells ==
  /\ hydraInitState = 0 => \A t \in Threads : asking[t] \in {"out", "saw"}
  /\ hydraInitState < 2 => patched = <<>> /\ \A t \in Threads : work[t] = "none"
  /\ hydraInitState = 2 =>
       \A t \in Threads : asking[t] = "work" => work[t] # "none"
  /\ hydraInitState > 0 /\ (\A t \in Threads : asking[t] # "work")
       => patched = Patches(server)

\* Where the thread at work is says which patches are applied.
WorkTells ==
  \A t \in Threads :
    /\ work[t] # "none" => asking[t] = "work" /\ hydraInitState = 2
    /\ work[t] \in {"load", "vanguard", "extension"} => patched = <<>>
    /\ work[t] \in {"vanguard", "extension", "patch"} => server \in ModuleTable
    /\ work[t] = "patch" => Len(patched) < Len(Patches(server))

InOrder ==
  /\ Len(patched) <= Len(Patches(server))
  /\ \A i \in DOMAIN patched : patched[i] = Patches(server)[i]

GotPatched ==
  \A t \in Threads :
    asking[t] = "got" /\ t \notin overtook => patched = Patches(server)

LoadInv ==
  /\ LoaderTypeOK /\ OneAtWork /\ StateTells /\ WorkTells /\ InOrder /\ GotPatched

LEMMA PatchLists ==
  ASSUME NEW p \in Programs
  PROVE  /\ Patches(p) \in Seq(PatchNames)
         /\ Len(Patches(p)) \in Nat
         /\ p \in ModuleTable <=> Patches(p) # <<>>
         /\ Patches(p) # <<>> => Len(Patches(p)) > 0
<1> USE DEF Patches, PatchNames
<1>1. CASE p \in {"FarmManager", "GlobalManager"}
  BY <1>1 DEF ModuleTable, Servers, Detoured, Hooked
<1>2. CASE p \in Servers \ {"FarmManager", "GlobalManager"}
  <2>1. Patches(p) = <<"LogWriter", "CMainProcess", "WinMain", "CServer">>
    BY <1>2
  <2>2. p \in ModuleTable BY <1>2 DEF ModuleTable
  <2> HIDE DEF Patches
  <2>3. QED BY <2>1, <2>2
<1>3. CASE p = "SMC"
  BY <1>3 DEF ModuleTable, Servers, Detoured, Hooked
<1>4. CASE p = "other"
  BY <1>4 DEF ModuleTable, Servers, Detoured, Hooked
<1>5. QED
  BY <1>1, <1>2, <1>3, <1>4 DEF Programs, ModuleTable

(* Two sequences of one length that agree everywhere are equal. *)
LEMMA SameSequence ==
  ASSUME NEW S, NEW s \in Seq(S), NEW t \in Seq(S), Len(s) = Len(t),
         \A i \in DOMAIN s : s[i] = t[i]
  PROVE  s = t
  OBVIOUS

LEMMA LoadInit == DllMain => LoadInv
<1> SUFFICES ASSUME DllMain PROVE LoadInv
  OBVIOUS
<1>1. server \in Programs /\ Len(Patches(server)) \in Nat
  BY PatchLists DEF DllMain
<1>2. QED
  <2>1. patched = <<>> /\ Len(<<>>) = 0 /\ DOMAIN <<>> = {} BY DEF DllMain
  <2>2. InOrder BY <1>1, <2>1 DEF InOrder
  <2>3. LoaderTypeOK
    <3>1. patched \in Seq({"LogWriter", "CMainProcess", "WinMain", "CServer", "byte"})
      BY <2>1
    <3>2. /\ asking \in [Threads -> {"out", "saw", "work", "got"}]
          /\ work \in [Threads -> {"none", "load", "vanguard", "extension", "patch"}]
      BY DEF DllMain
    <3>3. /\ server \in Programs /\ hydraInitState \in 0 .. 2
          /\ vanguard \in {"none", "named"} /\ overtook \subseteq Threads
      BY DEF DllMain
    <3>4. terminated \in BOOLEAN BY Zenon DEF DllMain
    <3>5. QED BY <3>1, <3>2, <3>3, <3>4 DEF LoaderTypeOK
  <2>4. OneAtWork /\ StateTells /\ WorkTells /\ GotPatched
    BY DEF DllMain, OneAtWork, StateTells, WorkTells, GotPatched
  <2>5. QED BY <2>2, <2>3, <2>4 DEF LoadInv

(* A thread that gets its command line finds the work done, or overtakes. *)
LEMMA GotSound ==
  ASSUME LoadInv, NEW t \in Threads, GotIt(t), asking[t] # "got",
         hydraInitState > 0, asking[t] # "work", UNCHANGED <<server, patched>>
  PROVE  GotPatched'
<1>1. CASE AtWork \ {t} = {}
  <2>1. \A u \in Threads : asking[u] # "work" BY <1>1 DEF AtWork
  <2>2. patched = Patches(server) BY <2>1 DEF LoadInv, StateTells
  <2>3. QED BY <2>2 DEF GotPatched
<1>2. CASE AtWork \ {t} # {}
  <2>1. overtook' = overtook \cup {t} BY <1>2 DEF GotIt
  <2>2. \A u \in Threads : u # t => asking'[u] = asking[u]
    BY DEF GotIt, LoadInv, LoaderTypeOK
  <2>3. QED BY <2>1, <2>2 DEF GotPatched, LoadInv
<1>3. QED BY <1>1, <1>2

LEMMA LoadStep ==
  ASSUME LoadInv, NEW t \in Threads,
         \/ GetCommandLine(t) \/ CompareExchange(t) \/ StartWork(t)
         \/ LoadIni(t) \/ InitVanguard(t) \/ LoadExtension(t) \/ Patch(t)
  PROVE  LoadInv'
<1>p. server \in Programs BY DEF LoadInv, LoaderTypeOK
<1>l. /\ Patches(server) \in Seq(PatchNames) /\ Len(Patches(server)) \in Nat
      /\ server \in ModuleTable <=> Patches(server) # <<>>
      /\ Patches(server) # <<>> => Len(Patches(server)) > 0
  BY <1>p, PatchLists
<1> HIDE DEF Patches
<1>1. CASE GetCommandLine(t)
  <2>1. CASE hydraInitState > 0 /\ GotIt(t)
    <3>1. GotPatched'
      BY <1>1, <2>1, GotSound DEF GetCommandLine
    <3>2. QED
      BY <1>1, <2>1, <3>1 DEF GetCommandLine, GotIt, LoadInv, LoaderTypeOK,
        OneAtWork, StateTells, WorkTells, InOrder
  <2>2. CASE hydraInitState = 0 /\ asking' = [asking EXCEPT ![t] = "saw"]
             /\ UNCHANGED overtook
    BY <1>1, <2>2 DEF GetCommandLine, LoadInv, LoaderTypeOK, OneAtWork, StateTells,
      WorkTells, InOrder, GotPatched
  <2>3. QED BY <1>1, <2>1, <2>2 DEF GetCommandLine
<1>2. CASE CompareExchange(t)
  <2>1. CASE hydraInitState > 0
    <3>1. GotPatched'
      BY <1>2, <2>1, GotSound DEF CompareExchange, LoadInv, LoaderTypeOK
    <3>2. QED
      BY <1>2, <2>1, <3>1 DEF CompareExchange, GotIt, LoadInv, LoaderTypeOK,
        OneAtWork, StateTells, WorkTells, InOrder
  <2>2. CASE hydraInitState = 0
    BY <1>2, <2>2 DEF CompareExchange, LoadInv, LoaderTypeOK, OneAtWork, StateTells,
      WorkTells, InOrder, GotPatched
  <2>3. QED BY <2>1, <2>2 DEF LoadInv, LoaderTypeOK
<1>3. CASE StartWork(t)
  BY <1>3 DEF StartWork, LoadInv, LoaderTypeOK, OneAtWork, StateTells, WorkTells,
    InOrder, GotPatched
<1>4. CASE LoadIni(t)
  <2>0. asking[t] = "work" /\ patched = <<>> /\ hydraInitState = 2
    BY <1>4 DEF LoadIni, LoadInv, WorkTells
  <2>1. CASE server \notin ModuleTable /\ WorkReturns(t) /\ UNCHANGED terminated
    <3>1. patched = Patches(server) BY <1>l, <2>0, <2>1
    <3>2. QED
      BY <1>4, <2>0, <2>1, <3>1 DEF LoadIni, WorkReturns, GotIt, LoadInv,
        LoaderTypeOK, OneAtWork, StateTells, WorkTells, InOrder, GotPatched
  <2>2. CASE server \in ModuleTable /\ work' = [work EXCEPT ![t] = "vanguard"]
             /\ UNCHANGED <<asking, terminated, overtook>>
    BY <1>4, <2>0, <2>2 DEF LoadIni, LoadInv, LoaderTypeOK, OneAtWork, StateTells,
      WorkTells, InOrder, GotPatched
  <2>3. CASE terminated' = TRUE /\ UNCHANGED <<asking, work, overtook>>
    BY <1>4, <2>3 DEF LoadIni, LoadInv, LoaderTypeOK, OneAtWork, StateTells,
      WorkTells, InOrder, GotPatched
  <2>4. QED BY <1>4, <2>1, <2>2, <2>3 DEF LoadIni
<1>5. CASE InitVanguard(t)
  BY <1>5 DEF InitVanguard, LoadInv, LoaderTypeOK, OneAtWork, StateTells, WorkTells,
    InOrder, GotPatched
<1>6. CASE LoadExtension(t)
  <2>1. Len(<<>>) = 0 OBVIOUS
  <2>2. QED
    BY <1>l, <1>6, <2>1 DEF LoadExtension, LoadInv, LoaderTypeOK, OneAtWork,
      StateTells, WorkTells, InOrder, GotPatched
<1>7. CASE Patch(t)
  <2> DEFINE n == Len(patched)
             next == Patches(server)[n + 1]
  <2>1. /\ asking[t] = "work" /\ work[t] = "patch" /\ hydraInitState = 2
        /\ n < Len(Patches(server)) /\ patched \in Seq(PatchNames) /\ n \in Nat
    BY <1>7 DEF Patch, LoadInv, WorkTells, LoaderTypeOK, PatchNames
  <2>2. next \in PatchNames BY <1>l, <2>1
  <2>3. patched' = Append(patched, next) BY <1>7 DEF Patch
  <2> HIDE DEF next
  <2>4. /\ patched' \in Seq(PatchNames) /\ Len(patched') = n + 1
        /\ \A i \in DOMAIN patched' : patched'[i] = Patches(server)[i]
    <3>1. patched' \in Seq(PatchNames) /\ Len(patched') = n + 1
      BY <2>1, <2>2, <2>3
    <3>2. ASSUME NEW i \in DOMAIN patched' PROVE patched'[i] = Patches(server)[i]
      <4>1. CASE i = n + 1 BY <2>1, <2>2, <2>3, <4>1 DEF next
      <4>2. CASE i \in DOMAIN patched
        BY <2>1, <2>2, <2>3, <4>2 DEF LoadInv, InOrder
      <4>3. QED BY <2>1, <2>2, <2>3, <4>1, <4>2
    <3>3. QED BY <3>1, <3>2
  <2>5. patched # Patches(server) BY <2>1
  <2>6. \A u \in Threads : asking[u] = "got" => u \in overtook
    BY <2>5 DEF LoadInv, GotPatched
  <2>7. UNCHANGED <<server, hydraInitState, vanguard, terminated>> BY <1>7 DEF Patch
  <2>8. LoaderTypeOK'
    BY <1>7, <2>4 DEF Patch, WorkReturns, GotIt, LoadInv, LoaderTypeOK, PatchNames
  <2>9. InOrder' BY <2>1, <2>4, <2>7, <1>l DEF InOrder
  <2>10. \A u \in Threads : u # t => asking[u] # "work" /\ work[u] = "none"
    BY <2>1 DEF LoadInv, OneAtWork, WorkTells, LoaderTypeOK
  <2>11. CASE n + 1 = Len(Patches(server))
    <3>1. patched' = Patches(server)
      <4>1. Len(patched') = Len(Patches(server)) BY <2>4, <2>11
      <4>2. QED BY <1>l, <2>4, <4>1, SameSequence
    <3>2. WorkReturns(t) BY <1>7, <2>4, <2>11 DEF Patch
    <3>3. asking' = [asking EXCEPT ![t] = "got"] /\ work' = [work EXCEPT ![t] = "none"]
      BY <3>2 DEF WorkReturns, GotIt
    <3>4. QED
      BY <2>1, <2>7, <2>8, <2>9, <2>10, <3>1, <3>3 DEF LoadInv, LoaderTypeOK,
        OneAtWork, StateTells, WorkTells, GotPatched
  <2>12. CASE n + 1 # Len(Patches(server))
    <3>1. UNCHANGED <<asking, work, overtook>> BY <1>7, <2>4, <2>12 DEF Patch
    <3>2. n + 1 < Len(Patches(server)) BY <1>l, <2>1, <2>12
    <3>3. QED
      BY <2>1, <2>4, <2>6, <2>7, <2>8, <2>9, <2>10, <3>1, <3>2 DEF LoadInv,
        LoaderTypeOK, OneAtWork, StateTells, WorkTells, GotPatched
  <2>13. QED BY <2>11, <2>12
<1>8. QED BY <1>1, <1>2, <1>3, <1>4, <1>5, <1>6, <1>7

LEMMA NextLoads == [Next]_vars => LoaderStep \/ UNCHANGED <<server, loaderVars>>
<1> SUFFICES ASSUME [Next]_vars PROVE LoaderStep \/ UNCHANGED <<server, loaderVars>>
  OBVIOUS
<1> USE DEF hostVars
<1>1. CASE Loader BY <1>1 DEF Loader
<1>2. CASE WinMain \/ init_module \/ init_localdata
  BY <1>2 DEF WinMain, init_module, init_localdata
<1>3. CASE Deliver \/ check_valid_msgid \/ HandleMsg \/ ProcessFilteredMsg
           \/ HostHandles
  BY <1>3 DEF Deliver, check_valid_msgid, HandleMsg, ProcessFilteredMsg, FilterMsg,
    HostHandles
<1>4. CASE CustomMsg
  BY <1>4 DEF CustomMsg, StartReading, DeleteMsg, ReadEntry, ReadDone, ReadThrows
<1>5. ASSUME NEW name \in Names, SendMsgToServerBody(name)
      PROVE  UNCHANGED <<server, loaderVars>>
  BY <1>5 DEF SendMsgToServerBody
<1>6. CASE UNCHANGED vars BY <1>6 DEF vars
<1>7. QED
  BY <1>1, <1>2, <1>3, <1>4, <1>5, <1>6 DEF Next, AgentServer_CustomMsg,
    DownloadServer_CustomMsg, FarmManager_CustomMsg, GatewayServer_CustomMsg,
    GlobalManager_CustomMsg, MachineManager_CustomMsg, GameServer_CustomMsg,
    ShardManager_CustomMsg

LEMMA LoadAlways == Spec => []LoadInv
<1>1. Init => LoadInv BY LoadInit DEF Init
<1>2. LoadInv /\ [Next]_vars => LoadInv'
  <2> SUFFICES ASSUME LoadInv, [Next]_vars PROVE LoadInv'
    OBVIOUS
  <2>1. CASE LoaderStep BY <2>1, LoadStep DEF LoaderStep
  <2>2. CASE UNCHANGED <<server, loaderVars>>
    BY <2>2 DEF loaderVars, LoadInv, LoaderTypeOK, OneAtWork, StateTells, WorkTells,
      InOrder, GotPatched
  <2>3. QED BY NextLoads, <2>1, <2>2
<1>3. QED BY <1>1, <1>2, PTL DEF Spec

(* For any number of threads: one of them does the work, the patches of the
   program are applied once and in order, and a thread that has its command
   line, and did not overtake the one at work, runs in a program that is
   patched completely (Hydra.cpp:17-27, Library.cpp:286-336). *)
THEOREM PatchedAlways == Spec => []PatchedBeforeHost
<1>1. LoadInv => PatchedBeforeHost
  <2> SUFFICES ASSUME LoadInv PROVE PatchedBeforeHost
    OBVIOUS
  <2>1. Cardinality(AtWork) <= 1
    <3>1. CASE AtWork = {} BY <3>1, FS_EmptySet
    <3>2. CASE AtWork # {}
      <4>1. PICK t \in AtWork : TRUE BY <3>2
      <4>2. AtWork = {t} BY <4>1 DEF AtWork, LoadInv, OneAtWork
      <4>3. QED BY <4>2, FS_Singleton
    <3>3. QED BY <3>1, <3>2
  <2>2. IsPrefix(patched, Patches(server))
    <3>1. /\ Patches(server) \in Seq(PatchNames) /\ Len(Patches(server)) \in Nat
          /\ patched \in Seq(PatchNames) /\ Len(patched) \in Nat
      BY PatchLists DEF LoadInv, LoaderTypeOK, PatchNames
    <3>2. Len(patched) <= Len(Patches(server))
          /\ \A i \in 1 .. Len(patched) : patched[i] = Patches(server)[i]
      BY <3>1 DEF LoadInv, InOrder
    <3> HIDE DEF Patches
    <3>3. SubSeq(patched, 1, Len(patched)) = SubSeq(Patches(server), 1, Len(patched))
      BY <3>1, <3>2
    <3>4. QED BY <3>2, <3>3 DEF IsPrefix
  <2>3. QED BY <2>1, <2>2 DEF PatchedBeforeHost, LoadInv, GotPatched
<1>2. QED BY <1>1, LoadAlways, PTL

-----------------------------------------------------------------------------
(***************************************************************************)
(* Least and greatest numbers, and the last record read.                   *)
(***************************************************************************)
(* A set of natural numbers has a least element. *)
LEMMA LeastNumber ==
  ASSUME NEW T, T \subseteq Nat, T # {}
  PROVE  \E x \in T : \A y \in T : x <= y
<1>1. \E R : /\ \A x, y \in Nat : y < x => <<y, x>> \in R
             /\ IsWellFoundedOn(R, Nat)
  <2> DEFINE R == OpToRel(<, Nat)
  <2>1. \A x, y \in Nat : y < x => <<y, x>> \in R
    BY DEF OpToRel
  <2>2. IsWellFoundedOn(R, Nat) BY NatLessThanWellFounded
  <2> HIDE DEF R
  <2>3. QED BY <2>1, <2>2
<1>2. PICK R : /\ \A x, y \in Nat : y < x => <<y, x>> \in R
               /\ IsWellFoundedOn(R, Nat)
  BY <1>1
<1>3. \E x \in T : \A y \in T : ~ (<<y, x>> \in R)
  BY <1>2, WFMin
<1>4. \A x, y \in Nat : y < x => <<y, x>> \in R BY <1>2
<1>5. \A x, y \in Nat : ~ (y < x) => x <= y OBVIOUS
<1>6. PICK x \in T : \A y \in T : ~ (<<y, x>> \in R) BY <1>3
<1>7. \A y \in T : ~ (y < x) BY <1>4, <1>6
<1>8. QED BY <1>5, <1>7

(* A bounded set of numbers has a maximum. *)
LEMMA MaxIn ==
  ASSUME NEW n \in Nat, NEW T, T \subseteq 1 .. n, T # {}
  PROVE  Max(T) \in T /\ \A y \in T : Max(T) >= y
<1> DEFINE U == {n - x : x \in T}
<1>1. U \subseteq Nat /\ U # {}
  <2>1. \A x \in T : n - x \in Nat OBVIOUS
  <2>2. QED BY <2>1, Zenon
<1>2. PICK u \in U : \A v \in U : u <= v BY <1>1, LeastNumber
<1>3. PICK x \in T : u = n - x BY <1>2
<1>4. \A y \in T : n - x <= n - y BY <1>2, <1>3
<1>5. \A y \in T : x >= y BY <1>3, <1>4
<1>6. QED BY <1>5 DEF Max

GoodEntries == {e \in Entries : e.value \in ValuesOf(e.list)}
GoodReads   == {r \in [list : ListNames, value : Values, key : Keys, place : Nat] :
                  r.value \in ValuesOf(r.list)}

Found(rs, list, key) == {i \in DOMAIN rs : rs[i].list = list /\ ReadKey(rs[i]) = key}

LEMMA LastReadIs ==
  ASSUME NEW rs \in Seq(GoodReads), NEW list, NEW key
  PROVE  /\ Found(rs, list, key) = {} => LastRead(rs, list, key) = Absent
         /\ Found(rs, list, key) # {} =>
              /\ Max(Found(rs, list, key)) \in Found(rs, list, key)
              /\ LastRead(rs, list, key) = rs[Max(Found(rs, list, key))].value
<1>1. Found(rs, list, key) \subseteq 1 .. Len(rs) /\ Len(rs) \in Nat BY DEF Found
<1>2. Found(rs, list, key) # {} => Max(Found(rs, list, key)) \in Found(rs, list, key)
  BY <1>1, MaxIn
<1>3. QED BY <1>2 DEF LastRead, Found

(* A record that is read is the last of its key, and of no other. *)
LEMMA LastReadAppend ==
  ASSUME NEW rs \in Seq(GoodReads), NEW r \in GoodReads, NEW list, NEW key
  PROVE  LastRead(Append(rs, r), list, key) =
           IF r.list = list /\ ReadKey(r) = key THEN r.value ELSE LastRead(rs, list, key)
<1> DEFINE qs == Append(rs, r)
           n  == Len(rs)
<1>1. /\ qs \in Seq(GoodReads) /\ n \in Nat /\ DOMAIN rs = 1 .. n
      /\ DOMAIN qs = 1 .. n + 1 /\ qs[n + 1] = r /\ \A i \in 1 .. n : qs[i] = rs[i]
  OBVIOUS
<1> HIDE DEF qs, n
<1>2. CASE r.list = list /\ ReadKey(r) = key
  <2>1. n + 1 \in Found(qs, list, key) BY <1>1, <1>2 DEF Found
  <2>2. Found(qs, list, key) \subseteq 1 .. n + 1 BY <1>1 DEF Found
  <2>3. /\ Max(Found(qs, list, key)) \in Found(qs, list, key)
        /\ Max(Found(qs, list, key)) >= n + 1
    BY <1>1, <2>1, <2>2, MaxIn
  <2>4. Max(Found(qs, list, key)) = n + 1 BY <1>1, <2>2, <2>3
  <2>5. LastRead(qs, list, key) = qs[n + 1].value BY <1>1, <2>1, <2>4, LastReadIs
  <2>6. QED BY <1>1, <1>2, <2>5 DEF qs
<1>3. CASE ~(r.list = list /\ ReadKey(r) = key)
  <2>1. Found(qs, list, key) = Found(rs, list, key) BY <1>1, <1>3 DEF Found
  <2>2. CASE Found(rs, list, key) = {}
    BY <1>1, <1>3, <2>1, <2>2, LastReadIs DEF qs
  <2>3. CASE Found(rs, list, key) # {}
    <3>1. Max(Found(rs, list, key)) \in 1 .. n BY <1>1, <2>3, LastReadIs DEF Found
    <3>2. QED BY <1>1, <1>3, <2>1, <2>3, <3>1, LastReadIs DEF qs
  <2>4. QED BY <2>2, <2>3
<1>4. QED BY <1>2, <1>3

(* What is read last of a list is a value of that list, or nothing. *)
LEMMA LastReadType ==
  ASSUME NEW rs \in Seq(GoodReads), NEW list, NEW key
  PROVE  LastRead(rs, list, key) \in ValuesOf(list) \cup {Absent}
<1>1. CASE Found(rs, list, key) = {} BY <1>1, LastReadIs
<1>2. CASE Found(rs, list, key) # {}
  <2> DEFINE m == Max(Found(rs, list, key))
  <2>1. /\ m \in Found(rs, list, key)
        /\ LastRead(rs, list, key) = rs[m].value
    BY <1>2, LastReadIs
  <2> HIDE DEF m
  <2>2. m \in DOMAIN rs /\ rs[m].list = list BY <2>1 DEF Found
  <2>3. rs[m] \in GoodReads BY <2>2
  <2>4. QED BY <2>1, <2>2, <2>3 DEF GoodReads
<1>3. QED BY <1>1, <1>2

-----------------------------------------------------------------------------
(***************************************************************************)
(* The messages on their way through the hooks, and the maps.              *)
(***************************************************************************)
\* What is in the message, and what was read, is typed list by list.
Typed ==
  /\ TypeOK
  /\ msg.entries \in Seq(GoodEntries)
  /\ reads \in Seq(GoodReads)

\* Outside CustomMsg a message is alive and its read position is where it was;
\* CustomMsg returns to the host only with a certification.
Flow ==
  /\ at \in {"validate", "dispatch", "custom", "host"} => alive /\ pos = 0
  /\ at = "read" => alive /\ pos # 0
  /\ at \in {"custom", "read"} /\ ret = "host" => IsCertification

\* The local index has counted the entries of FarmContent.
FarmContents(n) == {j \in 1 .. n : msg.entries[j].list = "FarmContent"}
Indexed == at = "read" => index = Cardinality(FarmContents(pos - 1)) % IndexWrap

MapsTell == \A lk \in ListNames \X Keys : info[lk] = LastRead(reads, lk[1], lk[2])

MsgInv == Typed /\ Flow /\ Indexed /\ MapsTell /\ DbFromCertification

(* The lists that are looked up again, and what their records say. *)
LEMMA ListsTyped ==
  /\ {"ServerBody", "Module", "Division", "Shard", "FarmContent"} \subseteq ListNames
  /\ ValuesOf("ServerBody") = Bodies /\ ValuesOf("Module") = Names
  /\ ValuesOf("Division") = Configs /\ ValuesOf("Shard") = [shard : Configs, log : Configs]
  /\ \A list \in ListNames : Absent \notin ValuesOf(list)
<1>1. /\ Len(Lists) = 9 /\ Lists[1] = "ServerBody" /\ Lists[2] = "Module"
      /\ Lists[4] = "Division" /\ Lists[5] = "FarmContent" /\ Lists[9] = "Shard"
  BY DEF Lists
<1>2. {"ServerBody", "Module", "Division", "Shard", "FarmContent"} \subseteq ListNames
  BY <1>1 DEF ListNames
<1>3. /\ ValuesOf("ServerBody") = Bodies /\ ValuesOf("Module") = Names
      /\ ValuesOf("Division") = Configs
      /\ ValuesOf("Shard") = [shard : Configs, log : Configs]
  BY DEF ValuesOf
<1>4. \A list \in ListNames : Absent \notin ValuesOf(list)
  BY CertificationAssumption, Zenon DEF Values
<1>5. QED BY <1>2, <1>3, <1>4

(* A residue goes on counting when it is incremented and wrapped. *)
LEMMA NextResidue ==
  ASSUME NEW w \in Nat \ {0}, NEW c \in Nat
  PROVE  ((c % w) + 1) % w = (c + 1) % w
<1> DEFINE r == c % w
           q == c \div w
<1>1. r \in 0 .. w - 1 /\ q \in Nat /\ c = q * w + r
  BY Z3
<1> HIDE DEF r, q
<1>2. CASE r + 1 < w
  <2>1. (r + 1) % w = r + 1 BY <1>1, <1>2, Z3
  <2>2. (q * w + (r + 1)) % w = r + 1 BY <1>1, <1>2, Z3
  <2>3. c + 1 = q * w + (r + 1) BY <1>1
  <2>4. QED BY <2>1, <2>2, <2>3 DEF r
<1>3. CASE r + 1 = w
  <2>1. w % w = 0 BY Z3
  <2>2. ((q + 1) * w) % w = 0 BY <1>1, Z3
  <2>3. c + 1 = (q + 1) * w BY <1>1, <1>3, Z3
  <2>4. QED BY <1>3, <2>1, <2>2, <2>3 DEF r
<1>4. QED BY <1>1, <1>2, <1>3

LEMMA CountNext ==
  ASSUME msg.entries \in Seq(GoodEntries), NEW n \in 1 .. Len(msg.entries)
  PROVE  /\ Cardinality(FarmContents(n - 1)) \in Nat
         /\ Cardinality(FarmContents(n)) =
              IF msg.entries[n].list = "FarmContent"
              THEN Cardinality(FarmContents(n - 1)) + 1
              ELSE Cardinality(FarmContents(n - 1))
<1>1. FarmContents(n - 1) \subseteq 1 .. n - 1 BY DEF FarmContents
<1>2. IsFiniteSet(FarmContents(n - 1)) BY <1>1, FS_Interval, FS_Subset
<1>3. n \notin FarmContents(n - 1) BY <1>1
<1>4. FarmContents(n) = IF msg.entries[n].list = "FarmContent"
                        THEN FarmContents(n - 1) \cup {n} ELSE FarmContents(n - 1)
  BY DEF FarmContents
<1>5. QED BY <1>2, <1>3, <1>4, FS_CardinalityType, FS_AddElement

LEMMA MsgInit == Init => MsgInv
<1> SUFFICES ASSUME Init PROVE MsgInv
  OBVIOUS
<1> DEFINE B == BOOLEAN
<1>0. FALSE \in B /\ TRUE \in B OBVIOUS
<1> HIDE DEF B
<1>1. /\ at = "idle" /\ ret = "idle" /\ msg = NoMsg /\ alive = FALSE /\ pos = 0
      /\ index = 0 /\ msgs = 0 /\ reads = <<>> /\ readsAt = 0 /\ dbMgr = "null"
      /\ stage = "loaded"
  BY DEF Init
<1>2. msg.entries = <<>> /\ <<>> \in Seq(GoodEntries) /\ <<>> \in Seq(GoodReads)
      /\ <<>> \in Seq(Entries)
  BY <1>1 DEF NoMsg
<1>3. msg \in [id : MsgIDs, large : B, entries : Seq(Entries), cut : B]
  BY <1>0, <1>1, <1>2 DEF NoMsg, MsgIDs
<1>4. info \in Maps /\ dbConfig \in DbConfigs BY DEF Init, Maps, DbConfigs
<1>5. alive \in B BY <1>0, <1>1
<1>6. index \in 0 .. IndexWrap - 1 /\ msgs \in 0 .. MaxMsgs
  BY <1>1, CertificationAssumption
<1>7. pos \in 0 .. Len(msg.entries) + 1 /\ readsAt \in 0 .. Len(reads)
  BY <1>1, <1>2
<1>8. Typed
  BY <1>1, <1>2, <1>3, <1>4, <1>5, <1>6, <1>7 DEF Typed, TypeOK, Messages, B
<1>9. MapsTell
  <2>1. \A l, k : Found(reads, l, k) = {} BY <1>1 DEF Found
  <2>2. \A l, k : LastRead(reads, l, k) = Absent BY <1>1, <1>2, <2>1, LastReadIs
  <2>3. QED BY <2>2 DEF MapsTell, Init
<1>10. Flow /\ Indexed /\ DbFromCertification
  BY <1>1 DEF Flow, Indexed, DbFromCertification
<1>11. QED BY <1>8, <1>9, <1>10 DEF MsgInv

(* A step that leaves the maps, what was read and the databases alone keeps
   what is said of them. *)
LEMMA SameMaps ==
  ASSUME MsgInv, UNCHANGED <<info, reads, readsAt, dbMgr, dbConfig>>
  PROVE  MapsTell' /\ DbFromCertification'
BY DEF MsgInv, MapsTell, DbFromCertification

(* ... and one that also leaves the message alone keeps its type. *)
LEMMA SameTypes ==
  ASSUME MsgInv, UNCHANGED <<info, reads, readsAt, dbMgr, dbConfig, msg>>,
         stage' \in {"loaded", "main", "module", "running", "failed", "crashed", "host"},
         at' \in {"idle", "validate", "dispatch", "custom", "read", "host"},
         ret' \in {"host", "idle"}, alive' \in BOOLEAN,
         pos' \in 0 .. Len(msg.entries) + 1,
         index' \in 0 .. IndexWrap - 1, msgs' \in 0 .. MaxMsgs
  PROVE  Typed'
BY DEF MsgInv, Typed, TypeOK

LEMMA StartStep ==
  ASSUME MsgInv,
         \/ Loader \/ WinMain \/ init_module
         \/ \E name \in Names : SendMsgToServerBody(name)
  PROVE  MsgInv'
<1>1. UNCHANGED <<msgVars, info, reads, readsAt, dbMgr, dbConfig>>
      /\ stage' \in {"loaded", "main", "module", "running", "failed", "crashed", "host"}
  BY DEF Loader, WinMain, InitDll, init_module, SendMsgToServerBody, stageVars, MsgInv,
    Typed, TypeOK
<1>2. UNCHANGED <<at, ret, msg, alive, pos, index, msgs>> BY <1>1 DEF msgVars
<1>3. Typed' BY <1>1, <1>2 DEF MsgInv, Typed, TypeOK
<1>4. MapsTell' /\ DbFromCertification' BY <1>1, SameMaps
<1>5. Flow' /\ Indexed'
  BY <1>2 DEF MsgInv, Flow, Indexed, IsCertification, FarmContents
<1>6. QED BY <1>3, <1>4, <1>5 DEF MsgInv

(* The database configuration comes from the maps as they are. *)
LEMMA ConfigStep == MsgInv /\ init_localdata => MsgInv'
<1> SUFFICES ASSUME MsgInv, init_localdata PROVE MsgInv'
  OBVIOUS
<1>1. UNCHANGED <<msgVars, info, reads>> BY DEF init_localdata
<1>2. UNCHANGED <<at, ret, msg, alive, pos, index, msgs>> BY <1>1 DEF msgVars
<1>3. Flow' /\ Indexed'
  BY <1>2 DEF MsgInv, Flow, Indexed, IsCertification, FarmContents
<1>4. MapsTell' BY <1>1 DEF MsgInv, MapsTell
<1>5. reads \in Seq(GoodReads) /\ Len(reads) \in Nat BY DEF MsgInv, Typed
<1>6. CASE UNCHANGED <<dbConfig, dbMgr, readsAt>> /\ stage' = "running"
  <2>1. Typed' BY <1>1, <1>2, <1>6 DEF MsgInv, Typed, TypeOK
  <2>2. DbFromCertification' BY <1>1, <1>6, SameMaps
  <2>3. QED BY <1>3, <1>4, <2>1, <2>2 DEF MsgInv
<1>7. CASE IniDbConfig(Me) /\ InitDbMgr /\ readsAt' = Len(reads)
  <2> DEFINE body     == LastRead(reads, "ServerBody", Me)
             division == LastRead(reads, "Division", body.division)
             shard    == LastRead(reads, "Shard", body.shard)
  <2>1. \A l \in ListNames, k \in Keys : Find(l, k) = LastRead(reads, l, k)
    BY DEF MsgInv, MapsTell, Find
  <2>2. body \in Bodies \cup {Absent} /\ Find("ServerBody", Me) = body
    BY <1>5, <2>1, LastReadType, ListsTyped, CertificationAssumption
  <2>3. ASSUME body # Absent
        PROVE  /\ body.division \in Keys /\ body.shard \in Keys
               /\ Find("Division", body.division) = division
               /\ Find("Shard", body.shard) = shard
               /\ division \in Configs \cup {Absent}
               /\ shard \in [shard : Configs, log : Configs] \cup {Absent}
    <3>1. body.division \in Keys /\ body.shard \in Keys BY <2>2, <2>3 DEF Bodies
    <3>2. QED BY <1>5, <2>1, <3>1, LastReadType, ListsTyped
  <2> HIDE DEF body, division, shard
  <2>4. dbConfig' = IF body = Absent
                    THEN [ACCOUNT |-> Absent, SHARD |-> Absent, LOG |-> Absent]
                    ELSE [ACCOUNT |-> AccountOf(body), SHARD |-> ShardOf(body),
                          LOG |-> ShardOf(body)]
    BY <1>7, <2>2 DEF IniDbConfig
  <2>5. ASSUME body # Absent
        PROVE  /\ AccountOf(body) = IF body.division = 0 THEN Absent ELSE division
               /\ ShardOf(body) = IF body.shard = 0 \/ shard = Absent
                                  THEN Absent ELSE shard.shard
               /\ AccountOf(body) \in Configs \cup {Absent}
               /\ ShardOf(body) \in Configs \cup {Absent}
    BY <2>3, <2>5 DEF AccountOf, ShardOf
  <2>6. dbConfig' \in DbConfigs BY <2>4, <2>5 DEF DbConfigs
  <2>7. dbMgr' \in {"connected", "failed"} /\ stage' \in {"running", "failed"}
    BY <1>7 DEF InitDbMgr
  <2>8. Typed'
    BY <1>1, <1>2, <1>5, <1>7, <2>6, <2>7 DEF MsgInv, Typed, TypeOK
  <2>9. DbFromCertification'
    <3>1. SubSeq(reads', 1, readsAt') = reads BY <1>1, <1>5, <1>7
    <3>2. CASE body = Absent
      <4>1. \A db \in DOMAIN dbConfig' : dbConfig'[db] = Absent BY <2>4, <3>2
      <4>2. QED BY <3>1, <3>2, <4>1, Zenon DEF DbFromCertification, body
    <3>3. CASE body # Absent
      <4>1. /\ dbConfig'.ACCOUNT = IF body.division = 0 THEN Absent ELSE division
            /\ dbConfig'.SHARD = IF body.shard = 0 \/ shard = Absent
                                 THEN Absent ELSE shard.shard
            /\ dbConfig'.LOG = Absent <=> dbConfig'.SHARD = Absent
        BY <2>4, <2>5, <3>3
      <4>2. QED
        BY <3>1, <3>3, <4>1, Zenon DEF DbFromCertification, body, division, shard
    <3>4. QED BY <3>2, <3>3
  <2>10. QED BY <1>3, <1>4, <2>8, <2>9 DEF MsgInv
<1>8. QED BY <1>6, <1>7 DEF init_localdata

(* A message that arrives, and one that is done with. *)
LEMMA DeliverStep == MsgInv /\ Deliver => MsgInv'
<1> SUFFICES ASSUME MsgInv, Deliver PROVE MsgInv'
  OBVIOUS
<1> DEFINE B == BOOLEAN
<1>0. PICK id \in MsgIDs, large \in B, cert \in Certs, cut \in B :
        \E n \in 0 .. Len(cert) :
          msg' = [id |-> id, large |-> large, entries |-> SubSeq(cert, 1, n),
                  cut |-> cut]
  BY Zenon DEF Deliver
<1>1. PICK n \in 0 .. Len(cert) :
        msg' = [id |-> id, large |-> large, entries |-> SubSeq(cert, 1, n), cut |-> cut]
  BY <1>0
<1> HIDE DEF B
<1>2. cert \in Seq(GoodEntries) BY CertificationAssumption DEF GoodEntries
<1>3. SubSeq(cert, 1, n) \in Seq(GoodEntries) BY <1>2
<1>4. GoodEntries \subseteq Entries BY DEF GoodEntries
<1>5. SubSeq(cert, 1, n) \in Seq(Entries) BY <1>3, <1>4
<1>6. msg' \in [id : MsgIDs, large : B, entries : Seq(Entries), cut : B]
      /\ msg'.entries \in Seq(GoodEntries)
  BY <1>1, <1>3, <1>5
<1>7. /\ at' = "validate" /\ alive' = TRUE /\ pos' = 0 /\ msgs' = msgs + 1
      /\ msgs < MaxMsgs /\ UNCHANGED <<ret, index, info, reads, stageVars>>
  BY DEF Deliver
<1>8. Typed'
  BY <1>6, <1>7, CertificationAssumption DEF MsgInv, Typed, TypeOK, Messages, B,
    stageVars
<1>9. MapsTell' /\ DbFromCertification' BY <1>7, SameMaps DEF stageVars
<1>10. Flow' /\ Indexed' BY <1>7 DEF Flow, Indexed
<1>11. QED BY <1>8, <1>9, <1>10 DEF MsgInv

LEMMA IgnoreStep ==
  ASSUME MsgInv, Ignore, UNCHANGED <<stageVars, info, reads>>
  PROVE  MsgInv'
<1> DEFINE B == BOOLEAN
<1>1. FALSE \in B /\ TRUE \in B OBVIOUS
<1> HIDE DEF B
<1>2. /\ at' = "idle" /\ ret' = "idle" /\ msg' = NoMsg /\ alive' = FALSE
      /\ pos' = 0 /\ index' = 0 /\ msgs' = msgs
  BY DEF Ignore
<1>e. <<>> \in Seq(GoodEntries) /\ <<>> \in Seq(Entries) /\ Len(<<>>) = 0
  OBVIOUS
<1>3. /\ msg' \in [id : MsgIDs, large : B, entries : Seq(Entries), cut : B]
      /\ msg'.entries = <<>>
  BY <1>1, <1>2, <1>e DEF NoMsg, MsgIDs
<1>4. alive' \in B /\ index' \in 0 .. IndexWrap - 1
      /\ pos' \in 0 .. Len(msg'.entries) + 1
  <2>1. 0 \in 0 .. IndexWrap - 1 BY CertificationAssumption
  <2>2. 0 \in 0 .. Len(msg'.entries) + 1 BY <1>3, <1>e
  <2>3. QED BY <1>1, <1>2, <2>1, <2>2
<1>5. Typed'
  BY <1>2, <1>3, <1>4, <1>e DEF MsgInv, Typed, TypeOK, Messages, B, stageVars
<1>6. MapsTell' /\ DbFromCertification' BY SameMaps DEF stageVars
<1>7. Flow' /\ Indexed' BY <1>2 DEF Flow, Indexed
<1>8. QED BY <1>5, <1>6, <1>7 DEF MsgInv

(* The hooks and the handlers, up to where CustomMsg reads. *)
LEMMA HookStep ==
  ASSUME MsgInv,
         \/ check_valid_msgid \/ FilterMsg \/ HostHandles
         \/ StartReading \/ DeleteMsg \/ ReadDone \/ ReadThrows
  PROVE  MsgInv'
<1>0. /\ at \in {"idle", "validate", "dispatch", "custom", "read", "host"}
      /\ ret \in {"host", "idle"} /\ msg.entries \in Seq(GoodEntries)
      /\ pos \in 0 .. Len(msg.entries) + 1 /\ Len(msg.entries) \in Nat
      /\ index \in 0 .. IndexWrap - 1 /\ 0 \in 0 .. IndexWrap - 1 /\ msgs \in 0 .. MaxMsgs
      /\ stage \in {"loaded", "main", "module", "running", "failed", "crashed", "host"}
  BY CertificationAssumption DEF MsgInv, Typed, TypeOK
<1>b. alive \in BOOLEAN BY Zenon DEF MsgInv, Typed, TypeOK
<1>1. CASE Ignore /\ UNCHANGED <<stageVars, info, reads>> BY <1>1, IgnoreStep
<1>2. ASSUME UNCHANGED <<stageVars, info, reads, msg, alive, msgs>>,
             at' \in {"idle", "validate", "dispatch", "custom", "read", "host"},
             ret' \in {"host", "idle"}, pos' \in 0 .. Len(msg.entries) + 1,
             index' \in 0 .. IndexWrap - 1, Flow', Indexed'
      PROVE  MsgInv'
  <2>1. alive' \in BOOLEAN BY <1>2, <1>b
  <2>2. Typed' BY <1>0, <1>2, <2>1, SameTypes DEF stageVars
  <2>3. MapsTell' /\ DbFromCertification' BY <1>2, SameMaps DEF stageVars
  <2>4. QED BY <1>2, <2>2, <2>3 DEF MsgInv
<1>3. CASE check_valid_msgid
  <2>1. CASE at' = "dispatch" /\ UNCHANGED <<ret, msg, alive, pos, index, msgs>>
             /\ at = "validate" /\ UNCHANGED <<stageVars, info, reads>>
    <3>1. Flow' /\ Indexed' BY <2>1 DEF MsgInv, Flow, Indexed
    <3>2. QED BY <1>0, <1>2, <2>1, <3>1
  <2>2. QED BY <1>1, <1>3, <2>1 DEF check_valid_msgid
<1>4. CASE FilterMsg
  <2>1. Flow' /\ Indexed'
    BY <1>4 DEF FilterMsg, MsgInv, Flow, Indexed, IsCertification
  <2>2. QED BY <1>0, <1>2, <1>4, <2>1 DEF FilterMsg
<1>5. CASE HostHandles
  <2>1. CASE at = "host" /\ at' = "custom" /\ ret' = "idle"
             /\ UNCHANGED <<msg, alive, pos, index, msgs, stageVars, info, reads>>
    <3>1. Flow' /\ Indexed' BY <2>1 DEF MsgInv, Flow, Indexed
    <3>2. QED BY <1>0, <1>2, <2>1, <3>1
  <2>2. QED BY <1>1, <1>5, <2>1 DEF HostHandles
<1>6. CASE StartReading
  <2>1. FarmContents(0) = {} BY DEF FarmContents
  <2>2. 0 = 0 % IndexWrap BY CertificationAssumption, Z3
  <2>3. /\ at = "custom" /\ at' = "read" /\ pos' = 1 /\ index' = 0 /\ IsCertification
        /\ UNCHANGED <<stageVars, info, ret, msg, alive, msgs, reads>>
    BY <1>6 DEF StartReading, IsCertification
  <2>4. FarmContents(pos - 1)' = {} BY <2>1, <2>3 DEF FarmContents
  <2>5. Indexed' BY <2>2, <2>3, <2>4, FS_EmptySet DEF Indexed
  <2>6. Flow' BY <2>3 DEF MsgInv, Flow, IsCertification
  <2>7. QED BY <1>0, <1>2, <2>3, <2>5, <2>6
<1>7. CASE DeleteMsg
  <2>1. ret # "host" BY <1>7 DEF DeleteMsg, MsgInv, Flow, IsCertification
  <2>2. QED BY <1>1, <1>7, <2>1 DEF DeleteMsg
<1>8. CASE ReadDone
  <2>1. Flow' /\ Indexed'
    BY <1>0, <1>8 DEF ReadDone, MsgInv, Flow, Indexed, IsCertification
  <2>2. QED BY <1>0, <1>2, <1>8, <2>1 DEF ReadDone
<1>9. CASE ReadThrows BY <1>1, <1>9 DEF ReadThrows
<1>10. QED BY <1>3, <1>4, <1>5, <1>6, <1>7, <1>8, <1>9

(* An entry is read: its record is the last of its key, FarmContent's by its place. *)
LEMMA EntryStep == MsgInv /\ ReadEntry => MsgInv'
<1> SUFFICES ASSUME MsgInv, ReadEntry PROVE MsgInv'
  OBVIOUS
<1> DEFINE e == msg.entries[pos]
           r == [list |-> e.list, value |-> e.value, key |-> e.key, place |-> Place(pos)]
           before == Cardinality(FarmContents(pos - 1))
           Told == /\ info' \in Maps /\ reads' \in Seq(GoodReads)
                   /\ Len(reads') \in Nat /\ Len(reads') >= Len(reads)
                   /\ SubSeq(reads', 1, readsAt) = SubSeq(reads, 1, readsAt)
                   /\ MapsTell'
<1>1. /\ at = "read" /\ pos \in 1 .. Len(msg.entries) /\ pos' = pos + 1
      /\ UNCHANGED <<stageVars, at, ret, msg, alive, msgs>>
      /\ msg.entries \in Seq(GoodEntries) /\ reads \in Seq(GoodReads)
      /\ index \in 0 .. IndexWrap - 1
  BY DEF ReadEntry, MsgInv, Typed, TypeOK, Flow
<1>2. e \in GoodEntries /\ e \in Entries BY <1>1 DEF GoodEntries
<1>e. e.list \in ListNames /\ e.key \in Keys /\ e.value \in Values
      /\ e.value \in ValuesOf(e.list)
  BY <1>2 DEF GoodEntries, Entries
<1>3. before \in Nat /\ index = before % IndexWrap
  BY <1>1, CountNext DEF MsgInv, Indexed
<1>4. index' = NextIndex(e) BY DEF ReadEntry
<1>5. Place(pos) \in Nat /\ (e.list = "FarmContent" => Place(pos) = before)
  <2>1. {j \in 1 .. pos - 1 : msg.entries[j].list = msg.entries[pos].list}
          \subseteq 1 .. pos - 1
    OBVIOUS
  <2>2. IsFiniteSet(1 .. pos - 1) BY <1>1, FS_Interval
  <2>3. Place(pos) \in Nat BY <2>1, <2>2, FS_Subset, FS_CardinalityType DEF Place
  <2>4. QED BY <2>3 DEF Place, FarmContents
<1>6. ASSUME e.record, PutRecord(e), reads' = Append(reads, r)
      PROVE  Told
  <2>1. r \in GoodReads /\ r.list = e.list /\ r.value = e.value
        /\ ReadKey(r) = KeyOf(e) /\ KeyOf(e) \in Keys
    BY <1>1, <1>3, <1>5, <1>e, CertificationAssumption DEF GoodReads, ReadKey, KeyOf
  <2> HIDE DEF r, e
  <2>2. info' = [info EXCEPT ![<<e.list, KeyOf(e)>>] = e.value]
    BY <1>6 DEF PutRecord
  <2>3. info \in [ListNames \X Keys -> Values \cup {Absent}]
    BY DEF MsgInv, Typed, TypeOK, Maps
  <2>4. info' \in [ListNames \X Keys -> Values \cup {Absent}] BY <1>e, <2>2, <2>3
  <2>5. ASSUME NEW lk \in ListNames \X Keys
        PROVE  info'[lk] = LastRead(reads', lk[1], lk[2])
    <3>1. info[lk] = LastRead(reads, lk[1], lk[2]) BY DEF MsgInv, MapsTell
    <3>2. LastRead(reads', lk[1], lk[2]) =
            IF r.list = lk[1] /\ ReadKey(r) = lk[2] THEN r.value
            ELSE LastRead(reads, lk[1], lk[2])
      BY <1>1, <1>6, <2>1, LastReadAppend
    <3>3. lk = <<lk[1], lk[2]>> OBVIOUS
    <3>4. CASE lk = <<e.list, KeyOf(e)>>
      BY <1>e, <2>1, <2>2, <2>3, <3>2, <3>4
    <3>5. CASE lk # <<e.list, KeyOf(e)>>
      BY <1>e, <2>1, <2>2, <2>3, <3>1, <3>2, <3>3, <3>5
    <3>6. QED BY <3>4, <3>5
  <2>6. reads' \in Seq(GoodReads) /\ Len(reads') = Len(reads) + 1
        /\ Len(reads) \in Nat
    BY <1>1, <1>6, <2>1
  <2>7. SubSeq(reads', 1, readsAt) = SubSeq(reads, 1, readsAt)
    <3>1. readsAt \in 0 .. Len(reads) BY DEF MsgInv, Typed, TypeOK
    <3>2. \A i \in 1 .. readsAt : reads'[i] = reads[i] BY <1>1, <1>6, <2>1, <3>1
    <3>3. QED BY <1>1, <2>6, <3>1, <3>2
  <2>8. MapsTell' BY <2>5 DEF MapsTell
  <2>9. info' \in Maps BY <2>4 DEF Maps
  <2>10. Len(reads') \in Nat /\ Len(reads') >= Len(reads) BY <2>6
  <2>11. QED BY <2>6, <2>7, <2>8, <2>9, <2>10, Zenon
<1>7. ASSUME UNCHANGED <<info, reads>>
      PROVE  Told
  <2>1. MapsTell' BY <1>7 DEF MsgInv, MapsTell
  <2>2. info \in Maps /\ Len(reads) \in Nat BY <1>1 DEF MsgInv, Typed, TypeOK
  <2>3. QED BY <1>1, <1>7, <2>1, <2>2
<1>8. Told
  <2> HIDE DEF Told
  <2>1. QED BY <1>6, <1>7 DEF ReadEntry
<1>9. Indexed' /\ index' \in 0 .. IndexWrap - 1
  <2>1. FarmContents(pos - 1)' = FarmContents(pos) BY <1>1 DEF FarmContents
  <2>2. CASE e.list = "FarmContent"
    <3>1. Cardinality(FarmContents(pos)) = before + 1
      BY <1>1, <2>2, CountNext
    <3>2. index' = (index + 1) % IndexWrap BY <1>4, <2>2 DEF NextIndex
    <3> HIDE DEF before
    <3>3. index' = (before + 1) % IndexWrap
      BY <1>3, <3>2, NextResidue, CertificationAssumption
    <3>4. (before + 1) % IndexWrap \in 0 .. IndexWrap - 1
      BY <1>3, CertificationAssumption, Z3
    <3>5. QED BY <2>1, <3>1, <3>3, <3>4 DEF Indexed
  <2>3. CASE e.list # "FarmContent"
    <3>1. Cardinality(FarmContents(pos)) = before
      BY <1>1, <2>3, CountNext
    <3>2. index' = index BY <1>4, <2>3 DEF NextIndex
    <3>3. QED BY <1>1, <1>3, <2>1, <3>1, <3>2 DEF Indexed
  <2>4. QED BY <2>2, <2>3
<1>10. Flow' BY <1>1 DEF MsgInv, Flow, IsCertification
<1>11. DbFromCertification'
  BY <1>1, <1>8 DEF MsgInv, DbFromCertification, stageVars
<1>12. Typed'
  BY <1>1, <1>8, <1>9 DEF MsgInv, Typed, TypeOK, stageVars
<1>13. QED BY <1>8, <1>9, <1>10, <1>11, <1>12 DEF MsgInv

LEMMA MsgAlways == Spec => []MsgInv
<1>1. MsgInv /\ [Next]_vars => MsgInv'
  <2> SUFFICES ASSUME MsgInv, [Next]_vars PROVE MsgInv'
    OBVIOUS
  <2>1. CASE Loader \/ WinMain \/ init_module
             \/ \E name \in Names : SendMsgToServerBody(name)
    BY <2>1, StartStep
  <2>2. CASE init_localdata BY <2>2, ConfigStep
  <2>3. CASE Deliver BY <2>3, DeliverStep
  <2>4. CASE check_valid_msgid \/ HandleMsg \/ ProcessFilteredMsg \/ HostHandles
    BY <2>4, HookStep DEF HandleMsg, ProcessFilteredMsg
  <2>5. CASE CustomMsg BY <2>5, HookStep, EntryStep DEF CustomMsg
  <2>6. CASE UNCHANGED vars
    <3>1. UNCHANGED <<stage, info, dbConfig, dbMgr, at, ret, msg, alive, pos, index,
                      msgs, reads, readsAt>>
      BY <2>6 DEF vars, stageVars, msgVars
    <3>2. Typed' BY <3>1 DEF MsgInv, Typed, TypeOK
    <3>3. MapsTell' /\ DbFromCertification' BY <3>1, SameMaps
    <3>4. Flow' /\ Indexed'
      BY <3>1 DEF MsgInv, Flow, Indexed, IsCertification, FarmContents
    <3>5. QED BY <3>2, <3>3, <3>4 DEF MsgInv
  <2>7. QED
    BY <2>1, <2>2, <2>3, <2>4, <2>5, <2>6 DEF Next, AgentServer_CustomMsg,
      DownloadServer_CustomMsg, FarmManager_CustomMsg, GatewayServer_CustomMsg,
      GlobalManager_CustomMsg, MachineManager_CustomMsg, GameServer_CustomMsg,
      ShardManager_CustomMsg
<1>2. QED BY MsgInit, <1>1, PTL DEF Spec

-----------------------------------------------------------------------------
(* For any certifications: the host's own handler gets a message alive and
   read from its start, since both hooks hand a certification to CustomMsg,
   which returns it unread, and nothing else that it would delete
   (HandleMsg, ProcessFilteredMsg, MainProcess.cpp CustomMsg). *)
THEOREM HostGetsItWholeAlways == Spec => []HostGetsItWhole
<1>1. MsgInv => HostGetsItWhole BY DEF MsgInv, Flow, HostGetsItWhole
<1>2. QED BY <1>1, MsgAlways, PTL

(* For any certifications, whole, repeated or cut off: each of the nine maps
   holds under a key the value of the last record read for it, FarmContent's
   counted modulo the period of its BYTE index (CMainProcess::CustomMsg). *)
THEOREM LatestWinsAlways == Spec => []LatestWins
<1>1. MsgInv => LatestWins BY DEF MsgInv, Typed, MapsTell, LatestWins
<1>2. QED BY <1>1, MsgAlways, PTL

(* For any certifications: the databases opened are those of the records that
   had been read last when init_localdata ran (IniDbConfig). *)
THEOREM DbFromCertificationAlways == Spec => []DbFromCertification
<1>1. MsgInv => DbFromCertification BY DEF MsgInv
<1>2. QED BY <1>1, MsgAlways, PTL

(* For any certifications: a module's message goes to bodies whose last record
   names a module of that name, and to all of them when the name has one ID
   (GetServerBodyIDByModuleName). *)
THEOREM RoutesFollowAlways == Spec => []RoutesFollowCertification
<1>1. MsgInv => RoutesFollowCertification
  <2> SUFFICES ASSUME MsgInv, NEW name \in Names
      PROVE
        LET named == {k \in Keys : LastRead(reads, "Module", k) = name}
            bodies == {b \in Keys :
                         LET body == LastRead(reads, "ServerBody", b)
                         IN body # Absent /\ body.module \in named}
        IN /\ Cardinality(named) = 1 => GetServerBodyIDByModuleName(name) = bodies
           /\ GetServerBodyIDByModuleName(name) \subseteq bodies
    BY DEF RoutesFollowCertification
  <2> DEFINE named == {k \in Keys : LastRead(reads, "Module", k) = name}
             Body(b) == LastRead(reads, "ServerBody", b)
             bodies == {b \in Keys : Body(b) # Absent /\ Body(b).module \in named}
             to == GetServerBodyIDByModuleName(name)
  <2>1. \A k \in Keys : /\ Find("Module", k) = LastRead(reads, "Module", k)
                        /\ Find("ServerBody", k) = Body(k)
    BY ListsTyped DEF MsgInv, MapsTell, Find
  <2>2. ModulesNamed(name) = named BY <2>1 DEF ModulesNamed
  <2>3. CASE named = {}
    <3>1. to = {} BY <2>2, <2>3 DEF GetServerBodyIDByModuleName
    <3>2. Cardinality(named) = 0 BY <2>3, FS_EmptySet
    <3>3. QED BY <3>1, <3>2
  <2>4. CASE named # {}
    <3> DEFINE first == FirstModule(name)
    <3>1. \E k \in named : \A j \in named : k <= j
      <4>1. named \subseteq Nat BY CertificationAssumption
      <4>2. QED BY <2>4, <4>1, LeastNumber
    <3>2. first \in named BY <2>2, <3>1 DEF FirstModule
    <3>3. to = BodiesOf(first) BY <2>2, <2>4 DEF GetServerBodyIDByModuleName
    <3> HIDE DEF first, to
    <3>4. to = {b \in Keys : Body(b) # Absent /\ Body(b).module = first}
      BY <2>1, <3>3 DEF BodiesOf
    <3> HIDE DEF Body
    <3>5. to \subseteq bodies BY <3>2, <3>4
    <3>6. ASSUME Cardinality(named) = 1 PROVE to = bodies
      <4>1. IsFiniteSet(named) BY CertificationAssumption, FS_Subset
      <4>2. named = {first} BY <3>2, <3>6, <4>1, FS_Singleton
      <4>3. QED BY <3>4, <4>2
    <3>7. QED BY <3>5, <3>6 DEF Body, to
  <2>5. QED BY <2>3, <2>4
<1>2. QED BY <1>1, MsgAlways, PTL

===============================================================================
