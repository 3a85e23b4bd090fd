----------------------------- MODULE ServerModule -----------------------------
(***************************************************************************)
(* One of the eight server processes with the framework hooked into it:    *)
(* the start of the module once HydraInit has patched it, the              *)
(* certification message the hooks read on its way to the host's own       *)
(* handler, the maps it fills (sCertificationBody of CHydraProcess), and   *)
(* what is read from them later: the database configuration and the bodies *)
(* a message is routed to.                                                 *)
(*                                                                         *)
(* The host (not in the repository) is what delivers messages and calls    *)
(* the hooked functions, all on one thread.  Of the certification's        *)
(* records only keys and what the code looks up again are kept; the value  *)
(* of any other record is its version.  reads is history: every record     *)
(* read, with its place in its list.                                       *)
(***************************************************************************)
EXTENDS HydraInit, Integers

CONSTANTS
  Keys,       \* IDs of bodies, modules, divisions, shards; 0 stands for none
  Versions,   \* values of the records nothing is looked up in
  Names,      \* module names
  Configs,    \* connection strings
  Certs,      \* the contents of the certifications that may arrive
  Me,         \* GetMyServerBodyID()
  IndexWrap,  \* 2^8, the period of the BYTE index of FarmContent
  MaxMsgs,    \* bound: how many messages the host delivers
  Absent      \* no entry in a map, no configuration

Lists == <<"ServerBody", "Module", "Content", "Division", "FarmContent",
           "Farm", "ServerMachine", "ServerCord", "Shard">>
ListNames == {Lists[i] : i \in 1 .. Len(Lists)}

\* The dispatch of some servers is detoured, the others hook the vftable entry.
\* DownloadServer registers no handlers, MachineManager no message filter, and
\* only the detoured servers open databases.
HandlesServerOnly == Servers \ {"DownloadServer"}
FiltersMsgID      == Servers \ {"MachineManager"}
OpensDb           == Detoured

Bodies == [division : Keys, module : Keys, shard : Keys]

\* What the records of a list say.
ValuesOf(list) ==
  CASE list = "ServerBody" -> Bodies
    [] list = "Module"     -> Names
    [] list = "Division"   -> Configs
    [] list = "Shard"      -> [shard : Configs, log : Configs]
    [] OTHER               -> Versions

Values == UNION {ValuesOf(list) : list \in ListNames}

\* record: the flag before the entry is 1; FALSE for any other flag but the end's,
\* which the lists skip.
Entries == [list : ListNames, record : BOOLEAN, key : Keys, value : Values]

ASSUME CertificationAssumption ==
  /\ Keys \subseteq Nat /\ IsFiniteSet(Keys)
  /\ 0 \in Keys /\ Me \in Keys \ {0}
  /\ Certs \subseteq Seq({e \in Entries : e.value \in ValuesOf(e.list)})
  /\ IndexWrap \in Nat \ {0} /\ 0 .. IndexWrap - 1 \subseteq Keys
  /\ Absent \notin Values
  /\ MaxMsgs \in Nat

VARIABLES
  stage,    \* how far the module has been started
  info,     \* m_ServerInfo: the nine maps
  dbConfig, \* m_dbConfig
  dbMgr,    \* m_DbMgr
  at,       \* what is being done with the message in hand
  ret,      \* where CustomMsg returns to
  msg,      \* the message in hand
  alive,    \* it has not been deleted
  pos,      \* its next unread entry, 0 for a read position as it came
  index,    \* the local index of CustomMsg
  msgs,     \* messages delivered so far
  reads,    \* history: the records read from all messages
  readsAt   \* history: how many there were when IniDbConfig ran

msgVars   == <<at, ret, msg, alive, pos, index, msgs>>
stageVars == <<stage, dbConfig, dbMgr, readsAt>>
hostVars == <<server, loaderVars>>
vars == <<hostVars, stageVars, info, msgVars, reads>>

MsgIDs == {"MODULE_CERTIFICATION_ACK", "SERVER_ONLY_REQ", "SERVER_ONLY_ACK", "other"}
ServerOnly == {"SERVER_ONLY_REQ", "SERVER_ONLY_ACK"}

\* large: GetMsgSize() > 1024; cut: the message ends behind its last entry.
Messages == [id : MsgIDs, large : BOOLEAN, entries : Seq(Entries), cut : BOOLEAN]
NoMsg == [id |-> "other", large |-> FALSE, entries |-> <<>>, cut |-> FALSE]

Maps == [ListNames \X Keys -> Values \cup {Absent}]
DbConfigs == [ACCOUNT : Configs \cup {Absent}, SHARD : Configs \cup {Absent},
              LOG : Configs \cup {Absent}]

TypeOK ==
  /\ stage \in {"loaded", "main", "module", "running", "failed", "crashed", "host"}
  /\ info \in Maps
  /\ dbConfig \in DbConfigs
  /\ dbMgr \in {"null", "connected", "failed"}
  /\ at \in {"idle", "validate", "dispatch", "custom", "read", "host"}
  /\ ret \in {"host", "idle"}
  /\ msg \in Messages
  /\ alive \in BOOLEAN
  /\ pos \in 0 .. Len(msg.entries) + 1
  /\ index \in 0 .. IndexWrap - 1
  /\ msgs \in 0 .. MaxMsgs
  /\ readsAt \in 0 .. Len(reads)

Init ==
  /\ DllMain
  /\ stage = "loaded"
  /\ info = [lk \in ListNames \X Keys |-> Absent]
  /\ dbConfig = [ACCOUNT |-> Absent, SHARD |-> Absent, LOG |-> Absent]
  /\ dbMgr = "null"
  /\ at = "idle" /\ ret = "idle" /\ msg = NoMsg /\ alive = FALSE
  /\ pos = 0 /\ index = 0 /\ msgs = 0
  /\ reads = <<>> /\ readsAt = 0

-----------------------------------------------------------------------------
(* The start of the module. *)

\* g_pVanguard is tested by the address of a reference, which is null where no
\* Vanguard DLL was found: undefined, the test fails or the call is made.  What
\* InitDll returns is not looked at.
InitDll ==
  stage' \in IF vanguard = "none" /\ server # "MachineManager"
            THEN {"main", "crashed"} ELSE {"main"}

\* The main thread enters WinMain: the host's own, "host", which is not followed
\* further, when the patches are not complete.  With wrong credentials, or none,
\* the databases cannot be connected.  Bound: the hook is followed from a state
\* in which all threads have their command lines; asking later changes nothing.
WinMain ==
  /\ stage = "loaded" /\ asking[Main] = "got" /\ ~terminated
  /\ IF server \in Servers /\ patched = Patches(server)
     THEN InitDll /\ \A t \in Threads : asking[t] = "got"
     ELSE stage' = "host"
  /\ UNCHANGED <<hostVars, dbConfig, dbMgr, readsAt, info, msgVars, reads>>

\* Bound: what the loader does is followed until the main thread enters WinMain.
Loader ==
  /\ stage = "loaded"
  /\ LoaderStep
  /\ UNCHANGED <<stageVars, info, msgVars, reads>>

\* CHydraProcess is created; from here on the host delivers messages.
init_module ==
  /\ stage = "main"
  /\ stage' = "module"
  /\ UNCHANGED <<hostVars, dbConfig, dbMgr, readsAt, info, msgVars, reads>>

Find(list, key) == info[<<list, key>>]

\* Mutant: the division looked up by the shard's ID.
AccountOfShard(body) ==
  IF body.division = 0 THEN Absent ELSE Find("Division", body.shard)

AccountOf(body) ==
  IF body.division = 0 THEN Absent ELSE Find("Division", body.division)

ShardOf(body) ==
  IF body.shard = 0 \/ Find("Shard", body.shard) = Absent
  THEN Absent ELSE Find("Shard", body.shard).shard

IniDbConfig(id) ==
  dbConfig' =
    IF Find("ServerBody", id) = Absent
    THEN [ACCOUNT |-> Absent, SHARD |-> Absent, LOG |-> Absent]
    ELSE LET body == Find("ServerBody", id)
         IN [ACCOUNT |-> AccountOf(body),
             SHARD   |-> ShardOf(body),
             LOG     |-> ShardOf(body)]

\* Databases that are not configured are skipped; one that is may be down.
InitDbMgr ==
  \/ dbMgr' = "connected" /\ stage' = "running"
  \/ /\ \E db \in DOMAIN dbConfig' : dbConfig'[db] # Absent
     /\ dbMgr' = "failed" /\ stage' = "failed"

init_localdata ==
  /\ stage = "module" /\ at = "idle"
  /\ \/ /\ server \in OpensDb
        /\ IniDbConfig(Me)
        /\ InitDbMgr
        /\ readsAt' = Len(reads)
     \/ /\ server \notin OpensDb
        /\ stage' = "running"
        /\ UNCHANGED <<dbConfig, dbMgr, readsAt>>
  /\ UNCHANGED <<hostVars, info, msgVars, reads>>

-----------------------------------------------------------------------------
(* A message on its way through the hooks. *)

\* A message arrives; a certification may be cut off anywhere.
Deliver ==
  /\ stage \in {"module", "running"} /\ at = "idle" /\ msgs < MaxMsgs
  /\ \E id \in MsgIDs, large \in BOOLEAN, cert \in Certs, cut \in BOOLEAN :
       \E n \in 0 .. Len(cert) :
         /\ ~cut => n = Len(cert)
         /\ id # "MODULE_CERTIFICATION_ACK" \/ ~large => n = 0 /\ cut
         /\ msg' = [id |-> id, large |-> large,
                    entries |-> SubSeq(cert, 1, n), cut |-> cut]
  /\ at' = "validate"
  /\ alive' = TRUE /\ pos' = 0 /\ msgs' = msgs + 1
  /\ UNCHANGED <<hostVars, stageVars, info, ret, index, reads>>

Ignore ==
  /\ at' = "idle" /\ ret' = "idle"
  /\ msg' = NoMsg /\ alive' = FALSE /\ pos' = 0 /\ index' = 0
  /\ UNCHANGED msgs

\* The filter lets its own IDs pass and leaves the others to the host's.
check_valid_msgid ==
  /\ at = "validate"
  /\ \/ at' = "dispatch" /\ UNCHANGED <<ret, msg, alive, pos, index, msgs>>
     \/ /\ server \notin FiltersMsgID \/ msg.id \notin ServerOnly
        /\ Ignore
  /\ UNCHANGED <<hostVars, stageVars, info, reads>>

\* Mutant: every certification is taken for a long one.
IsCertificationOfAnySize == msg.id = "MODULE_CERTIFICATION_ACK"

IsCertification == msg.id = "MODULE_CERTIFICATION_ACK" /\ msg.large

FilterMsg ==
  /\ at = "dispatch"
  /\ \/ IsCertification /\ at' = "custom" /\ ret' = "host"
     \/ ~IsCertification /\ at' = "host" /\ UNCHANGED ret
  /\ UNCHANGED <<hostVars, stageVars, info, msg, alive, pos, index, msgs, reads>>

HandleMsg          == server \in Hooked /\ FilterMsg
ProcessFilteredMsg == server \in Detoured /\ FilterMsg

\* The host reads the message, or calls the handler registered for its ID.
HostHandles ==
  /\ at = "host"
  /\ \/ /\ server \in HandlesServerOnly /\ msg.id \in ServerOnly
        /\ at' = "custom" /\ ret' = "idle"
        /\ UNCHANGED <<msg, alive, pos, index, msgs>>
     \/ /\ server \notin HandlesServerOnly \/ msg.id \notin ServerOnly
        /\ Ignore
  /\ UNCHANGED <<hostVars, stageVars, info, reads>>

-----------------------------------------------------------------------------
(* CMainProcess::CustomMsg. *)

StartReading ==
  /\ at = "custom" /\ msg.id = "MODULE_CERTIFICATION_ACK" /\ msg.large
  /\ at' = "read" /\ pos' = 1 /\ index' = 0
  /\ UNCHANGED <<hostVars, stageVars, info, ret, msg, alive, msgs, reads>>

\* Every other message ends here: DELMSG.
DeleteMsg ==
  /\ at = "custom" /\ ~(msg.id = "MODULE_CERTIFICATION_ACK" /\ msg.large)
  /\ \/ ret = "host" /\ at' = "host" /\ alive' = FALSE
        /\ UNCHANGED <<ret, msg, pos, index, msgs>>
     \/ ret = "idle" /\ Ignore
  /\ UNCHANGED <<hostVars, stageVars, info, reads>>

\* Where an entry is kept: by its ID, or, FarmContent, by its place in the list.
KeyOf(e) == IF e.list = "FarmContent" THEN index ELSE e.key

NextIndex(e) ==
  IF e.list = "FarmContent" THEN (index + 1) % IndexWrap ELSE index

\* Mutant: map::insert, which keeps what is there.
InsertRecord(e) ==
  info' = [info EXCEPT ![<<e.list, KeyOf(e)>>] = IF @ = Absent THEN e.value ELSE @]

PutRecord(e) == info' = [info EXCEPT ![<<e.list, KeyOf(e)>>] = e.value]

Place(i) ==
  Cardinality({j \in 1 .. i - 1 : msg.entries[j].list = msg.entries[i].list})

ReadEntry ==
  /\ at = "read" /\ pos <= Len(msg.entries)
  /\ LET e == msg.entries[pos]
     IN /\ \/ /\ e.record
              /\ PutRecord(e)
              /\ reads' = Append(reads, [list |-> e.list, value |-> e.value,
                                         key |-> e.key, place |-> Place(pos)])
           \/ ~e.record /\ UNCHANGED <<info, reads>>
        /\ index' = NextIndex(e)
  /\ pos' = pos + 1
  /\ UNCHANGED <<hostVars, stageVars, at, ret, msg, alive, msgs>>

\* All nine lists are read: ResetPos, and on to the host.
ReadDone ==
  /\ at = "read" /\ pos > Len(msg.entries) /\ ~msg.cut
  /\ at' = ret /\ pos' = 0
  /\ UNCHANGED <<hostVars, stageVars, info, ret, msg, alive, index, msgs, reads>>

\* A CMsgException leaves CustomMsg and the hook; the message is lost.
ReadThrows ==
  /\ at = "read" /\ pos > Len(msg.entries) /\ msg.cut
  /\ Ignore
  /\ UNCHANGED <<hostVars, stageVars, info, reads>>

CustomMsg == StartReading \/ DeleteMsg \/ ReadEntry \/ ReadDone \/ ReadThrows

AgentServer_CustomMsg    == server = "AgentServer" /\ CustomMsg
DownloadServer_CustomMsg == server = "DownloadServer" /\ CustomMsg
FarmManager_CustomMsg    == server = "FarmManager" /\ CustomMsg
GatewayServer_CustomMsg  == server = "GatewayServer" /\ CustomMsg
GlobalManager_CustomMsg  == server = "GlobalManager" /\ CustomMsg
MachineManager_CustomMsg == server = "MachineManager" /\ CustomMsg
GameServer_CustomMsg     == server = "SR_GameServer" /\ CustomMsg
ShardManager_CustomMsg   == server = "SR_ShardManager" /\ CustomMsg

-----------------------------------------------------------------------------
(* Routing. *)

ModulesNamed(name) == {k \in Keys : Find("Module", k) = name}

\* The map is searched in the order of its keys.
FirstModule(name) ==
  CHOOSE k \in ModulesNamed(name) : \A j \in ModulesNamed(name) : k <= j

\* Mutant: the module ID is compared with the ID of the body.
BodiesNumbered(module) ==
  {b \in Keys : /\ Find("ServerBody", b) # Absent
                /\ b = module}

BodiesOf(module) ==
  {b \in Keys : /\ Find("ServerBody", b) # Absent
                /\ Find("ServerBody", b).module = module}

GetServerBodyIDByModuleName(name) ==
  IF ModulesNamed(name) = {} THEN {} ELSE BodiesOf(FirstModule(name))

\* A known name changes nothing here.  An unknown one is logged as a std::string
\* passed for a %s: undefined, at best a line of garbage.
SendMsgToServerBody(name) ==
  /\ stage \in {"module", "running"} /\ at = "idle"
  /\ ModulesNamed(name) = {}
  /\ stage' \in {stage, "crashed"}
  /\ UNCHANGED <<hostVars, dbConfig, dbMgr, readsAt, info, msgVars, reads>>

Next ==
  \/ Loader \/ WinMain \/ init_module \/ init_localdata
  \/ Deliver \/ check_valid_msgid \/ HandleMsg \/ ProcessFilteredMsg \/ HostHandles
  \/ AgentServer_CustomMsg \/ DownloadServer_CustomMsg \/ FarmManager_CustomMsg
  \/ GatewayServer_CustomMsg \/ GlobalManager_CustomMsg
  \/ MachineManager_CustomMsg \/ GameServer_CustomMsg \/ ShardManager_CustomMsg
  \/ \E name \in Names : SendMsgToServerBody(name)

Spec == Init /\ [][Next]_vars

-----------------------------------------------------------------------------
(* Properties. *)

ReadKey(r) == IF r.list = "FarmContent" THEN r.place % IndexWrap ELSE r.key

\* What the records read say of a key: the last one counts.
LastRead(rs, list, key) ==
  LET found == {i \in DOMAIN rs : rs[i].list = list /\ ReadKey(rs[i]) = key}
  IN IF found = {} THEN Absent ELSE rs[Max(found)].value

\* Across certifications, whole, repeated or cut off in the middle, and across
\* entries that are skipped, each of the nine maps holds under a key what the
\* last record read for it said, and nothing else (CustomMsg).
LatestWins ==
  /\ TypeOK
  /\ \A lk \in ListNames \X Keys : info[lk] = LastRead(reads, lk[1], lk[2])

\* The host's own handler gets the messages the hooks have looked into as they
\* came: not deleted and read from the start (HandleMsg, ProcessFilteredMsg and
\* CustomMsg agree on which message is a certification).
HostGetsItWhole ==
  at = "host" => alive /\ pos = 0

\* The databases a server opens are those the certification assigned to it when
\* init_localdata ran: the account database of its body's division and the
\* shard database of its body's shard, by the last record of each, and none
\* that a certification of that time did not name (IniDbConfig).  There is a log
\* database exactly when there is a shard database; which one is left out, for
\* the code takes DbConfigShard where it should take DbConfigLog.
DbFromCertification ==
  LET then == SubSeq(reads, 1, readsAt)
      body == LastRead(then, "ServerBody", Me)
      division == LastRead(then, "Division", body.division)
      shard    == LastRead(then, "Shard", body.shard)
  IN dbMgr # "null" =>
       IF body = Absent
       THEN \A db \in DOMAIN dbConfig : dbConfig[db] = Absent
       ELSE /\ dbConfig.ACCOUNT = IF body.division = 0 THEN Absent ELSE division
            /\ dbConfig.SHARD = IF body.shard = 0 \/ shard = Absent
                                THEN Absent ELSE shard.shard
            /\ dbConfig.LOG = Absent <=> dbConfig.SHARD = Absent

\* A message for a module goes to the bodies whose last record names it, as long
\* as only one module ID was last read with that name
\* (GetServerBodyIDByModuleName).
RoutesFollowCertification ==
  \A name \in Names :
    LET named == {k \in Keys : LastRead(reads, "Module", k) = name}
        bodies == {b \in Keys :
                     LET body == LastRead(reads, "ServerBody", b)
                     IN body # Absent /\ body.module \in named}
    IN /\ Cardinality(named) = 1 => GetServerBodyIDByModuleName(name) = bodies
       /\ GetServerBodyIDByModuleName(name) \subseteq bodies

===============================================================================
