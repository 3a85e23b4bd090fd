------------------------------ MODULE RefData ------------------------------
(***************************************************************************)
(* CRefDataManager on top of the connection pools: InitializeData loads    *)
(* six tables one after the other.  Each loader borrows a SHARD            *)
(* connection, uses it without looking whether it is NULL, inserts the     *)
(* rows it fetches into a map and an index by code name, tests that a map  *)
(* is not empty and gives the connection back.  The getters hold m_cs, the *)
(* loaders do not: a getter of another thread runs between any two of a    *)
(* loader's insertions.                                                    *)
(*                                                                         *)
(* The loading thread is one of the users of DbPool; the others borrow     *)
(* connections of their own at the same time.  HydraProcess says who they  *)
(* are, and when the manager is created and deleted.                       *)
(***************************************************************************)
EXTENDS DbPool

CONSTANTS
  Loader,   \* the user that calls InitializeData
  Rows,     \* rows of a table, each with its own ID and code name
  MaxLoads  \* bound: calls of InitializeData

ASSUME RefDataAssumption == Loader \in Users /\ MaxLoads \in Nat

\* A loader: the table it fills, the table whose map it tests at the end, and
\* whether the rows get an entry in an index by code name.
InitializeObjChar == [fills |-> "ObjChar", tests |-> "ObjChar", indexed |-> TRUE]
InitializeObjItem == [fills |-> "ObjItem", tests |-> "ObjItem", indexed |-> TRUE]
InitializeObjStruct == [fills |-> "ObjStruct", tests |-> "ObjItem", indexed |-> TRUE]
InitializeSkillData == [fills |-> "Skill", tests |-> "Skill", indexed |-> TRUE]
\* The test copied from the loader above it.
InitializeLevelMistested ==
  [fills |-> "Level", tests |-> "Skill", indexed |-> FALSE]

InitializeLevel == [fills |-> "Level", tests |-> "Level", indexed |-> FALSE]
InitializeNonSplitItem ==
  [fills |-> "NonSplit", tests |-> "NonSplit", indexed |-> FALSE]

Loaders == <<InitializeObjChar, InitializeObjItem, InitializeObjStruct,
             InitializeSkillData, InitializeLevel, InitializeNonSplitItem>>

Tables == {"ObjChar", "ObjItem", "ObjStruct", "Skill", "Level", "NonSplit"}

VARIABLES
  step,     \* the loader InitializeData is in
  phase,    \* where that loader is
  cursor,   \* the rows the reader has still to fetch
  pending,  \* the row in the map that is not in the index yet, as a set
  data,     \* the keys of m_CharData, m_ItemData, ...
  index,    \* the rows the entries of m_CharIndex, m_ItemIndex, ... lead to
  loadResult, \* what InitializeData returned: "none" yet, "TRUE" or "failed"
  loads,    \* calls of InitializeData
  nullUsed  \* pConnection was NULL: "no", or what made it so

refVars == <<step, phase, cursor, pending, data, index, loadResult,
             loads, nullUsed>>

This == Loaders[step]

RefTypeOK ==
  /\ step \in 1..6
  /\ phase \in {"out", "get", "query", "fetch", "index", "test"}
  /\ cursor \subseteq Rows
  /\ pending \subseteq Rows
  /\ data \in [Tables -> SUBSET Rows]
  /\ index \in [Tables -> SUBSET Rows]
  /\ loadResult \in {"none", "TRUE", "failed"}
  /\ loads \in 0..MaxLoads
  /\ nullUsed \in {"no", "connect", "limit"}

RefInit ==
  /\ Init
  /\ step = 1
  /\ phase = "out"
  /\ cursor = {}
  /\ pending = {}
  /\ data = [t \in Tables |-> {}]
  /\ index = [t \in Tables |-> {}]
  /\ loadResult = "none"
  /\ loads = 0
  /\ nullUsed = "no"

Running == nullUsed = "no"

\* The manager exists only once IsDbConnected (InitRefDataMgr).
InitializeData ==
  /\ Running
  /\ phase = "out"
  /\ loads < MaxLoads
  /\ loads' = loads + 1
  /\ step' = 1
  /\ phase' = "get"
  /\ UNCHANGED <<dbVars, cursor, pending, data, index, loadResult,
                 nullUsed>>

LoadGet ==
  /\ Running
  /\ phase = "get"
  /\ Borrow(Loader, "SHARD")
  /\ phase' = "query"
  /\ UNCHANGED <<step, cursor, pending, data, index, loadResult, loads,
                 nullUsed>>

\* pConnection->ExecuteReader with pConnection == NULL.
LoadNull ==
  /\ Running
  /\ phase = "get"
  /\ GetNull(Loader, "SHARD")
  /\ nullUsed' = IF CanGrow("SHARD") THEN "connect" ELSE "limit"
  /\ UNCHANGED <<step, phase, cursor, pending, data, index, loadResult,
                 loads>>

\* The query finds some rows; a query that fails gives the reader none.
LoadQuery ==
  /\ Running
  /\ phase = "query"
  /\ cursor' \in SUBSET Rows
  /\ phase' = "fetch"
  /\ UNCHANGED <<dbVars, step, pending, data, index, loadResult, loads,
                 nullUsed>>

LoadRow(r) ==
  /\ Running
  /\ phase = "fetch"
  /\ r \in cursor
  /\ cursor' = cursor \ {r}
  /\ data' = [data EXCEPT ![This.fills] = @ \cup {r}]
  /\ IF This.indexed
       THEN pending' = {r} /\ phase' = "index"
       ELSE UNCHANGED <<pending, phase>>
  /\ UNCHANGED <<dbVars, step, index, loadResult, loads, nullUsed>>

LoadIndex ==
  /\ Running
  /\ phase = "index"
  /\ index' = [index EXCEPT ![This.fills] = @ \cup pending]
  /\ pending' = {}
  /\ phase' = "fetch"
  /\ UNCHANGED <<dbVars, step, cursor, data, loadResult, loads, nullUsed>>

\* SQLFetch has no further row, or fails on the next one.
LoadEnd ==
  /\ Running
  /\ phase = "fetch"
  /\ cursor' = {}
  /\ phase' = "test"
  /\ UNCHANGED <<dbVars, step, pending, data, index, loadResult, loads,
                 nullUsed>>

\* Both ways out of a loader release the connection.
LoadRelease ==
  /\ Running
  /\ phase = "test"
  /\ ReleaseConnection(Loader, "SHARD")
  /\ UNCHANGED <<cursor, pending, data, index, loads, nullUsed>>

Empty == data[This.tests] = {}

LoadFails ==
  /\ LoadRelease
  /\ Empty
  /\ phase' = "out"
  /\ loadResult' = "failed"
  /\ UNCHANGED step

LoadNext ==
  /\ LoadRelease
  /\ ~Empty
  /\ step < 6
  /\ phase' = "get"
  /\ step' = step + 1
  /\ UNCHANGED loadResult

LoadLast ==
  /\ LoadRelease
  /\ ~Empty
  /\ step = 6
  /\ phase' = "out"
  /\ loadResult' = "TRUE"
  /\ UNCHANGED step

\* CleanUp, by the destructor; it leaves m_LevelData to that of the map.
CleanUp ==
  /\ data' = [t \in Tables |-> {}]
  /\ index' = [t \in Tables |-> {}]
  /\ loadResult' = "none"
  /\ UNCHANGED <<step, phase, cursor, pending, loads, nullUsed>>

Load ==
  \/ InitializeData
  \/ LoadGet
  \/ LoadNull
  \/ LoadQuery
  \/ \E r \in Rows : LoadRow(r)
  \/ LoadIndex
  \/ LoadEnd
  \/ LoadFails
  \/ LoadNext
  \/ LoadLast

----------------------------------------------------------------------------
(***************************************************************************)
(* InitializeData returns TRUE only with every table loaded, ObjStruct     *)
(* excepted: its loader tests m_ItemData.                                  *)
(***************************************************************************)
TrueMeansLoaded ==
  loadResult = "TRUE" =>
    \A t \in Tables \ {"ObjStruct"} : data[t] /= {}

(***************************************************************************)
(* A loader runs into a NULL connection at the limit of the pool only when *)
(* the others hold every connection but the instance's, or the SHARD       *)
(* database is not configured: neither earlier loads nor failed connects   *)
(* ever use connections up.                                                *)
(***************************************************************************)
NullNeedsCrowd ==
  nullUsed = "limit" /\ "SHARD" \in conf =>
    Cardinality({u \in Users \ {Loader} : held[u]["SHARD"] /= NoConn}) >= MaxConn - 1
=============================================================================
