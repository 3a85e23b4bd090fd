------------------------------- MODULE DbPool -------------------------------
(***************************************************************************)
(* CDbManager and its three CDbConnectionPools: InitDB connects MinConn    *)
(* connections per configured database and gives one of them to that       *)
(* database's CDbInstance; afterwards threads borrow connections and give  *)
(* them back, and the destructor shuts the pools down.                     *)
(*                                                                         *)
(* Callers wait for m_IsDbConnected, as InitRefDataMgr and InitObjectMgr   *)
(* do, so nobody borrows while InitDB runs.  Each action is the body of    *)
(* one critical section of a pool; a turn of Initialize's loop is one too. *)
(***************************************************************************)
EXTENDS Integers, Sequences, FiniteSets

CONSTANTS
  MinConn,  \* m_nMinConnections (every caller asks for at least one)
  MaxConn,  \* m_nMaxConnections
  Conns,    \* identities of CDbConnection objects (bounds how many exist)
  Users,    \* threads that hold at most one borrowed connection each
  NoConn    \* the NULL connection

ASSUME DbPoolAssumption ==
  /\ MinConn \in Nat \ {0}
  /\ MaxConn \in Nat
  /\ MinConn <= MaxConn
  /\ IsFiniteSet(Conns)
  /\ IsFiniteSet(Users)
  /\ NoConn \notin Conns

Order == <<"ACCOUNT", "SHARD", "LOG">>
Pools == {"ACCOUNT", "SHARD", "LOG"}

VARIABLES
  conf,       \* the databases m_dbConfig has a connection string for
  at,         \* the pool InitDB is working on; 4 when it is past the last
  temp,       \* Initialize's tempPool
  idle,       \* m_idlePool of each pool
  total,      \* m_nCurrentTotal of each pool
  inst,       \* the connection of each m_dbInstancePool entry
  held,       \* the connection each user has borrowed from each pool
  opened,     \* the connections of each pool with an open ODBC handle
  initResult, \* what InitDB returned: "running", "ok" or "failed"
  connected,  \* m_IsDbConnected
  destroyed   \* ~CDbManager has run

dbVars == <<conf, at, temp, idle, total, inst, held, opened, initResult,
            connected, destroyed>>

TypeOK ==
  /\ conf \subseteq Pools
  /\ at \in 1..4
  /\ temp \in Seq(Conns)
  /\ idle \in [Pools -> Seq(Conns)]
  /\ total \in [Pools -> Int]
  /\ inst \in [Pools -> Conns \cup {NoConn}]
  /\ held \in [Users -> [Pools -> Conns \cup {NoConn}]]
  /\ opened \in [Pools -> SUBSET Conns]
  /\ initResult \in {"running", "ok", "failed"}
  /\ connected \in BOOLEAN
  /\ destroyed \in BOOLEAN

Init ==
  /\ conf \in SUBSET Pools
  /\ at = 1
  /\ temp = <<>>
  /\ idle = [p \in Pools |-> <<>>]
  /\ total = [p \in Pools |-> 0]
  /\ inst = [p \in Pools |-> NoConn]
  /\ held = [u \in Users |-> [p \in Pools |-> NoConn]]
  /\ opened = [p \in Pools |-> {}]
  /\ initResult = "running"
  /\ connected = FALSE
  /\ destroyed = FALSE

Elements(s) == {s[i] : i \in DOMAIN s}

Front(s) == SubSeq(s, 1, Len(s) - 1)

AllOpened == UNION {opened[p] : p \in Pools}

\* new CDbConnection: an object that is not one of those in existence.
HasFresh == Conns \ AllOpened /= {}
Fresh == CHOOSE c \in Conns : c \notin AllOpened

----------------------------------------------------------------------------
(***************************************************************************)
(* InitDB(sDbConfigs).                                                     *)
(***************************************************************************)
Initializing(p) ==
  /\ initResult = "running"
  /\ at \in 1..3
  /\ Order[at] = p

SkipPool(p) ==
  /\ Initializing(p)
  /\ p \notin conf
  /\ at' = at + 1
  /\ UNCHANGED <<conf, temp, idle, total, inst, held, opened, initResult,
                 connected, destroyed>>

Connecting(p) ==
  /\ Initializing(p)
  /\ p \in conf
  /\ Len(temp) < MinConn

ConnectOne(p) ==
  /\ Connecting(p)
  /\ HasFresh
  /\ temp' = Append(temp, Fresh)
  /\ total' = [total EXCEPT ![p] = @ + 1]
  /\ opened' = [opened EXCEPT ![p] = @ \cup {Fresh}]
  /\ UNCHANGED <<conf, at, idle, inst, held, initResult, connected, destroyed>>

\* The connections made so far are closed, the pool is shut down and InitDB
\* returns; the pools before this one stay as they are.
ConnectFails(p) ==
  /\ Connecting(p)
  /\ temp' = <<>>
  /\ opened' = [opened EXCEPT ![p] = @ \ Elements(temp)]
  /\ total' = [total EXCEPT ![p] = 0]
  /\ initResult' = "failed"
  /\ UNCHANGED <<conf, at, idle, inst, held, connected, destroyed>>

\* m_idlePool = tempPool, then the instance takes the last of them.
BindInstance(p) ==
  /\ Initializing(p)
  /\ p \in conf
  /\ Len(temp) = MinConn
  /\ idle' = [idle EXCEPT ![p] = Front(temp)]
  /\ inst' = [inst EXCEPT ![p] = temp[Len(temp)]]
  /\ temp' = <<>>
  /\ at' = at + 1
  /\ UNCHANGED <<conf, total, held, opened, initResult, connected, destroyed>>

InitDone ==
  /\ initResult = "running"
  /\ at = 4
  /\ initResult' = "ok"
  /\ connected' = TRUE
  /\ UNCHANGED <<conf, at, temp, idle, total, inst, held, opened, destroyed>>

----------------------------------------------------------------------------
(***************************************************************************)
(* CDbManager::GetConnection(p) and Release(p) by user u.                  *)
(***************************************************************************)
MayBorrow(u, p) == connected /\ ~destroyed /\ held[u][p] = NoConn

Hand(u, p, c) == held' = [held EXCEPT ![u][p] = c]

\* Take the back of the vector and forget to pop it.
TakeIdleNoPop(u, p) ==
  /\ MayBorrow(u, p)
  /\ idle[p] /= <<>>
  /\ Hand(u, p, idle[p][Len(idle[p])])
  /\ UNCHANGED <<conf, at, temp, idle, total, inst, opened, initResult,
                 connected, destroyed>>

TakeIdle(u, p) ==
  /\ MayBorrow(u, p)
  /\ idle[p] /= <<>>
  /\ Hand(u, p, idle[p][Len(idle[p])])
  /\ idle' = [idle EXCEPT ![p] = Front(@)]
  /\ UNCHANGED <<conf, at, temp, total, inst, opened, initResult, connected,
                 destroyed>>

\* m_nMaxConnections is 0 until Initialize sets it.
Limit(p) == IF p \in conf THEN MaxConn ELSE 0

CanGrow(p) == idle[p] = <<>> /\ total[p] < Limit(p)

CreateNewConnection(u, p) ==
  /\ MayBorrow(u, p)
  /\ CanGrow(p)
  /\ HasFresh
  /\ Hand(u, p, Fresh)
  /\ total' = [total EXCEPT ![p] = @ + 1]
  /\ opened' = [opened EXCEPT ![p] = @ \cup {Fresh}]
  /\ UNCHANGED <<conf, at, temp, idle, inst, initResult, connected, destroyed>>

\* GetConnection returns NULL and leaves the pool as it was: Connect failed,
\* or the pool is at its limit.
GetNull(u, p) ==
  /\ MayBorrow(u, p)
  /\ idle[p] = <<>>
  /\ UNCHANGED dbVars

\* Keep no record of a connection that comes back.
ReleaseLost(u, p) ==
  /\ ~destroyed
  /\ held[u][p] /= NoConn
  /\ Hand(u, p, NoConn)
  /\ UNCHANGED <<conf, at, temp, idle, total, inst, opened, initResult,
                 connected, destroyed>>

ReleaseConnection(u, p) ==
  /\ ~destroyed
  /\ held[u][p] /= NoConn
  /\ idle' = [idle EXCEPT ![p] = Append(@, held[u][p])]
  /\ Hand(u, p, NoConn)
  /\ UNCHANGED <<conf, at, temp, total, inst, opened, initResult, connected,
                 destroyed>>

(***************************************************************************)
(* ~CDbManager: Shutdown of every pool, whoever still has a connection.    *)
(***************************************************************************)
\* Mutant: the connections are forgotten but not closed.
ForgetPools ==
  /\ idle' = [p \in Pools |-> <<>>]
  /\ total' = [p \in Pools |-> 0]
  /\ destroyed' = TRUE
  /\ UNCHANGED <<conf, at, temp, inst, held, opened, initResult, connected>>

ShutdownPools ==
  /\ opened' = [p \in Pools |-> opened[p] \ Elements(idle[p])]
  /\ idle' = [p \in Pools |-> <<>>]
  /\ total' = [p \in Pools |-> 0]
  /\ destroyed' = TRUE
  /\ UNCHANGED <<conf, at, temp, inst, held, initResult, connected>>

\* What CHydraProcess is relied upon for: InitDB has returned, and so have the
\* borrowers what they held.
Shutdown ==
  /\ initResult /= "running"
  /\ ~destroyed
  /\ \A u \in Users, p \in Pools : held[u][p] = NoConn
  /\ ShutdownPools

Borrow(u, p) ==
  \/ TakeIdle(u, p)
  \/ CreateNewConnection(u, p)

InitDB ==
  \/ \E p \in Pools :
       \/ SkipPool(p)
       \/ ConnectOne(p)
       \/ ConnectFails(p)
       \/ BindInstance(p)
  \/ InitDone

Next ==
  \/ InitDB
  \/ \E u \in Users, p \in Pools :
       Borrow(u, p) \/ GetNull(u, p) \/ ReleaseConnection(u, p)
  \/ Shutdown

Spec == Init /\ [][Next]_dbVars

----------------------------------------------------------------------------
\* The connections of pool p that somebody uses outside of it.
Lent(p) ==
  ({inst[p]} \cup {held[u][p] : u \in Users}) \ {NoConn}

Building(p) == IF Initializing(p) THEN Elements(temp) ELSE {}

(***************************************************************************)
(* A connection is never in two hands: it is in the idle vector at most    *)
(* once, and nobody uses it while it is there (GetConnection pops what it  *)
(* returns, ReleaseConnection pushes what it is given).                    *)
(***************************************************************************)
NeverShared ==
  \A p \in Pools :
    /\ \A i, j \in DOMAIN idle[p] : idle[p][i] = idle[p][j] => i = j
    /\ Elements(idle[p]) \cap Lent(p) = {}
    /\ \A u, v \in Users : held[u][p] = held[v][p] /\ held[u][p] /= NoConn => u = v
    /\ \A u \in Users : held[u][p] = inst[p] => held[u][p] = NoConn

(***************************************************************************)
(* m_nCurrentTotal "tracks total connections (Idle + Active)": until the   *)
(* destructor it is the number of open connections.  Each of them is idle, *)
(* lent or still in Initialize's temporary vector, never lost; after the   *)
(* destructor those of the instances are open, and no others.              *)
(***************************************************************************)
TotalAccounted ==
  \A p \in Pools :
    /\ ~destroyed => total[p] = Cardinality(opened[p])
    /\ opened[p] = Elements(idle[p]) \cup Lent(p) \cup Building(p)

(***************************************************************************)
(* A pool never opens more connections than its limit, whatever connects     *)
(* failed and whoever returned what.                                       *)
(***************************************************************************)
WithinMax == \A p \in Pools : Cardinality(opened[p]) <= Limit(p)

=============================================================================
