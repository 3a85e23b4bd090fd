------------------------- MODULE HydraProcessProofs -------------------------
(***************************************************************************)
(* Proofs about the database pools, and about the server process that uses *)
(* them, for any tasks, threads, rows and numbers of connections.          *)
(*                                                                         *)
(* First DbPool by itself.  Its three safety properties lean on each other *)
(* (a count is right because nothing is in two places, a connection is in  *)
(* one place because the temporary vector is handed over whole), so they   *)
(* are proved together with what InitDB guarantees about the pools it has  *)
(* not reached.                                                            *)
(*                                                                         *)
(* Then HydraProcess: the order in which a server creates and destroys its *)
(* parts is one under which the pools are used as they rely upon, so that  *)
(* what was proved of them holds in this process.  Each step of it is a    *)
(* step of DbPool or leaves its variables alone, given Duties and Holders; *)
(* they are inductive because the pool's threads are waited for before     *)
(* anything is deleted.                                                    *)
(***************************************************************************)
EXTENDS HydraProcess, FiniteSetTheorems, TLAPS


Injective(s) == \A i, j \in DOMAIN s : s[i] = s[j] => i = j

\* How far InitDB is.
Staged ==
  /\ connected => initResult = "ok"
  /\ destroyed => initResult /= "running"
  /\ ~connected => \A u \in Users, p \in Pools : held[u][p] = NoConn
  /\ Injective(temp)
  /\ Len(temp) <= MinConn
  /\ temp /= <<>> => initResult = "running" /\ at \in 1..3 /\ Order[at] \in conf
  /\ initResult = "running" =>
       \A k \in 1..3 : k >= at =>
         idle[Order[k]] = <<>> /\ inst[Order[k]] = NoConn

Within ==
  ~destroyed => \A p \in Pools : total[p] <= Limit(p)

\* After the destructor nothing is idle or lent but the instances'.
Gone ==
  destroyed =>
    \A p \in Pools :
      /\ idle[p] = <<>>
      /\ \A u \in Users : held[u][p] = NoConn

IInv ==
  /\ TypeOK
  /\ Staged
  /\ Gone
  /\ NeverShared
  /\ TotalAccounted
  /\ Within
  /\ WithinMax

----------------------------------------------------------------------------
\* What Append and Front do to the elements of a sequence.
LEMMA AppendElements ==
  ASSUME NEW S, NEW s \in Seq(S), NEW x \in S
  PROVE  /\ Append(s, x) \in Seq(S)
         /\ Elements(Append(s, x)) = Elements(s) \cup {x}
         /\ Injective(s) /\ x \notin Elements(s) => Injective(Append(s, x))
         /\ Len(Append(s, x)) = Len(s) + 1
  <1> DEFINE t == Append(s, x)
  <1>1. /\ t \in Seq(S)
        /\ Len(t) = Len(s) + 1
        /\ DOMAIN t = 1..(Len(s) + 1)
        /\ DOMAIN s = 1..Len(s)
        /\ t[Len(s) + 1] = x
        /\ \A i \in 1..Len(s) : t[i] = s[i]
        /\ Len(s) \in Nat
    OBVIOUS
  <1> HIDE DEF t
  <1>2. Elements(t) = Elements(s) \cup {x}
    <2>1. \A y \in Elements(t) : y \in Elements(s) \cup {x}
      BY <1>1 DEF Elements
    <2>2. \A y \in Elements(s) : y \in Elements(t)
      BY <1>1 DEF Elements
    <2>3. x \in Elements(t)
      BY <1>1 DEF Elements
    <2> QED  BY <2>1, <2>2, <2>3
  <1>3. Injective(s) /\ x \notin Elements(s) => Injective(t)
    BY <1>1 DEF Injective, Elements
  <1> QED  BY <1>1, <1>2, <1>3 DEF t

LEMMA FrontElements ==
  ASSUME NEW S, NEW s \in Seq(S), s /= <<>>, Injective(s)
  PROVE  /\ Front(s) \in Seq(S)
         /\ s[Len(s)] \in S
         /\ s[Len(s)] \in Elements(s)
         /\ Elements(Front(s)) = Elements(s) \ {s[Len(s)]}
         /\ Injective(Front(s))
  <1> DEFINE t == Front(s)
  <1>1. /\ Len(s) \in Nat \ {0}
        /\ DOMAIN s = 1..Len(s)
        /\ \A i \in 1..Len(s) : s[i] \in S
    OBVIOUS
  <1>2. /\ t \in Seq(S)
        /\ DOMAIN t = 1..(Len(s) - 1)
        /\ \A i \in 1..(Len(s) - 1) : t[i] = s[i]
    BY <1>1 DEF Front
  <1> HIDE DEF t
  <1>3. s[Len(s)] \in Elements(s)
    BY <1>1 DEF Elements
  <1>4. Elements(t) = Elements(s) \ {s[Len(s)]}
    <2>1. \A y \in Elements(t) : y \in Elements(s) /\ y /= s[Len(s)]
      BY <1>1, <1>2 DEF Elements, Injective
    <2>2. \A y \in Elements(s) : y /= s[Len(s)] => y \in Elements(t)
      <3> SUFFICES ASSUME NEW i \in 1..Len(s), s[i] /= s[Len(s)]
                   PROVE  s[i] \in Elements(t)
        BY <1>1 DEF Elements
      <3>1. i \in 1..(Len(s) - 1)
        BY <1>1
      <3> QED  BY <3>1, <1>2 DEF Elements
    <2> QED  BY <2>1, <2>2
  <1>5. Injective(t)
    BY <1>1, <1>2 DEF Injective
  <1> QED  BY <1>1, <1>2, <1>3, <1>4, <1>5 DEF t

\* A sequence without repetitions has as many elements as it is long.
LEMMA InjectiveCount ==
  ASSUME NEW S, NEW s \in Seq(S), Injective(s)
  PROVE  Cardinality(Elements(s)) = Len(s)
  <1>1. IsFiniteSet(1..Len(s)) /\ Cardinality(1..Len(s)) = Len(s)
    <2>1. Len(s) \in Nat
      OBVIOUS
    <2> QED  BY <2>1, FS_Interval
  <1>2. s \in Bijection(1..Len(s), Elements(s))
    <2>1. DOMAIN s = 1..Len(s) /\ s \in [1..Len(s) -> Elements(s)]
      BY DEF Elements
    <2>2. s \in Injection(1..Len(s), Elements(s))
      BY <2>1 DEF Injection, IsInjective, Injective
    <2>3. s \in Surjection(1..Len(s), Elements(s))
      BY <2>1 DEF Surjection, Elements
    <2> QED  BY <2>2, <2>3 DEF Bijection
  <1>3. ExistsBijection(1..Len(s), Elements(s))
    BY <1>2 DEF ExistsBijection
  <1> QED  BY <1>1, <1>3, FS_Bijection

\* An object that does not exist yet is in no pool's books.
LEMMA FreshConn ==
  ASSUME TypeOK, HasFresh
  PROVE  Fresh \in Conns /\ \A p \in Pools : Fresh \notin opened[p]
  BY DEF HasFresh, Fresh, AllOpened, TypeOK

LEMMA OpenedFinite ==
  ASSUME TypeOK, NEW p \in Pools
  PROVE  IsFiniteSet(opened[p])
  BY FS_Subset, DbPoolAssumption DEF TypeOK
----------------------------------------------------------------------------
(***************************************************************************)
(* Types and stages.                                                       *)
(***************************************************************************)
LEMMA InitTypes ==
  ASSUME TypeOK, Staged, InitDB
  PROVE  TypeOK'
  <1> USE DEF TypeOK
  <1>1. ASSUME NEW p \in Pools, SkipPool(p) PROVE TypeOK'
    BY <1>1 DEF SkipPool, Initializing
  <1>2. ASSUME NEW p \in Pools, ConnectOne(p) PROVE TypeOK'
    <2>1. Fresh \in Conns /\ Append(temp, Fresh) \in Seq(Conns)
      BY <1>2, FreshConn, AppendElements DEF ConnectOne
    <2> QED  BY <1>2, <2>1 DEF ConnectOne
  <1>3. ASSUME NEW p \in Pools, ConnectFails(p) PROVE TypeOK'
    BY <1>3 DEF ConnectFails
  <1>4. ASSUME NEW p \in Pools, BindInstance(p) PROVE TypeOK'
    <2>1. temp /= <<>>
      BY <1>4, DbPoolAssumption DEF BindInstance
    <2>2. Front(temp) \in Seq(Conns) /\ temp[Len(temp)] \in Conns
      BY <2>1, FrontElements DEF Staged
    <2> QED  BY <1>4, <2>2 DEF BindInstance, Initializing
  <1>5. ASSUME InitDone PROVE TypeOK'
    BY <1>5 DEF InitDone
  <1> QED  BY <1>1, <1>2, <1>3, <1>4, <1>5 DEF InitDB

LEMMA UserTypes ==
  ASSUME TypeOK, NeverShared, NEW u \in Users, NEW p \in Pools,
         Borrow(u, p) \/ GetNull(u, p) \/ ReleaseConnection(u, p)
  PROVE  TypeOK'
  <1> USE DEF TypeOK, Hand
  <1>1. CASE TakeIdle(u, p)
    <2>1. idle[p] /= <<>> /\ Injective(idle[p]) /\ idle[p] \in Seq(Conns)
      BY <1>1 DEF TakeIdle, NeverShared, Injective
    <2>2. Front(idle[p]) \in Seq(Conns) /\ idle[p][Len(idle[p])] \in Conns
      BY <2>1, FrontElements
    <2> QED  BY <1>1, <2>2 DEF TakeIdle
  <1>2. CASE CreateNewConnection(u, p)
    BY <1>2, FreshConn DEF CreateNewConnection
  <1>3. CASE GetNull(u, p)
    BY <1>3 DEF GetNull, dbVars
  <1>4. CASE ReleaseConnection(u, p)
    <2>1. Append(idle[p], held[u][p]) \in Seq(Conns)
      BY <1>4, AppendElements DEF ReleaseConnection
    <2> QED  BY <1>4, <2>1 DEF ReleaseConnection
  <1> QED  BY <1>1, <1>2, <1>3, <1>4 DEF Borrow

LEMMA ShutdownTypes ==
  ASSUME TypeOK, Shutdown
  PROVE  TypeOK'
  BY DEF TypeOK, Shutdown, ShutdownPools

\* While InitDB runs, what it has connected for the current pool is all the
\* pool has.
LEMMA Current ==
  ASSUME IInv, NEW p \in Pools, Initializing(p)
  PROVE  /\ at \in 1..3
         /\ Order[at] = p
         /\ ~destroyed
         /\ ~connected
         /\ Lent(p) = {}
         /\ Elements(idle[p]) = {}
         /\ opened[p] = Elements(temp)
         /\ total[p] = Cardinality(opened[p])
  <1> USE DEF IInv
  <1>1. at \in 1..3 /\ Order[at] = p /\ ~destroyed /\ ~connected
    BY DEF Initializing, Staged
  <1>2. idle[p] = <<>> /\ inst[p] = NoConn
    BY <1>1 DEF Initializing, Staged
  <1>3. \A u \in Users : held[u][p] = NoConn
    BY <1>1 DEF Staged
  <1>4. Lent(p) = {} /\ Elements(idle[p]) = {}
    BY <1>2, <1>3 DEF Lent, Elements
  <1>5. opened[p] = Elements(temp) /\ total[p] = Cardinality(opened[p])
    BY <1>1, <1>4 DEF TotalAccounted, Building
  <1> QED  BY <1>1, <1>4, <1>5

LEMMA InitStages ==
  ASSUME IInv, InitDB
  PROVE  Staged' /\ Gone'
  <1>0. TypeOK /\ Staged /\ Gone
    BY DEF IInv
  <1> USE DEF Initializing
  <1>1. ASSUME NEW p \in Pools, SkipPool(p) PROVE Staged' /\ Gone'
    <2>1. temp = <<>>
      BY <1>0, <1>1 DEF SkipPool, Staged
    <2> QED  BY <1>0, <1>1, <2>1 DEF SkipPool, Injective, Staged, Gone, TypeOK
  <1>2. ASSUME NEW p \in Pools, ConnectOne(p) PROVE Staged' /\ Gone'
    <2>1. p \in conf /\ Order[at] = p /\ at \in 1..3 /\ initResult = "running"
      BY <1>2 DEF ConnectOne, Connecting
    <2>2. Fresh \in Conns /\ Fresh \notin Elements(temp) /\ Injective(temp)
      BY <1>0, <1>2, FreshConn, Current DEF ConnectOne, Connecting, Staged
    <2>3. Injective(temp') /\ Len(temp') = Len(temp) + 1 /\ temp \in Seq(Conns)
      BY <1>0, <1>2, <2>2, AppendElements DEF ConnectOne, TypeOK
    <2>4. Len(temp') <= MinConn
      BY <1>2, <2>3, DbPoolAssumption DEF ConnectOne, Connecting
    <2> QED  BY <1>0, <1>2, <2>1, <2>3, <2>4 DEF ConnectOne, Staged, Gone
  <1>3. ASSUME NEW p \in Pools, ConnectFails(p) PROVE Staged' /\ Gone'
    BY <1>0, <1>3, DbPoolAssumption
       DEF ConnectFails, Connecting, Staged, Gone, Injective
  <1>4. ASSUME NEW p \in Pools, BindInstance(p) PROVE Staged' /\ Gone'
    <2>1. \A k \in 1..3 : k >= at' =>
            idle'[Order[k]] = <<>> /\ inst'[Order[k]] = NoConn
      BY <1>0, <1>4 DEF BindInstance, Staged, Order, Pools, TypeOK
    <2>2. ~destroyed
      BY <1>0, <1>4 DEF BindInstance, Staged
    <2> QED  BY <1>0, <1>4, <2>1, <2>2, DbPoolAssumption
                DEF BindInstance, Staged, Gone, Injective
  <1>5. ASSUME InitDone PROVE Staged' /\ Gone'
    BY <1>0, <1>5 DEF InitDone, Staged, Gone
  <1> QED  BY <1>1, <1>2, <1>3, <1>4, <1>5 DEF InitDB

LEMMA UserStages ==
  ASSUME IInv, NEW u \in Users, NEW p \in Pools,
         Borrow(u, p) \/ GetNull(u, p) \/ ReleaseConnection(u, p)
  PROVE  Staged' /\ Gone'
  <1>0. TypeOK /\ Staged /\ Gone
    BY DEF IInv
  <1>1. /\ connected /\ ~destroyed /\ initResult = "ok"
        /\ UNCHANGED <<temp, at, conf, connected, destroyed, initResult>>
    BY <1>0 DEF Borrow, TakeIdle, CreateNewConnection, GetNull,
                ReleaseConnection, MayBorrow, Staged, dbVars
  <1> QED  BY <1>0, <1>1 DEF Staged, Gone

LEMMA ShutdownStages ==
  ASSUME IInv, Shutdown
  PROVE  Staged' /\ Gone'
  BY DEF IInv, Shutdown, ShutdownPools, Staged, Gone, TypeOK
----------------------------------------------------------------------------
(***************************************************************************)
(* The books of the pools.                                                 *)
(***************************************************************************)
Books == NeverShared /\ TotalAccounted /\ Within

LEMMA SkipBooks ==
  ASSUME IInv, NEW p \in Pools, SkipPool(p)
  PROVE  Books'
  <1>1. temp = <<>> /\ ~destroyed
    BY DEF IInv, Staged, SkipPool, Initializing
  <1>2. \A q \in Pools : Building(q) = {} /\ Building(q)' = {}
    BY <1>1 DEF SkipPool, Building, Elements
  <1>3. \A q \in Pools : Lent(q)' = Lent(q)
    BY DEF SkipPool, Lent
  <1> QED  BY <1>1, <1>2, <1>3
              DEF IInv, SkipPool, Books, NeverShared, TotalAccounted, Within,
                  Limit, Elements

LEMMA ConnectBooks ==
  ASSUME IInv, NEW p \in Pools, ConnectOne(p)
  PROVE  Books'
  <1> USE DEF ConnectOne, Connecting
  <1>0. TypeOK /\ Staged /\ NeverShared /\ TotalAccounted /\ Within
    BY DEF IInv
  <1>1. /\ at \in 1..3 /\ Order[at] = p /\ ~destroyed
        /\ opened[p] = Elements(temp) /\ Lent(p) = {} /\ Elements(idle[p]) = {}
        /\ total[p] = Cardinality(opened[p])
    BY Current
  <1>2. /\ Fresh \in Conns /\ Fresh \notin opened[p]
        /\ IsFiniteSet(opened[p])
    BY <1>0, FreshConn, OpenedFinite
  <1>3. Cardinality(opened[p] \cup {Fresh}) = Cardinality(opened[p]) + 1
    BY <1>2, FS_AddElement
  <1>4. Elements(temp') = Elements(temp) \cup {Fresh} /\ Len(temp') = Len(temp) + 1
    BY <1>0, <1>2, AppendElements DEF TypeOK
  <1>5. \A q \in Pools : Lent(q)' = Lent(q)
    BY DEF Lent
  <1>6. ASSUME NEW q \in Pools
        PROVE  /\ total'[q] = Cardinality(opened'[q])
               /\ opened'[q] = Elements(idle'[q]) \cup Lent(q)' \cup Building(q)'
               /\ total'[q] <= Limit(q)'
    <2>1. CASE q = p
      <3>1. Building(q)' = Elements(temp')
        BY <1>1, <2>1 DEF Building, Initializing
      <3>2. opened'[p] = opened[p] \cup {Fresh} /\ total'[p] = total[p] + 1
        BY <1>0 DEF TypeOK
      <3>5. Elements(idle'[q]) = {} /\ Lent(q)' = {}
        BY <1>1, <1>5, <2>1
      <3>3. total[p] = Len(temp)
        <4>1. Injective(temp) /\ temp \in Seq(Conns)
          BY <1>0 DEF Staged, TypeOK
        <4> QED  BY <4>1, <1>1, InjectiveCount
      <3>4. total'[p] <= Limit(p)'
        BY <1>0, <3>2, <3>3, DbPoolAssumption DEF Limit, TypeOK
      <3>6. opened'[q] = Elements(idle'[q]) \cup Lent(q)' \cup Building(q)'
        BY <2>1, <1>1, <1>4, <3>1, <3>2, <3>5
      <3> QED  BY <2>1, <1>1, <1>3, <3>2, <3>4, <3>6
    <2>2. CASE q /= p
      <3>1. Building(q) = {} /\ Building(q)' = {}
        BY <1>1, <2>2 DEF Building, Initializing
      <3>2. opened'[q] = opened[q] /\ total'[q] = total[q]
        BY <1>0, <2>2 DEF TypeOK
      <3> QED  BY <1>0, <1>1, <1>5, <3>1, <3>2
                  DEF TotalAccounted, Within, Limit
    <2> QED  BY <2>1, <2>2
  <1>7. NeverShared'
    BY <1>0, <1>5 DEF NeverShared, Elements
  <1> QED  BY <1>6, <1>7 DEF Books, TotalAccounted, Within

LEMMA FailsBooks ==
  ASSUME IInv, NEW p \in Pools, ConnectFails(p)
  PROVE  Books'
  <1> USE DEF ConnectFails, Connecting
  <1>0. TypeOK /\ NeverShared /\ TotalAccounted /\ Within
    BY DEF IInv
  <1>1. /\ at \in 1..3 /\ Order[at] = p /\ ~destroyed
        /\ opened[p] = Elements(temp) /\ Lent(p) = {} /\ Elements(idle[p]) = {}
    BY Current
  <1>2. \A q \in Pools : Lent(q)' = Lent(q) /\ Building(q)' = {}
    BY DEF Lent, Building, Elements
  <1>3. ASSUME NEW q \in Pools
        PROVE  /\ total'[q] = Cardinality(opened'[q])
               /\ opened'[q] = Elements(idle'[q]) \cup Lent(q)' \cup Building(q)'
               /\ total'[q] <= Limit(q)'
    <2>1. CASE q = p
      <3>1. opened'[q] = {} /\ total'[q] = 0
        BY <1>0, <1>1, <2>1 DEF TypeOK
      <3>2. Cardinality({}) = 0
        BY FS_EmptySet
      <3>3. Elements(idle'[q]) = {} /\ Lent(q)' = {} /\ Building(q)' = {}
        BY <1>1, <1>2, <2>1
      <3>4. 0 <= Limit(q)'
        BY DbPoolAssumption DEF Limit
      <3> QED  BY <3>1, <3>2, <3>3, <3>4
    <2>2. CASE q /= p
      <3>1. Building(q) = {}
        BY <1>1, <2>2 DEF Building, Initializing
      <3>2. opened'[q] = opened[q] /\ total'[q] = total[q]
        BY <1>0, <2>2 DEF TypeOK
      <3> QED  BY <1>0, <1>1, <1>2, <3>1, <3>2
                  DEF TotalAccounted, Within, Limit
    <2> QED  BY <2>1, <2>2
  <1>4. NeverShared'
    BY <1>0, <1>2 DEF NeverShared, Elements
  <1> QED  BY <1>3, <1>4 DEF Books, TotalAccounted, Within

LEMMA BindBooks ==
  ASSUME IInv, NEW p \in Pools, BindInstance(p)
  PROVE  Books'
  <1> USE DEF BindInstance
  <1>0. TypeOK /\ Staged /\ NeverShared /\ TotalAccounted /\ Within
    BY DEF IInv
  <1>1. /\ at \in 1..3 /\ Order[at] = p /\ ~destroyed /\ ~connected
        /\ opened[p] = Elements(temp) /\ Lent(p) = {} /\ Elements(idle[p]) = {}
        /\ total[p] = Cardinality(opened[p])
    BY Current
  <1> DEFINE last == temp[Len(temp)]
  <1>2. /\ Elements(Front(temp)) = Elements(temp) \ {last}
        /\ Injective(Front(temp))
        /\ last \in Elements(temp)
        /\ last \in Conns
    BY <1>0, DbPoolAssumption, FrontElements DEF Staged, TypeOK
  <1> HIDE DEF last
  <1>3. idle'[p] = Front(temp) /\ inst'[p] = last
    BY <1>0 DEF TypeOK, last
  <1>4. \A u \in Users, q \in Pools : held[u][q] = NoConn /\ held'[u][q] = NoConn
    BY <1>0, <1>1 DEF Staged
  <1>5. Lent(p)' = {last}
    BY <1>2, <1>3, <1>4, DbPoolAssumption DEF Lent
  <1>6. ASSUME NEW q \in Pools
        PROVE  /\ total'[q] = Cardinality(opened'[q])
               /\ opened'[q] = Elements(idle'[q]) \cup Lent(q)' \cup Building(q)'
               /\ total'[q] <= Limit(q)'
               /\ \A i, j \in DOMAIN idle'[q] : idle'[q][i] = idle'[q][j] => i = j
               /\ Elements(idle'[q]) \cap Lent(q)' = {}
    <2>1. Building(q)' = {}
      BY DEF Building, Elements
    <2>2. total'[q] = Cardinality(opened'[q]) /\ total'[q] <= Limit(q)'
      BY <1>0, <1>1 DEF TotalAccounted, Within, Limit
    <2>3. CASE q = p
      BY <1>1, <1>2, <1>3, <1>5, <2>1, <2>2, <2>3 DEF Injective
    <2>4. CASE q /= p
      <3>1. Building(q) = {}
        BY <1>1, <2>4 DEF Building, Initializing
      <3>2. idle'[q] = idle[q] /\ Lent(q)' = Lent(q)
        BY <1>0, <2>4 DEF TypeOK, Lent
      <3> QED  BY <1>0, <1>1, <2>1, <2>2, <3>1, <3>2
                  DEF TotalAccounted, NeverShared
    <2> QED  BY <2>3, <2>4
  <1>7. NeverShared'
    BY <1>4, <1>6 DEF NeverShared
  <1> QED  BY <1>6, <1>7 DEF Books, TotalAccounted, Within

LEMMA DoneBooks ==
  ASSUME IInv, InitDone
  PROVE  Books'
  <1>1. temp = <<>> /\ ~destroyed
    BY DEF IInv, Staged, InitDone
  <1>2. \A q \in Pools : Building(q) = {} /\ Building(q)' = {} /\ Lent(q)' = Lent(q)
    BY <1>1 DEF InitDone, Building, Elements, Lent
  <1> QED  BY <1>1, <1>2
              DEF IInv, InitDone, Books, NeverShared, TotalAccounted, Within,
                  Limit, Elements

\* Nothing is being built once users may borrow.
LEMMA Quiescent ==
  ASSUME IInv, NEW u \in Users, NEW p \in Pools, held[u][p] /= NoConn \/ connected
  PROVE  connected /\ initResult = "ok" /\ \A q \in Pools : Building(q) = {}
  BY DEF IInv, Staged, Building, Initializing

LEMMA TakeBooks ==
  ASSUME IInv, NEW u \in Users, NEW p \in Pools, TakeIdle(u, p)
  PROVE  Books'
  <1> USE DEF TakeIdle, MayBorrow, Hand
  <1>0. TypeOK /\ NeverShared /\ TotalAccounted /\ Within /\ ~destroyed
    BY DEF IInv
  <1> DEFINE c == idle[p][Len(idle[p])]
  <1>1. /\ Elements(Front(idle[p])) = Elements(idle[p]) \ {c}
        /\ Injective(Front(idle[p]))
        /\ c \in Elements(idle[p])
        /\ c \in Conns
    <2>1. idle[p] \in Seq(Conns) /\ idle[p] /= <<>> /\ Injective(idle[p])
      BY <1>0 DEF TypeOK, NeverShared, Injective
    <2> QED  BY <2>1, FrontElements
  <1>2. idle'[p] = Front(idle[p]) /\ held' = [held EXCEPT ![u][p] = c]
    BY <1>0 DEF TypeOK
  <1> HIDE DEF c
  <1>3. c \notin Lent(p) /\ c /= NoConn
    BY <1>0, <1>1, DbPoolAssumption DEF NeverShared
  <1>4. \A q \in Pools : Building(q) = {} /\ Building(q)' = {}
    BY Quiescent DEF Building, Initializing
  <1>5. \A v \in Users, q \in Pools :
          held'[v][q] = IF v = u /\ q = p THEN c ELSE held[v][q]
    BY <1>0, <1>2 DEF TypeOK
  <1>6. Lent(p)' = Lent(p) \cup {c}
    BY <1>3, <1>5 DEF Lent
  <1>7. ASSUME NEW q \in Pools
        PROVE  /\ opened'[q] = Elements(idle'[q]) \cup Lent(q)' \cup Building(q)'
               /\ \A i, j \in DOMAIN idle'[q] : idle'[q][i] = idle'[q][j] => i = j
               /\ Elements(idle'[q]) \cap Lent(q)' = {}
               /\ \A v, w \in Users :
                    held'[v][q] = held'[w][q] /\ held'[v][q] /= NoConn => v = w
               /\ \A v \in Users : held'[v][q] = inst'[q] => held'[v][q] = NoConn
    <2>1. CASE q = p
      <3>1. opened'[q] = Elements(idle'[q]) \cup Lent(q)' \cup Building(q)'
        BY <1>0, <1>1, <1>2, <1>4, <1>6, <2>1 DEF TotalAccounted
      <3>2. /\ \A i, j \in DOMAIN idle'[q] : idle'[q][i] = idle'[q][j] => i = j
            /\ Elements(idle'[q]) \cap Lent(q)' = {}
        BY <1>0, <1>1, <1>2, <1>6, <2>1 DEF NeverShared, Injective
      <3>3. \A v \in Users : held[v][p] /= c
        BY <1>3 DEF Lent
      <3>4. inst[p] /= c
        BY <1>3 DEF Lent
      <3>5. \A v, w \in Users :
              held'[v][q] = held'[w][q] /\ held'[v][q] /= NoConn => v = w
        BY <1>0, <1>5, <2>1, <3>3 DEF NeverShared
      <3>6. \A v \in Users : held'[v][q] = inst'[q] => held'[v][q] = NoConn
        BY <1>0, <1>5, <2>1, <3>4 DEF NeverShared
      <3> QED  BY <3>1, <3>2, <3>5, <3>6
    <2>2. CASE q /= p
      <3>1. idle'[q] = idle[q]
        BY <1>0, <2>2 DEF TypeOK
      <3>2. \A v \in Users : held'[v][q] = held[v][q]
        BY <1>5, <2>2
      <3>3. Lent(q)' = Lent(q)
        BY <3>2 DEF Lent
      <3> QED  BY <1>0, <1>4, <3>1, <3>2, <3>3 DEF TotalAccounted, NeverShared
    <2> QED  BY <2>1, <2>2
  <1>8. NeverShared'
    BY <1>7 DEF NeverShared
  <1> QED  BY <1>0, <1>7, <1>8 DEF Books, TotalAccounted, Within, Limit

LEMMA CreateBooks ==
  ASSUME IInv, NEW u \in Users, NEW p \in Pools, CreateNewConnection(u, p)
  PROVE  Books'
  <1> USE DEF CreateNewConnection, MayBorrow, Hand, CanGrow
  <1>0. TypeOK /\ NeverShared /\ TotalAccounted /\ Within /\ ~destroyed
    BY DEF IInv
  <1> DEFINE c == Fresh
  <1>1. c \in Conns /\ c /= NoConn /\ c \notin opened[p]
    BY <1>0, FreshConn, DbPoolAssumption
  <1>2. held' = [held EXCEPT ![u][p] = c]
    OBVIOUS
  <1> HIDE DEF c
  <1>3. \A q \in Pools : Building(q) = {} /\ Building(q)' = {}
    BY Quiescent DEF Building, Initializing
  <1>4. c \notin Lent(p) /\ c \notin Elements(idle[p])
    BY <1>0, <1>1 DEF TotalAccounted
  <1>5. \A v \in Users, q \in Pools :
          held'[v][q] = IF v = u /\ q = p THEN c ELSE held[v][q]
    BY <1>0, <1>2 DEF TypeOK
  <1>6. Lent(p)' = Lent(p) \cup {c}
    BY <1>1, <1>5 DEF Lent
  <1>7. /\ opened'[p] = opened[p] \cup {c} /\ total'[p] = total[p] + 1
        /\ Cardinality(opened'[p]) = Cardinality(opened[p]) + 1
    <2>1. opened'[p] = opened[p] \cup {c} /\ total'[p] = total[p] + 1
      BY <1>0 DEF TypeOK, c
    <2> QED  BY <1>0, <1>1, <2>1, OpenedFinite, FS_AddElement
  <1>8. ASSUME NEW q \in Pools
        PROVE  /\ total'[q] = Cardinality(opened'[q])
               /\ total'[q] <= Limit(q)'
               /\ opened'[q] = Elements(idle'[q]) \cup Lent(q)' \cup Building(q)'
               /\ Elements(idle'[q]) \cap Lent(q)' = {}
               /\ \A v, w \in Users :
                    held'[v][q] = held'[w][q] /\ held'[v][q] /= NoConn => v = w
               /\ \A v \in Users : held'[v][q] = inst'[q] => held'[v][q] = NoConn
    <2>1. CASE q = p
      <3>1. opened'[q] = Elements(idle'[q]) \cup Lent(q)' \cup Building(q)'
        BY <1>0, <1>3, <1>6, <1>7, <2>1 DEF TotalAccounted
      <3>2. Elements(idle'[q]) \cap Lent(q)' = {}
        BY <1>0, <1>4, <1>6, <2>1 DEF NeverShared
      <3>3. (\A v \in Users : held[v][p] /= c) /\ inst[p] /= c
        BY <1>1, <1>4 DEF Lent
      <3>4. \A v, w \in Users :
              held'[v][q] = held'[w][q] /\ held'[v][q] /= NoConn => v = w
        BY <1>0, <1>5, <2>1, <3>3 DEF NeverShared
      <3>5. \A v \in Users : held'[v][q] = inst'[q] => held'[v][q] = NoConn
        BY <1>0, <1>5, <2>1, <3>3 DEF NeverShared
      <3>6. total'[q] = Cardinality(opened'[q])
        BY <1>0, <1>7, <2>1 DEF TotalAccounted
      <3>7. total'[q] <= Limit(q)'
        BY <1>0, <1>7, <2>1, DbPoolAssumption DEF Limit, TypeOK
      <3> QED  BY <3>1, <3>2, <3>4, <3>5, <3>6, <3>7
    <2>2. CASE q /= p
      <3>1. opened'[q] = opened[q] /\ total'[q] = total[q]
        BY <1>0, <2>2 DEF TypeOK
      <3>2. \A v \in Users : held'[v][q] = held[v][q]
        BY <1>5, <2>2
      <3>3. Lent(q)' = Lent(q)
        BY <3>2 DEF Lent
      <3> QED  BY <1>0, <1>3, <3>1, <3>2, <3>3
                  DEF TotalAccounted, NeverShared, Within, Limit
    <2> QED  BY <2>1, <2>2
  <1>9. NeverShared'
    BY <1>0, <1>8 DEF NeverShared
  <1> QED  BY <1>8, <1>9 DEF Books, TotalAccounted, Within

LEMMA ReleaseBooks ==
  ASSUME IInv, NEW u \in Users, NEW p \in Pools, ReleaseConnection(u, p)
  PROVE  Books'
  <1> USE DEF ReleaseConnection, Hand
  <1>0. TypeOK /\ NeverShared /\ TotalAccounted /\ Within /\ ~destroyed
    BY DEF IInv
  <1> DEFINE c == held[u][p]
  <1>1. c \in Conns /\ c /= NoConn /\ c \in Lent(p)
    BY <1>0 DEF TypeOK, Lent
  <1>2. /\ Elements(Append(idle[p], c)) = Elements(idle[p]) \cup {c}
        /\ Injective(Append(idle[p], c))
        /\ c \notin Elements(idle[p])
    <2>1. idle[p] \in Seq(Conns) /\ Injective(idle[p]) /\ c \notin Elements(idle[p])
      BY <1>0, <1>1 DEF TypeOK, NeverShared, Injective
    <2> QED  BY <1>1, <2>1, AppendElements
  <1>3. idle'[p] = Append(idle[p], c)
    BY <1>0 DEF TypeOK
  <1>4. \A q \in Pools : Building(q) = {} /\ Building(q)' = {}
    BY Quiescent DEF Building, Initializing
  <1>5. \A v \in Users, q \in Pools :
          held'[v][q] = IF v = u /\ q = p THEN NoConn ELSE held[v][q]
    BY <1>0 DEF TypeOK
  <1>6. Lent(p)' = Lent(p) \ {c}
    <2>1. \A v \in Users : v /= u => held[v][p] /= c
      BY <1>0, <1>1 DEF NeverShared
    <2>2. inst[p] /= c
      BY <1>0, <1>1 DEF NeverShared
    <2> HIDE DEF c
    <2> QED  BY <1>5, <2>1, <2>2 DEF Lent, c
  <1> HIDE DEF c
  <1>7. ASSUME NEW q \in Pools
        PROVE  /\ opened'[q] = Elements(idle'[q]) \cup Lent(q)' \cup Building(q)'
               /\ \A i, j \in DOMAIN idle'[q] : idle'[q][i] = idle'[q][j] => i = j
               /\ Elements(idle'[q]) \cap Lent(q)' = {}
               /\ \A v, w \in Users :
                    held'[v][q] = held'[w][q] /\ held'[v][q] /= NoConn => v = w
               /\ \A v \in Users : held'[v][q] = inst'[q] => held'[v][q] = NoConn
    <2>1. CASE q = p
      <3>1. opened'[q] = Elements(idle'[q]) \cup Lent(q)' \cup Building(q)'
        BY <1>0, <1>1, <1>2, <1>3, <1>4, <1>6, <2>1 DEF TotalAccounted
      <3>2. /\ \A i, j \in DOMAIN idle'[q] : idle'[q][i] = idle'[q][j] => i = j
            /\ Elements(idle'[q]) \cap Lent(q)' = {}
        BY <1>0, <1>2, <1>3, <1>6, <2>1 DEF NeverShared, Injective
      <3>3. /\ \A v, w \in Users :
                 held'[v][q] = held'[w][q] /\ held'[v][q] /= NoConn => v = w
            /\ \A v \in Users : held'[v][q] = inst'[q] => held'[v][q] = NoConn
        BY <1>0, <1>5, <2>1 DEF NeverShared
      <3> QED  BY <3>1, <3>2, <3>3
    <2>2. CASE q /= p
      <3>1. idle'[q] = idle[q]
        BY <1>0, <2>2 DEF TypeOK
      <3>2. \A v \in Users : held'[v][q] = held[v][q]
        BY <1>5, <2>2
      <3>3. Lent(q)' = Lent(q)
        BY <3>2 DEF Lent
      <3>4. opened'[q] = Elements(idle'[q]) \cup Lent(q)' \cup Building(q)'
        BY <1>0, <1>4, <3>1, <3>3 DEF TotalAccounted
      <3>5. /\ \A i, j \in DOMAIN idle'[q] : idle'[q][i] = idle'[q][j] => i = j
            /\ Elements(idle'[q]) \cap Lent(q)' = {}
        <4>1. /\ \A i, j \in DOMAIN idle[q] : idle[q][i] = idle[q][j] => i = j
              /\ Elements(idle[q]) \cap Lent(q) = {}
          BY <1>0 DEF NeverShared
        <4> QED  BY <3>1, <3>3, <4>1, Zenon
      <3>6. /\ \A v, w \in Users :
                 held'[v][q] = held'[w][q] /\ held'[v][q] /= NoConn => v = w
            /\ \A v \in Users : held'[v][q] = inst'[q] => held'[v][q] = NoConn
        BY <1>0, <3>2 DEF NeverShared
      <3> QED  BY <3>4, <3>5, <3>6
    <2> QED  BY <2>1, <2>2
  <1>8. NeverShared'
    BY <1>7 DEF NeverShared
  <1> QED  BY <1>0, <1>7, <1>8 DEF Books, TotalAccounted, Within, Limit

LEMMA UnchangedBooks ==
  ASSUME IInv, UNCHANGED dbVars
  PROVE  IInv'
  <1> USE DEF dbVars
  <1>1. TypeOK'
    BY DEF IInv, TypeOK
  <1>2. Staged' /\ Gone'
    BY DEF IInv, Staged, Gone, Injective
  <1>3. \A p \in Pools : Lent(p)' = Lent(p) /\ Building(p)' = Building(p)
    BY DEF Lent, Building, Initializing
  <1>4. NeverShared' /\ TotalAccounted'
    BY <1>3 DEF IInv, NeverShared, TotalAccounted
  <1>5. Within' /\ WithinMax'
    BY DEF IInv, Within, WithinMax, Limit
  <1> QED  BY <1>1, <1>2, <1>4, <1>5 DEF IInv

LEMMA ShutdownBooks ==
  ASSUME IInv, Shutdown
  PROVE  Books' /\ WithinMax'
  <1> USE DEF Shutdown, ShutdownPools
  <1>0. TypeOK /\ WithinMax /\ NeverShared /\ TotalAccounted
    BY DEF IInv
  <1>1. destroyed'
    OBVIOUS
  <1>2. \A q \in Pools : idle'[q] = <<>> /\ \A v \in Users : held'[v][q] = NoConn
    OBVIOUS
  <1>3. NeverShared'
    BY <1>2 DEF NeverShared, Elements
  <1>4. WithinMax'
    <2> SUFFICES ASSUME NEW q \in Pools
                 PROVE  Cardinality(opened'[q]) <= Limit(q)'
      BY DEF WithinMax
    <2>1. opened'[q] \subseteq opened[q] /\ IsFiniteSet(opened[q])
      BY <1>0, OpenedFinite
    <2>2. /\ Cardinality(opened'[q]) <= Cardinality(opened[q])
          /\ Cardinality(opened'[q]) \in Nat /\ Cardinality(opened[q]) \in Nat
      BY <2>1, FS_Subset, FS_CardinalityType
    <2> QED  BY <1>0, <2>2, DbPoolAssumption DEF WithinMax, Limit
  <1>5. TotalAccounted'
    <2> SUFFICES ASSUME NEW q \in Pools
                 PROVE  opened'[q] = Elements(idle'[q]) \cup Lent(q)' \cup Building(q)'
      BY <1>1 DEF TotalAccounted
    <2>1. Elements(idle'[q]) = {}
      BY <1>2 DEF Elements
    <2>2. Building(q) = {} /\ Building(q)' = {}
      BY DEF Building, Initializing
    <2>3. Lent(q)' = Lent(q)
      BY DEF Lent
    <2>4. opened[q] = Elements(idle[q]) \cup Lent(q)
      BY <1>0, <2>2 DEF TotalAccounted
    <2>5. Elements(idle[q]) \cap Lent(q) = {}
      BY <1>0 DEF NeverShared
    <2>6. opened'[q] = opened[q] \ Elements(idle[q])
      OBVIOUS
    <2> HIDE DEF Shutdown, ShutdownPools
    <2> QED  BY <2>1, <2>2, <2>3, <2>4, <2>5, <2>6
  <1> QED  BY <1>1, <1>3, <1>4, <1>5 DEF Books, Within

----------------------------------------------------------------------------
LEMMA InitIInv == Init => IInv
  <1> SUFFICES ASSUME Init PROVE IInv
    OBVIOUS
  <1> USE DEF Init
  <1>1. \A p \in Pools : /\ Elements(idle[p]) = {} /\ Lent(p) = {}
                         /\ Building(p) = {}
    BY DEF Elements, Lent, Building
  <1>2. TypeOK /\ Staged /\ Gone
    <2>1. TypeOK
      <3>1. <<>> \in Seq(Conns)
        OBVIOUS
      <3>2. temp \in Seq(Conns) /\ idle \in [Pools -> Seq(Conns)]
        BY <3>1
      <3>3. inst \in [Pools -> Conns \cup {NoConn}]
        OBVIOUS
      <3>4. held \in [Users -> [Pools -> Conns \cup {NoConn}]]
        OBVIOUS
      <3>5. opened \in [Pools -> SUBSET Conns] /\ total \in [Pools -> Int]
        OBVIOUS
      <3>6. conf \subseteq Pools /\ at \in 1..4
        OBVIOUS
      <3>7. /\ initResult \in {"running", "ok", "failed"}
            /\ connected \in BOOLEAN /\ destroyed \in BOOLEAN
        OBVIOUS
      <3> QED  BY <3>2, <3>3, <3>4, <3>5, <3>6, <3>7, Zenon DEF TypeOK
    <2>2. Staged
      <3>1. \A k \in 1..3 : idle[Order[k]] = <<>> /\ inst[Order[k]] = NoConn
        BY DEF Order, Pools
      <3>2. Injective(temp) /\ Len(temp) = 0
        BY DEF Injective
      <3>3. \A u \in Users, p \in Pools : held[u][p] = NoConn
        OBVIOUS
      <3>4. ~connected /\ ~destroyed /\ temp = <<>> /\ 0 <= MinConn
        BY DbPoolAssumption
      <3> QED  BY <3>1, <3>2, <3>3, <3>4 DEF Staged
    <2>3. Gone
      BY DEF Gone
    <2> QED  BY <2>1, <2>2, <2>3
  <1>3. NeverShared
    BY <1>1 DEF NeverShared
  <1>4. TotalAccounted
    BY <1>1, FS_EmptySet DEF TotalAccounted
  <1>5. Within /\ WithinMax
    BY FS_EmptySet, DbPoolAssumption DEF Within, WithinMax, Limit
  <1> QED  BY <1>2, <1>3, <1>4, <1>5 DEF IInv

LEMMA StepIInv == IInv /\ [Next]_dbVars => IInv'
  <1> SUFFICES ASSUME IInv, [Next]_dbVars PROVE IInv'
    OBVIOUS
  <1>0. TypeOK /\ Staged /\ NeverShared
    BY DEF IInv
  <1>1. ASSUME TypeOK', Staged', Gone', Books', ~destroyed' PROVE IInv'
    <2>1. WithinMax'
      BY <1>1 DEF Books, TotalAccounted, Within, WithinMax
    <2> QED  BY <1>1, <2>1 DEF IInv, Books
  <1>2. CASE InitDB
    <2>1. TypeOK' /\ Staged' /\ Gone'
      BY <1>0, <1>2, InitTypes, InitStages
    <2>2. Books'
      BY <1>2, SkipBooks, ConnectBooks, FailsBooks, BindBooks, DoneBooks DEF InitDB
    <2>3. ~destroyed'
      BY <1>0, <1>2 DEF InitDB, SkipPool, ConnectOne, ConnectFails, Connecting,
                        BindInstance, InitDone, Initializing, Staged
    <2> QED  BY <1>1, <2>1, <2>2, <2>3
  <1>3. ASSUME NEW u \in Users, NEW p \in Pools,
               Borrow(u, p) \/ GetNull(u, p) \/ ReleaseConnection(u, p)
        PROVE  IInv'
    <2>1. TypeOK' /\ Staged' /\ Gone'
      BY <1>0, <1>3, UserTypes, UserStages
    <2>2. CASE GetNull(u, p)
      BY <2>2, UnchangedBooks DEF GetNull
    <2>3. CASE Borrow(u, p) \/ ReleaseConnection(u, p)
      <3>1. Books'
        BY <2>3, TakeBooks, CreateBooks, ReleaseBooks DEF Borrow
      <3>2. ~destroyed'
        BY <2>3 DEF Borrow, TakeIdle, CreateNewConnection, ReleaseConnection,
                    MayBorrow
      <3> QED  BY <1>1, <2>1, <3>1, <3>2
    <2> QED  BY <1>3, <2>2, <2>3
  <1>4. CASE Shutdown
    BY <1>0, <1>4, ShutdownTypes, ShutdownStages, ShutdownBooks DEF IInv, Books
  <1>5. CASE UNCHANGED dbVars
    BY <1>5, UnchangedBooks
  <1> QED  BY <1>2, <1>3, <1>4, <1>5 DEF Next

LEMMA Invariance == Spec => []IInv
  BY InitIInv, StepIInv, PTL DEF Spec

(***************************************************************************)
(* Every variable of the pools keeps its type, whatever connects fail.     *)
(***************************************************************************)
THEOREM PoolTypeCorrect == Spec => []TypeOK
  <1>1. IInv => TypeOK
    BY DEF IInv
  <1> QED  BY <1>1, Invariance, PTL

(***************************************************************************)
(* m_nCurrentTotal is the number of open connections and every one of them *)
(* is in the idle vector, lent or being handed over, for any limits and    *)
(* any number of borrowers.                                                *)
(***************************************************************************)
THEOREM ConnectionsAccounted == Spec => []TotalAccounted
  <1>1. IInv => TotalAccounted
    BY DEF IInv
  <1> QED  BY <1>1, Invariance, PTL

(***************************************************************************)
(* A borrowed connection is in no other hands and not in the idle vector.  *)
(***************************************************************************)
THEOREM ConnectionsExclusive == Spec => []NeverShared
  <1>1. IInv => NeverShared
    BY DEF IInv
  <1> QED  BY <1>1, Invariance, PTL

(***************************************************************************)
(* No pool ever has more open connections than m_nMaxConnections.          *)
(***************************************************************************)
THEOREM PoolBounded == Spec => []WithinMax
  <1>1. IInv => WithinMax
    BY DEF IInv
  <1> QED  BY <1>1, Invariance, PTL

----------------------------------------------------------------------------
(***************************************************************************)
(* The process.                                                            *)
(***************************************************************************)
\* The destructor has got to its n-th step.
Past(n) == process = "gone" \/ (process = "dying" /\ stage >= n)

Stages ==
  /\ process \in {"none", "up"} => stage = 0
  /\ process = "dying" => stage \in 1 .. 6
  /\ process = "gone" => stage = 6

\* What has been done by then.
Duties ==
  /\ Past(1) => phase = "out" /\ (dbMgr => initResult # "running")
  /\ Past(2) => started = {}
  /\ Past(3) => "pool" \in deleted
  /\ ~Past(3) => deleted = {}
  /\ destroyed => Past(6)

\* Who may have a connection, and when.
Holders ==
  /\ \A k \in Tasks, p \in Pools : held[k][p] # NoConn => k \in started
  /\ \A p \in Pools : held[Loader][p] # NoConn =>
       p = "SHARD" /\ phase \in {"query", "fetch", "index", "test"}

Enqueuers ==
  /\ passed \cap Tasks \subseteq started
  /\ crash \notin Tasks

Filled(n) == \A i \in 1 .. 6 : i < n => data[Loaders[i].tests] # {}

Filling ==
  /\ phase # "out" => Filled(step)
  /\ loadResult = "TRUE" => Filled(7)

PInv ==
  /\ ProcessTypeOK /\ RefTypeOK
  /\ Stages /\ Duties /\ Holders /\ Enqueuers /\ Filling

LEMMA OrderLength == Len(DestroyOrder) = 5
  BY DEF DestroyOrder

LEMMA Places ==
  ASSUME stage \in 0 .. 6
  PROVE  /\ Doing("join") <=> process = "dying" /\ stage = 1
         /\ Doing("joined") <=> process = "dying" /\ stage = 2
         /\ Doing("refdata") <=> process = "dying" /\ stage = 3
         /\ Doing("objmgr") <=> process = "dying" /\ stage = 4
         /\ Doing("dbmgr") <=> process = "dying" /\ stage = 5
  <1> USE DEF DestroyOrder, Doing
  <1>1. DestroyOrder = <<"join", "joined", "refdata", "objmgr", "dbmgr">>
    OBVIOUS
  <1>2. Len(DestroyOrder) = 5 /\ DOMAIN DestroyOrder = {1, 2, 3, 4, 5}
    BY <1>1
  <1> QED  BY <1>1, <1>2

LEMMA LoaderFacts ==
  /\ \A i \in 1 .. 6 : Loaders[i].tests \in Tables /\ Loaders[i].fills \in Tables
  /\ {Loaders[i].tests : i \in 1 .. 6} = Tables \ {"ObjStruct"}
  BY DEF Loaders, Tables, InitializeObjChar, InitializeObjItem,
         InitializeObjStruct, InitializeSkillData, InitializeLevel,
         InitializeNonSplitItem

LEMMA InitPInv == HydraInit => PInv
  <1> SUFFICES ASSUME HydraInit PROVE PInv
    OBVIOUS
  <1> USE ProcessAssumption, RefDataAssumption
      DEF HydraInit, RefInit, Init, Pool!Init
  <1>1. ProcessTypeOK
    <2>1. stage \in 0 .. Len(DestroyOrder) + 1 /\ crew \in 0 .. MaxThreads
      BY OrderLength
    <2>2. waiting \in Seq(Tasks)
      OBVIOUS
    <2> QED  BY <2>1, <2>2 DEF ProcessTypeOK
  <1>2. RefTypeOK
    BY DEF RefTypeOK
  <1>3. Stages /\ Duties /\ Enqueuers
    BY DEF Stages, Duties, Enqueuers, Past
  <1>4. Holders
    BY DEF Holders
  <1>5. Filling
    BY DEF Filling, Filled
  <1> QED  BY <1>1, <1>2, <1>3, <1>4, <1>5 DEF PInv

(***************************************************************************)
(* A step of the process is one of DbPool.                                 *)
(***************************************************************************)
LEMMA DbStep ==
  ASSUME TypeOK, PInv, [HydraNext]_vars
  PROVE  [Next]_dbVars
  <1> USE DEF PInv
  <1>1. CASE RunInitDB
    BY <1>1 DEF RunInitDB, Next
  <1>2. CASE LoadRefData
    <2>1. Loader \in Users /\ "SHARD" \in Pools
      BY ProcessAssumption DEF Pools
    <2>2. CASE LoadGet
      BY <2>1, <2>2 DEF LoadGet, Next
    <2>3. CASE LoadNull
      BY <2>3 DEF LoadNull, GetNull
    <2>4. CASE LoadRelease
      BY <2>1, <2>4 DEF LoadRelease, Next
    <2>5. CASE UNCHANGED dbVars
      BY <2>5
    <2> QED  BY <1>2, <2>2, <2>3, <2>4, <2>5
             DEF LoadRefData, Load, InitializeData, LoadQuery, LoadRow,
                 LoadIndex, LoadEnd, LoadFails, LoadNext, LoadLast
  <1>3. ASSUME NEW k \in Tasks, TaskUsesDb(k) PROVE Next
    BY <1>3, ProcessAssumption DEF TaskUsesDb, Next, Pools
  <1>4. CASE DeleteDbMgr
    <2>1. process = "dying" /\ stage = 5
      BY <1>4, Places, OrderLength DEF DeleteDbMgr, ProcessTypeOK, Stages
    <2>2. CASE dbMgr /\ ShutdownPools
      <3>1. ~destroyed /\ initResult # "running" /\ phase = "out" /\ started = {}
        BY <2>1, <2>2 DEF Duties, Past
      <3>2. \A u \in Users, p \in Pools : held[u][p] = NoConn
        BY <3>1, ProcessAssumption DEF Holders
      <3> QED  BY <2>2, <3>1, <3>2 DEF Shutdown, Next
    <2> QED  BY <1>4, <2>2 DEF DeleteDbMgr
  <1>5. CASE UNCHANGED dbVars
    BY <1>5
  <1> QED  BY <1>1, <1>2, <1>3, <1>4, <1>5
           DEF HydraNext, TasksRun, vars, CreateInstance, InitDbMgr, InitRefDataMgr,
               InitObjectMgr, MainEnqueues, TaskReturns, EnqueueTests,
               EnqueueTask, TaskStarts, Destroy, DestroyBegin, JoinPool,
               DeletePool, DeleteRefDataMgr, DeleteObjMgr, ResetSingleton

-----------------------------------------------------------------------------
(***************************************************************************)
(* PInv is kept by the creation of the parts, by a load of the reference   *)
(* data, by the pool's tasks, and by the destructor.                       *)
(***************************************************************************)
LEMMA CreationKeeps ==
  ASSUME TypeOK, PInv,
         CreateInstance \/ InitDbMgr \/ RunInitDB \/ InitRefDataMgr \/ InitObjectMgr
  PROVE  PInv'
  <1> USE DEF PInv, ProcessTypeOK, CreateInstance, InitDbMgr, RunInitDB,
              InitRefDataMgr, InitObjectMgr, MainIsFree
  <1>1. /\ UNCHANGED <<refVars, stage, waiting, started, finished, passed, deleted,
                       held, destroyed, crash>>
        /\ process \in {"none", "up"} /\ process' = "up"
        /\ crew' \in 0 .. MaxThreads
        /\ dbMgr' \in BOOLEAN /\ refMgr' \in BOOLEAN /\ objMgr' \in BOOLEAN
    BY DEF dbVars, lifeVars, poolVars, mgrVars, InitDB, SkipPool, ConnectOne,
           ConnectFails, BindInstance, InitDone
  <1>2. ProcessTypeOK'
    BY <1>1
  <1>3. RefTypeOK' /\ Holders' /\ Enqueuers' /\ Filling'
    BY <1>1 DEF refVars, RefTypeOK, Holders, Enqueuers, Filling, Filled
  <1>4. Stages' /\ Duties'
    BY <1>1 DEF Stages, Duties, Past
  <1> QED  BY <1>2, <1>3, <1>4

LEMMA LoadKeeps ==
  ASSUME TypeOK, PInv, LoadRefData
  PROVE  PInv'
  <1> USE DEF PInv, LoadRefData
  <1>0. /\ Loader \in Users /\ Loader \notin Tasks /\ Tasks \subseteq Users
        /\ "SHARD" \in Pools
    BY ProcessAssumption DEF Pools
  <1>1. /\ UNCHANGED <<lifeVars, poolVars, deleted, mgrVars, crash, destroyed,
                       initResult>>
        /\ process = "up"
    BY DEF Load, InitializeData, LoadGet, LoadNull, LoadQuery, LoadRow,
           LoadIndex, LoadEnd, LoadFails, LoadNext, LoadLast, LoadRelease,
           Borrow, TakeIdle, CreateNewConnection, GetNull, ReleaseConnection,
           dbVars
  <1>2. ProcessTypeOK' /\ Stages' /\ Duties' /\ Enqueuers'
    BY <1>1 DEF ProcessTypeOK, Stages, Duties, Past, Enqueuers, lifeVars,
                poolVars, mgrVars
  <1>3. RefTypeOK'
    <2> USE DEF RefTypeOK
    <2>1. CASE InitializeData
      BY <2>1, RefDataAssumption DEF InitializeData
    <2>2. CASE LoadGet \/ LoadNull \/ LoadQuery \/ LoadEnd
      BY <2>2 DEF LoadGet, LoadNull, LoadQuery, LoadEnd
    <2>3. ASSUME NEW r \in Rows, LoadRow(r) PROVE RefTypeOK'
      BY <2>3, LoaderFacts DEF LoadRow, This
    <2>4. CASE LoadIndex
      BY <2>4, LoaderFacts DEF LoadIndex, This
    <2>5. CASE LoadFails \/ LoadNext \/ LoadLast
      BY <2>5 DEF LoadFails, LoadNext, LoadLast, LoadRelease
    <2> QED  BY <2>1, <2>2, <2>3, <2>4, <2>5 DEF Load
  <1>4. Holders'
    <2>1. CASE LoadGet
      <3>1. /\ \A u \in Users, p \in Pools :
                 u # Loader \/ p # "SHARD" => held'[u][p] = held[u][p]
            /\ phase' = "query" /\ phase = "get"
        BY <1>0, <2>1 DEF LoadGet, Borrow, TakeIdle, CreateNewConnection, Hand,
                          TypeOK
      <3> QED  BY <1>0, <1>1, <3>1 DEF Holders, poolVars
    <2>2. CASE LoadRelease /\ phase' \in {"get", "out"}
      <3>1. /\ \A u \in Users, p \in Pools :
                 held'[u][p] = IF u = Loader /\ p = "SHARD" THEN NoConn
                               ELSE held[u][p]
        BY <1>0, <2>2 DEF LoadRelease, ReleaseConnection, Hand, TypeOK
      <3> QED  BY <1>0, <1>1, <3>1 DEF Holders, poolVars
    <2>3. CASE /\ held' = held
               /\ phase \in {"query", "fetch", "index", "test"} =>
                    phase' \in {"query", "fetch", "index", "test"}
      BY <1>1, <2>3 DEF Holders, poolVars
    <2>4. CASE LoadFails \/ LoadNext \/ LoadLast
      BY <2>2, <2>4 DEF LoadFails, LoadNext, LoadLast
    <2>5. ASSUME NEW r \in Rows, LoadRow(r) PROVE Holders'
      BY <2>3, <2>5 DEF LoadRow, dbVars
    <2>6. CASE InitializeData \/ LoadNull \/ LoadQuery \/ LoadIndex \/ LoadEnd
      BY <2>3, <2>6 DEF InitializeData, LoadNull, GetNull, LoadQuery, LoadIndex,
                        LoadEnd, dbVars
    <2> QED  BY <2>1, <2>4, <2>5, <2>6 DEF Load
  <1>5. Filling'
    <2> USE DEF Filling, Filled, RefTypeOK
    <2>1. CASE InitializeData
      BY <2>1 DEF InitializeData
    <2>2. CASE LoadGet \/ LoadNull \/ LoadQuery \/ LoadIndex \/ LoadEnd
      BY <2>2 DEF LoadGet, LoadNull, LoadQuery, LoadIndex, LoadEnd
    <2>3. ASSUME NEW r \in Rows, LoadRow(r) PROVE Filling'
      <3>1. \A t \in Tables : data[t] # {} => data'[t] # {}
        BY <2>3, LoaderFacts DEF LoadRow, This
      <3> QED  BY <2>3, <3>1, LoaderFacts DEF LoadRow
    <2>4. CASE LoadFails
      BY <2>4 DEF LoadFails, LoadRelease
    <2>5. CASE LoadNext
      BY <2>5 DEF LoadNext, LoadRelease, Empty, This
    <2>6. CASE LoadLast
      BY <2>6 DEF LoadLast, LoadRelease, Empty, This
    <2> QED  BY <2>1, <2>2, <2>3, <2>4, <2>5, <2>6 DEF Load
  <1> QED  BY <1>2, <1>3, <1>4, <1>5

LEMMA TasksKeep ==
  ASSUME TypeOK, PInv, TasksRun
  PROVE  PInv'
  <1> USE DEF PInv, TasksRun
  <1>0. /\ Loader \notin Tasks /\ Tasks \subseteq Users
        /\ Outsiders \cap Tasks = {} /\ NoThread \notin Tasks
        /\ "SHARD" \in Pools
    BY ProcessAssumption DEF Pools
  <1>1. UNCHANGED <<refVars, lifeVars, crew, deleted, mgrVars, destroyed, initResult>>
    BY DEF MainEnqueues, EnqueueTests, EnqueueTask, TaskStarts, TaskUsesDb,
           TaskReturns, PoolStep, Borrow, TakeIdle, CreateNewConnection,
           ReleaseConnection, dbVars
  <1>2. RefTypeOK' /\ Filling' /\ Stages'
    BY <1>1 DEF RefTypeOK, Filling, Filled, Stages, refVars, lifeVars
  <1>3. ASSUME started' = started, held' = held
        PROVE  Duties' /\ Holders'
    BY <1>1, <1>3 DEF Duties, Past, Holders, refVars, lifeVars, mgrVars
  <1>4. ASSUME NEW k \in Tasks, MainEnqueues(k) PROVE PInv'
    <2>1. /\ waiting' \in Seq(Tasks)
          /\ UNCHANGED <<started, finished, held, passed, crash>>
      BY <1>4 DEF MainEnqueues, Pool!Enqueue, ProcessTypeOK, dbVars
    <2>2. ProcessTypeOK' /\ Enqueuers'
      BY <1>1, <2>1 DEF ProcessTypeOK, Enqueuers, lifeVars, mgrVars
    <2> QED  BY <1>2, <1>3, <2>1, <2>2
  <1>5. ASSUME NEW t \in Tasks \cup Outsiders, EnqueueTests(t) PROVE PInv'
    <2>1. /\ passed' = passed \cup {t} /\ t \in Outsiders \cup started
          /\ UNCHANGED <<waiting, started, finished, held, crash>>
      BY <1>5 DEF EnqueueTests, dbVars
    <2>2. ProcessTypeOK' /\ Enqueuers'
      BY <1>0, <1>1, <2>1 DEF ProcessTypeOK, Enqueuers, lifeVars, mgrVars
    <2> QED  BY <1>2, <1>3, <2>1, <2>2
  <1>6. ASSUME NEW t \in Tasks \cup Outsiders, NEW k \in Tasks, EnqueueTask(t, k)
        PROVE  PInv'
    <2>1. /\ t \in passed /\ passed' = passed \ {t}
          /\ waiting' \in Seq(Tasks)
          /\ crash' = crash \/ (crash' = t /\ "pool" \in deleted)
          /\ UNCHANGED <<started, finished, held>>
      BY <1>6 DEF EnqueueTask, Pool!Enqueue, ProcessTypeOK, dbVars
    <2>2. "pool" \in deleted => started = {}
      BY DEF Duties, Stages, Past
    <2>3. Enqueuers'
      BY <2>1, <2>2 DEF Enqueuers
    <2>4. ProcessTypeOK'
      BY <1>1, <2>1 DEF ProcessTypeOK, lifeVars, mgrVars
    <2> QED  BY <1>2, <1>3, <2>1, <2>3, <2>4
  <1>7. CASE TaskStarts
    <2>1. /\ waiting # <<>> /\ waiting' = Tail(waiting)
          /\ started' = started \cup {Head(waiting)}
          /\ process # "none" /\ ~Doing("joined") /\ "pool" \notin deleted
          /\ UNCHANGED <<finished, held, passed, crash>>
      BY <1>7 DEF TaskStarts, Pool!Start, dbVars
    <2>2. Head(waiting) \in Tasks /\ waiting' \in Seq(Tasks)
      BY <2>1 DEF ProcessTypeOK
    <2>3. ProcessTypeOK' /\ Enqueuers' /\ Holders'
      BY <1>1, <2>1, <2>2 DEF ProcessTypeOK, Enqueuers, Holders, refVars,
                              lifeVars, mgrVars
    <2>4. ~Past(2)
      <3>1. stage \in 0 .. 6
        BY OrderLength DEF ProcessTypeOK
      <3>2. ~Past(3) /\ ~(process = "dying" /\ stage = 2)
        BY <2>1, <3>1, Places DEF Duties
      <3> QED  BY <3>1, <3>2 DEF Past
    <2>5. Duties'
      BY <1>1, <2>4 DEF Duties, Past, refVars, lifeVars, mgrVars
    <2> QED  BY <1>2, <2>3, <2>5
  <1>8. ASSUME NEW k \in Tasks, TaskUsesDb(k) PROVE PInv'
    <2>1. /\ k \in started
          /\ UNCHANGED <<waiting, started, finished, passed, crash>>
      BY <1>8 DEF TaskUsesDb
    <2>2. \A u \in Users, p \in Pools : u # k => held'[u][p] = held[u][p]
      BY <1>0, <1>8 DEF TaskUsesDb, Borrow, TakeIdle, CreateNewConnection,
                        ReleaseConnection, Hand, TypeOK
    <2>3. Holders'
      BY <1>0, <1>1, <2>1, <2>2, ProcessAssumption DEF Holders, refVars
    <2>4. ProcessTypeOK' /\ Enqueuers' /\ Duties'
      BY <1>1, <2>1 DEF ProcessTypeOK, Enqueuers, Duties, Past, refVars,
                        lifeVars, mgrVars
    <2> QED  BY <1>2, <2>3, <2>4
  <1>9. ASSUME NEW k \in Tasks, TaskReturns(k) PROVE PInv'
    <2>1. /\ k \notin passed /\ \A p \in Pools : held[k][p] = NoConn
          /\ started' = started \ {k} /\ finished' = finished \cup {k}
          /\ UNCHANGED <<waiting, held, passed, crash>>
      BY <1>9 DEF TaskReturns, Pool!Finish, dbVars
    <2>2. ProcessTypeOK' /\ Enqueuers' /\ Holders'
      BY <1>1, <2>1 DEF ProcessTypeOK, Enqueuers, Holders, refVars, lifeVars,
                        mgrVars
    <2>3. Duties'
      BY <1>1, <2>1 DEF Duties, Past, refVars, lifeVars, mgrVars
    <2> QED  BY <1>2, <2>2, <2>3
  <1> QED  BY <1>4, <1>5, <1>6, <1>7, <1>8, <1>9

LEMMA DestroyKeeps ==
  ASSUME TypeOK, PInv, Destroy
  PROVE  PInv'
  <1> USE DEF PInv
  <1>0. stage \in 0 .. 6 /\ stage \in Int
    BY OrderLength DEF ProcessTypeOK
  <1>1. UNCHANGED <<poolVars, mgrVars, crash, held, initResult>>
    BY DEF Destroy, DestroyBegin, JoinPool, DeletePool, DeleteRefDataMgr,
           DeleteObjMgr, DeleteDbMgr, ResetSingleton, ShutdownPools, dbVars
  <1>2. Enqueuers'
    BY <1>1 DEF Enqueuers, poolVars
  <1>3. ASSUME UNCHANGED refVars
        PROVE  RefTypeOK' /\ Filling' /\ Holders'
    BY <1>1, <1>3 DEF RefTypeOK, Filling, Filled, Holders, refVars, poolVars
  <1>4. ASSUME stage' \in 0 .. 6, process' \in {"dying", "gone"},
               deleted' \subseteq {"pool", "refdata", "objmgr", "dbmgr"}
        PROVE  ProcessTypeOK'
    BY <1>1, <1>4, OrderLength DEF ProcessTypeOK, poolVars, mgrVars
  <1>5. CASE DestroyBegin
    <2>1. /\ process = "up" /\ process' = "dying" /\ stage' = 1
          /\ phase = "out" /\ (dbMgr => initResult # "running")
          /\ UNCHANGED <<refVars, deleted, destroyed>>
      BY <1>5 DEF DestroyBegin, MainIsFree, dbVars
    <2>2. Stages' /\ Duties'
      BY <1>1, <2>1 DEF Stages, Duties, Past, refVars, poolVars, mgrVars
    <2> QED  BY <1>2, <1>3, <1>4, <2>1, <2>2 DEF ProcessTypeOK
  <1>6. CASE JoinPool
    <2>1. /\ process = "dying" /\ process' = "dying" /\ stage = 1 /\ stage' = 2
          /\ started = {} /\ UNCHANGED <<refVars, deleted, destroyed>>
      BY <1>0, <1>6, Places DEF JoinPool, Proceed, dbVars
    <2>2. Stages' /\ Duties'
      BY <1>1, <2>1 DEF Stages, Duties, Past, refVars, poolVars, mgrVars
    <2> QED  BY <1>2, <1>3, <1>4, <2>1, <2>2 DEF ProcessTypeOK
  <1>7. CASE DeletePool
    <2>1. /\ process = "dying" /\ process' = "dying" /\ stage = 2 /\ stage' = 3
          /\ deleted' = deleted \cup {"pool"} /\ UNCHANGED <<refVars, destroyed>>
      BY <1>0, <1>7, Places DEF DeletePool, Proceed, dbVars
    <2>2. Stages' /\ Duties'
      BY <1>1, <2>1 DEF Stages, Duties, Past, refVars, poolVars, mgrVars
    <2> QED  BY <1>2, <1>3, <1>4, <2>1, <2>2 DEF ProcessTypeOK
  <1>8. CASE DeleteRefDataMgr
    <2>1. /\ process = "dying" /\ process' = "dying" /\ stage = 3 /\ stage' = 4
          /\ deleted' \in {deleted, deleted \cup {"refdata"}}
          /\ CleanUp \/ UNCHANGED refVars
          /\ UNCHANGED destroyed
      BY <1>0, <1>8, Places DEF DeleteRefDataMgr, Proceed, dbVars
    <2>2. UNCHANGED phase /\ phase = "out"
      BY <2>1 DEF CleanUp, refVars, Duties, Past
    <2>3. Stages' /\ Duties'
      BY <1>1, <2>1, <2>2 DEF Stages, Duties, Past, poolVars, mgrVars
    <2>4. ASSUME CleanUp
          PROVE  RefTypeOK' /\ Filling' /\ Holders'
      BY <1>1, <2>2, <2>4 DEF CleanUp, RefTypeOK, Filling, Holders, poolVars
    <2> QED  BY <1>2, <1>3, <1>4, <2>1, <2>3, <2>4 DEF ProcessTypeOK
  <1>9. CASE DeleteObjMgr
    <2>1. /\ process = "dying" /\ process' = "dying" /\ stage = 4 /\ stage' = 5
          /\ deleted' \in {deleted, deleted \cup {"objmgr"}}
          /\ UNCHANGED <<refVars, destroyed>>
      BY <1>0, <1>9, Places DEF DeleteObjMgr, Proceed, dbVars
    <2>2. Stages' /\ Duties'
      BY <1>1, <2>1 DEF Stages, Duties, Past, refVars, poolVars, mgrVars
    <2> QED  BY <1>2, <1>3, <1>4, <2>1, <2>2 DEF ProcessTypeOK
  <1>10. CASE DeleteDbMgr
    <2>1. /\ process = "dying" /\ process' = "dying" /\ stage = 5 /\ stage' = 6
          /\ deleted' \in {deleted, deleted \cup {"dbmgr"}} /\ UNCHANGED refVars
      BY <1>0, <1>10, Places DEF DeleteDbMgr, Proceed
    <2>2. Stages' /\ Duties'
      BY <1>1, <2>1 DEF Stages, Duties, Past, refVars, poolVars, mgrVars
    <2> QED  BY <1>2, <1>3, <1>4, <2>1, <2>2 DEF ProcessTypeOK
  <1>11. CASE ResetSingleton
    <2>1. /\ process = "dying" /\ process' = "gone" /\ stage = 6 /\ stage' = 6
          /\ UNCHANGED <<refVars, deleted, destroyed>>
      BY <1>11, OrderLength DEF ResetSingleton, dbVars
    <2>2. Stages' /\ Duties'
      BY <1>1, <2>1 DEF Stages, Duties, Past, refVars, poolVars, mgrVars
    <2> QED  BY <1>2, <1>3, <1>4, <2>1, <2>2 DEF ProcessTypeOK
  <1> QED  BY <1>5, <1>6, <1>7, <1>8, <1>9, <1>10, <1>11 DEF Destroy

LEMMA StepPInv ==
  ASSUME TypeOK, PInv, [HydraNext]_vars
  PROVE  PInv'
  <1>1. CASE HydraNext
    BY <1>1, CreationKeeps, LoadKeeps, TasksKeep, DestroyKeeps
       DEF HydraNext, TasksRun
  <1>2. CASE UNCHANGED vars
    BY <1>2 DEF vars, refVars, lifeVars, poolVars, mgrVars, dbVars, PInv,
                ProcessTypeOK, RefTypeOK, Stages, Duties, Past, Holders,
                Enqueuers, Filling, Filled
  <1> QED  BY <1>1, <1>2

HInv == IInv /\ PInv

LEMMA HydraInvariance == HydraSpec => []HInv
  <1>1. HydraInit => HInv
    BY InitIInv, InitPInv DEF HInv, HydraInit, RefInit
  <1>2. HInv /\ [HydraNext]_vars => HInv'
    <2> SUFFICES ASSUME HInv, [HydraNext]_vars PROVE HInv'
      OBVIOUS
    <2>1. [Next]_dbVars /\ PInv'
      BY DbStep, StepPInv DEF HInv, IInv
    <2> QED  BY <2>1, StepIInv DEF HInv
  <1> QED  BY <1>1, <1>2, PTL DEF HydraSpec

-----------------------------------------------------------------------------
(***************************************************************************)
(* In any process the database pools are used as they rely upon: nobody    *)
(* borrows before they are connected, and when their destructor runs       *)
(* InitDB has returned and everything borrowed is back.                    *)
(***************************************************************************)
THEOREM ProcessUsesDbAsAssumed == HydraSpec => DbPoolsUsedAsAssumed
  <1>1. HydraInit => Init
    BY DEF HydraInit, RefInit
  <1>2. HInv /\ [HydraNext]_vars => [Next]_dbVars
    BY DbStep DEF HInv, IInv
  <1> QED  BY <1>1, <1>2, HydraInvariance, PTL
           DEF HydraSpec, DbPoolsUsedAsAssumed, Spec

(***************************************************************************)
(* So no connection is shared or lost while a server runs its tasks, loads *)
(* its reference data and is destroyed.                                    *)
(***************************************************************************)
THEOREM ProcessSharesNoConnection == HydraSpec => []NeverShared
  BY ProcessUsesDbAsAssumed, ConnectionsExclusive, PTL DEF DbPoolsUsedAsAssumed

THEOREM ProcessLosesNoConnection == HydraSpec => []TotalAccounted
  BY ProcessUsesDbAsAssumed, ConnectionsAccounted, PTL DEF DbPoolsUsedAsAssumed

(***************************************************************************)
(* A task never runs beside a manager that is deleted, and never meets the *)
(* pool deleted: only threads outside the pool can.                        *)
(***************************************************************************)
THEOREM TasksAlwaysMeetManagers == HydraSpec => []TasksMeetManagers
  <1>1. HInv => TasksMeetManagers
    BY DEF HInv, PInv, TasksMeetManagers, Duties, Stages, Past, Enqueuers
  <1> QED  BY <1>1, HydraInvariance, PTL

(***************************************************************************)
(* InitializeData returns TRUE only with every table but ObjStruct loaded, *)
(* whatever rows there are and however often it is called.                 *)
(***************************************************************************)
THEOREM TrueAlwaysMeansLoaded == HydraSpec => []TrueMeansLoaded
  <1>1. HInv => TrueMeansLoaded
    BY LoaderFacts DEF HInv, PInv, TrueMeansLoaded, Filling, Filled
  <1> QED  BY <1>1, HydraInvariance, PTL

LEMMA AtMostOne ==
  ASSUME NEW x, NEW y
  PROVE  IsFiniteSet({x} \ {y}) /\ Cardinality({x} \ {y}) <= 1
  <1>1. CASE x = y
    <2>1. {x} \ {y} = {}
      BY <1>1
    <2>2. IsFiniteSet({}) /\ Cardinality({}) <= 1
      BY FS_EmptySet
    <2> QED  BY <2>1, <2>2, Zenon
  <1>2. CASE x # y
    <2>1. {x} \ {y} = {x}
      BY <1>2
    <2>2. IsFiniteSet({x}) /\ Cardinality({x}) <= 1
      BY FS_Singleton
    <2> QED  BY <2>1, <2>2, Zenon
  <1> QED  BY <1>1, <1>2

LEMMA UnionBound ==
  ASSUME NEW S, NEW T, IsFiniteSet(S), IsFiniteSet(T)
  PROVE  /\ IsFiniteSet(S \cup T)
         /\ Cardinality(S \cup T) <= Cardinality(S) + Cardinality(T)
  <1>1. Cardinality(S \cap T) \in Nat /\ Cardinality(S) \in Nat /\ Cardinality(T) \in Nat
    <2>1. IsFiniteSet(S \cap T)
      BY FS_Subset
    <2> QED  BY <2>1, FS_CardinalityType
  <1>2. /\ IsFiniteSet(S \cup T)
        /\ Cardinality(S \cup T) =
             Cardinality(S) + Cardinality(T) - Cardinality(S \cap T)
    BY FS_Union, Zenon
  <1> QED  BY <1>1, <1>2

(***************************************************************************)
(* When a loader meets a NULL connection at the limit of the pool, as many *)
(* borrowers as there are connections, but for the instance's, hold one.   *)
(***************************************************************************)
LEMMA CrowdAtLimit ==
  ASSUME HInv, connected, ~destroyed, "SHARD" \in conf, idle["SHARD"] = <<>>,
         ~CanGrow("SHARD"), held[Loader]["SHARD"] = NoConn
  PROVE  Cardinality({u \in Users \ {Loader} : held[u]["SHARD"] # NoConn})
           >= MaxConn - 1
  <1> DEFINE C == {u \in Users \ {Loader} : held[u]["SHARD"] # NoConn}
             Out == {held[u]["SHARD"] : u \in C}
             Inst == {inst["SHARD"]} \ {NoConn}
  <1> USE DEF HInv, IInv, TypeOK
  <1>1. "SHARD" \in Pools
    BY DEF Pools
  <1>2. opened["SHARD"] = Lent("SHARD")
    <2>1. Building("SHARD") = {} /\ Elements(idle["SHARD"]) = {}
      BY DEF Building, Initializing, Staged, Elements
    <2> QED  BY <1>1, <2>1 DEF TotalAccounted
  <1>3. Lent("SHARD") \subseteq Out \cup Inst
    BY DEF Lent
  <1>4. total["SHARD"] >= MaxConn
    BY <1>1, DbPoolAssumption DEF CanGrow, Limit
  <1>5. Cardinality(opened["SHARD"]) >= MaxConn
    BY <1>1, <1>4 DEF TotalAccounted
  <1>6. IsFiniteSet(C) /\ IsFiniteSet(Inst) /\ Cardinality(Inst) <= 1
    <2>1. IsFiniteSet(C)
      BY DbPoolAssumption, FS_Subset
    <2> QED  BY <2>1, AtMostOne
  <1>7. IsFiniteSet(Out) /\ Cardinality(Out) <= Cardinality(C)
    <2> DEFINE f == [u \in C |-> held[u]["SHARD"]]
    <2>1. f \in Surjection(C, Out)
      BY DEF Surjection
    <2> QED  BY <1>6, <2>1, FS_Surjection
  <1>8. /\ IsFiniteSet(Out \cup Inst)
        /\ Cardinality(Out \cup Inst) <= Cardinality(Out) + Cardinality(Inst)
    BY <1>6, <1>7, UnionBound
  <1>9. Cardinality(opened["SHARD"]) <= Cardinality(Out \cup Inst)
    BY <1>2, <1>3, <1>8, FS_Subset
  <1>10. /\ Cardinality(C) \in Nat /\ Cardinality(Out) \in Nat
         /\ Cardinality(Inst) \in Nat /\ Cardinality(Out \cup Inst) \in Nat
         /\ Cardinality(opened["SHARD"]) \in Nat
    BY <1>2, <1>3, <1>6, <1>7, <1>8, FS_Subset, FS_CardinalityType
  <1> HIDE DEF C, Out, Inst
  <1>11. Cardinality(C) >= MaxConn - 1
    BY <1>5, <1>6, <1>7, <1>8, <1>9, <1>10, DbPoolAssumption
  <1> QED  BY <1>11 DEF C

THEOREM NullAlwaysNeedsCrowd == HydraSpec => []NullNeedsCrowd
  <1>1. HydraInit => NullNeedsCrowd
    BY DEF HydraInit, RefInit, NullNeedsCrowd
  <1>2. HInv /\ NullNeedsCrowd /\ [HydraNext]_vars => NullNeedsCrowd'
    <2> SUFFICES ASSUME HInv, NullNeedsCrowd, [HydraNext]_vars
                 PROVE  NullNeedsCrowd'
      OBVIOUS
    <2>1. CASE LoadNull
      <3>1. /\ phase = "get" /\ connected /\ ~destroyed /\ idle["SHARD"] = <<>>
            /\ held[Loader]["SHARD"] = NoConn /\ UNCHANGED <<conf, held>>
            /\ nullUsed' = IF CanGrow("SHARD") THEN "connect" ELSE "limit"
        BY <2>1 DEF LoadNull, GetNull, MayBorrow, dbVars
      <3> QED  BY <3>1, CrowdAtLimit DEF NullNeedsCrowd
    <2>2. CASE HydraNext /\ ~LoadNull
      <3>1. nullUsed = "no" /\ nullUsed' = nullUsed
        BY <2>2 DEF HydraNext, TasksRun, CreateInstance, InitDbMgr, RunInitDB,
               InitRefDataMgr, InitObjectMgr, LoadRefData, MainEnqueues,
               TaskReturns, TaskUsesDb, EnqueueTests, EnqueueTask, TaskStarts,
               PoolStep, Destroy, DestroyBegin, JoinPool, DeletePool,
               DeleteRefDataMgr, CleanUp, DeleteObjMgr, DeleteDbMgr,
               ResetSingleton, Load, InitializeData, LoadGet, LoadQuery,
               LoadRow, LoadIndex, LoadEnd, LoadFails, LoadNext, LoadLast,
               LoadRelease, refVars
      <3> QED  BY <3>1 DEF NullNeedsCrowd
    <2>3. CASE UNCHANGED vars
      BY <2>3 DEF vars, dbVars, refVars, NullNeedsCrowd
    <2> QED  BY <2>1, <2>2, <2>3
  <1> QED  BY <1>1, <1>2, HydraInvariance, PTL DEF HydraSpec
=============================================================================
