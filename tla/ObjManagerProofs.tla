-------------------------- MODULE ObjManagerProofs --------------------------
(***************************************************************************)
(* Proofs about ObjManager, for any objects, IDs and extension objects:    *)
(* the index and the maps agree, no extension object is lost, and the      *)
(* manager implements Registry.  TypeOK, IndexMatches and NoneLost are     *)
(* inductive together; ~destroyed is implied by any valid entry.           *)
(***************************************************************************)
EXTENDS ObjManager, TLAPS

Inv ==
  /\ TypeOK
  /\ IndexMatches
  /\ NoneLost
  /\ destroyed => /\ \A o \in Objs : typed[o] = NoExt
                  /\ \A g \in GameIDs : obj_map[g] = NoExt

LEMMA InitInv == Init => Inv
  BY ObjAssumption
     DEF Init, Inv, TypeOK, IndexMatches, NoneLost, IsValidObj, IsValidID

LEMMA AddInv ==
  ASSUME Inv, NEW o \in Objs, NEW g \in GameIDs, AddObject(o, g)
  PROVE  Inv'
  <1> USE DEF Inv, TypeOK
  <1>1. PICK e \in Exts \ allocated :
          /\ allocated' = allocated \cup {e}
          /\ objOf' = [x \in allocated \cup {e} |-> IF x = e THEN o ELSE objOf[x]]
          /\ gameID' = [x \in allocated \cup {e} |-> IF x = e THEN g ELSE gameID[x]]
          /\ typed' = [typed EXCEPT ![o] = e]
          /\ obj_map' = [obj_map EXCEPT ![g] = e]
    BY DEF AddObject
  <1>2. /\ ~destroyed /\ ~destroyed'
        /\ typed[o] = NoExt /\ obj_map[g] = NoExt
    BY DEF AddObject, Known, IsValidObj, IsValidID
  <1>3. TypeOK'
    <2>1. typed' \in [Objs -> Exts \cup {NoExt}]
      BY <1>1
    <2>2. obj_map' \in [GameIDs -> Exts \cup {NoExt}]
      BY <1>1
    <2>3. objOf' \in [allocated' -> Objs]
      BY <1>1
    <2>4. gameID' \in [allocated' -> GameIDs]
      BY <1>1
    <2>5. allocated' \subseteq Exts
      BY <1>1
    <2>6. destroyed' \in BOOLEAN
      BY DEF AddObject
    <2> QED  BY <2>1, <2>2, <2>3, <2>4, <2>5, <2>6, Zenon DEF TypeOK
  <1>4. IndexMatches'
    <2>1. ASSUME NEW p \in Objs, typed'[p] /= NoExt
          PROVE  /\ typed'[p] \in allocated'
                 /\ objOf'[typed'[p]] = p
                 /\ obj_map'[gameID'[typed'[p]]] = typed'[p]
      <3>1. CASE p = o
        BY <1>1, <3>1
      <3>2. CASE p /= o
        <4>1. /\ typed[p] \in allocated /\ objOf[typed[p]] = p
              /\ obj_map[gameID[typed[p]]] = typed[p] /\ typed'[p] = typed[p]
          BY <1>1, <2>1, <3>2 DEF IndexMatches, IsValidObj
        <4>2. gameID[typed[p]] /= g
          BY <1>2, <2>1, <4>1
        <4> QED  BY <1>1, <4>1, <4>2
      <3> QED  BY <3>1, <3>2
    <2>2. ASSUME NEW h \in GameIDs, obj_map'[h] /= NoExt
          PROVE  /\ obj_map'[h] \in allocated'
                 /\ gameID'[obj_map'[h]] = h
                 /\ typed'[objOf'[obj_map'[h]]] = obj_map'[h]
      <3>1. CASE h = g
        BY <1>1, <3>1
      <3>2. CASE h /= g
        <4>1. /\ obj_map[h] \in allocated /\ gameID[obj_map[h]] = h
              /\ typed[objOf[obj_map[h]]] = obj_map[h] /\ obj_map'[h] = obj_map[h]
          BY <1>1, <2>2, <3>2 DEF IndexMatches, IsValidID
        <4>2. objOf[obj_map[h]] /= o
          BY <1>2, <2>2, <4>1
        <4> QED  BY <1>1, <4>1, <4>2
      <3> QED  BY <3>1, <3>2
    <2> QED  BY <2>1, <2>2 DEF IndexMatches, IsValidObj, IsValidID
  <1>5. NoneLost'
    <2> SUFFICES ASSUME NEW x \in allocated' PROVE typed'[objOf'[x]] = x
      BY <1>2 DEF NoneLost
    <2>1. CASE x = e
      BY <1>1, <2>1
    <2>2. CASE x /= e
      <3>1. x \in allocated /\ typed[objOf[x]] = x /\ objOf[x] \in Objs
        BY <1>1, <1>2, <2>2 DEF NoneLost
      <3>2. objOf[x] /= o
        BY <1>2, <3>1, ObjAssumption
      <3> QED  BY <1>1, <3>1, <3>2
    <2> QED  BY <2>1, <2>2
  <1> QED  BY <1>2, <1>3, <1>4, <1>5

\* What a deletion does to the two lookups.
LEMMA DelEffect ==
  ASSUME Inv, NEW o \in Objs, DelObject(o)
  PROVE  /\ ~destroyed /\ ~destroyed'
         /\ typed[o] \in allocated
         /\ gameID[typed[o]] \in GameIDs
         /\ objOf[typed[o]] = o
         /\ allocated' = allocated \ {typed[o]}
         /\ \A x \in allocated' : objOf'[x] = objOf[x] /\ gameID'[x] = gameID[x]
         /\ \A p \in Objs : typed'[p] = IF p = o THEN NoExt ELSE typed[p]
         /\ \A h \in GameIDs :
              obj_map'[h] = IF h = gameID[typed[o]] THEN NoExt ELSE obj_map[h]
  BY DEF Inv, TypeOK, DelObject, Delete, DelObjectIndex, IndexMatches, IsValidObj

LEMMA DelInv ==
  ASSUME Inv, NEW o \in Objs, DelObject(o)
  PROVE  Inv'
  <1> DEFINE e == typed[o]
             g == gameID[typed[o]]
  <1>1. /\ ~destroyed /\ ~destroyed' /\ e \in allocated /\ g \in GameIDs
        /\ objOf[e] = o
        /\ allocated' = allocated \ {e}
        /\ \A x \in allocated' : objOf'[x] = objOf[x] /\ gameID'[x] = gameID[x]
        /\ \A p \in Objs : typed'[p] = IF p = o THEN NoExt ELSE typed[p]
        /\ \A h \in GameIDs : obj_map'[h] = IF h = g THEN NoExt ELSE obj_map[h]
    BY DelEffect
  <1>2. TypeOK'
    BY DEF Inv, TypeOK, DelObject, Delete, DelObjectIndex
  <1>3. IndexMatches'
    <2>1. ASSUME NEW p \in Objs, typed'[p] /= NoExt
          PROVE  /\ typed'[p] \in allocated'
                 /\ objOf'[typed'[p]] = p
                 /\ obj_map'[gameID'[typed'[p]]] = typed'[p]
      <3>1. p /= o /\ typed'[p] = typed[p]
        BY <1>1, <2>1
      <3>2. /\ typed[p] \in allocated /\ objOf[typed[p]] = p
            /\ obj_map[gameID[typed[p]]] = typed[p]
            /\ gameID[typed[p]] \in GameIDs
        BY <2>1, <3>1 DEF Inv, TypeOK, IndexMatches, IsValidObj
      <3>3. typed[p] /= e
        BY <1>1, <3>1, <3>2
      <3>4. gameID[typed[p]] /= g
        <4>1. obj_map[g] = e
          BY DEF DelObject, Inv, IndexMatches, IsValidObj
        <4> QED  BY <3>2, <3>3, <4>1
      <3> HIDE DEF e, g
      <3> QED  BY <1>1, <3>1, <3>2, <3>3, <3>4
    <2>2. ASSUME NEW h \in GameIDs, obj_map'[h] /= NoExt
          PROVE  /\ obj_map'[h] \in allocated'
                 /\ gameID'[obj_map'[h]] = h
                 /\ typed'[objOf'[obj_map'[h]]] = obj_map'[h]
      <3>1. h /= g /\ obj_map'[h] = obj_map[h]
        BY <1>1, <2>2
      <3>2. /\ obj_map[h] \in allocated /\ gameID[obj_map[h]] = h
            /\ typed[objOf[obj_map[h]]] = obj_map[h]
            /\ objOf[obj_map[h]] \in Objs
        BY <2>2, <3>1 DEF Inv, TypeOK, IndexMatches, IsValidID
      <3>3. obj_map[h] /= e
        BY <3>1, <3>2
      <3>4. objOf[obj_map[h]] /= o
        BY <3>2, <3>3
      <3> HIDE DEF e, g
      <3> QED  BY <1>1, <3>1, <3>2, <3>3, <3>4
    <2> QED  BY <2>1, <2>2 DEF IndexMatches, IsValidObj, IsValidID
  <1>4. NoneLost'
    <2> SUFFICES ASSUME NEW x \in allocated' PROVE typed'[objOf'[x]] = x
      BY <1>1 DEF NoneLost
    <2>1. x \in allocated /\ x /= e /\ typed[objOf[x]] = x /\ objOf[x] \in Objs
      BY <1>1 DEF Inv, TypeOK, NoneLost
    <2>2. objOf[x] /= o
      BY <2>1
    <2> HIDE DEF e, g
    <2> QED  BY <1>1, <2>1, <2>2
  <1> QED  BY <1>1, <1>2, <1>3, <1>4 DEF Inv

LEMMA DestroyInv ==
  ASSUME Inv, Destroy
  PROVE  Inv'
  <1> USE DEF Inv, TypeOK, Destroy, Delete
  <1>1. TypeOK'
    OBVIOUS
  <1>2. /\ destroyed'
        /\ \A o \in Objs : typed'[o] = NoExt
        /\ \A g \in GameIDs : obj_map'[g] = NoExt
    OBVIOUS
  <1>3. IndexMatches'
    BY <1>2 DEF IndexMatches, IsValidObj, IsValidID
  <1>4. NoneLost'
    <2> SUFFICES ASSUME NEW x \in allocated' PROVE objOf'[x] \in NPCs
      BY <1>2 DEF NoneLost
    <2>1. x \in allocated /\ x \notin Owned /\ objOf'[x] = objOf[x]
      OBVIOUS
    <2>2. typed[objOf[x]] = x /\ objOf[x] \in Objs /\ x /= NoExt
      BY <2>1, ObjAssumption DEF NoneLost
    <2> QED  BY <2>1, <2>2 DEF Owned
  <1> QED  BY <1>1, <1>2, <1>3, <1>4

LEMMA StepInv == Inv /\ [Next]_vars => Inv'
  <1> SUFFICES ASSUME Inv, [Next]_vars PROVE Inv'
    OBVIOUS
  <1>1. ASSUME NEW g \in GameIDs, DelObjectByID(g) PROVE Inv'
    <2>1. objOf[obj_map[g]] \in Objs
      BY <1>1 DEF DelObjectByID, Inv, TypeOK, IndexMatches
    <2> QED  BY <1>1, <2>1, DelInv DEF DelObjectByID
  <1>2. CASE UNCHANGED vars
    BY <1>2 DEF vars, Inv, TypeOK, IndexMatches, NoneLost, IsValidObj, IsValidID
  <1> QED  BY <1>1, <1>2, AddInv, DelInv, DestroyInv DEF Next

LEMMA Invariance == Spec => []Inv
  BY InitInv, StepInv, PTL DEF Spec

(***************************************************************************)
(* Every variable keeps its type, for any objects and IDs: an extension    *)
(* that exists has an owner and an ID.                                     *)
(***************************************************************************)
THEOREM ObjTypeCorrect == Spec => []TypeOK
  <1>1. Inv => TypeOK
    BY DEF Inv
  <1> QED  BY <1>1, Invariance, PTL

(***************************************************************************)
(* The four maps and the index lead to the same extension objects, for any *)
(* objects and IDs and any sequence of calls.                              *)
(***************************************************************************)
THEOREM IndexAlwaysMatches == Spec => []IndexMatches
  <1>1. Inv => IndexMatches
    BY DEF Inv
  <1> QED  BY <1>1, Invariance, PTL

(***************************************************************************)
(* Every extension object is reachable while the manager lives; only those *)
(* of NPCs outlive it.                                                     *)
(***************************************************************************)
THEOREM ExtensionsKept == Spec => []NoneLost
  <1>1. Inv => NoneLost
    BY DEF Inv
  <1> QED  BY <1>1, Invariance, PTL

----------------------------------------------------------------------------
LEMMA DelRefines ==
  ASSUME Inv, NEW o \in Objs, DelObject(o)
  PROVE  /\ \E e \in Registered : e[1] = o
         /\ Registered' = {e \in Registered : e[1] /= o}
         /\ Registered' = {e \in Registered : e[2] /= gameID[typed[o]]}
  <1>1. IsValidObj(o)
    BY DEF DelObject
  <1>2. <<o, gameID[typed[o]]>> \in Registered
    BY <1>1 DEF Registered
  <1>3. \A p \in Objs : /\ IsValidObj(p)' <=> IsValidObj(p) /\ p /= o
                        /\ IsValidObj(p)' => typed'[p] = typed[p]
    BY DelEffect DEF IsValidObj
  <1>4. \A p \in Objs : IsValidObj(p)' => gameID'[typed'[p]] = gameID[typed[p]]
    BY <1>3, DelEffect DEF Inv, IndexMatches
  <1>5. \A p \in Objs : IsValidObj(p) /\ p /= o => gameID[typed[p]] /= gameID[typed[o]]
    BY <1>1 DEF Inv, IndexMatches
  <1>6. Registered' = {<<p, gameID[typed[p]]>> : p \in {q \in Objs : IsValidObj(q) /\ q /= o}}
    BY <1>3, <1>4 DEF Registered
  <1>7. Registered' = {e \in Registered : e[1] /= o}
    BY <1>6 DEF Registered
  <1>8. \A e \in Registered : e[1] = o <=> e[2] = gameID[typed[o]]
    BY <1>5 DEF Registered
  <1>9. Registered' = {e \in Registered : e[2] /= gameID[typed[o]]}
    BY <1>7, <1>8
  <1> QED  BY <1>2, <1>7, <1>9

LEMMA AddRefines ==
  ASSUME Inv, NEW o \in Objs, NEW g \in GameIDs, AddObject(o, g)
  PROVE  Reg!Register(o, g)
  <1> USE DEF Inv, TypeOK
  <1>1. PICK e \in Exts \ allocated :
          /\ gameID' = [x \in allocated \cup {e} |-> IF x = e THEN g ELSE gameID[x]]
          /\ typed' = [typed EXCEPT ![o] = e]
    BY DEF AddObject
  <1>2. typed[o] = NoExt /\ obj_map[g] = NoExt
    BY DEF AddObject, Known, IsValidObj, IsValidID
  <1>3. \A p \in Objs : IsValidObj(p) =>
          p /= o /\ gameID[typed[p]] /= g /\ typed[p] \in allocated /\ typed[p] /= e
    BY <1>2 DEF IndexMatches, IsValidObj
  <1>4. \A p \in Objs : /\ IsValidObj(p)' <=> IsValidObj(p) \/ p = o
                        /\ p /= o => typed'[p] = typed[p]
    BY <1>1, <1>2, ObjAssumption DEF IsValidObj
  <1>5. typed'[o] = e /\ gameID'[e] = g
    BY <1>1
  <1>6. \A p \in Objs : IsValidObj(p) => gameID'[typed'[p]] = gameID[typed[p]]
    BY <1>1, <1>3, <1>4
  <1>7. Registered' = Registered \cup {<<o, g>>}
    <2>1. Registered' \subseteq Registered \cup {<<o, g>>}
      BY <1>4, <1>5, <1>6 DEF Registered
    <2>2. <<o, g>> \in Registered'
      BY <1>4, <1>5 DEF Registered
    <2>3. Registered \subseteq Registered'
      BY <1>4, <1>6 DEF Registered
    <2> QED  BY <2>1, <2>2, <2>3
  <1>8. \A r \in Registered : r[1] /= o /\ r[2] /= g
    BY <1>3 DEF Registered
  <1> QED  BY <1>7, <1>8 DEF Reg!Register

(***************************************************************************)
(* CObjManager implements the one-to-one registry: every method call is    *)
(* one of its operations or changes nothing a caller can look up.          *)
(***************************************************************************)
THEOREM RegistryImplemented == Spec => ImplementsRegistry
  <1>1. Init => Reg!RInit
    BY DEF Init, Reg!RInit, Registered, IsValidObj
  <1>2. Inv /\ [Next]_vars => [Reg!RNext]_Registered
    <2> SUFFICES ASSUME Inv, [Next]_vars PROVE [Reg!RNext]_Registered
      OBVIOUS
    <2>1. ASSUME NEW o \in Objs, NEW g \in GameIDs, AddObject(o, g) PROVE Reg!RNext
      BY <2>1, AddRefines DEF Reg!RNext
    <2>2. ASSUME NEW o \in Objs, DelObject(o) PROVE Reg!RNext
      BY <2>2, DelRefines DEF Reg!RNext, Reg!Unregister
    <2>3. ASSUME NEW g \in GameIDs, DelObjectByID(g) PROVE Reg!RNext
      <3>1. objOf[obj_map[g]] \in Objs
        BY <2>3 DEF DelObjectByID, Inv, TypeOK, IndexMatches
      <3> QED  BY <2>3, <3>1, <2>2 DEF DelObjectByID
    <2>4. CASE Destroy
      <3>1. Registered' = {}
        BY <2>4 DEF Destroy, Registered, IsValidObj
      <3> QED  BY <3>1 DEF Reg!RNext, Reg!Clear
    <2>5. CASE UNCHANGED vars
      BY <2>5 DEF vars, Registered, IsValidObj
    <2> QED  BY <2>1, <2>2, <2>3, <2>4, <2>5 DEF Next
  <1> QED  BY <1>1, <1>2, Invariance, PTL DEF Spec, ImplementsRegistry, Reg!RSpec
=============================================================================
