----------------------------- MODULE ObjManager -----------------------------
(***************************************************************************)
(* CObjManager: a map per kind from game objects to their extension        *)
(* objects, and one index from game IDs to the same extension objects.     *)
(* Every method holds the recursive m_cs throughout, so each is one step;  *)
(* the four maps are one function here because an object has one kind.     *)
(***************************************************************************)
EXTENDS Naturals, FiniteSets

CONSTANTS
  PCs, NewPets, Mobs, NPCs, \* the game objects of each kind
  GameIDs,
  Exts,                     \* identities of extension objects (a bound)
  NoExt                     \* the NULL extension

Objs == PCs \cup NewPets \cup Mobs \cup NPCs

ASSUME ObjAssumption ==
  /\ NoExt \notin Exts
  /\ \A o \in Objs : Cardinality({K \in {PCs, NewPets, Mobs, NPCs} : o \in K}) = 1

VARIABLES
  typed,     \* m_pc_map, m_p2_map, m_mob_map and m_npc_map
  obj_map,   \* m_obj_map
  allocated, \* the extension objects that exist
  objOf,     \* m_pPC, m_pP2, m_pMob or m_pNPC of an extension object
  gameID,    \* its m_dwGameID
  destroyed  \* ~CObjManager has run

vars == <<typed, obj_map, allocated, objOf, gameID, destroyed>>

TypeOK ==
  /\ typed \in [Objs -> Exts \cup {NoExt}]
  /\ obj_map \in [GameIDs -> Exts \cup {NoExt}]
  /\ allocated \subseteq Exts
  /\ objOf \in [allocated -> Objs]
  /\ gameID \in [allocated -> GameIDs]
  /\ destroyed \in BOOLEAN

Init ==
  /\ typed = [o \in Objs |-> NoExt]
  /\ obj_map = [g \in GameIDs |-> NoExt]
  /\ allocated = {}
  /\ objOf = [e \in {} |-> NoExt]
  /\ gameID = [e \in {} |-> NoExt]
  /\ destroyed = FALSE

IsValidObj(o) == typed[o] /= NoExt
IsValidID(g) == obj_map[g] /= NoExt

\* Plausible bug: only the object is looked up.
KnownObjOnly(o, g) == IsValidObj(o)

Known(o, g) == IsValidObj(o) \/ IsValidID(g)

\* An AddObject of a known object or ID returns without effect.
AddObject(o, g) ==
  /\ ~destroyed
  /\ ~Known(o, g)
  /\ \E e \in Exts \ allocated :
       /\ allocated' = allocated \cup {e}
       /\ objOf' = [x \in allocated \cup {e} |-> IF x = e THEN o ELSE objOf[x]]
       /\ gameID' = [x \in allocated \cup {e} |-> IF x = e THEN g ELSE gameID[x]]
       /\ typed' = [typed EXCEPT ![o] = e]
       /\ obj_map' = [obj_map EXCEPT ![g] = e]
  /\ UNCHANGED destroyed

Delete(E) ==
  /\ allocated' = allocated \ E
  /\ objOf' = [x \in allocated \ E |-> objOf[x]]
  /\ gameID' = [x \in allocated \ E |-> gameID[x]]

DelObjectIndex(g) == obj_map' = [obj_map EXCEPT ![g] = NoExt]

DelObject(o) ==
  /\ ~destroyed
  /\ IsValidObj(o)
  /\ DelObjectIndex(gameID[typed[o]])
  /\ Delete({typed[o]})
  /\ typed' = [typed EXCEPT ![o] = NoExt]
  /\ UNCHANGED destroyed

\* DelObject(dwGameID): the flags of the extension object pick the overload.
DelObjectByID(g) ==
  /\ IsValidID(g)
  /\ DelObject(objOf[obj_map[g]])

\* Plausible bug: the extension objects of mobs are forgotten as well.
OwnedNoMobs == {typed[o] : o \in Objs \ (NPCs \cup Mobs)} \ {NoExt}

\* The extension objects the destructor deletes: it has no loop over
\* m_npc_map.
Owned == {typed[o] : o \in Objs \ NPCs} \ {NoExt}

Destroy ==
  /\ ~destroyed
  /\ Delete(Owned)
  /\ typed' = [o \in Objs |-> NoExt]
  /\ obj_map' = [g \in GameIDs |-> NoExt]
  /\ destroyed' = TRUE

Next ==
  \/ \E o \in Objs, g \in GameIDs : AddObject(o, g)
  \/ \E o \in Objs : DelObject(o)
  \/ \E g \in GameIDs : DelObjectByID(g)
  \/ Destroy

Spec == Init /\ [][Next]_vars

----------------------------------------------------------------------------
(***************************************************************************)
(* The map of an object's kind and the index lead to the same extension    *)
(* object, which exists and names both the object and the ID: whichever    *)
(* way a GetObjExt or DelObject comes in, it sees one and the same entry   *)
(* and never a deleted one.                                                *)
(***************************************************************************)
IndexMatches ==
  /\ \A o \in Objs : IsValidObj(o) =>
       /\ typed[o] \in allocated
       /\ objOf[typed[o]] = o
       /\ obj_map[gameID[typed[o]]] = typed[o]
  /\ \A g \in GameIDs : IsValidID(g) =>
       /\ obj_map[g] \in allocated
       /\ gameID[obj_map[g]] = g
       /\ typed[objOf[obj_map[g]]] = obj_map[g]

(***************************************************************************)
(* No extension object is lost: while the manager lives each can be        *)
(* reached through its object, and the destructor leaves none but those of *)
(* NPCs behind.                                                            *)
(***************************************************************************)
NoneLost ==
  \A e \in allocated :
    IF destroyed THEN objOf[e] \in NPCs ELSE typed[objOf[e]] = e

\* The pairs a caller can look up.
Registered == {<<o, gameID[typed[o]]>> : o \in {p \in Objs : IsValidObj(p)}}

Reg == INSTANCE Registry WITH entries <- Registered

(***************************************************************************)
(* CObjManager is a one-to-one registry of objects and game IDs.           *)
(***************************************************************************)
ImplementsRegistry == Reg!RSpec
=============================================================================
