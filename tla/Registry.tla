------------------------------ MODULE Registry ------------------------------
(***************************************************************************)
(* What CObjManager promises: a one-to-one relation between game objects   *)
(* and game IDs.  An object or an ID that is taken is not registered       *)
(* again; an entry goes away by its object or by its ID, whole.            *)
(***************************************************************************)
CONSTANTS Objs, GameIDs

VARIABLE entries \* the registered <<object, ID>> pairs

RInit == entries = {}

Register(o, g) ==
  /\ \A e \in entries : e[1] /= o /\ e[2] /= g
  /\ entries' = entries \cup {<<o, g>>}

Unregister(o) ==
  /\ \E e \in entries : e[1] = o
  /\ entries' = {e \in entries : e[1] /= o}

UnregisterID(g) ==
  /\ \E e \in entries : e[2] = g
  /\ entries' = {e \in entries : e[2] /= g}

Clear == entries' = {}

RNext ==
  \/ \E o \in Objs, g \in GameIDs : Register(o, g)
  \/ \E o \in Objs : Unregister(o)
  \/ \E g \in GameIDs : UnregisterID(g)
  \/ Clear

RSpec == RInit /\ [][RNext]_entries
=============================================================================
