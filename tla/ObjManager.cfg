SPECIFICATION Spec
CONSTANTS
  PCs = {p1, p2}
  NewPets = {t1}
  Mobs = {m1}
  NPCs = {n1}
  GameIDs = {g1, g2, g3}
  Exts = {e1, e2, e3}
  NoExt = NoExt
INVARIANTS NoneLost
PROPERTIES ImplementsRegistry
CHECK_DEADLOCK FALSE
