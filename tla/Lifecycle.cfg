CONSTANTS
  s = s
  t = t
  g = g
  h = h
  Ids = {s, t}
  Names = {g, h}
  MaxLoads = 4
SYMMETRY Symmetry
SPECIFICATION Spec
INVARIANTS
  StoreExact
  GroupsExact
  ModulesOfItsOwn
PROPERTY IsLoadedScripts
CHECK_DEADLOCK FALSE
