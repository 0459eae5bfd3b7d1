CONSTANTS
  p = p
  q = q
  a = a
  b = b
  Engines = {p, q}
  Ids = {a, b}
  Builds = {"v1", "v2"}
  Types = {"ts", "tsx"}
  Sources = {"view", "lazy"}
  Inline = {"view", "lazy"}
  Projects <- MCProjects
  Parses <- MCParses
  Transforms <- MCTransforms
  MaxLoads = 3
  MaxStops = 2
  MaxDamage = 1
SYMMETRY Anyone
SPECIFICATION Spec
INVARIANTS
  ArtifactsWhole
  MemoExact
PROPERTY
  IsUncached
CHECK_DEADLOCK FALSE
