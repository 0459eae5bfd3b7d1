CONSTANTS
  s = s
  t = t
  g = g
  h = h
  Ids = {s, t}
  Names = {g, h}
  MaxLoads = 3
SYMMETRY Symmetry
SPECIFICATION Spec
INVARIANT GroupGoesWithLastScript
CHECK_DEADLOCK FALSE
