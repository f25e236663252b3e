SPECIFICATION Spec
CONSTANTS
  Keys = {k1, k2}
  k1 = k1
  k2 = k2
  Clients = {c1, c2}
  c1 = c1
  c2 = c2
  Elements = {e1, e2, e3}
  e1 = e1
  e2 = e2
  e3 = e3
  Root = Root
  Nil = Nil
  maxSize = 1
  lazy = FALSE
  MaxClears = 1
SYMMETRY Symmetry
INVARIANT KeyIntegrity
INVARIANT RightAnswer
INVARIANT ClearIsEffective
CHECK_DEADLOCK FALSE
INVARIANT ListingTerminates
