SPECIFICATION Spec
CONSTANTS
  Keys = {k1, k2, k3}
  k1 = k1
  k2 = k2
  k3 = k3
  Clients = {c1, c2}
  c1 = c1
  c2 = c2
  Elements = {e1, e2, e3, e4}
  e1 = e1
  e2 = e2
  e3 = e3
  e4 = e4
  Root = Root
  Nil = Nil
  maxSize = 2
  lazy = TRUE
  MaxClears = 0
SYMMETRY Symmetry
INVARIANT ListMatchesMap
PROPERTY ImplementsLRU
PROPERTY HitIsMostRecent
