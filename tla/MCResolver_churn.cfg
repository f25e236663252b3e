SPECIFICATION Spec
CONSTANTS
  q1 = q1
  q2 = q2
  l1 = l1
  pub = pub
  loc = loc
  Queries = {q1, q2}
  Lookups = {}
  Domains = {pub, loc}
  Local = {loc}
  Configs <- SwitchedConfigs
  Geos <- WithOrWithout
  AdLists <- PubAds
  Rulings <- NothingOrBlock
  MaxChanges = 3
SYMMETRY Symmetry
INVARIANTS  ActionsAddUp LeakNeedsGap
