SPECIFICATION EngineSpec
CONSTANTS
  c1 = c1
  c2 = c2
  exact = exact
  suffix = suffix
  bad = bad
  apex = apex
  sub = sub
  Posts = {c1, c2}
  Types = {"block"}
  Patterns = {exact, suffix, bad}
  BadPatterns = {bad}
  Switches = {TRUE}
  Names = {apex, sub}
  Literal <- MCLiteral
  Derived <- MCDerived
  MaxRules = 3
  MaxListed = 2
SYMMETRY Symmetry
INVARIANT MatchesItsDomain
PROPERTY LeavesOnPurpose
