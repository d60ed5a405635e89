SPECIFICATION ContractSpec
CONSTANTS
  p = p
  q = q
  u = u
  v = v
  None = None
  Providers = {p, q}
  Tiers = {0, 1}
  Values = {u, v}
  Capacity = 3
  LastRound = 3
SYMMETRY Symmetry
INVARIANTS
  FundsConserved
  SoldEntropyIsHonest
PROPERTIES
  SurvivorsKeepTheirEntry
