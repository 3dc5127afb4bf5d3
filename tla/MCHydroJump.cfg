SPECIFICATION Spec
CONSTANTS
  a = a  b = b  c = c
  p = p  q = q  t = t
  r = r  s = s
  Phys = Phys
  Ranks = {r, s}
  Parts = {p, q}
  Blocks = {a, b, c}
  PartOf <- JumpPartOf
  RankOf <- JumpRankOf
  Nbrs <- JumpNbrs
  Level <- JumpLevel
  NStages = 2
  Adaptive = TRUE
  BufCap = 3
  MaxCycles = 2
INVARIANTS TypeOK UpdateUsesOneTimeLevel Conservative BoundedInFlight
PROPERTIES UpdateUsesCycleStart DecisionsUseFinalState
