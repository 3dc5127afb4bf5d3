SPECIFICATION Spec
CONSTANTS
  a = a  b = b  c = c
  p = p  q = q  t = t
  r = r  s = s
  Phys = Phys
  Ranks = {r, s}
  Parts = {p, q, t}
  Blocks = {a, b, c}
  PartOf <- RowPartOf
  RankOf <- RowRankOf
  Nbrs <- RowNbrs
  Level <- RowLevel
  NStages = 2
  Adaptive = FALSE
  BufCap = 1
  MaxCycles = 1
PROPERTIES RunCompletes ImplementsBulkSync
