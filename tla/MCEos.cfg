SPECIFICATION Spec
CONSTANTS
  Unit = 3
  Big = 40
  FP <- MCFP
  NaN = NaN
  None = None
  Zero = 0
  Half = 2
  One = 3
  Max = 39
  Add <- MCAdd
  Sub <- MCSub
  Mul <- MCMul
  Div <- MCDiv
  Sqrt <- MCSqrt
  Abs <- MCAbs
  Gt <- MCGt
  DFloor = 2
  PFloor = 2
  Gamma = 7
  Cfl = 1
  Cells <- MCCells
  Interior <- MCInterior
  Owner <- MCOwner
  NDim = 2
  Dx <- MCDx
  Volume = 3
  ConsValues <- MCConsValues
INVARIANTS
  PositiveStates
  GhostsAgree
  DtIsMinimum
  PoisonShows
  RestartFaithful
