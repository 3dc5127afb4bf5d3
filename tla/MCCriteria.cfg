SPECIFICATION TaggingSpec
CONSTANTS
  Unit = 4
  Big = 60
  FP <- MCFP
  NaN = NaN
  Zero = 0
  Half = 2
  Quarter = 1
  One = 4
  Add <- MCAdd
  Sub <- MCSub
  Mul <- MCMul
  Div <- MCDiv
  Sqrt <- MCSqrt
  Abs <- MCAbs
  Gt <- MCGt
  ndim = 2
  nx = 2
  ny = 1
  nz = 1
  ng = 2
  Threshold = 2
  DerefBelow = 1
  Fields <- MCFields
  Types = {"pressure_gradient", "xyvelocity_gradient", "maxdensity"}
INVARIANTS
  StencilInBlock
  RefinedIffSteep
  FrontSeenFromBothSides
