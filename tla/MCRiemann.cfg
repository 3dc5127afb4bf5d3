SPECIFICATION Spec
CONSTANTS
  States <- MCStates
  Gamma <- MCGamma
  Sqrt <- MCSqrt
  None = None
INVARIANTS NoNewExtrema HLLFlux StateBetweenWaves
CHECK_DEADLOCK FALSE
