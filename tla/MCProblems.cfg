SPECIFICATION Spec
CONSTANTS
  KHDecks <- MCKHDecks
  BlastDecks <- MCBlastDecks
  WaveDecks <- MCWaveDecks
  Xs <- MCXs
  Ys <- MCYs
  Offsets <- MCOffsets
  Draws <- MCDraws
  Tanh <- MCTanh
  Sin <- MCSin
  Exp <- MCExp
  Log <- MCLog
  Atan <- MCAtan
  Sine <- MCSine
  RankOf <- MCRankOf
  Drifts <- MCDrifts
  Sqrt <- MCSqrt
  Ranks = {0, 1}
  NaN = NaN
  None = None
INVARIANTS ShearFlow ReflectShift RampFalls WholeWaves EigenvectorsFit HonestRow
CHECK_DEADLOCK FALSE
