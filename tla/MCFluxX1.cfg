SPECIFICATION Spec
CONSTANTS
  t0 = t0  t1 = t1
  Threads = {t0, t1}
  NGhost = 2
  NX1 = 5
  Share <- RoundRobin
  Garbage = Garbage
INVARIANTS TypeOK NoDataRace InBounds
PROPERTY ImplementsFaceFluxes
