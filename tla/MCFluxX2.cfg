SPECIFICATION Spec
CONSTANTS
  t0 = t0  t1 = t1  t2 = t2
  Threads = {t0, t1, t2}
  Columns = {1, 2}
  NGhost = 2
  NX2 = 2
  Share <- Uneven
  Garbage = Garbage
INVARIANTS TypeOK NoDataRace PointersAgree
PROPERTIES KernelEnds ImplementsFaceFluxes
