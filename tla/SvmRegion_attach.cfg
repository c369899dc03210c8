SPECIFICATION Spec
CONSTANTS
  t1 = t1
  t2 = t2
  Nobody = Nobody
  Elsewhere = Elsewhere
  Threads = {t1, t2}
  Outcomes = {"published", "nodata", "unsupported", "flags", "layout"}
  MaxAttaches = 4
  MaxElsewhere = 2
  MaxFaults = 1
  MaxRestarts = 2
SYMMETRY ThreadSymmetry
INVARIANTS TypeOK OnlyDropStrays NothingLeftMapped
CHECK_DEADLOCK FALSE
