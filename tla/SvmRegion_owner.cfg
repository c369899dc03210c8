SPECIFICATION Spec
CONSTANTS
  t1 = t1
  t2 = t2
  Nobody = Nobody
  Elsewhere = Elsewhere
  Threads = {t1, t2}
  Outcomes = {"published", "nodata"}
  MaxAttaches = 2
  MaxElsewhere = 1
  MaxFaults = 0
  MaxRestarts = 1
SYMMETRY ThreadSymmetry
INVARIANTS MappingsSurvive
CHECK_DEADLOCK FALSE
