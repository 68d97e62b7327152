SPECIFICATION MCSpec
CONSTANTS
  l1 = l1
  l2 = l2
  l3 = l3
  s1 = s1
  s2 = s2
  Seats = {s1, s2}
  Launchers <- MCLaunchers
  SeatOf <- MCSeatOf
  Bridges = {b1}
  Reclaimers = {c1}
  Nobody = Nobody
  MaxInodes = 3
  Readers = {r1, r2}
  Writers = {w1, w2}
  MaxReplacements = 2
CHECK_DEADLOCK FALSE
INVARIANTS
  WriterAlone
  OneHolderUntilRetired
  DrivenSeatStable
  RetirementScanHolds
