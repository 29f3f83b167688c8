SPECIFICATION Spec
CONSTANTS
  r1 = r1
  r2 = r2
  r3 = r3
  Requests = {r1, r2, r3}
  MaxRequests = 4
SYMMETRY Goroutines
INVARIANTS
  TypeOK
  ReportNearlyWhole
  QuietAgrees
