SPECIFICATION Spec
CONSTANTS
  ann = ann
  bob = bob
  t1 = t1
  t2 = t2
  Users = {ann, bob}
  Savers = {s1, s2, s3}
  Titles = {t1, t2}
  Zeds = {1}
  Marks = {1}
  Profiles = {1}
  Roles = {"student"}
  Saves <- TwoOrders
  MaxConns = 2
  None = None
SYMMETRY Goroutines
INVARIANTS
  TypeOK
  GradesReadable
  DeadlocksCrossUsers
