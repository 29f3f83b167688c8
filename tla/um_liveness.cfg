SPECIFICATION FairSpec
CONSTANTS
  ann = ann
  c1 = c1
  c2 = c2
  Users = {ann}
  Clients = {c1, c2}
  Owner <- OneOwner
  Roles = {"student"}
  Student = "student"
  ProviderRole <- StudentsOnly
  MaxEdition = 1
  Blank = {}
  NoRow = NoRow
  NoGrades = NoGrades
  NilGrades = NilGrades
PROPERTIES
  EveryRequestAnswered
  CacheConverges
  FreshUnlessOverlapping
