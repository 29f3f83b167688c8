SPECIFICATION Spec
CONSTANTS
  ann = ann
  c1 = c1
  c2 = c2
  Users = {ann}
  Clients = {c1, c2}
  Owner <- OneOwner
  Roles = {"student", "admin"}
  Student = "student"
  ProviderRole <- StudentsOnly
  MaxEdition = 2
  Blank = {0}
  NoRow = NoRow
  NoGrades = NoGrades
  NilGrades = NilGrades
SYMMETRY Devices
INVARIANTS
  TypeOK
  TokenHolderKnown
  OnlyCommittedShown
PROPERTIES
  LossNeedsRace
  RoleKept
  ImplementsService
