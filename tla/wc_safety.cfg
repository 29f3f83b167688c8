SPECIFICATION Spec
CONSTANTS
  ann = ann
  bob = bob
  mon = mon
  tue = tue
  Logins = {ann, bob}
  c1 = c1
  c2 = c2
  Calls = {c1, c2}
  Weeks = {10}
  Days = {mon, tue}
  Timetables <- Tuesdays
  FirstWeek = 10
  FirstDay = mon
  Demo = Demo
  DemoSchedules <- OneWeek
  Addresses = {"", "server", "malformed"}
  ProfilePaths = 1
  SchedulePaths = 2
  Bare = Bare
  None = None
SYMMETRY Alike
INVARIANTS
  TypeOK
  MixNeedsHurry
  ButtonWaits
  ExamplesStay
  SelectionExists
  NothingLeft
  NeverStuckBusy
