SPECIFICATION FairSpec
CONSTANTS
  ann = ann
  bob = bob
  t1 = t1
  t2 = t2
  Users = {ann, bob}
  Savers = {s1, s2}
  Titles = {t1, t2}
  Zeds = {1, 2}
  Marks = {1, 2}
  Profiles = {1, 2}
  Roles = {"student"}
  Saves <- SharedSubjects
  MaxConns = 2
  None = None
PROPERTIES
  EverySaveEnds
  ImplementsStore
