SPECIFICATION FairSpec
CONSTANTS
  d1 = d1
  d2 = d2
  ann = ann
  nginx = nginx
  student = student
  admin = admin
  demoMode = demoMode
  portalMode = portalMode
  Users = {ann}
  Devices = {d1, d2}
  Owner <- OneOwner
  Addresses = {nginx}
  Address <- OneAddress
  Roles = {student, admin}
  Admin = admin
  Providers = {demoMode, portalMode}
  Reports <- DemoOnly
  Refused = Refused
  RateLimitMax = 2
  Window = 2
  TTL = 2
  NoCookie = NoCookie
INVARIANTS
  TypeOK
  RoleNotOutdated
PROPERTIES
  AtMostTwice
  RefusedAfterMax
  LockoutEnds
