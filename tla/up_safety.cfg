SPECIFICATION Spec
CONSTANTS
  Users = {ann, bob}
  Callers = {g1, g2}
  HttpClients = {h1, h2, h3, h4}
  TTL = 1
  None = None
SYMMETRY Symmetry
INVARIANTS
  TypeOK
  FetchedOwn
PROPERTIES
  HandedOutWithinTTL
  KeptWhileUsed
  ImplementsSessionStates
