SPECIFICATION Spec
CONSTANTS
  Users = {ann}
  Callers = {g1, g2}
  HttpClients = {h1, h2, h3}
  TTL = 1
  None = None
PROPERTIES
  ExpiredUpstreamIs409
