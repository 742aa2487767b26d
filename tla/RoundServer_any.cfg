SPECIFICATION FairSpec
CONSTANTS
  Addr = {a1, a2}
  Clients = 2
  Username = {n1, n2}
  Roundname = {r1}
  None = None
  MaxQueue = 2
  MaxCasts = 2
INVARIANTS
  TypeOK
  UsersAreClients
  RoundsAreExact
  NamesAreUsed
  CastsAreTimed
PROPERTIES
  CastsAreSettled
CHECK_DEADLOCK FALSE
