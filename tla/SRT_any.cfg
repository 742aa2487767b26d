SPECIFICATION FairSpec
CONSTANTS
  NoPort = NoPort
  CliPort = {p87, p89}
  SrvPort = {p88}
  Fresh = {p87}
  NTcb = 1
  NServe = 1
  MAX_RETRY = 3
  Reopen = TRUE
  Window = 2
INVARIANTS
  TypeOK
  ConnectedStays
PROPERTIES
  CallsReturn
CHECK_DEADLOCK FALSE
