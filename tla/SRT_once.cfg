SPECIFICATION Spec
CONSTANTS
  NoPort = NoPort
  CliPort = {p87, p89}
  SrvPort = {p88, p90}
  Fresh = {NoPort, p89}
  NTcb = 2
  NServe = 1
  MAX_RETRY = 3
  Reopen = FALSE
  Window = 2
INVARIANTS
  NoPhantom
  FinSeen
CHECK_DEADLOCK FALSE
