SPECIFICATION FairSpec
CONSTANTS
  Hosts = {h1}
  Ports = {5001}
  NoHost = NoHost
  MaxId = 2
  MaxBacklog = 1
PROPERTIES
  StartAlwaysReturns
CHECK_DEADLOCK FALSE
