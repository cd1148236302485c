\* Two sub MGs that offer one port each, session ids up to 2 (the counter wraps);
\* hosts may come, go and come back without limit.
SPECIFICATION FairSpec
CONSTANTS
  Hosts = {h1, h2}
  Ports = {5001}
  NoHost = NoHost
  MaxId = 2
  MaxBacklog = 1
INVARIANTS
  NoForeignAddress
  OneExchange
  AnswerNotDropped
  ListedOnce
PROPERTIES
  ThreadsGoOn
CHECK_DEADLOCK FALSE
