\* All messages, SSL configured, descriptors that cannot be used: every
\* interleaving of two handlers and three connections.
CONSTANTS
  None = None
  Conns = {c1, c2, c3}
  Handlers = {h1, h2}
  MaxThreads = 2
  MinThreads = 0
  MaxSent = 2
  DescriptorMayFail = TRUE
  SslModes <- SslConfigured
  Messages <- All
SPECIFICATION Spec
SYMMETRY Interchangeable
INVARIANTS
  TypeOK
  OneConnectionPerHandler
  ReadTimerArmed
  NoForeignRequest
  CleanupSparesConnections
