\* Plain TCP and descriptors that work: admission of connections, and what
\* the event loops, timers and close() bring about in the end.
CONSTANTS
  None = None
  Conns = {c1, c2, c3}
  Handlers = {h1, h2}
  MaxThreads = 2
  MinThreads = 1
  MaxSent = 1
  DescriptorMayFail = FALSE
  SslModes <- Plain
  Messages = {"request", "upgrade"}
SPECIFICATION FairSpec
INVARIANT BusyMeansInUse
PROPERTIES
  ImplementsAdmission
  HandlersAreFreed
  CloseReturns
  PoolShrinks
