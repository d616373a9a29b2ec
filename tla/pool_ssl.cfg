\* With SSL: is a busy handler always in use?
CONSTANTS
  None = None
  Conns = {c1, c2}
  Handlers = {h1}
  MaxThreads = 1
  MinThreads = 1
  MaxSent = 1
  DescriptorMayFail = FALSE
  SslModes = {TRUE}
  Messages = {"request"}
SPECIFICATION Spec
INVARIANT BusyMeansInUse
