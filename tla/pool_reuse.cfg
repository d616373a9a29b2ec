\* Plain TCP with WebSockets: does the assertion at the top of
\* handleConnection hold when a handler is used again?
CONSTANTS
  None = None
  Conns = {c1, c2}
  Handlers = {h1}
  MaxThreads = 1
  MinThreads = 1
  MaxSent = 1
  DescriptorMayFail = FALSE
  SslModes <- Plain
  Messages = {"upgrade"}
SPECIFICATION Spec
PROPERTY SocketClosedBeforeReuse
