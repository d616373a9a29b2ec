\* Plain TCP: does close() wait for the connections already accepted?
CONSTANTS
  None = None
  Conns = {c1, c2}
  Handlers = {h1, h2}
  MaxThreads = 2
  MinThreads = 1
  MaxSent = 1
  DescriptorMayFail = FALSE
  SslModes <- Plain
  Messages = {"request"}
SPECIFICATION Spec
PROPERTY CloseServesAccepted
