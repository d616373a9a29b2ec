\* Two handler threads and the timer, two sessions: every interleaving of
\* requests, copies, removals and expiry.
CONSTANTS
  Workers = {w1, w2}
  Timer = timer
  Data = {d1, d2}
  Keys = {k}
  None = None
  Expiration = 0
  MaxCalls = 2
SPECIFICATION FairSpec
INVARIANTS
  TypeOK
  CopiesAlive
PROPERTIES
  ImplementsSessionMap
  OneSessionPerClient
  ExpiredSessionsLeave
