\* Two handler threads and one session: is its lock still there when a
\* thread unlocks it?
CONSTANTS
  Workers = {w1, w2}
  Timer = timer
  Data = {d1}
  Keys = {k}
  None = None
  Expiration = 0
  MaxCalls = 2
SPECIFICATION Spec
INVARIANT LockedDataAlive
