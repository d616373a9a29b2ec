\* Two threads that log and the timers; small files, one change of the
\* settings, one failure or restart.
CONSTANTS
  Writers = {w1, w2}
  Main = main
  None = None
  Names = {"a", "b"}
  Configs <- SmallConfigs
  Values = {"set"}
  NoValue = NoValue
  Levels = {0, 2, 3}
  Files = 3
  MaxCalls = 3
  MaxChanges = 1
  MaxFaults = 1
SPECIFICATION Spec
SYMMETRY Interchangeable
CHECK_DEADLOCK FALSE
INVARIANTS
  MessagesInOrder
  ImportantMessagesKept
  BackupsLimited
  BuffersApart
  NobodyStuck
