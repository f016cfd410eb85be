SPECIFICATION Spec
CONSTANTS
  Messages = {"m0", "m2", "m3"}
  Length <- Lengths
  Answered = {"m3"}
  Clients = {control, keeper}
  Worker = worker
  Nobody = nobody
  Unknown = Unknown
  Garbage = "garbage"
  PrefixBytes = 2
  Buffer = 2
  MaxTodo = 2
INVARIANTS
  WithinBuffer
PROPERTIES
  KeepsChannel
  EveryMessageArrives
  EndIsSeen
CHECK_DEADLOCK FALSE
