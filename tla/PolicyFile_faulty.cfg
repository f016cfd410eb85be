SPECIFICATION Spec
CONSTANTS
  Threads = {t1, t2}
  Fields = {f1, f2}
  Values = {v1, v2, v3}
  Unset = Unset
  NoThread = NoThread
  NoRequest = NoRequest
  Torn = Torn
  Faults <- FaultKinds
INVARIANTS
  Settled
  OneWinner
  SuccessIsSaved
  SaveInv
PROPERTIES
  Answered
CHECK_DEADLOCK FALSE
