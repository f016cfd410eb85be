SPECIFICATION Spec
CONSTANTS
  Users = {u1}
  Passwords = {p1, p2}
  First = p1
  None = None
  Sockets <- TwoSockets
  MaxDrops = 2
  MaxQueue = 1
INVARIANTS
  SameUser
  PasswordKnown
  AnswersMatch
  Listening
PROPERTIES
  ControlReturns
  LoggedOnAgain
CHECK_DEADLOCK FALSE
