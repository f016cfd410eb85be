SPECIFICATION Spec
CONSTANTS
  ByteBits = 2
  WordBytes = 1
  KeyBytes = 8
  HeadBit = 0
  AutoKey <- Auto
  Companies <- BothCompanies
  OwnCompany <- Home
  Page = 8
  Cases <- AllCases
INVARIANTS
  RoundTrip
  PageIndependent
  NoKeyTwice
  TurnsAgree
CHECK_DEADLOCK FALSE
