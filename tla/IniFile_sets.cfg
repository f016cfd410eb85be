SPECIFICATION Spec
CONSTANTS
  Sections = {"s", "t"}
  Names = {"k", "l"}
  Values = {"v"}
  Texts <- MCTexts
  Default = "default"
  MaxSets = 2
INVARIANTS
  KeepsSettings
PROPERTIES
  KeepsForm
CHECK_DEADLOCK FALSE
