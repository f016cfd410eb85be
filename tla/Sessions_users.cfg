SPECIFICATION Spec
CONSTANTS
  Resets = TRUE
  Handles = {1, 2, 3}
  Header = 4
  Roles = {"client", "ic", "server"}
INVARIANTS
  OnlineListed
  LinksAgree
  FreedUnused
PROPERTIES
  SearchEnds
CHECK_DEADLOCK FALSE
