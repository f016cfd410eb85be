SPECIFICATION Spec
CONSTANTS
  Resets = FALSE
  Handles = {1, 2}
  Header = 3
  Roles = {"client"}
INVARIANTS
  NothingStale
CHECK_DEADLOCK FALSE
