CONSTANTS
  MaxLines = 7
  Windows <- WindowsDef
  Screens <- ScreensDef
  MenuHeight = 2
  EditorHeights = {9, 12}
  Order <- IDs
  MaxCalls = 1
  MaxSelects = 1
  MaxChanges = 1
SPECIFICATION Spec
PROPERTIES ScrollUpShowsEarlier
CHECK_DEADLOCK FALSE
