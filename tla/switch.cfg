SPECIFICATION Spec
CONSTANTS
  Ids <- MCIds
  Imports <- MCImports
  Default = "o"
  Kind <- MCKind
  MaxCommands = 2
  MaxErrors = 2
  MaxEdits = 1
  MaxOutside = 1
INVARIANTS ProfilesStayApart EditsSurvive
PROPERTIES ReportsAreTrue ImplementsTransaction
CHECK_DEADLOCK FALSE
