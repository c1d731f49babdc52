CONSTANTS
  None = None
  Malformed = Malformed
  Unreadable = Unreadable
  Countries = {"FR", "DE"}
  Times = {0, 2}
  Counts = {1, 2}
  RuleId = {1, 2, 3}
  Rule <- MCFewRules
  InitialMode <- MCAllActive
  Inputs <- MCInputs
  MaxChanges = 1
  MaxCrashes = 0
SPECIFICATION Spec
INVARIANT ImpossibleTravelFlagged
CHECK_DEADLOCK FALSE
