CONSTANTS
  None = None
  Malformed = Malformed
  Unreadable = Unreadable
  Countries = {"FR", "DE"}
  Times = {1}
  Counts = {1, 2}
  RuleId = {1, 2, 3}
  Rule <- MCRule
  InitialMode <- MCInitialMode
  Inputs <- MCInputs
  MaxChanges = 1
  MaxCrashes = 0
SPECIFICATION Spec
INVARIANT ShadowHasNoInfluence
CHECK_DEADLOCK FALSE
