CONSTANTS
  None = None
  Malformed = Malformed
  Unreadable = Unreadable
  Countries = {"FR", "DE"}
  Times = {1}
  Counts = {1, 2}
  RuleId = {1, 2, 3}
  Rule <- MCRule
  InitialMode <- MCInitialMode
  Inputs <- MCTellingInputs
  MaxChanges = 3
  MaxCrashes = 2
SPECIFICATION Spec
INVARIANTS TypeOK AckedModeDurable ApiMatchesAnswers ShadowNeverInterferes StrictestRuleWins
CHECK_DEADLOCK FALSE
