\* Three parameters with up to three values, up to three rules of six.
SPECIFICATION Spec
CONSTANTS
  NoValue = NoValue
  Null = NoValue
  Params <- MCParams
  Values <- MCValues
  Rules <- MCRules
  Always = {"keys"}
  MaxEdits = 4
  MaxRules = 3
INVARIANTS RulesInOrder TagTells
CHECK_DEADLOCK FALSE
