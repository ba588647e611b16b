SPECIFICATION FairSpec
CONSTANTS
  Calls = {1, 2}
  Menu <- MCMenu
  Labels = {"a", "a/workspaces", "a?b", "%61", "j1", "j3", "x1", ""}
  UrlReads <- MCUrlReads
  Cutting = {"a?b"}
  AuthMode = "oidc"
  MaxAttempts = {1, 2}
  MaxFaults = 2
  Absent = Absent
CHECK_DEADLOCK FALSE
INVARIANTS
  CallsInv
  ServedAsAsked
  AnswersTellTruth
  EffectsArePaidFor
PROPERTIES
  EveryCallEnds
