SPECIFICATION AlgorithmsSpec
CONSTANTS
  Width = 8
  Policies <- MCPolicies
  Ids = {1, 2, 3, 4}
  Times = {1, 2}
  Limits = {0, 1, 2, 3}
  MaxSegments = 3
  FirstMonth = 24286
  MonthCount = 5
  Weekday = 3
  Clickable = {120, 121, 122}
  Quick = {"LastMonth"}
  Todays = {31, 121, 152}
INVARIANTS
  CapHolds
CHECK_DEADLOCK FALSE
