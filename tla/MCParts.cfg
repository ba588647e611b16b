SPECIFICATION PartsSpec
CONSTANTS
  Width = 8
  Policies <- MCPolicies
  Ids = {1, 2, 3, 4}
  Times = {1, 2}
  Limits = {0, 1, 2, 3}
  MaxSegments = 3
  FirstMonth = 24286
  MonthCount = 5
  Weekday = 3
  Clickable = {120, 121, 122}
  Quick = {"LastMonth"}
  Todays = {31, 121, 152}
  Filters = {"f1", "f2"}
  Sizes = {25, 50}
  LastPage = 3
  MaxDepth = 3
  Visits <- MCVisits
  RowNames = {"n1", "n2"}
  Slots = {1, 2}
  MaxMishaps = 1
CHECK_DEADLOCK FALSE
INVARIANTS
  Backoffs
  Walks
  Templating
  DatesRight
  FilterRestarts
  ListMatchesBar
  FormsSaveTheirRow
  ListsFollow
  InvokedOnce
