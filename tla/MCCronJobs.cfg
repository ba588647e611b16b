SPECIFICATION FairSpec
CONSTANTS
  Jobs = {reaper, j1, j2}
  Reaper = reaper
  None = None
  Requests = {r1, r2}
  Sweepers = {s1}
  Starts = {0}
  Ends = {1}
  Horizon = 1
  MaxFaults = 1
INVARIANTS
  CronInv
  ScheduledIffActive
PROPERTIES
  RetiredIsFinal
  ExpiredIsReaped
