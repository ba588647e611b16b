SPECIFICATION StagesSpec
CONSTANTS
  Requests = {r1, r2}
  Deletes = {d1}
  Endpoints = {ep}
  Keys = {k1, k2}
  NoKey = NoKey
  Jobs = {j1, j2}
  Nothing = Nothing
  MaxFailures = 1
  Execs = {e1}
  Tasks = {t1, t2}
  None = None
  AttemptLimits = {0, 2}
  Backoffs = {0, 2}
  Horizon = 2
  MaxFaults = 2
INVARIANTS
  CreateInv
  AnswersAgree
  IInv
  DuplicatesArePaidFor
PROPERTIES
  EveryPostIsAnswered
  SettledIsFinal
  NotBeforeRunAt
  ImplementsLifecycle
  EverySettles
