SPECIFICATION FairSpec
CONSTANTS
    Slugs = {"acme", "blue"}
    Existing = {"blue"}
    Tasks = {t1, t2}
    PoolSize = 2
    MaxDue = 1
    MaxFaults = 1
CHECK_DEADLOCK FALSE
INVARIANTS
  SaturatedIsReady
