SPECIFICATION Spec
CONSTANTS
    Spaces = {"acme"}
    Configs = {c1, c2}
    Specs = {p1}
    Secrets = {}
    None = None
    Requests = {r1, r2, r3}
    Tasks = {t1, t2}
    ConfigTtl = 2
    SecretTtl = 2
    MaxVersion = 2
    Horizon = 2
SYMMETRY Symmetric
CHECK_DEADLOCK FALSE
INVARIANTS
  ResourcesInv
PROPERTIES
  MissedMeansMoved
  StaleAtMostTtl
