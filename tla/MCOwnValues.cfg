SPECIFICATION Spec
CONSTANTS
    Spaces = {"acme", "blue"}
    Configs = {c1}
    Specs = {}
    Secrets = {s1}
    None = None
    Requests = {r1, r2}
    Tasks = {t1}
    ConfigTtl = 1
    SecretTtl = 1
    MaxVersion = 1
    Horizon = 1
SYMMETRY Symmetric
CHECK_DEADLOCK FALSE
INVARIANT
    OwnValues
