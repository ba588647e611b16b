SPECIFICATION Spec
CONSTANTS
    Slugs = {"acme"}
    Existing = {}
    Requests = {c1, c2, c3}
    Nobody = Nobody
    Seed = Seed
SYMMETRY Symmetric
CHECK_DEADLOCK FALSE
INVARIANT CronIsScheduled
