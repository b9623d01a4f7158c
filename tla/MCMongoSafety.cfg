\* One instance, one policy with and without an output schema.
CONSTANTS
    Policies = {p1}
    Instances = {i1}
    Requests = {r1, r2}
    Revisions = {v1, v2}
    Schemas = {v1}
    ValidationLock = TRUE
    NoPolicy = NoPolicy
    MaxBacklog = 2
SYMMETRY Symmetry
SPECIFICATION MongoSafety
INVARIANTS TypeOK DocumentsHeld CacheFresh SnapshotFresh
PROPERTIES LockRespected ImplementsRegistry
