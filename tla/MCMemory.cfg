\* Two requests on one policy that changes its content.
CONSTANTS
    Policies = {p1}
    Instances = {i1}
    Requests = {r1, r2}
    Revisions = {v1, v2}
    Schemas = {v1}
    ValidationLock = TRUE
    NoPolicy = NoPolicy
SPECIFICATION MemorySpec
INVARIANTS MemoryTypeOK ChangeAnnounced SnapshotAnnounced DocumentsHeld
PROPERTIES MemoryLockRespected MemoryConverges MemoryImplementsRegistry
