\* Two instances; the second writer is the sync process or another client.
CONSTANTS
    Policies = {p1}
    Instances = {i1, i2}
    Requests = {r1}
    Revisions = {v1}
    Schemas = {v1}
    ValidationLock = TRUE
    NoPolicy = NoPolicy
    MaxBacklog = 1
SPECIFICATION MongoSpec
PROPERTIES Converges
