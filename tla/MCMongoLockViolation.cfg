\* A policy stays locked while an instance keeps serving.
CONSTANTS
    Policies = {p1}
    Instances = {i1}
    Requests = {r1}
    Revisions = {v1}
    Schemas = {v1}
    ValidationLock = TRUE
    NoPolicy = NoPolicy
    MaxBacklog = 1
SPECIFICATION MongoSpec
PROPERTY LockStopsEvaluation
