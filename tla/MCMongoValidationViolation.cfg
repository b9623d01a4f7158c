\* A policy is unlocked while it is being validated.
CONSTANTS
    Policies = {p1}
    Instances = {i1}
    Requests = {r1}
    Revisions = {v1}
    Schemas = {v1}
    ValidationLock = TRUE
    NoPolicy = NoPolicy
    MaxBacklog = 1
SPECIFICATION MongoSafety
PROPERTY ValidationFailureLocks
