\* Two policies, two requests, one process with one goroutine at a time.
CONSTANTS
    Policies <- MCPolicies
    Subscribers = {s1}
    Instances = {i1}
    Requests = {r1, r2}
    Workers = {w1}
    Ids = {1, 2}
    MaxBacklog = 1
    None = None
SPECIFICATION SubscriptionsSpec
INVARIANTS SubscriptionsTypeOK DuplicatesRaced OwedUnderWay
PROPERTIES ToldOfChanges ChangesNotified
