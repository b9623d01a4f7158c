\* Two refreshers poll at the same time.
CONSTANTS
    Policies = {p1}
    Refreshers = {i1, i2}
    Revisions = {1, 3}
    ConfigOf <- MCConfigOf
    DataOf <- MCOwnData
    Fetched = {10}
    Importable = {}
    NoPolicy = NoPolicy
SPECIFICATION DataSyncSafety
INVARIANT NoConcurrentRefresh
