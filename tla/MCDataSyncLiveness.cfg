\* Revisions with an unusable and with good data configurations.
CONSTANTS
    Policies = {p1}
    Refreshers = {i1}
    Revisions = {2, 3, 4}
    ConfigOf <- MCConfigOf
    DataOf <- MCOwnData
    Fetched = {10}
    Importable = {}
    NoPolicy = NoPolicy
SPECIFICATION DataSyncSpec
PROPERTIES GitReachesStore UnusableIsUnscheduled DataArrives
