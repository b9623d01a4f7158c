\* One policy, two refreshers, revisions without and with a good configuration.
CONSTANTS
    Policies = {p1}
    Refreshers = {i1, i2}
    Revisions = {1, 3}
    ConfigOf <- MCConfigOf
    DataOf <- MCOwnData
    Fetched = {10}
    Importable = {p1}
    NoPolicy = NoPolicy
SYMMETRY Symmetry
SPECIFICATION DataSyncSafety
INVARIANTS DataSyncTypeOK FetchedLockCurrent
PROPERTY SyncSavesUncontestedLock
