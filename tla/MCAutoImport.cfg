\* One policy imported by two processes.
CONSTANTS
    Policies = {p1}
    Contents <- MCContents
    Published <- MCPublished
    Pollers = {i1, i2}
    Users = {u1}
    Ids = {1}
    MaxRotations = 1
    NoPolicy = NoPolicy
    NoBundle = NoBundle
SPECIFICATION AutoImportSpec
INVARIANTS AutoImportTypeOK OnlyExported
PROPERTIES DeletedStaysDeleted ImportsConverge ImportsStop
