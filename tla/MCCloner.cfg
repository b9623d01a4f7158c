\* Every subset of seven directories that differ in depth and in dots.
CONSTANTS
    Files <- MCFiles
    Repository <- MCRepository
    NoFile = NoFile
SPECIFICATION ClonerSpec
INVARIANTS ClonerTypeOK LookupExact WalkComplete
CHECK_DEADLOCK FALSE
