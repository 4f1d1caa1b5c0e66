CONSTANTS
    none = none
    NoFile = none
    Files <- MCFiles
    Staged <- MCStaged
    MaxOps = 6
SPECIFICATION Spec
INVARIANTS
    ResourcesWhole
    InterfacesBound
    ConnectionAgrees
CHECK_DEADLOCK FALSE
