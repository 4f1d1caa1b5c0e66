SPECIFICATION FairSpec
CONSTANTS
    MaxSwaps = 3
    MaxFailures = 2
    MaxErrors = 2
INVARIANT
    SwapInv
PROPERTIES
    FakeReleasesProbe
    SwapReturns
CHECK_DEADLOCK FALSE
