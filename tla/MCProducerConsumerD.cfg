CONSTANTS
    Threads = 2
    MaxItems = 3
    MaxFailures = 1
SPECIFICATION Spec
INVARIANTS TokensMatchItems SafeUnlessMemoryFails DestroyedTwiceOnlyAlone
