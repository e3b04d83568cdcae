CONSTANTS
    MaxPid = 4
    Faults <- CrashesOrDisturbance
SPECIFICATION Spec
INVARIANTS NoDuplicates ReplacementIsWatched WaitsOnlyForTheTold
PROPERTIES Recovers StopReturns NoRestartAfterStop
