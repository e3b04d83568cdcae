CONSTANTS
    MaxPid = 2
    Faults <- NoFaults
SPECIFICATION Spec
INVARIANT JoinSucceeds
