CONSTANTS
    MaxPid = 3
    Faults <- NoFaults
SPECIFICATION Spec
PROPERTY StopIsHeard
