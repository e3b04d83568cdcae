CONSTANTS
    Capacity = 4
    Byte = {b0, b1}
    MaxRequest = 5
SPECIFICATION Spec
PROPERTY IsAFifo
