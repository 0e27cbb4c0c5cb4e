\* A byte of radix 16: a register pair then holds 16 bits.
SPECIFICATION Spec
CONSTANTS
    None = None
    Byte = 16
    MaxCurrents = {6, 16, 18, 32}
    PhasePowers = {0, 4000}
    Requests <- MCRequests
    ErrorBits = {0, 5, 11, 15}
    ERROR_FLAGS <- MCErrorFlags
INVARIANTS
    
    MoreNeverLess
    PowerIsDrawn
    ErrorsReported
