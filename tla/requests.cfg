SPECIFICATION FairSpec
CONSTANTS
    None = None
    Requests = {"r1", "r2", "r3"}
    Clients <- MCReloaded
INVARIANTS
    TypeOK
    OneConnection
    ExecutedInOrder
PROPERTIES
    EveryRequestReturns
