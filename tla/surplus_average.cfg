SPECIFICATION Spec
CONSTANTS
    None = None
    Window = 30
    Interval = 10
    FeedIns = {"inverter", "balcony"}
    Optional = {"import", "discharge"}
    UnitOf <- MCUnitOf
    UnitFactors <- MCUnitFactors
    Surpluses <- MCSurpluses
    Draws <- MCDraws
    Late = {0, 1}
INVARIANTS
    TypeOK
    AverageOfWindow
    OwnDrawCancels
