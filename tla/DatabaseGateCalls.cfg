CONSTANTS
    a1 = a1  a2 = a2  a3 = a3  a4 = a4
    interactive = interactive  maintenance = maintenance
    Calls = {a1, a2, a3, a4}
    Classes = {interactive, maintenance}
    ClassMax <- TwoInteractiveSlots
    Multiplier = 1
    FailureThreshold = 3
    NoClass = NoClass
SPECIFICATION GateLiveSpec
INVARIANTS SlotsAccounted NobodyWaitsForAFreeSlot
PROPERTIES Recovers EveryWaiterAnswered
