SPECIFICATION ConnectSpec
CONSTANT MaxPolicy = 3
INVARIANTS
    NothingLeftBehind
    PolicyNotBehind
PROPERTIES
    FreedAfterClose
    CapacityReturns
