CONSTANTS
    Threads = {"t1", "t2"}
    Scenarios = {"s1", "s2"}
    Handlers = {"route"}
    AskedNames = {"trips"}
    MaxNames = 1
    MaxUpdates = 1
    MaxCalculations = 2
    MaxFaults = 0
SPECIFICATION FairSpec
INVARIANTS
    TypeOK
    OwnScenarioServed
PROPERTIES
    ImplementsRegistry
    RequestsAnswered
