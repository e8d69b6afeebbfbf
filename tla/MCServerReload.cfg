CONSTANTS
    Threads = {"t1"}
    Scenarios = {"s1"}
    Handlers = {"summary", "accessibility"}
    AskedNames = {"nodes", "dataSources", "persons", "odTrips", "agencies", "services", "lines", "paths", "scenarios", "trips", "all", "wrong"}
    MaxNames = 1
    MaxUpdates = 2
    MaxCalculations = 1
    MaxFaults = 2
SPECIFICATION Spec
INVARIANT ReloadConsistent
CHECK_DEADLOCK FALSE
