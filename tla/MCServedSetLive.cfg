CONSTANTS
    Threads = {"t1"}
    Scenarios = {"s1"}
    Handlers = {"route"}
    AskedNames = {"nodes", "dataSources", "persons", "odTrips", "agencies", "services", "lines", "paths", "scenarios", "trips", "all", "wrong"}
    MaxNames = 1
    MaxUpdates = 1
    MaxCalculations = 1
    MaxFaults = 0
SPECIFICATION Spec
INVARIANT ServedSetLive
CHECK_DEADLOCK FALSE
