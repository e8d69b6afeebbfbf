CONSTANTS
    Nodes <- MCNodes
    Trips <- MCTrips
    Timetables <- LoopTimetables
    Queries <- LoopQueries
SPECIFICATION Spec
INVARIANT OptimizedLegsConnected
CHECK_DEADLOCK FALSE
