CONSTANTS
    Nodes <- MCNodes
    Trips <- MCTrips
    Timetables <- MCTimetables
    Queries <- WaitQueries
SPECIFICATION Spec
INVARIANT RouteDelivered
CHECK_DEADLOCK FALSE
