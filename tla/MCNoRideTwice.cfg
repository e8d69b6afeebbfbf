CONSTANTS
    Nodes <- MCNodes
    Trips <- MCTrips
    Timetables <- RoundedTimetables
    Queries <- RoundedQueries
SPECIFICATION Spec
INVARIANT NoRideTwice
CHECK_DEADLOCK FALSE
