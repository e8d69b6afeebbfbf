CONSTANTS
    Nodes <- MCNodes
    Trips <- MCTrips
    Timetables <- PlaceTimetables
    Queries <- PlaceQueries
SPECIFICATION SpecAllNodes
INVARIANT NodeTimeInTime
CHECK_DEADLOCK FALSE
