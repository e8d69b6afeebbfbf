CONSTANTS
    Nodes <- MCNodes
    Trips <- MCTrips
    Timetables <- PlaceTimetables
    Queries <- PlaceQueries
SPECIFICATION FairSpecAllNodes
INVARIANTS
    EarliestListed
    LatestListed
    CountedJourneyFeasible
    JourneyFeasible
PROPERTY EveryQueryAnswered
CHECK_DEADLOCK FALSE
