CONSTANTS
    Nodes <- MCNodes
    Trips <- MCTrips
    Timetables <- AllTimetables
    Queries <- AllQueries
SPECIFICATION FairSpec
INVARIANTS
    TypeOK
    ForwardLabelsSound
    ReverseLabelsSound
    EndsAtEgress
    JourneyFeasible
    ForwardRouteDelivered
    ResultWithinQuery
    TimesAddUp
    MinimumWaitKept
    EarliestArrivalFound
    DepartureNearlyLatest
    OptimizerProgress
PROPERTY EveryQueryAnswered
CHECK_DEADLOCK FALSE
