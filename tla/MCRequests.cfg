CONSTANTS
    Nodes <- MCNodes
    Points <- MCPoints
    Bird <- MCBird
    WalkTo <- MCWalkTo
    WalkFrom <- MCWalkFrom
    Texts <- MCTexts
    Integer <- MCInteger
    Coordinates <- MCCoordinates
    Uuid <- MCUuid
    Scenarios <- MCScenarios
    ParameterLists <- MCParameterLists
    Trips <- MCTrips
    OdQueries <- MCOdQueries
    OdTrips <- MCOdTrips
    MaxCalls = 3
    Paths <- MCPaths
    Results <- MCResults
    Factors = {1, 3}
SPECIFICATION Spec
INVARIANTS
    AcceptedWhenComplete
    LastPairCounts
    CalculatorCanRely
    ErrorNamesTheCause
    NothingLeftOver
    FootpathsOfTheirNodes
    LoadConserved
CHECK_DEADLOCK FALSE
