SPECIFICATION Spec
CONSTANTS
    Reports <- MCReports
    Assertions <- MCAssertions
    Schemas <- MCSchemas
    MaxAlternatives = 1
    MaxSteps = 3
INVARIANTS GraphIsAsReported JoinPathsAreRight PlansAreSound SearchFindsPresentTables
    OverlayFollowsGraph
CHECK_DEADLOCK FALSE
