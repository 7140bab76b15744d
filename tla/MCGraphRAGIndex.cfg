SPECIFICATION Spec
CONSTANTS
    MaxTasks = 2
    Reports <- MCReports
    MaxLives = 2
    MaxCleanups = 1
INVARIANTS IndexSurvives IndexIsAsSaid LockIsHandedOn
CONSTRAINT LifeOrCleanup
CHECK_DEADLOCK FALSE
