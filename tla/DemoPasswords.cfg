CONSTANTS
    MaxRuns = 2
    MaxActs = 0
SPECIFICATION SeedTablesSpec
INVARIANT FailsBeforeWrites
CHECK_DEADLOCK FALSE
