SPECIFICATION ImportFairSpec
CONSTANTS
    MaxJobs = 2
    Uploads <- UploadsWhole
    Budgets <- BudgetsWhole
CHECK_DEADLOCK FALSE
INVARIANT EndedClean
PROPERTY CompletedWhole
PROPERTY ImportEnds
