CONSTANTS
    Queue <- MCQueue
    Limit = 2
    Source <- MCSource
    Type <- MCType
    Hosted <- MCHosted
    Generators = {g1, g2}
    Planners = {p1, p2}
    Budgets <- MCBudgets
SPECIFICATION FairSpec
INVARIANT OneCurrent
PROPERTY DecisionKept
PROPERTY Diagnosed
CHECK_DEADLOCK FALSE
