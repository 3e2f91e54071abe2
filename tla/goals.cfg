SPECIFICATION FairSpec
CONSTANTS
    MaxTurn = 2
    MaxGoal = 2
    MaxTokens = 1
    MaxAsk = 2
    Budgets = {1}
    Edits = {"active"}
    Stored <- StoredGoals
INVARIANTS
    BudgetHeld
    StaleTurnEndsNoGoal
PROPERTIES
    GoalGoesOn
CHECK_DEADLOCK FALSE
