SPECIFICATION Spec
CONSTANTS
    writer = writer
    judge = judge
    DayCap = 2
    RetryAttempts = 1
    MaxDays = 1
    MaxCrashes = 1
    Stages <- MCStages
    Label <- MCLabel
    Fallback <- MCFallback
    Budgets <- MCBudgets
    Grants <- MCGrants
    CostCap <- MCCostCap
CHECK_DEADLOCK FALSE
INVARIANTS BilledInFull SpendBounded OverCapDrains
PROPERTIES StagesReturn
