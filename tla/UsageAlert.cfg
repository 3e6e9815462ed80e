SPECIFICATION Spec
CONSTANTS
    t1 = t1
    s1 = s1
    s2 = s2
    Tokens <- MCTokens
    Slots <- MCSlots
    MaxCost = 5
    Costs <- MCCosts
    Limit <- LimitOf10
    MonthlyQuota = 13
    Unit = 1000000
    MaxUsage = 13
    MaxMonth = 1
    MaxCrashes = 1
SYMMETRY SlotSymmetry
INVARIANT TypeOK
INVARIANT OvershootBounded
INVARIANT MonthlyOvershootBounded
INVARIANT AlertsBounded
INVARIANT BlockNotMissed
CHECK_DEADLOCK FALSE
