SPECIFICATION Spec
CONSTANTS
    u1 = u1
    t1 = t1
    ch = ch
    s1 = s1
    s2 = s2
    Users <- MCUsers
    Tokens <- OneToken
    Channel = ch
    Ids <- MCIds
    Owner <- MCOwner
    Unlimited <- NoToken
    Slots <- MCSlots
    Kinds <- AllKinds
    Costs <- ThreeCosts
    MaxCost = 200
    Grant <- MCGrant
    RedisEnabled = FALSE
    BatchUpdateEnabled = FALSE
    MayDelete = TRUE
    MaxRequests = 3
    MaxFaults = 1
SYMMETRY Slot2
INVARIANT TypeOK
INVARIANT OverdraftBounded
INVARIANT Ledger
INVARIANT TokenLedger
CHECK_DEADLOCK FALSE
