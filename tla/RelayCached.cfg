SPECIFICATION FairSpec
CONSTANTS
    u1 = u1
    t1 = t1
    ch = ch
    s1 = s1
    s2 = s2
    Users <- MCUsers
    Tokens <- OneToken
    Channel = ch
    Ids <- MCIds
    Owner <- MCOwner
    Unlimited <- NoToken
    Slots <- MCSlots
    Kinds <- Audio
    Costs <- MCCosts
    MaxCost = 100
    Grant <- MCGrant
    RedisEnabled = TRUE
    BatchUpdateEnabled = FALSE
    MayDelete = TRUE
    MaxRequests = 2
    MaxFaults = 0
INVARIANT NothingCreated
PROPERTY EventuallySettled
CHECK_DEADLOCK FALSE
