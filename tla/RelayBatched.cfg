SPECIFICATION Spec
CONSTANTS
    u1 = u1
    t1 = t1
    ch = ch
    s1 = s1
    s2 = s2
    Users <- MCUsers
    Tokens <- OneToken
    Channel = ch
    Ids <- MCIds
    Owner <- MCOwner
    Unlimited <- NoToken
    Slots <- MCSlots
    Kinds <- TextAndSpeech
    Costs <- MCCosts
    MaxCost = 100
    Grant <- MCGrant
    RedisEnabled = FALSE
    BatchUpdateEnabled = TRUE
    MayDelete = FALSE
    MaxRequests = 2
    MaxFaults = 1
SYMMETRY Slot2
INVARIANT Ledger
CHECK_DEADLOCK FALSE
