SPECIFICATION Spec
CONSTANTS
    t1 = t1
    r1 = r1
    h1 = h1
    h2 = h2
    Handlers <- MCHandlers
    Tokens <- MCTokens
    Reqs <- MCReqs
    TokenOf <- MCTokenOf
    Amount <- MCAmount
    Start <- MCStart
    Monthly <- MCMonthly
    Prices <- MCPrices
    Edits <- MCEdits
    RedisEnabled = FALSE
    MaxCalls = 1
    MaxFaults = 1
SYMMETRY HandlerSymmetry
INVARIANT TypeOK
INVARIANT NothingBeyondGrants
INVARIANT UsedIsConsumed
INVARIANT ApprovedWasCredited
CHECK_DEADLOCK FALSE
