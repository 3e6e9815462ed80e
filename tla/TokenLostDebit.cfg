SPECIFICATION Spec
CONSTANTS
    t1 = t1
    r1 = r1
    h1 = h1
    h2 = h2
    Handlers <- OneHandler
    Tokens <- MCTokens
    Reqs <- MCReqs
    TokenOf <- MCTokenOf
    Amount <- MCAmount
    Start <- MCStart
    Monthly <- NoMonthly
    Prices <- MCPrices
    Edits <- NoEdits
    RedisEnabled = FALSE
    MaxCalls = 2
    MaxFaults = 0
INVARIANT ApprovalAddsAmount
CHECK_DEADLOCK FALSE
