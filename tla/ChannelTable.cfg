SPECIFICATION FairSpec
CONSTANTS
    c1 = c1
    c2 = c2
    g1 = g1
    g2 = g2
    h1 = h1
    h2 = h2
    Channels <- MCChannels
    Groups <- MCGroups
    GroupLists <- MCGroupLists
    Handlers <- MCHandlers
    Initial <- MCInitial
    Home <- MCHome
    MaxWrites = 3
    MaxFaults = 1
INVARIANT TypeOK
INVARIANT TablesAgree
PROPERTY StartsUnlessTorn
PROPERTY ViewConverges
CHECK_DEADLOCK FALSE
