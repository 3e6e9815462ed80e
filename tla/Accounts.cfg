SPECIFICATION PageSpec
CONSTANTS
  u1 = u1
  u2 = u2
  h1 = h1
  h2 = h2
  NoUser = NoUser
  Users <- MCUsers
  Emails <- MCEmails
  Handlers <- MCHandlers
  Starts <- MCStarts
  Start = 5
  NewUserQuota = 3
  Forms <- MCForms
  Prices <- MCPrices
  TopUps <- MCTopUps
  Pages <- MCPages
  Self = u1
  Address = "a"
  MaxRequests = 3
  MaxBeside = 3
  MaxDebits = 2
  MaxFaults = 1
  MaxHasty = 1
SYMMETRY HandlerSymmetry
INVARIANTS
  BanFollowsStatus
  OneOwner
  ToldIsTrue
  QuotaWithinGrants
CHECK_DEADLOCK FALSE
