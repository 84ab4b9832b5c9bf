SPECIFICATION Behaviour
CONSTANTS
  q1 = q1  k1 = k1  o1 = o1  u1 = u1  u2 = u2  x0 = x0  x1 = x1
  Off = Off
  None = None
  Users = {a}
  Admins = {a}
  Tabs = {t1, t2}
  Versions <- Releases
  Current <- Running
  Radix = 20
  OkTTL = 2
  FailTTL = 1
  Patience = 1
  MaxTime = 4
  SeedPages = {1, 2, 3, 4, 5, 6, 7, 8, 9, 10, 11, 12}
  SeedPart <- ThreeSeeds
  MaxUpheavals = 3
  CalmRequests = {q1, q2, q3}
  TabRequests = {q1, q2}
  MaxExpiries = 2
  MaxMishaps = 2
  Accounts = {u1}
  Keys = {k1, o1}
  OAuthTokens = {o1}
  McpSessions = {s1}
  Entrants = {q1, q2}
  OpenRoutes <- Routes
  OpenTools <- Tools
  Grants <- SomeGrants
  ScopeSets <- SomeScopes
  InitAccounts <- SomeAccounts
  InitKeys <- SomeKeys
  MaxChanges = 1
  MaxFaults = 2
INVARIANT
  EveryoneSearches
CHECK_DEADLOCK FALSE
