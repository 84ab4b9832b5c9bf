SPECIFICATION Behaviour
CONSTANTS
  p1 = p1  p2 = p2  p3 = p3
  boss = boss  ann = ann  root = root  ghost = ghost
  g1 = g1  g2 = g2  k1 = k1  k2 = k2  k3 = k3  r1 = r1  r2 = r2
  Null = Null
  Pages <- MCPages
  Users <- MCUsers
  Groups <- MCGroups
  RuleIds <- MCRuleIds
  Admins = {root}
  Inactive = {ghost}
  Actions <- MCActions
  Globals <- MCGlobals
  Requests <- MCRequests
  Seeds <- AllSeeds
  Calls <- AllCalls
  MaxTreeEdits = 1
INVARIANTS
  AccessTypeOK
  AnswersAgree
  SubtreeReachSound
  SearchFindsReadableBelow
  RulesWellFormed
  ReferencesHold
PROPERTIES
  GrantsWithinReach
SYMMETRY
  Symmetry
CHECK_DEADLOCK FALSE
