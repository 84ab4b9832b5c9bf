SPECIFICATION Behaviour
CONSTANTS
  h1 = h1  h2 = h2
  p1 = p1  p2 = p2  p3 = p3
  x1 = x1  x2 = x2
  Off = Off
  None = None
  Editors = {h1, h2}
  Texts = {x0, x1, x2}
  First = x0
  MaxVersions = 3
  MaxAsked = 2
  MaxErased = 1
  ListRows = {1, 2, 3}
  RowKind <- TwoKinds
  PageSize = 1
  MaxListSent = 3
  MaxListChanges = 1
  FormValues = {x1, x2}
  MaxFormSent = 3
  Pages = {h1, h2}
  MaxRequests = 3
  MaxReloads = 2
  MaxChanges = 1
  MaxDrops = 1
INVARIANT
  SidebarFollowsRenames
CHECK_DEADLOCK FALSE
