SPECIFICATION SerialSpec
CONSTANTS
  p1 = p1  p2 = p2  p3 = p3  p4 = p4  p5 = p5
  v1 = v1  v2 = v2  v3 = v3  v4 = v4  v5 = v5
  r1 = r1  r2 = r2
  Null = Null
  Pages <- MCPages
  Versions <- MCVersions
  Requests <- MCRequests
  Slugs = {"x", "y", "z", "stats", "tree"}
  Titles = {"t", "u"}
  Lines = {"a", "b", "c"}
  ReservedRootSlugs = {"tree"}
  ReservedChildSlugs = {"stats"}
  Deletable = {p1, p2, p4}
  Calls <- SerialCalls
  Seeds <- AllSeeds
  MaxDepth = 4
INVARIANTS
  NoReservedSlug
CHECK_DEADLOCK FALSE
