SPECIFICATION Behaviour
CONSTANTS
  h1 = h1  h2 = h2  h3 = h3  x1 = x1  x2 = x2  x3 = x3  p1 = p1
  Off = Off
  Null = Null
  Requests = {h1, h2, h3}
  Attachments = {a1, a2}
  Objects = {x1, x2}
  Pages = {p1, p2}
  Extensions = {png, jpg}
  MaxBackfills = 1
  Ids = {x1, x2, x3}
  Users = {ann, bob}
  Moderators = {bob}
  Handlers = {h1, h2}
  MaxChanges = 2
  TaggedPages = {p1}
  Names = {x1, x2}
  Panels = {h1, h2}
  PageOf <- OnOnePage
  AtOnce = 2
  MaxTags = 2
  MaxFaults = 1
  MaxLoads = 1
INVARIANTS
  MediaSound
  ThreadsSound
  TagsSound
PROPERTIES
  FilesKept
SYMMETRY
  Symmetry
CHECK_DEADLOCK FALSE
