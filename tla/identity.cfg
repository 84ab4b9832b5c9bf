SPECIFICATION Behaviour
CONSTANTS
  ada = ada  bea = bea  man = man  zed = zed  ea = ea  eb = eb  em = em  ez = ez
  Off = Off
  Null = Null
  Clients = {c1, c2}
  Users = {u1, u2}
  Proofs = {p1, p2}
  Codes = {k1}
  TokenIds = {1, 2, 3}
  Requests = {r1, r2}
  CodeExpiry = 1
  TokenExpiry = 2
  MaxTime = 2
  MaxAttempts = 2
  Lock = 2
  RefreshTtl = 5
  LoginTime = 5
  MaxCount = 3
  MaxPasswords = 2
  AccountIds = {ada, bea, man, zed}
  Emails = {ea, eb, em, ez}
  AdminEmail = ea
  Managers = {man}
  Backends = {r1, r2, r3}
  AccountCalls <- SomeCalls
  AccountSeeds <- SomeSeeds
INVARIANTS
  TokensSound
PROPERTIES
  PasswordsGuarded
  AdministratorsKept
  GrantsEnd
SYMMETRY
  Symmetry
CHECK_DEADLOCK FALSE
