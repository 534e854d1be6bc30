SPECIFICATION AllSpec
CONSTANTS
  Users = {u1, u2}
  Orgs = {o1, o2}
  Connections = {c1, c2}
  Workers = {w1, w2}
  Tabs = {t1, t2}
  Logins = {s1, s2}
  MaxTokens = 3
  People = {p1, p2, p3}
  FirstOwner = p1
  SwitchedOff = {p3}
  GivenRoles = {"owner", "manager"}
  Desks = {d1, d2}
  Customers = {b1}
  GatewayKeys = {k1}
  Guesses = {g1}
  Clients = {ip}
  Calls = {q1, q2}
  Cost = 2
  Burst = 1
  PruneEvery = 2
  MaxActive = 1
  MaxClock = 3
  Models = {"m1", "m2"}
  Described <- MCDescribed
  Lists <- MCLists
  Readers = {r1, r2}
  Ttl = 2
  FetchLimit = 1
  MaxTime = 4
SYMMETRY Symmetry
CHECK_DEADLOCK FALSE
INVARIANTS
  AllTypesOK
  OneOwnerOneDefault
  EveryLinkCounts
  PersonCanGoOn
  SignOutEndsTheSession
  
  ShownIsCurrent
PROPERTIES
  DefaultIsKept
  OwnerKept
