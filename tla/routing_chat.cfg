SPECIFICATION BothSpec
CONSTANTS
  a1 = a1
  a2 = a2
  q1 = q1
  q2 = q2
  Accounts = {a1, a2}
  Requests = {q1, q2}
  Browsers = {q1}
  Scopes <- TwoScopes
  Providers = {"chatgpt", "gemini"}
  MaxUpstreamAttempts = 2
  People = {owner, buyer}
  Owners = {owner}
  Products = {p1}
  Handlers = {w1, w2}
  Casts = {b1, b2}
  MaxUpdates = 3
  MaxDeliveries = 2
  NoOne = NoOne
  NoProduct = NoProduct
SYMMETRY Symmetry
INVARIANTS
  RoutingTypeOK
  ProbesAreHeld
  FailoverReachesAll
  ChatTypeOK
  OwnersOnly
  AnnouncedWasAdded
PROPERTY CooldownHolds
