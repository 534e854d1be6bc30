SPECIFICATION LiveSpec
CONSTANTS
  Users = {u1}
  MinBalance = 1
  MaxWallet = 2
  NoUser = NoUser
  TopUps = {t1}
  Events = {e1}
  Listings = {l1}
  Workers = {w1, w2}
  Amounts = {1, 2}
  NoRef = NoRef
  Requests = {r1}
  MaxUsage = 2
  People = {owner, buyer}
  Owners = {owner}
  Products = {p1}
  Handlers = {h1}
  Casts = {b1}
  MaxUpdates = 2
  MaxDeliveries = 1
  NoOne = NoOne
  NoProduct = NoProduct
CHECK_DEADLOCK FALSE
INVARIANTS
  MeteringTypeOK
  EventsAreSound
PROPERTIES
  HonestPaymentsAreCredited
  AbandonedIsRecorded
  EveryoneIsTried
