SPECIFICATION AccessSpec
CONSTANTS
  Customers = {b1}
  GatewayKeys = {k1}
  Guesses = {g1}
  Clients = {ip}
  Calls = {q1, q2}
  Cost = 2
  Burst = 2
  PruneEvery = 2
  MaxActive = 1
  MaxClock = 2
CHECK_DEADLOCK FALSE
INVARIANTS
  RandomStringsAreNotCounted
