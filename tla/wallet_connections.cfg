SPECIFICATION BothSpec
CONSTANTS
  Users = {u1, u3}
  TopUps = {r1, r2}
  Events = {e1}
  Listings = {l1}
  Workers = {w1, w2}
  Amounts = {1, 2}
  MinBalance = 1
  MaxWallet = 3
  NoUser = NoUser
  NoRef = NoRef
  Signers = {u1, u2, u3}
  Askers = {u2}
  Identities = {i1, i2}
  Rows = {r1, r2}
  Handlers = {w1, w2}
SYMMETRY Symmetry
INVARIANTS
  TypeOK
  ReadsStayCurrent
  LedgerExplainsWallet
  TopUpsAreSound
  ConnTypeOK
  OneConnectionPerIdentity
PROPERTIES
  ImplementsAbstractWallet
  AccountIsKept
  MembersAreOwnersChoice
