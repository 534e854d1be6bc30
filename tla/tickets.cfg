SPECIFICATION Spec
CONSTANTS
  Users = {s1, c1, c2}
  Staff = {s1}
  Accounts = {a1}
  Listings = {l1, l2}
  Keys = {k1, k2}
  Workers = {w1, w2}
  Terms <- MCTerms
  MaxWallet = 2
  MaxNow = 1
  NoUser = NoUser
  NoAccount = NoAccount
  NoListing = NoListing
SYMMETRY Symmetry
INVARIANTS
  TypeOK
  SalesAreSound
PROPERTIES
  SaleStands
CHECK_DEADLOCK FALSE
CONSTRAINT StaffStayPoor
