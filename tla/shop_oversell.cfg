SPECIFICATION Spec
CONSTANTS
  Products = {p1}
  Orders = {o1, o2}
  Transfers = {t1, t2}
  Workers = {w1, w2}
  MaxQuantity = 1
  MaxPrice = 2
  MaxStock = 1
  Kinds <- MCKinds
  NoProduct = NoProduct
  NoOrder = NoOrder
  NoTransfer = NoTransfer
SYMMETRY Symmetry
INVARIANT TwoBuyersOneUnit
