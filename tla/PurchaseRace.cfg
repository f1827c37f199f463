CONSTANTS
  c1 = c1
  c2 = c2
  k1 = k1
  k2 = k2
  k3 = k3
  k4 = k4
  NoId = NoId
  Orders = {"o1", "o2"}
  Products = {"cup"}
  ProductOf <- MCOneProduct
  Ids = {"p1", "p2", "p3"}
  Legacy = {"p1"}
  Keys <- MCTwoKeys
  Clients <- MCClients
  MaxSends = 4
SYMMETRY MCSymmetry
SPECIFICATION Spec
CHECK_DEADLOCK FALSE
INVARIANTS
  OneLivePurchasePerOrder
