SPECIFICATION Spec
CONSTANTS
  Number = {"n1", "n2"}
  Loose = {"n1"}
  Account = {"ann", "bob"}
  Purchase = {"p1", "p2", "p3"}
  By <- ByPurchase
  Kind <- KindOfPurchase
  Quantity <- QuantityOfPurchase
  Admin = {m1}
  Amount = {1}
  Balance = 1
  MaxTries = 2
  MaxOps = 2
  FaultKinds = {}
  MaxFaults = 0
INVARIANT StockIsPublic
CHECK_DEADLOCK FALSE
