\* One request at a time, which may still roll back or lose its answer.
SPECIFICATION Spec
CONSTANTS
  p1 = p1  c1 = c1  r1 = r1
  Workers = {w1}
  Products = {p1}
  Customers = {c1}
  Sales = {s1, s2}
  CreditIds = {1, 2, 3}
  ReqIds = {r1}
  Carts <- MixedCarts
  Grants = {1}
  PayAmounts = {1, 2}
  Adjustments <- RefundAndDelivery
  InitStock <- OnTwo
  Threshold <- NoAlert
  MaxStock = 3
  NoReq = NoReq  NoCustomer = NoCustomer  NoSale = NoSale  NoCart = NoCart  NoCredit = NoCredit
SYMMETRY Interchangeable
INVARIANTS StockMatchesSales BalanceIsOutstanding PaidWithinDebt VoidCancelsDebt
