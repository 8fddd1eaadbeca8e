\* Two voids of one sale, each past the status check before the other commits.
SPECIFICATION Spec
CONSTANTS
  p1 = p1  c1 = c1  r1 = r1
  Workers = {w1, w2}
  Products = {p1}
  Customers = {c1}
  Sales = {s1}
  CreditIds = {1, 2}
  ReqIds = {r1}
  Carts <- AllCarts
  Grants = {}
  PayAmounts = {1, 2}
  Adjustments = {}
  InitStock <- OnTwo
  Threshold <- NoAlert
  MaxStock = 2
  NoReq = NoReq  NoCustomer = NoCustomer  NoSale = NoSale  NoCart = NoCart  NoCredit = NoCredit
INVARIANT StockMatchesSales
