\* Two requests at a time: checkouts paid, offline and on credit, replays, voids,
\* credit payments and manual movements.
SPECIFICATION Spec
CONSTANTS
  p1 = p1  c1 = c1  r1 = r1
  Workers = {w1, w2}
  Products = {p1}
  Customers = {c1}
  Sales = {s1, s2}
  CreditIds = {1, 2}
  ReqIds = {r1}
  Carts <- AllCarts
  Grants = {}
  PayAmounts = {1, 2}
  Adjustments <- RefundAndDelivery
  InitStock <- OnTwo
  Threshold <- AlertAtOne
  MaxStock = 3
  NoReq = NoReq  NoCustomer = NoCustomer  NoSale = NoSale  NoCart = NoCart  NoCredit = NoCredit
INVARIANTS OneSalePerRequest SaleNumbersGapFree NegativeOnlyOffline OwnersAlerted BalanceCountsEverything
PROPERTY ImplementsSaleBook
