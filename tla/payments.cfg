\* Two payments that may name one transaction, two requests at a time, one customer
\* who may be deleted.
SPECIFICATION MCSpec
CONSTANTS
  Workers = {w1, w2}
  Payments = {p1, p2}
  ReqIds = {r1, r2}
  Providers = {orange}
  Refs = {x}
  Sales = {s1, s2}
  Leaving = {p1}
  None = None
INVARIANTS OnePaymentPerRequest ReferenceProvesOnePayment
PROPERTIES DeclaredCancelledByOwner ImplementsLifecycle VerifiedGetsSold
