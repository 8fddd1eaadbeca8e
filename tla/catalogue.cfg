\* One business; each behaviour mixes the operations of one part of the catalogue.
SPECIFICATION Spec
CONSTANTS
  Products = {x, y}
  Scopes <- Parts
  Payments = {p}
  Method = m
  Fields = {f, g}
  Values = {u, v}
  Requests = {r1, r2}
  ProductLimit = 1
  MaxKeys = 2
  MaxFaults = 1
  None = None
SYMMETRY Interchangeable
INVARIANTS NamedFilesExist LeftoversExplained ReadsHeldUntilWritten
CHECK_DEADLOCK FALSE
