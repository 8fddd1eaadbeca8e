\* One phone between two accounts, or one list of three entries.
SPECIFICATION Spec
CONSTANTS
  ann = ann  bob = bob  phone = phone
  Users = {ann, bob}
  Phones = {phone}
  Ids = {1, 2, 3, 4}
  Optional = {1}
  Workers = {w1, w2}
  Scopes <- Parts
  PageSize = 1
  Ticks = 2
  MaxTime = 2
  None = None
SYMMETRY Interchangeable
INVARIANTS HolderWasTold StrayWasUnderWay CursorsMissOnlyAMillisecond NumbersMissOnlyWhatShifts
