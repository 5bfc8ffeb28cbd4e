SPECIFICATION PagesSpec
CONSTANTS
  Things <- MCThings
  Beginnings <- MCBeginnings
  PageSize = 2
  MaxPages = 3
  MaxChanges = 2
INVARIANTS
  KeyedIsProper
  TrueOnce
CHECK_DEADLOCK FALSE
