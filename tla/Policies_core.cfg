SPECIFICATION Spec
CONSTANTS
  Editors = {e1, e2}
  Analyses = {a1}
  Installations = {i1}
  Payloads = {p1, p2}
  NoOne = NoOne
  NoPayload = NoPayload
  MaxVersion = 2
  MaxId = 2
SYMMETRY Symmetry
INVARIANTS
  NoEditLost
  RunPolicyKept
PROPERTIES
  HistoryGrows
CHECK_DEADLOCK FALSE
