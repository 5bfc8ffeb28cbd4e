SPECIFICATION Spec
CONSTANTS
  Editors = {e1}
  Analyses = {a1}
  Installations = {i1}
  Payloads = {p1}
  NoOne = NoOne
  NoPayload = NoPayload
  MaxVersion = 1
  MaxId = 2
INVARIANTS
  PolicyCanBeReconstructed
CHECK_DEADLOCK FALSE
