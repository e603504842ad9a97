CONSTANTS
  ulogentries = 2
  MaxSno = 3
  ULOG_BLOCK = 1
  MAXLOGLEN = 2
  RecSize = {1}
  NoUpdate = none
  Princ = {p, q}
  Val = {v}
  Absent = absent
  Update <- MCUpdate
  StartSno = {1}
  Writers = {w}
  Jobs = {j}
  MaxTime = 4
  MaxPol = 0
  MaxLoss = 0
  MaxDeath = 0
  WriterDeath = {}
SPECIFICATION Spec
INVARIANT NilMeansInSync
CHECK_DEADLOCK FALSE
