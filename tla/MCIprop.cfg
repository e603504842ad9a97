CONSTANTS
  ulogentries = 2
  MaxSno = 3
  ULOG_BLOCK = 1
  MAXLOGLEN = 2
  RecSize = {1}
  NoUpdate = none
  Princ = {p, q}
  Val = {v}
  Absent = absent
  Update <- MCUpdate
  StartSno = {1, 2}
  Writers = {w, x}
  Jobs = {j}
  MaxTime = 3
  MaxPol = 1
  MaxLoss = 0
  MaxDeath = 1
  WriterDeath = {"unlogged", "logging"}
SPECIFICATION Spec
INVARIANTS TypeOK ReplicaFollows DumpFollows
SYMMETRY MCSymmetry
CHECK_DEADLOCK FALSE
