CONSTANTS
  ulogentries = 2
  MaxSno = 3
  ULOG_BLOCK = 1
  MAXLOGLEN = 2
  RecSize = {1}
  NoUpdate = none
  Princ = {p}
  Val = {v}
  Absent = absent
  Update <- MCUpdate
  StartSno = {1}
  Writers = {w}
  Jobs = {j}
  MaxTime = 3
  MaxPol = 1
  MaxLoss = 1
  MaxDeath = 1
  WriterDeath = {}
SPECIFICATION FairSpec
PROPERTY Converges
CHECK_DEADLOCK FALSE
