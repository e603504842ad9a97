CONSTANTS
  ulogentries = 2
  MaxSno = 3
  ULOG_BLOCK = 2
  MAXLOGLEN = 8
  RecSize = {1, 3}
  Update = {a}
  NoUpdate = none
  MaxTime = 2
SPECIFICATION Spec
INVARIANTS TypeOK Ring ReplyExact
PROPERTY ImplementsUpdateLog
CHECK_DEADLOCK FALSE
