SPECIFICATION FairSpec
CONSTANTS
  Calls <- MCCalls
  MaxAddrs = 1
  MAX_PASS = 3
  MAX_POLLFDS = 2
INVARIANTS TypeOK Polled WorstCase Verdict
PROPERTIES TenSeconds EveryServerTried Returns
