SPECIFICATION FairSpec
CONSTANTS
    v1 = v1
    v2 = v2
    udp1 = udp1
    udp2 = udp2
    unix = unix
    Verification = {v1, v2}
    NTokens = 1
    Addresses <- MCAddresses
    Stream = {unix}
    MaxRetries = 1
    MaxId = 2
INVARIANTS TypeOK OneAnswer NothingLeft NeverStuck TriesBounded
PROPERTY Answered
CHECK_DEADLOCK FALSE
