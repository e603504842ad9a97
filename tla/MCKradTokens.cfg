SPECIFICATION Spec
CONSTANTS
    v1 = v1
    v2 = v2
    udp1 = udp1
    udp2 = udp2
    unix = unix
    Verification = {v1, v2}
    NTokens = 2
    Addresses <- MCAddresses
    Stream = {unix}
    MaxRetries = 1
    MaxId = 2
INVARIANT OneAnswer
CHECK_DEADLOCK FALSE
