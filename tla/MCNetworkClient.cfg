CONSTANTS
    testnet = testnet
    mainnet = mainnet
    k1 = k1
    k2 = k2
    Nobody = Nobody
    Networks <- MCNetworks
    Default = testnet
    Calls <- MCCalls
    MaxDrops = 2
SPECIFICATION NetSpec
INVARIANTS NetTypeOK OnReadyNetwork OneConnecting
PROPERTIES LiveClientKept CallsSettled
