CONSTANTS
    a = a
    None = None
    N = 3
    Addresses <- MCAddresses
    Cooldown = 2
    Timeout = 1
    MaxTime = 2
SPECIFICATION FaucetSpec
INVARIANTS FaucetTypeOK DripsSpaced
PROPERTIES PostsAnswered
CHECK_DEADLOCK FALSE
