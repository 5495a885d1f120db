CONSTANTS
    alice = alice
    bob = bob
    registrar = registrar
    pot = pot
    a = a
    b = b
    None = None
    Accounts <- MCAccounts
    Signers <- MCSigners
    Deployer = alice
    Labels <- MCLabels
    Nodes <- MCNodes
    Heirs <- MCHeirs
    Resolvers <- MCResolvers
    Ttls <- MCTtls
    PotRegistrarId = registrar
    PotNode <- MCPotNode
    MinDuration = 2
    DefaultGrace = 1
    Durations <- MCDurations
    Graces <- MCGraces
    Admins <- MCSigners
    Controllers <- MCControllers
    MaxU64 = 4
    MaxU32 = 2
    MaxTime = 2
    ErrRollsBack = FALSE
SPECIFICATION PotSystemSpec
INVARIANTS PotTypeOK TreeClosed BalancesMatch
PROPERTIES ImplementsNameLease ApprovalsFollowHolder NoTakeover LeaseAtLeastMinimum
CHECK_DEADLOCK FALSE
