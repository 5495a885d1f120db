CONSTANTS
    alice = alice
    bob = bob
    carol = carol
    registrar = registrar
    controller = controller
    reverser = reverser
    pot = pot
    reverse = reverse
    addr = addr
    abc = abc
    s = s
    None = None
    Accounts <- MCAccounts
    Signers <- MCSigners
    Deployer = alice
    Labels <- MCLabels
    Nodes <- MCNodes
    Heirs <- MCHeirs
    Resolvers <- MCNone
    Ttls <- MCTtls
    PotRegistrarId = registrar
    PotNode <- MCPotNode
    MinDuration = 2
    DefaultGrace = 1
    Durations <- MCDurations
    Graces <- MCGraces
    Admins <- MCNone
    Controllers <- MCNone
    MaxU64 = 6
    MaxU32 = 2
    MaxTime = 4
    ErrRollsBack = FALSE
    ControllerId = controller
    FirstTreasury = alice
    NameLen <- MCNameLen
    Secrets <- MCSecrets
    FirstPrices <- MCPrices
    PriceTables <- MCNone
    Year = 2
    MaxU128 = 20
    FirstWindow <- MCFirstWindow
    Windows <- MCNone
    Treasuries <- MCNone
    Payments <- MCOnePayment
    FirstFunds <- MCFewFunds
    PotLabel = pot
    ReverseLabel = reverse
    AddrLabel = addr
    ReverseRegistrarId = reverser
    OpenWindow <- MCOpenWindow
SPECIFICATION DeploymentSpec
INVARIANTS MarketTypeOK NamesMirrored
PROPERTIES NoFreeLease
CHECK_DEADLOCK FALSE
