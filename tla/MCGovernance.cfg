CONSTANTS
    alice = alice
    bob = bob
    carol = carol
    registrar = registrar
    controller = controller
    reverser = reverser
    pot = pot
    reverse = reverse
    addr = addr
    abc = abc
    s = s
    None = None
    Accounts <- MCAccounts
    Signers <- MCGoverned
    Deployer = alice
    Labels <- MCLabels
    Nodes <- MCNodes
    Heirs <- MCOneHeir
    Resolvers <- MCNone
    Ttls <- MCTtls
    PotRegistrarId = registrar
    PotNode <- MCPotNode
    MinDuration = 2
    DefaultGrace = 1
    Durations <- MCDurations
    Graces <- MCGraces
    Admins <- MCAdmin
    Controllers <- MCController
    MaxU64 = 4
    MaxU32 = 2
    MaxTime = 2
    ErrRollsBack = TRUE
    ControllerId = controller
    FirstTreasury = alice
    NameLen <- MCNameLen
    Secrets <- MCSecrets
    FirstPrices <- MCPrices
    PriceTables <- MCPriceTables
    Year = 2
    MaxU128 = 20
    FirstWindow <- MCFirstWindow
    Windows <- MCWindows
    Treasuries <- MCTreasuries
    Payments <- MCTopPayment
    FirstFunds <- MCFewFunds
    PotLabel = pot
    ReverseLabel = reverse
    AddrLabel = addr
    ReverseRegistrarId = reverser
    OpenWindow <- MCShortWindow
SPECIFICATION DeploymentSpec
PROPERTIES MintSpendsCommitment NoFreeLease NoRentForNothing HandoverMirrored
CHECK_DEADLOCK FALSE
