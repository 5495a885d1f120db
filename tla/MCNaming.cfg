CONSTANTS
    alice = alice
    bob = bob
    carol = carol
    registrar = registrar
    controller = controller
    resolver = resolver
    reverser = reverser
    pot = pot
    reverse = reverse
    addr = addr
    abc = abc
    hexb = hexb
    hexc = hexc
    k = k
    v = v
    None = None
    Accounts <- MCAccounts
    Signers <- MCBob
    Deployer = alice
    Labels <- MCLabels
    Nodes <- MCNodes
    Heirs <- MCHeirs
    Resolvers <- MCResolvers
    Ttls <- MCTtls
    PotRegistrarId = registrar
    PotNode <- MCPotNode
    MinDuration = 2
    DefaultGrace = 1
    Durations <- MCDurations
    Graces <- MCGraces
    Admins <- MCNone
    Controllers <- MCNone
    MaxU64 = 7
    MaxU32 = 2
    MaxTime = 4
    ErrRollsBack = TRUE
    PublicResolverId = resolver
    Addresses <- MCBob
    TextKeys <- MCKeys
    TextValues <- MCValues
    NameValues <- MCValues
    ReverseRegistrarId = reverser
    AddrReverseNode <- MCAddrReverseNode
    Claimants <- MCClaimants
    LabelOf <- MCLabelOf
    DefaultResolvers <- MCNone
    ReverseAdmins <- MCNone
    ReverseNode <- MCReverseNode
    Minters <- MCMinters
SPECIFICATION NamingSpec
INVARIANTS NamingTypeOK ClaimedByItself
PROPERTIES SteadyResolution PrimaryNameIsOwn
CHECK_DEADLOCK FALSE
