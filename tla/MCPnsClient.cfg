CONSTANTS
    alice = alice
    bob = bob
    carol = carol
    registrar = registrar
    controller = controller
    resolver = resolver
    reverser = reverser
    rogue = rogue
    reverse = reverse
    addr = addr
    hexb = hexb
    hexc = hexc
    bobElsewhere = bobElsewhere
    garbage = garbage
    thrown = thrown
    None = None
    Accounts <- MCAccounts
    Signers <- MCSigners
    Deployer = alice
    Labels <- MCLabels
    Nodes <- MCNodes
    Heirs <- MCSigners
    Resolvers <- MCResolvers
    Ttls <- MCTtls
    PotRegistrarId = registrar
    PotNode <- MCPotNode
    MinDuration = 1
    DefaultGrace = 1
    Durations <- MCDurations
    Graces <- MCGraces
    Admins <- MCNone
    Controllers <- MCNone
    MaxU64 = 2
    MaxU32 = 2
    MaxTime = 1
    ErrRollsBack = TRUE
    PublicResolverId = resolver
    Addresses <- MCAddresses
    TextKeys <- MCNone
    TextValues <- MCNone
    NameValues <- MCNameValues
    ReverseRegistrarId = reverser
    AddrReverseNode <- MCAddrReverseNode
    Claimants <- MCClaimants
    LabelOf <- MCLabelOf
    DefaultResolvers <- MCNone
    ReverseAdmins <- MCNone
    ReverseNode <- MCReverseNode
    Minters <- MCMinters
    OtherContracts <- MCOtherContracts
    Spellings <- MCSpellings
    Chars <- MCChars
    Dot <- MCDot
    LowerCase <- MCLowerCase
    Composed <- MCComposed
    Script <- MCScript
    Looks <- MCLooks
    Squatter = bob
    SquatLabel <- MCSquat
    AccountOf <- MCAccountOf
    HasReverse = TRUE
    Settler = carol
    SettledLabel <- MCAb
    SettledName <- MCName
    SettledUntil = 1
    Thrown = thrown
SPECIFICATION ClientSpec
INVARIANTS SettledAnswers NoImpersonation
CHECK_DEADLOCK FALSE
