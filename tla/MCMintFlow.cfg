CONSTANTS
    alice = alice
    bob = bob
    carol = carol
    registrar = registrar
    controller = controller
    resolver = resolver
    s = s
    bob1 = bob1
    bob2 = bob2
    carol1 = carol1
    None = None
    Accounts <- MCAccounts
    Signers <- MCHeirs
    Deployer = alice
    Labels <- MCLabels
    Nodes <- MCNodes
    Heirs <- MCHeirs
    Resolvers <- MCNone
    Ttls <- MCTtls
    PotRegistrarId = registrar
    PotNode <- MCPotNode
    MinDuration = 1
    DefaultGrace = 1
    Durations <- MCDurations
    Graces <- MCGraces
    Admins <- MCNone
    Controllers <- MCNone
    MaxU64 = 4
    MaxU32 = 2
    MaxTime = 2
    ErrRollsBack = TRUE
    ControllerId = controller
    FirstTreasury = alice
    NameLen <- MCNameLen
    Secrets <- MCSecrets
    FirstPrices <- MCPrices
    PriceTables <- MCNone
    Year = 2
    MaxU128 = 20
    FirstWindow <- MCWindow
    Windows <- MCNone
    Treasuries <- MCNone
    Payments <- MCNone
    FirstFunds <- MCFunds
    PublicResolverId = resolver
    Addresses <- MCHeirs
    TextKeys <- MCNone
    TextValues <- MCNone
    NameValues <- MCNone
    Chars <- MCChars
    Dot <- MCDot
    LowerCase <- MCLowerCase
    Composed <- MCComposed
    Script <- MCScript
    Pot <- MCPot
    Runs <- MCRuns
    Who <- MCWho
    Wanted <- MCWanted
    ClientPrices <- MCPrices
    Tip = 1
    RentDuration = 1
    Drip = 2
    Secret = s
SPECIFICATION MintFlowSpec
INVARIANTS WinnerResolves
PROPERTIES OnlyWinnersPay SomebodyGetsIt
CHECK_DEADLOCK FALSE
