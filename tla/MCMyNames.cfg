CONSTANTS
    alice = alice
    bob = bob
    carol = carol
    resolver = resolver
    reverser = reverser
    pot = pot
    reverse = reverse
    addr = addr
    labelx = labelx
    labely = labely
    hexb = hexb
    hexc = hexc
    x = x
    y = y
    None = None
    Accounts <- MCAccounts
    Signers <- MCAlice
    Deployer = alice
    Labels <- MCLabels
    Nodes <- MCNodes
    Heirs <- MCNone
    Resolvers <- MCNone
    Ttls <- MCTtls
    PublicResolverId = resolver
    Addresses <- MCNone
    TextKeys <- MCNone
    TextValues <- MCNone
    NameValues <- MCNames
    ReverseRegistrarId = reverser
    AddrReverseNode <- MCAddrReverseNode
    Claimants <- MCUsers
    LabelOf <- MCLabelOf
    DefaultResolvers <- MCDefaultResolvers
    ReverseAdmins <- MCAdmins
    Users <- MCUsers
    Mintable <- MCMintable
    NodeOfName <- MCNodeOfName
    Forward <- MCForward
    MaxFlows = 2
    MaxLogins = 2
SPECIFICATION MyNamesSpec
INVARIANTS MyNamesTypeOK PrimaryStands LockedByFlow TagsEarned
 
CHECK_DEADLOCK FALSE
