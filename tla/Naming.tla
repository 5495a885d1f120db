------------------------------- MODULE Naming -------------------------------
(***************************************************************************)
(* The name service in use: names are minted, handed over, renewed and lost *)
(* while their holders write records and claim their reverse nodes.         *)
(*                                                                          *)
(* It starts where scripts/deploy_pns.py leaves it: .pot belongs to the     *)
(* PotRegistrar, addr.reverse to the ReverseRegistrar, and the Minters are  *)
(* the contracts authorized to mint.  What a Minter asks in exchange, the   *)
(* commitment and the rent, is the subject of Deployment; here it mints and *)
(* renews whatever it is asked to.                                          *)
(***************************************************************************)
EXTENDS PotRegistrar, ReverseRegistrar

CONSTANTS
    ReverseNode,    \* the node id of .reverse
    Minters

\* The nodes are where the script mints them, the claimants' within the bound.
ASSUME NamingAssumption ==
    /\ Minters \subseteq Accounts \ Signers
    /\ {PublicResolverId, PotRegistrarId} \cap Signers = {}
    /\ {PotNode, ReverseNode, AddrReverseNode} \subseteq Nodes
    /\ \E pot, reverse, addr \in Labels :
           /\ pot # reverse
           /\ PotNode = NamehashStep(Root, pot)
           /\ ReverseNode = NamehashStep(Root, reverse)
           /\ AddrReverseNode = NamehashStep(ReverseNode, addr)
    /\ \A a \in Claimants : NodeFor(a) \in Nodes

namingVars == <<potSystemVars, resolverVars, reverseVars>>

-----------------------------------------------------------------------------

Owned(who) == [owner |-> who, resolver |-> None, ttl |-> 0]

\* The Registry once the deploy script is done.
WiredRecords ==
    [n \in Nodes |->
        CASE n \in {Root, ReverseNode} -> Owned(Deployer)
          [] n = PotNode               -> Owned(PotRegistrarId)
          [] n = AddrReverseNode       -> Owned(ReverseRegistrarId)
          [] OTHER                     -> None]

NamingInit ==
    /\ registrations = [l \in Labels |-> None]
    /\ approvals = [l \in Labels |-> None]
    /\ balances = [a \in Accounts |-> 0]
    /\ controllers = Minters
    /\ registrarAdmin = Deployer
    /\ gracePeriod = DefaultGrace
    /\ now = 0
    /\ records = WiredRecords
    /\ ResolverInit
    /\ ReverseInit

\* What anybody has a Minter do.
MinterNext ==
    \E minter \in Minters, label \in Names, duration \in Durations :
        \/ \E owner \in Heirs : Register(minter, label, owner, duration)
        \/ Renew(minter, label, duration)

NamingNext ==
    \/ PotSystemNext /\ UNCHANGED <<resolverVars, reverseVars>>
    \/ MinterNext /\ UNCHANGED <<resolverVars, reverseVars>>
    \/ ResolverNext /\ UNCHANGED <<potVars, now, reverseVars>>
    \/ ReverseNext /\ UNCHANGED <<potVars, now>>

NamingSpec == NamingInit /\ [][NamingNext]_namingVars

-----------------------------------------------------------------------------

\* Every variable of the name service is well typed.
NamingTypeOK ==
    /\ PotTypeOK
    /\ addrs \in [Nodes -> Accounts \cup {None}]
    /\ texts \in [Nodes -> [TextKeys -> TextValues \cup {None}]]
    /\ names \in [Nodes -> NameValues \cup {None}]
    /\ defaultResolver \in Accounts
    /\ reverseAdmin \in Accounts

\* What a node resolves to changes only by a message from the owner of that
\* very node: no mint, renewal, handover or eviction, no claim, no message of
\* whoever owns the node above, and none that is refused half-way, changes the
\* answer that others get.  Nor does the expiry of the name: an expired name goes
\* on resolving to what its holder wrote (see ExpiredNamesResolveToNothing).
SteadyResolution ==
    [][\A n \in Nodes :
          Resolution(n)' # Resolution(n) => NodeOwner(n) \in Signers]_namingVars

\* pot_registrar/lib.rs:7, "reads of expired names resolve to nothing": a name
\* whose lease is over has no address.
ExpiredNamesResolveToNothing ==
    \A l \in Names :
        Registered(l) /\ now >= registrations[l].expires => Resolution(NodeOf(l)).addr = None

\* Nobody makes a reverse node for an account that does not act: what claim
\* mints is the node of the very account that calls it.
ClaimedByItself ==
    \A a \in Claimants \ Signers : ~NodeExists(NodeFor(a))

\* Who changes what an account is called: the owner of the account's reverse
\* node, or, once that is handed to the ReverseRegistrar, the account itself.
PrimaryNameIsOwn ==
    [][\A a \in Claimants :
          names'[NodeFor(a)] # names[NodeFor(a)] =>
              \/ NodeOwner(NodeFor(a)) \in Signers
              \/ NodeOwner(NodeFor(a)) = ReverseRegistrarId /\ a \in Signers]_namingVars

=============================================================================
