-------------------------- MODULE ReverseRegistrar --------------------------
(***************************************************************************)
(* contracts/reverse_registrar/lib.rs: every account may claim the node     *)
(* below addr.reverse that is named by its own public key.  Both messages   *)
(* act through other contracts, which see the ReverseRegistrar as their     *)
(* caller, and act on its rights, not on those of the account that asked.   *)
(***************************************************************************)
EXTENDS PublicResolver

CONSTANTS
    ReverseRegistrarId,     \* the account of this contract
    AddrReverseNode,        \* the node id of addr.reverse
    Claimants,              \* the accounts that may have a reverse node
    LabelOf,                \* account -> the label hash of its hex key
    DefaultResolvers,       \* the accounts inputs name as the default resolver
    ReverseAdmins           \* the accounts inputs name as an admin

ASSUME ReverseAssumption ==
    /\ ReverseRegistrarId \in Accounts \ Signers
    /\ AddrReverseNode \in Nodes
    /\ Claimants \subseteq Accounts
    /\ LabelOf \in [Claimants -> Labels]
    /\ \A a, b \in Claimants : LabelOf[a] = LabelOf[b] => a = b
    /\ DefaultResolvers \subseteq Accounts
    /\ ReverseAdmins \subseteq Accounts

VARIABLES defaultResolver, reverseAdmin

reverseVars == <<defaultResolver, reverseAdmin>>

-----------------------------------------------------------------------------

NodeFor(who) == NamehashStep(AddrReverseNode, LabelOf[who])

ReverseInit ==
    /\ defaultResolver = PublicResolverId
    /\ reverseAdmin = Deployer

SetReverseAdmin(caller, who) ==
    /\ caller = reverseAdmin
    /\ reverseAdmin' = who
    /\ UNCHANGED <<records, resolverVars, defaultResolver>>

SetDefaultResolver(caller, resolver) ==
    /\ caller = reverseAdmin
    /\ defaultResolver' = resolver
    /\ UNCHANGED <<records, resolverVars, reverseAdmin>>

\* Mutant: the account that is to own the node is an argument.
ClaimFor(caller) ==
    \E who \in Claimants :
        /\ SetSubnodeOwner(ReverseRegistrarId, AddrReverseNode, LabelOf[who], caller)
        /\ UNCHANGED <<resolverVars, reverseVars>>

\* The caller gets its node.  The set_resolver that follows is sent as the
\* ReverseRegistrar, goes through only if that is now the node's owner, and
\* its refusal is dropped.
Claim(caller) ==
    LET node == NodeFor(caller)
        pointer == IF caller = ReverseRegistrarId THEN defaultResolver
                   ELSE NodeResolver(node)
    IN  /\ OnlyOwner(ReverseRegistrarId, AddrReverseNode)
        /\ node \in Nodes
        /\ records' = [records EXCEPT ![node] =
                         [owner |-> caller, resolver |-> pointer, ttl |-> 0]]
        /\ UNCHANGED <<resolverVars, reverseVars>>

\* What set_name needs: the default resolver is the PublicResolver, or the
\* call fails, and the ReverseRegistrar, its caller, owns the node.
CanSetPrimaryName(caller) ==
    /\ defaultResolver = PublicResolverId
    /\ NodeFor(caller) \in Nodes
    /\ OnlyNodeOwner(ReverseRegistrarId, NodeFor(caller))

SetPrimaryName(caller, name) ==
    /\ CanSetPrimaryName(caller)
    /\ SetName(ReverseRegistrarId, NodeFor(caller), name)
    /\ UNCHANGED reverseVars

\* A message sent to the ReverseRegistrar by one of the signing accounts.
ReverseNext ==
    \E caller \in Signers :
        \/ \E who \in ReverseAdmins : SetReverseAdmin(caller, who)
        \/ \E resolver \in DefaultResolvers : SetDefaultResolver(caller, resolver)
        \/ caller \in Claimants /\ Claim(caller)
        \/ \E name \in NameValues : caller \in Claimants /\ SetPrimaryName(caller, name)

=============================================================================
