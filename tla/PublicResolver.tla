--------------------------- MODULE PublicResolver ---------------------------
(***************************************************************************)
(* contracts/public_resolver/lib.rs: the records of a node.  Each write     *)
(* asks the Registry, in the same message, whether the caller owns the      *)
(* node; nothing is ever removed, and no write looks at the records that    *)
(* are there.                                                               *)
(***************************************************************************)
EXTENDS Registry

CONSTANTS
    PublicResolverId,   \* the account of this contract
    Addresses,          \* the accounts that inputs give as an address record
    TextKeys,           \* the keys that inputs give to text records
    TextValues,
    NameValues          \* the strings that inputs give as a `name` record

ASSUME ResolverAssumption ==
    /\ PublicResolverId \in Accounts
    /\ Addresses \subseteq Accounts
    /\ None \notin TextValues \cup NameValues

VARIABLES
    addrs,      \* the COIN_POT addresses, the only coin anybody reads
    texts,
    names

resolverVars == <<addrs, texts, names>>

-----------------------------------------------------------------------------

ResolverInit ==
    /\ addrs = [n \in Nodes |-> None]
    /\ texts = [n \in Nodes |-> [k \in TextKeys |-> None]]
    /\ names = [n \in Nodes |-> None]

\* Mutant: a node that exists is enough.
SomeNodeOwner(caller, node) == NodeExists(node)

\* only_node_owner: the call to Registry.owner, and the comparison.
OnlyNodeOwner(caller, node) == NodeOwner(node) = caller

SetAddr(caller, node, value) ==
    /\ OnlyNodeOwner(caller, node)
    /\ addrs' = [addrs EXCEPT ![node] = value]
    /\ UNCHANGED <<records, texts, names>>

SetText(caller, node, key, value) ==
    /\ OnlyNodeOwner(caller, node)
    /\ texts' = [texts EXCEPT ![node][key] = value]
    /\ UNCHANGED <<records, addrs, names>>

SetName(caller, node, name) ==
    /\ OnlyNodeOwner(caller, node)
    /\ names' = [names EXCEPT ![node] = name]
    /\ UNCHANGED <<records, addrs, texts>>

\* A message sent to the PublicResolver by one of the signing accounts.
ResolverNext ==
    \E caller \in Signers, node \in Nodes :
        \/ \E value \in Addresses : SetAddr(caller, node, value)
        \/ \E key \in TextKeys, value \in TextValues : SetText(caller, node, key, value)
        \/ \E name \in NameValues : SetName(caller, node, name)

-----------------------------------------------------------------------------

\* What a client that reads in one block gets for a node: the resolver that
\* the Registry names, and the address kept there if it is this contract.
Resolution(node) ==
    [resolver |-> NodeResolver(node),
     addr     |-> IF NodeResolver(node) = PublicResolverId THEN addrs[node] ELSE None]

=============================================================================
