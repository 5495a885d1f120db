------------------------------ MODULE Registry ------------------------------
(***************************************************************************)
(* contracts/registry/lib.rs: the tree of name nodes.  Each node that was   *)
(* ever minted has a record [owner, resolver, ttl]; only a node's owner     *)
(* writes its record, and the owner of a node mints, or re-owns, the nodes  *)
(* right below it.                                                          *)
(*                                                                          *)
(* A node id is blake2_256(parent || label).  Hashes are taken to be        *)
(* collision free, so a node is the path of labels that leads to it from    *)
(* the root.  Contracts are accounts; the caller that a contract sees is    *)
(* the account that called it, which is another contract's account in a     *)
(* cross-contract call.                                                     *)
(***************************************************************************)
EXTENDS Naturals, Sequences

CONSTANTS
    Accounts,   \* every AccountId: the people and the contracts
    Signers,    \* the accounts that send messages of their own accord
    Deployer,   \* the account that instantiates the contracts
    Labels,     \* label hashes
    Nodes,      \* the nodes considered (bounds the depth of the tree)
    Heirs,      \* the accounts that inputs name as a new owner
    Resolvers,  \* the accounts that inputs name as a resolver
    Ttls,       \* the values that inputs name as a ttl
    None        \* Rust's Option::None

ASSUME RegistryAssumption ==
    /\ Signers \subseteq Accounts
    /\ Deployer \in Accounts
    /\ Heirs \subseteq Accounts
    /\ Resolvers \subseteq Accounts
    /\ None \notin Accounts
    /\ Nodes \subseteq Seq(Labels)
    /\ <<>> \in Nodes
    /\ 0 \in Ttls

Record == [owner : Accounts, resolver : Accounts \cup {None}, ttl : Ttls]

ASSUME NoneIsNoRecord == None \notin Record

VARIABLE records        \* records[n] = None: the node was never minted

-----------------------------------------------------------------------------

Root == <<>>

\* namehash_step: the id of the node `label` below `parent`.
NamehashStep(parent, label) == Append(parent, label)

NodeExists(node) == records[node] # None

NodeOwner(node) == IF NodeExists(node) THEN records[node].owner ELSE None

NodeResolver(node) == IF NodeExists(node) THEN records[node].resolver ELSE None

\* only_owner: NodeNotFound and NotOwner are the two ways this is false.
OnlyOwner(caller, node) == NodeOwner(node) = caller

-----------------------------------------------------------------------------

\* The constructor.
RegistryInit ==
    records = [n \in Nodes |->
                 IF n = Root
                 THEN [owner |-> Deployer, resolver |-> None, ttl |-> 0]
                 ELSE None]

SetOwner(caller, node, newOwner) ==
    /\ OnlyOwner(caller, node)
    /\ records' = [records EXCEPT ![node].owner = newOwner]

\* Mutant: the node must exist, whoever owns it.
SetResolverAnyone(caller, node, resolver) ==
    /\ NodeExists(node)
    /\ records' = [records EXCEPT ![node].resolver = resolver]

SetResolver(caller, node, resolver) ==
    /\ OnlyOwner(caller, node)
    /\ records' = [records EXCEPT ![node].resolver = resolver]

SetTtl(caller, node, ttl) ==
    /\ OnlyOwner(caller, node)
    /\ records' = [records EXCEPT ![node].ttl = ttl]

\* Mutant: only_owner(parent) is missing.
SetSubnodeOwnerAnyone(caller, parent, label, owner) ==
    LET node == NamehashStep(parent, label)
    IN  /\ node \in Nodes
        /\ records' = [records EXCEPT ![node] =
                         [owner |-> owner, resolver |-> NodeResolver(node), ttl |-> 0]]

\* Mints or re-owns a subnode.  The resolver of a node that exists is kept,
\* its ttl is not.
SetSubnodeOwner(caller, parent, label, owner) ==
    LET node == NamehashStep(parent, label)
    IN  /\ OnlyOwner(caller, parent)
        /\ node \in Nodes
        /\ records' = [records EXCEPT ![node] =
                         [owner |-> owner, resolver |-> NodeResolver(node), ttl |-> 0]]

\* A message sent to the Registry by one of the signing accounts.
RegistryNext ==
    \E caller \in Signers, node \in Nodes :
        \/ \E newOwner \in Heirs : SetOwner(caller, node, newOwner)
        \/ \E resolver \in Resolvers \cup {None} : SetResolver(caller, node, resolver)
        \/ \E ttl \in Ttls : SetTtl(caller, node, ttl)
        \/ \E label \in Labels, owner \in Heirs :
               SetSubnodeOwner(caller, node, label, owner)

RegistrySpec == RegistryInit /\ [][RegistryNext]_records

-----------------------------------------------------------------------------

\* Every record is well formed.
RegistryTypeOK == records \in [Nodes -> Record \cup {None}]

\* The minted nodes are a tree: every one but the root hangs below a minted
\* node, so each name has a chain of owners that answers for it
\* (set_subnode_owner goes through only_owner on the parent).
TreeClosed ==
    \A n \in Nodes \ {Root} :
        NodeExists(n) =>
            \E p \in Nodes, l \in Labels : NodeExists(p) /\ n = NamehashStep(p, l)

\* A record that a step changes, or creates, belonged to a signing account or
\* hangs below a node that did: what contracts hold, below what contracts
\* hold, nobody moves.
OnlyOwnersWrite ==
    [][\A n \in Nodes :
          records'[n] # records[n] =>
              \/ NodeOwner(n) \in Signers
              \/ \E p \in Nodes, l \in Labels :
                     n = NamehashStep(p, l) /\ NodeOwner(p) \in Signers]_records

=============================================================================
