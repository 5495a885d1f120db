-------------------------- MODULE SubnameRegistrar --------------------------
(***************************************************************************)
(* contracts/subname_registrar/lib.rs: subnames with an expiry and with     *)
(* fuses that are only ever burned, issued through the Registry.            *)
(*                                                                          *)
(* mint_subname compares the parent's owner with its own caller, and then   *)
(* asks the Registry, which compares it with the SubnameRegistrar.          *)
(***************************************************************************)
EXTENDS Registry

CONSTANTS
    SubnameRegistrarId,     \* the account of this contract
    Fuses,                  \* the flags of the bit field
    ParentCannotControl,    \* one of them
    Expiries                \* the times that inputs name

VARIABLE subnames       \* subnames[n] = None: no entry

subnameVars == <<records, subnames>>

-----------------------------------------------------------------------------

Burned(node) == IF subnames[node] = None THEN {} ELSE subnames[node].fuses

\* Every check that mint_subname makes, its own and the Registry's.
CanMintSubname(caller, parent, label, expires, parentExpiry) ==
    /\ NodeOwner(parent) = caller
    /\ ParentCannotControl \notin Burned(parent)
    /\ expires <= parentExpiry
    /\ OnlyOwner(SubnameRegistrarId, parent)
    /\ NamehashStep(parent, label) \in Nodes

MintSubname(caller, parent, label, owner, expires, parentExpiry, fuses) ==
    /\ CanMintSubname(caller, parent, label, expires, parentExpiry)
    /\ SetSubnodeOwner(SubnameRegistrarId, parent, label, owner)
    /\ subnames' = [subnames EXCEPT ![NamehashStep(parent, label)] =
                      [parent |-> parent, owner |-> owner, expires |-> expires,
                       fuses |-> fuses]]

BurnFuses(caller, node, added) ==
    /\ subnames[node] # None
    /\ caller = subnames[node].owner
    /\ subnames' = [subnames EXCEPT ![node].fuses = @ \cup added]
    /\ UNCHANGED records

SubnameInit == RegistryInit /\ subnames = [n \in Nodes |-> None]

\* A message sent to the Registry or to the SubnameRegistrar.
SubnameNext ==
    \/ RegistryNext /\ UNCHANGED subnames
    \/ \E caller \in Signers, node \in Nodes, fuses \in SUBSET Fuses :
           \/ \E label \in Labels, owner \in Heirs, expires, parentExpiry \in Expiries :
                  MintSubname(caller, node, label, owner, expires, parentExpiry, fuses)
           \/ BurnFuses(caller, node, fuses)

SubnameSpec == SubnameInit /\ [][SubnameNext]_subnameVars

-----------------------------------------------------------------------------

\* subname_registrar/lib.rs:3: "Parent name owner mints `<label>.<parent>` for
\* any chosen sub-owner", as long as no fuse was burned on the parent.
ParentOwnersMint ==
    \A p \in Nodes \ {Root}, l \in Labels, t \in Expiries :
        /\ NodeOwner(p) \in Signers
        /\ Burned(p) = {}
        /\ NamehashStep(p, l) \in Nodes
        => CanMintSubname(NodeOwner(p), p, l, t, t)

\* What holds instead, since a contract account does not sign: no subname is
\* ever recorded, and no fuse ever burned.
NoSubnames == \A n \in Nodes : subnames[n] = None

=============================================================================
