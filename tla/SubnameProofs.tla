--------------------------- MODULE SubnameProofs ----------------------------
(***************************************************************************)
(* The SubnameRegistrar never records a subname, whatever the tree, and     *)
(* whoever owns its nodes: the two owner checks of mint_subname exclude     *)
(* each other, so that what the header of the contract says is refuted.     *)
(***************************************************************************)
EXTENDS SubnameRegistrar, TLAPS

\* The caller is a signing account, and this contract is none.
LEMMA MintIsRefused ==
    ASSUME SubnameRegistrarId \notin Signers,
           NEW caller \in Signers, NEW p \in Nodes, NEW l \in Labels,
           NEW t, NEW u
    PROVE  ~CanMintSubname(caller, p, l, t, u)
  BY DEF CanMintSubname, OnlyOwner

\* subname_registrar/lib.rs:3 is false of every state in which an account that
\* signs owns a name and a node below it is free to be minted.
THEOREM ParentOwnersCannotMint ==
    ASSUME SubnameRegistrarId \notin Signers,
           NEW p \in Nodes \ {Root}, NEW l \in Labels, NEW t \in Expiries,
           NodeOwner(p) \in Signers,
           Burned(p) = {},
           NamehashStep(p, l) \in Nodes
    PROVE  ~ParentOwnersMint
<1>1. ~CanMintSubname(NodeOwner(p), p, l, t, t)
  BY MintIsRefused
<1> QED BY <1>1 DEF ParentOwnersMint

\* No subname is ever recorded, so no fuse is ever burned.
THEOREM SubnamesNeverMinted ==
    ASSUME SubnameRegistrarId \notin Signers
    PROVE  SubnameSpec => []NoSubnames
<1>1. SubnameInit => NoSubnames
  BY DEF SubnameInit, NoSubnames
<1>2. NoSubnames /\ [SubnameNext]_subnameVars => NoSubnames'
  <2> SUFFICES ASSUME NoSubnames, [SubnameNext]_subnameVars PROVE NoSubnames'
    OBVIOUS
  <2>1. CASE RegistryNext /\ UNCHANGED subnames
    BY <2>1 DEF NoSubnames
  <2>2. CASE \E caller \in Signers, node \in Nodes, fuses \in SUBSET Fuses :
               \E label \in Labels, owner \in Heirs, expires, parentExpiry \in Expiries :
                 MintSubname(caller, node, label, owner, expires, parentExpiry, fuses)
    BY <2>2, MintIsRefused DEF MintSubname
  <2>3. CASE \E caller \in Signers, node \in Nodes, fuses \in SUBSET Fuses :
               BurnFuses(caller, node, fuses)
    BY <2>3 DEF BurnFuses, NoSubnames
  <2>4. CASE UNCHANGED subnameVars
    BY <2>4 DEF NoSubnames, subnameVars
  <2> QED BY <2>1, <2>2, <2>3, <2>4 DEF SubnameNext
<1> QED BY <1>1, <1>2, PTL DEF SubnameSpec

=============================================================================
