---------------------------- MODULE NamingProofs ----------------------------
(***************************************************************************)
(* What the name service in use guarantees for every tree, every set of     *)
(* accounts, names and records, and every number of minters; and what a     *)
(* client that reads it in several dry runs is then told.                   *)
(*                                                                          *)
(* Every step writes to the Registry in one of three ways, as a signer, as  *)
(* the PotRegistrar or as the ReverseRegistrar (RegistryWrites), and to the *)
(* PublicResolver in one of two, as a signer or as the ReverseRegistrar     *)
(* (ResolverWrites).  The properties follow from where in the tree each of  *)
(* them writes, as long as what deploy_pns.py wired stays wired: Governed.  *)
(***************************************************************************)
EXTENDS PnsClient, PotRegistrarProofs

-----------------------------------------------------------------------------
(* The three ways to write to the Registry.                                 *)

\* A mint or a handover that went through, with its mirror call.
Mirrored(caller, label, owner) ==
    /\ \/ \E duration \in Durations : Register(caller, label, owner, duration)
       \/ Transfer(caller, label, owner)
    /\ SetSubnodeOwner(PotRegistrarId, PotNode, label, owner)

\* The part of a claim that is not about the caller itself.
Claimed(caller) ==
    SetSubnodeOwner(ReverseRegistrarId, AddrReverseNode, LabelOf[caller], caller)

\* A message to the PotRegistrar leaves the Registry alone, or is mirrored.
LEMMA PotWriteMirrored ==
    ASSUME NEW caller, PotWrite(caller), records' # records
    PROVE  \E label \in Names, owner \in Accounts : Mirrored(caller, label, owner)
<1>1. CASE \E label \in Names, owner \in Accounts, duration \in Durations :
               Register(caller, label, owner, duration)
  BY <1>1 DEF Register, MirrorOwner, Mirrored
<1>2. CASE \E label \in Names, to \in Accounts : Transfer(caller, label, to)
  BY <1>2 DEF Transfer, MirrorOwner, Mirrored
<1> QED BY <1>1, <1>2
        DEF PotWrite, SetRegistrarAdmin, AddController, RemoveController,
            SetGracePeriod, Renew, Approve

\* A step of the name service that is not one of its resolver or of its
\* ReverseRegistrar is one of the PotRegistrar and the Registry, in which the
\* signers and the minters write to the PotRegistrar.
LEMMA NamingPotStep ==
    ASSUME PotSystemNext \/ MinterNext
    PROVE  PotStep(Signers \cup Minters)
<1>1. CASE PotSystemNext
  BY <1>1, NextIsPotStep DEF PotStep
<1>2. CASE MinterNext
  BY <1>2, RegistryAssumption DEF MinterNext, PotStep, PotWrite
<1> QED BY <1>1, <1>2

LEMMA CallersAreAccounts == Signers \cup Minters \subseteq Accounts
  BY RegistryAssumption, NamingAssumption

\* A claim by a signer is the mint of its node, and no more: the pointer to the
\* resolver is not written, since the node is the caller's by then.
LEMMA ClaimMints ==
    ASSUME NEW caller \in Signers \cap Claimants, Claim(caller)
    PROVE  Claimed(caller) /\ UNCHANGED <<resolverVars, reverseVars>>
  BY ReverseAssumption DEF Claim, Claimed, SetSubnodeOwner, NodeFor

\* How a step may write to the Registry.
LEMMA RegistryWrites ==
    ASSUME NamingNext, records' # records
    PROVE  /\ \/ \E caller \in Signers : RegistryWrite(caller)
              \/ \E caller \in Signers \cup Minters, label \in Names, owner \in Accounts :
                     Mirrored(caller, label, owner)
              \/ \E caller \in Signers \cap Claimants : Claimed(caller)
           /\ UNCHANGED resolverVars
<1>1. CASE (PotSystemNext \/ MinterNext) /\ UNCHANGED <<resolverVars, reverseVars>>
  <2>1. CASE RegistryNext
    BY <1>1, <2>1, SignersWrite
  <2>2. CASE PotRegistrarNext \/ MinterNext
    <3>1. \E caller \in Signers \cup Minters : PotWrite(caller)
      BY <2>2, RegistryAssumption, PotRegistrarAssumption
         DEF PotRegistrarNext, MinterNext, PotWrite
    <3> QED BY <1>1, <3>1, PotWriteMirrored
  <2> QED BY <1>1, <2>1, <2>2 DEF PotSystemNext, Tick
<1>2. CASE ResolverNext \/ ReverseNext
  BY <1>2, ClaimMints
     DEF ResolverNext, SetAddr, SetText, SetName, ReverseNext, SetReverseAdmin,
         SetDefaultResolver, SetPrimaryName
<1> QED BY <1>1, <1>2 DEF NamingNext

\* How a step may write to the PublicResolver.
LEMMA ResolverWrites ==
    ASSUME NamingNext, resolverVars' # resolverVars
    PROVE  /\ \/ \E caller \in Signers, node \in Nodes :
                     \/ \E value \in Addresses : SetAddr(caller, node, value)
                     \/ \E key \in TextKeys, value \in TextValues :
                            SetText(caller, node, key, value)
                     \/ \E name \in NameValues : SetName(caller, node, name)
              \/ \E caller \in Signers \cap Claimants, name \in NameValues :
                     SetPrimaryName(caller, name)
           /\ UNCHANGED records
<1>1. CASE ResolverNext
  BY <1>1 DEF ResolverNext, SetAddr, SetText, SetName
<1>2. CASE ReverseNext
  BY <1>2, ClaimMints
     DEF ReverseNext, SetReverseAdmin, SetDefaultResolver, SetPrimaryName, SetName
<1> QED BY <1>1, <1>2 DEF NamingNext

-----------------------------------------------------------------------------
(* Types.                                                                   *)

\* Whatever the step writes to the Registry is well formed.
LEMMA NamingKeepsRecords ==
    ASSUME RegistryTypeOK, NamingNext
    PROVE  RegistryTypeOK'
<1>1. CASE UNCHANGED records
  BY <1>1 DEF RegistryTypeOK
<1>2. CASE \E caller \in Signers : RegistryWrite(caller)
  BY <1>2, WriteTyped, RegistryAssumption
<1>3. CASE \E caller \in Signers \cup Minters, label \in Names, owner \in Accounts :
               Mirrored(caller, label, owner)
  BY <1>3, MirrorTyped, NamesAreLabels DEF Mirrored, MirrorOwner
<1>4. CASE \E caller \in Signers \cap Claimants : Claimed(caller)
  <2>1. RegistryWrite(ReverseRegistrarId)
    BY <1>4, RegistryAssumption, ReverseAssumption DEF Claimed, RegistryWrite
  <2> QED BY <2>1, WriteTyped, ReverseAssumption
<1> QED BY <1>1, <1>2, <1>3, <1>4, RegistryWrites

LEMMA NamingKeepsPot ==
    ASSUME PotTypeOK, NamingNext
    PROVE  PotTypeOK'
<1>1. CASE PotSystemNext \/ MinterNext
  BY <1>1, NamingPotStep, CallersAreAccounts, PotStepTyped
<1>2. CASE UNCHANGED <<potVars, now>>
  BY <1>2, NamingKeepsRecords DEF PotTypeOK, potVars
<1> QED BY <1>1, <1>2 DEF NamingNext

LEMMA NamingKeepsTypes ==
    ASSUME NamingTypeOK, [NamingNext]_namingVars
    PROVE  NamingTypeOK'
<1>1. CASE UNCHANGED namingVars
  BY <1>1 DEF NamingTypeOK, PotTypeOK, RegistryTypeOK, namingVars, potSystemVars,
              potVars, resolverVars, reverseVars
<1>2. CASE NamingNext
  <2>1. PotTypeOK'
    BY <1>2, NamingKeepsPot DEF NamingTypeOK
  <2>2. /\ addrs' \in [Nodes -> Accounts \cup {None}]
        /\ texts' \in [Nodes -> [TextKeys -> TextValues \cup {None}]]
        /\ names' \in [Nodes -> NameValues \cup {None}]
    <3>1. CASE UNCHANGED resolverVars
      BY <3>1 DEF NamingTypeOK, resolverVars
    <3>2. CASE resolverVars' # resolverVars
      <4>1. ASSUME NEW caller, NEW node \in Nodes, NEW key \in TextKeys,
                   NEW value \in TextValues, SetText(caller, node, key, value)
            PROVE  texts' \in [Nodes -> [TextKeys -> TextValues \cup {None}]]
        BY <4>1 DEF NamingTypeOK, SetText
      <4>2. texts' = texts \/ texts' \in [Nodes -> [TextKeys -> TextValues \cup {None}]]
        BY <1>2, <3>2, <4>1, ResolverWrites DEF SetAddr, SetName, SetPrimaryName
      <4>3. addrs' \in [Nodes -> Accounts \cup {None}]
        BY <1>2, <3>2, ResolverWrites, ResolverAssumption
           DEF NamingTypeOK, SetAddr, SetText, SetName, SetPrimaryName
      <4>4. names' \in [Nodes -> NameValues \cup {None}]
        BY <1>2, <3>2, ResolverWrites
           DEF NamingTypeOK, SetAddr, SetText, SetName, SetPrimaryName
      <4> QED BY <4>2, <4>3, <4>4 DEF NamingTypeOK
    <3> QED BY <3>1, <3>2
  <2>3. defaultResolver' \in Accounts /\ reverseAdmin' \in Accounts
    <3>1. CASE UNCHANGED reverseVars
      BY <3>1 DEF NamingTypeOK, reverseVars
    <3>2. CASE ReverseNext
      BY <3>2, ClaimMints, ReverseAssumption
         DEF NamingTypeOK, ReverseNext, SetReverseAdmin, SetDefaultResolver,
             SetPrimaryName, reverseVars
    <3> QED BY <1>2, <3>1, <3>2 DEF NamingNext
  <2> QED BY <2>1, <2>2, <2>3 DEF NamingTypeOK
<1> QED BY <1>1, <1>2

\* The nodes that the script mints are four different ones, the root and three
\* with one and two labels.
LEMMA TopNodes ==
    /\ {Root, PotNode, ReverseNode, AddrReverseNode} \subseteq Nodes
    /\ PotNode # Root /\ ReverseNode # Root /\ AddrReverseNode # Root
    /\ PotNode # ReverseNode /\ PotNode # AddrReverseNode
    /\ ReverseNode # AddrReverseNode
    /\ \A p \in Nodes, l \in Labels :
           /\ NamehashStep(p, l) # Root
           /\ NamehashStep(p, l) \in {PotNode, ReverseNode} => p = Root
           /\ NamehashStep(p, l) = AddrReverseNode => p = ReverseNode
<1>1. PICK pot \in Labels, reverse \in Labels, addr \in Labels :
          /\ pot # reverse
          /\ PotNode = NamehashStep(Root, pot)
          /\ ReverseNode = NamehashStep(Root, reverse)
          /\ AddrReverseNode = NamehashStep(ReverseNode, addr)
  BY NamingAssumption
<1>2. {Root, PotNode, ReverseNode, AddrReverseNode} \subseteq Nodes
  BY RegistryAssumption, NamingAssumption DEF Root
<1>3. Nodes \subseteq Seq(Labels)
  BY RegistryAssumption
<1>4. ASSUME NEW p \in Nodes, NEW l \in Labels, NEW q \in Nodes, NEW m \in Labels,
             NamehashStep(p, l) = NamehashStep(q, m)
      PROVE  p = q /\ l = m
  BY <1>3, <1>4, AppendInjective DEF NamehashStep
<1>5. ASSUME NEW p \in Nodes, NEW l \in Labels PROVE NamehashStep(p, l) # Root
  BY <1>3, AppendProperties DEF NamehashStep, Root
<1>6. PotNode # Root /\ ReverseNode # Root /\ AddrReverseNode # Root
  BY <1>1, <1>2, <1>5
<1>7. PotNode # ReverseNode
  BY <1>1, <1>2, <1>4
<1>8. PotNode # AddrReverseNode /\ ReverseNode # AddrReverseNode
  BY <1>1, <1>2, <1>4, <1>6
<1>9. ASSUME NEW p \in Nodes, NEW l \in Labels
      PROVE  /\ NamehashStep(p, l) \in {PotNode, ReverseNode} => p = Root
             /\ NamehashStep(p, l) = AddrReverseNode => p = ReverseNode
  BY <1>1, <1>2, <1>4
<1> QED BY <1>2, <1>5, <1>6, <1>7, <1>8, <1>9

\* The records that the script leaves are well formed.
LEMMA WiredTyped ==
    /\ WiredRecords \in [Nodes -> Record \cup {None}]
    /\ \A who \in Accounts : Owned(who) \in Record
<1>1. \A who \in Accounts : Owned(who) \in Record
  BY RegistryAssumption DEF Owned, Record
<1> QED BY <1>1, RegistryAssumption, PotRegistrarAssumption, ReverseAssumption
        DEF WiredRecords

\* Every reachable state of the name service is well typed.
THEOREM NamingTyped == NamingSpec => []NamingTypeOK
<1>1. NamingInit => NamingTypeOK
  <2> SUFFICES ASSUME NamingInit PROVE NamingTypeOK
    OBVIOUS
  <2>1. RegistryTypeOK
    BY WiredTyped DEF NamingInit, RegistryTypeOK
  <2>2. PotTypeOK
    BY <2>1, RegistryAssumption, PotRegistrarAssumption, NamingAssumption
       DEF NamingInit, PotTypeOK
  <2> QED BY <2>2, RegistryAssumption, ResolverAssumption
          DEF NamingInit, NamingTypeOK, ResolverInit, ReverseInit
<1> QED BY <1>1, NamingKeepsTypes, PTL DEF NamingSpec

\* The nodes are a tree as the script leaves them, and stay one: a claim hangs
\* the account's node below addr.reverse, a mint the name's below .pot.
THEOREM NamingTree == NamingSpec => []TreeClosed
<1>1. NamingInit => TreeClosed
  <2>1. \E pot, reverse, addr \in Labels :
            /\ PotNode = NamehashStep(Root, pot)
            /\ ReverseNode = NamehashStep(Root, reverse)
            /\ AddrReverseNode = NamehashStep(ReverseNode, addr)
    BY NamingAssumption
  <2>2. ASSUME NamingInit, NEW n \in Nodes \ {Root}, NodeExists(n)
        PROVE  n \in {PotNode, ReverseNode, AddrReverseNode}
    BY <2>2 DEF NamingInit, WiredRecords, NodeExists
  <2>3. ASSUME NamingInit PROVE NodeExists(Root) /\ NodeExists(ReverseNode)
    BY <2>3, WiredTyped, TopNodes, NoneIsNoRecord, RegistryAssumption
       DEF NamingInit, WiredRecords, NodeExists
  <2> QED BY <2>1, <2>2, <2>3, TopNodes DEF TreeClosed
<1>2. ASSUME RegistryTypeOK, TreeClosed, NamingNext PROVE TreeClosed'
  <2>1. CASE UNCHANGED records
    BY <1>2, <2>1 DEF TreeClosed, NodeExists
  <2>2. CASE \E caller \in Signers : RegistryWrite(caller)
    BY <1>2, <2>2, WriteClosed, RegistryAssumption
  <2>3. CASE \E caller \in Signers \cup Minters, label \in Names, owner \in Accounts :
                 Mirrored(caller, label, owner)
    <3>1. RegistryWrite(PotRegistrarId)
      BY <2>3, NamesAreLabels, PotRegistrarAssumption DEF Mirrored, RegistryWrite
    <3> QED BY <1>2, <3>1, WriteClosed, PotRegistrarAssumption
  <2>4. CASE \E caller \in Signers \cap Claimants : Claimed(caller)
    <3>1. RegistryWrite(ReverseRegistrarId)
      BY <2>4, RegistryAssumption, ReverseAssumption DEF Claimed, RegistryWrite
    <3> QED BY <1>2, <3>1, WriteClosed, ReverseAssumption
  <2> QED BY <1>2, <2>1, <2>2, <2>3, <2>4, RegistryWrites
<1>3. NamingTypeOK /\ TreeClosed /\ [NamingNext]_namingVars => TreeClosed'
  BY <1>2 DEF NamingTypeOK, PotTypeOK, namingVars, potSystemVars, TreeClosed, NodeExists
<1> QED BY <1>1, <1>3, NamingTyped, PTL DEF NamingSpec

-----------------------------------------------------------------------------
(* What the script wired.                                                   *)

\* Nobody but a signer takes back what the script gave away, or what the
\* Deployer kept: as long as the Deployer does not sign, this stands.
Governed ==
    /\ NodeOwner(Root) = Deployer
    /\ NodeOwner(ReverseNode) = Deployer
    /\ NodeOwner(PotNode) = PotRegistrarId
    /\ NodeOwner(AddrReverseNode) = ReverseRegistrarId
    /\ registrarAdmin = Deployer
    /\ gracePeriod = DefaultGrace

\* The four nodes are not written to.
LEMMA TopStands ==
    ASSUME RegistryTypeOK, Governed, Deployer \notin Signers, NamingNext,
           NEW n \in {Root, PotNode, ReverseNode, AddrReverseNode}
    PROVE  records'[n] = records[n]
<1>0. n \in Nodes
  BY TopNodes
<1>1. CASE \E caller \in Signers : RegistryWrite(caller)
  <2>1. PICK caller \in Signers : RegistryWrite(caller)
    BY <1>1
  <2>2. caller \in Accounts /\ NodeOwner(n) # caller
    BY RegistryAssumption, NamingAssumption, ReverseAssumption DEF Governed
  <2>3. \A p \in Nodes, l \in Labels : n = NamehashStep(p, l) => NodeOwner(p) # caller
    BY TopNodes DEF Governed
  <2> QED BY <1>0, <2>1, <2>2, <2>3, WriteByOwner
<1>2. CASE \E caller \in Signers \cup Minters, label \in Names, owner \in Accounts :
               Mirrored(caller, label, owner)
  <2>1. \A label \in Names : NamehashStep(PotNode, label) # n
    BY TopNodes, NamesAreLabels
  <2> QED BY <1>0, <1>2, <2>1 DEF Mirrored, SetSubnodeOwner, RegistryTypeOK
<1>3. CASE \E caller \in Signers \cap Claimants : Claimed(caller)
  <2>1. \A a \in Claimants : NamehashStep(AddrReverseNode, LabelOf[a]) # n
    BY TopNodes, ReverseAssumption
  <2> QED BY <1>0, <1>3, <2>1 DEF Claimed, SetSubnodeOwner, RegistryTypeOK
<1> QED BY <1>1, <1>2, <1>3, RegistryWrites

LEMMA NamingKeepsGoverned ==
    ASSUME NamingTypeOK, Governed, Deployer \notin Signers, [NamingNext]_namingVars
    PROVE  Governed'
<1>1. CASE UNCHANGED namingVars
  BY <1>1 DEF Governed, NodeOwner, NodeExists, namingVars, potSystemVars, potVars
<1>2. CASE NamingNext
  <2>1. \A n \in {Root, PotNode, ReverseNode, AddrReverseNode} : records'[n] = records[n]
    BY <1>2, TopStands DEF NamingTypeOK, PotTypeOK
  <2>2. UNCHANGED <<registrarAdmin, gracePeriod>>
    <3>1. CASE PotRegistrarNext
      BY <3>1 DEF Governed, PotRegistrarNext, SetRegistrarAdmin, AddController,
                  RemoveController, SetGracePeriod, Register, Renew, Transfer, Approve
    <3>2. CASE MinterNext
      BY <3>2 DEF MinterNext, Register, Renew
    <3> QED BY <1>2, <3>1, <3>2 DEF NamingNext, PotSystemNext, Tick, potVars
  <2> QED BY <2>1, <2>2 DEF Governed, NodeOwner, NodeExists
<1> QED BY <1>1, <1>2

LEMMA WiringGoverns ==
    ASSUME \A n \in {Root, PotNode, ReverseNode, AddrReverseNode} :
               records[n] = WiredRecords[n],
           registrarAdmin = Deployer, gracePeriod = DefaultGrace
    PROVE  Governed
<1>1. /\ WiredRecords[Root] = Owned(Deployer)
      /\ WiredRecords[ReverseNode] = Owned(Deployer)
      /\ WiredRecords[PotNode] = Owned(PotRegistrarId)
      /\ WiredRecords[AddrReverseNode] = Owned(ReverseRegistrarId)
  BY TopNodes DEF WiredRecords
<1>2. \A who \in Accounts : Owned(who) # None /\ Owned(who).owner = who
  BY WiredTyped, NoneIsNoRecord DEF Owned
<1> QED BY <1>1, <1>2, RegistryAssumption, PotRegistrarAssumption, ReverseAssumption
        DEF Governed, NodeOwner, NodeExists

\* What the script wired stays wired.
THEOREM NamingGoverned ==
    ASSUME Deployer \notin Signers
    PROVE  NamingSpec => []Governed
<1>1. NamingInit => Governed
  BY WiringGoverns DEF NamingInit
<1> QED BY <1>1, NamingKeepsGoverned, NamingTyped, PTL DEF NamingSpec

-----------------------------------------------------------------------------
(* Reverse nodes.                                                           *)

\* The reverse nodes hang below addr.reverse, one for each account.
LEMMA ReverseNodes ==
    ASSUME NEW a \in Claimants
    PROVE  /\ NodeFor(a) \in Nodes
           /\ NodeFor(a) \notin {Root, PotNode, ReverseNode, AddrReverseNode}
           /\ \A p \in Nodes, l \in Labels :
                  NodeFor(a) = NamehashStep(p, l) => p = AddrReverseNode /\ l = LabelOf[a]
           /\ \A b \in Claimants : NodeFor(a) = NodeFor(b) => a = b
           /\ \A l \in Labels : NodeFor(a) # NodeOf(l)
<1>1. /\ LabelOf[a] \in Labels /\ NodeFor(a) \in Nodes
      /\ AddrReverseNode \in Nodes /\ PotNode \in Nodes
  BY ReverseAssumption, NamingAssumption
<1>2. ASSUME NEW p \in Nodes, NEW l \in Labels, NodeFor(a) = NamehashStep(p, l)
      PROVE  p = AddrReverseNode /\ l = LabelOf[a]
  <2>1. p \in Seq(Labels) /\ AddrReverseNode \in Seq(Labels)
    BY <1>1, RegistryAssumption
  <2> QED BY <1>1, <1>2, <2>1, AppendInjective DEF NodeFor, NamehashStep
<1>3. ASSUME NEW b \in Claimants, NodeFor(a) = NodeFor(b) PROVE a = b
  BY <1>1, <1>2, <1>3, ReverseAssumption DEF NodeFor
<1>4. NodeFor(a) \notin {Root, PotNode, ReverseNode, AddrReverseNode}
  BY <1>1, TopNodes DEF NodeFor
<1>5. \A l \in Labels : NodeFor(a) # NodeOf(l)
  BY <1>1, <1>2, TopNodes DEF NodeOf
<1> QED BY <1>1, <1>2, <1>3, <1>4, <1>5

\* A reverse node is written by its owner, or by the claim of its account.
LEMMA ReverseWrites ==
    ASSUME RegistryTypeOK, Governed, Deployer \notin Signers, NamingNext,
           NEW a \in Claimants, records'[NodeFor(a)] # records[NodeFor(a)]
    PROVE  NodeOwner(NodeFor(a)) \in Signers \/ a \in Signers
<1>0. NodeFor(a) \in Nodes
  BY ReverseNodes
<1>1. CASE \E caller \in Signers : RegistryWrite(caller)
  <2>1. NodeOwner(AddrReverseNode) \notin Signers
    BY ReverseAssumption DEF Governed
  <2> QED BY <1>0, <1>1, <2>1, WriteByOwner, ReverseNodes, RegistryAssumption
<1>2. CASE \E caller \in Signers \cup Minters, label \in Names, owner \in Accounts :
               Mirrored(caller, label, owner)
  <2>1. \A label \in Names : NodeFor(a) # NamehashStep(PotNode, label)
    BY ReverseNodes, NamesAreLabels DEF NodeOf
  <2> QED BY <1>0, <1>2, <2>1 DEF Mirrored, SetSubnodeOwner, RegistryTypeOK
<1>3. CASE \E caller \in Signers \cap Claimants : Claimed(caller)
  <2>1. PICK caller \in Signers \cap Claimants : Claimed(caller)
    BY <1>3
  <2>2. NodeFor(a) = NodeFor(caller)
    BY <1>0, <2>1 DEF Claimed, SetSubnodeOwner, RegistryTypeOK, NodeFor
  <2> QED BY <2>2, ReverseNodes
<1> QED BY <1>1, <1>2, <1>3, RegistryWrites

\* Nobody makes a reverse node for somebody else.
THEOREM NamingClaimed ==
    ASSUME Deployer \notin Signers
    PROVE  NamingSpec => []ClaimedByItself
<1>1. NamingInit => ClaimedByItself
  <2> SUFFICES ASSUME NamingInit, NEW a \in Claimants PROVE records[NodeFor(a)] = None
    BY DEF ClaimedByItself, NodeExists
  <2> QED BY ReverseNodes DEF NamingInit, WiredRecords
<1>2. NamingTypeOK /\ Governed /\ ClaimedByItself /\ [NamingNext]_namingVars
        => ClaimedByItself'
  <2> SUFFICES ASSUME NamingTypeOK, Governed, ClaimedByItself, [NamingNext]_namingVars,
                      NEW a \in Claimants \ Signers
               PROVE  ~NodeExists(NodeFor(a))'
    BY DEF ClaimedByItself
  <2>1. ~NodeExists(NodeFor(a)) /\ NodeOwner(NodeFor(a)) \notin Signers
    BY RegistryAssumption DEF ClaimedByItself, NodeOwner
  <2>2. records'[NodeFor(a)] = records[NodeFor(a)]
    BY <2>1, ReverseWrites DEF NamingTypeOK, PotTypeOK, namingVars, potSystemVars
  <2> QED BY <2>1, <2>2 DEF NodeExists
<1> QED BY <1>1, <1>2, NamingTyped, NamingGoverned, PTL DEF NamingSpec

\* Who calls an account something: the owner of its reverse node, or the
\* account itself through the ReverseRegistrar, whoever signs.
THEOREM NamingPrimaryIsOwn == NamingSpec => PrimaryNameIsOwn
<1>1. ASSUME NamingTypeOK, NamingNext, NEW a \in Claimants,
             names'[NodeFor(a)] # names[NodeFor(a)]
      PROVE  \/ NodeOwner(NodeFor(a)) \in Signers
             \/ NodeOwner(NodeFor(a)) = ReverseRegistrarId /\ a \in Signers
  <2>0. NodeFor(a) \in Nodes
    BY ReverseNodes
  <2>1. CASE \E caller \in Signers, node \in Nodes, name \in NameValues :
                 SetName(caller, node, name)
    BY <1>1, <2>0, <2>1 DEF SetName, OnlyNodeOwner, NamingTypeOK
  <2>2. CASE \E caller \in Signers \cap Claimants, name \in NameValues :
                 SetPrimaryName(caller, name)
    <3>1. PICK caller \in Signers \cap Claimants, name \in NameValues :
               SetPrimaryName(caller, name)
      BY <2>2
    <3>2. NodeFor(a) = NodeFor(caller)
      BY <1>1, <2>0, <3>1 DEF SetPrimaryName, SetName, NamingTypeOK
    <3>3. a = caller
      BY <3>2, ReverseNodes
    <3> QED BY <3>1, <3>3 DEF SetPrimaryName, CanSetPrimaryName, OnlyNodeOwner
  <2>3. resolverVars' # resolverVars
    BY <1>1 DEF resolverVars
  <2> QED BY <1>1, <2>1, <2>2, <2>3, ResolverWrites DEF SetAddr, SetText
<1>2. NamingTypeOK /\ [NamingNext]_namingVars =>
        [\A a \in Claimants :
            names'[NodeFor(a)] # names[NodeFor(a)] =>
                \/ NodeOwner(NodeFor(a)) \in Signers
                \/ NodeOwner(NodeFor(a)) = ReverseRegistrarId /\ a \in Signers]_namingVars
  BY <1>1
<1> QED BY <1>2, NamingTyped, PTL DEF NamingSpec, PrimaryNameIsOwn

-----------------------------------------------------------------------------
(* Resolution.                                                              *)

\* A node that is minted, or given to another owner from above, resolves to
\* what it did.
LEMMA SubnodeKeepsResolver ==
    ASSUME RegistryTypeOK, NEW caller, NEW parent, NEW label, NEW owner \in Accounts,
           SetSubnodeOwner(caller, parent, label, owner), NEW n \in Nodes
    PROVE  NodeResolver(n)' = NodeResolver(n)
<1> DEFINE node == NamehashStep(parent, label)
           r == [owner |-> owner, resolver |-> NodeResolver(node), ttl |-> 0]
<1>1. node \in Nodes /\ records' = [records EXCEPT ![node] = r]
  BY DEF SetSubnodeOwner
<1>2. CASE n # node
  BY <1>1, <1>2 DEF NodeResolver, NodeExists, RegistryTypeOK
<1>3. CASE n = node
  <2>1. NodeResolver(node) \in Accounts \cup {None}
    BY <1>1 DEF NodeResolver, NodeExists, RegistryTypeOK, Record
  <2>2. r \in Record
    BY <2>1, RegistryAssumption DEF Record
  <2>3. records'[n] = r /\ r # None
    BY <1>1, <1>3, <2>2, NoneIsNoRecord DEF RegistryTypeOK
  <2>4. NodeResolver(n)' = NodeResolver(node)
    BY <2>3 DEF NodeResolver, NodeExists
  <2> QED BY <1>3, <2>4
<1> QED BY <1>2, <1>3

\* What else is written to a node keeps its resolver, but for set_resolver.
LEMMA WriteKeepsResolver ==
    ASSUME RegistryTypeOK, NEW caller \in Accounts, RegistryWrite(caller),
           NEW n \in Nodes, NodeOwner(n) # caller
    PROVE  NodeResolver(n)' = NodeResolver(n)
<1>1. CASE \E node \in Nodes, label \in Labels, owner \in Accounts :
               SetSubnodeOwner(caller, node, label, owner)
  BY <1>1, SubnodeKeepsResolver
<1>2. CASE ~\E node \in Nodes, label \in Labels, owner \in Accounts :
               SetSubnodeOwner(caller, node, label, owner)
  <2>1. records'[n] = records[n]
    BY <1>2 DEF RegistryWrite, SetOwner, SetResolver, SetTtl, OnlyOwner, RegistryTypeOK
  <2> QED BY <2>1 DEF NodeResolver, NodeExists
<1> QED BY <1>1, <1>2

\* The pointer of a node to its resolver is changed by the node's owner only.
LEMMA ResolverByOwner ==
    ASSUME RegistryTypeOK, NamingNext, NEW n \in Nodes,
           NodeResolver(n)' # NodeResolver(n)
    PROVE  NodeOwner(n) \in Signers
<1>1. records' # records
  BY DEF NodeResolver, NodeExists
<1>2. CASE \E caller \in Signers : RegistryWrite(caller)
  BY <1>2, WriteKeepsResolver, RegistryAssumption
<1>3. CASE \E caller \in Signers \cup Minters, label \in Names, owner \in Accounts :
               Mirrored(caller, label, owner)
  BY <1>3, SubnodeKeepsResolver DEF Mirrored
<1>4. CASE \E caller \in Signers \cap Claimants : Claimed(caller)
  BY <1>4, SubnodeKeepsResolver, RegistryAssumption DEF Claimed
<1> QED BY <1>1, <1>2, <1>3, <1>4, RegistryWrites

\* The address of a node is changed by the node's owner only.
LEMMA AddrByOwner ==
    ASSUME NamingTypeOK, NamingNext, NEW n \in Nodes, addrs'[n] # addrs[n]
    PROVE  NodeOwner(n) \in Signers
<1>1. resolverVars' # resolverVars
  BY DEF resolverVars
<1> QED BY <1>1, ResolverWrites
        DEF SetAddr, SetText, SetName, SetPrimaryName, OnlyNodeOwner, NamingTypeOK

\* The answer for a node is changed by the node's owner only.
THEOREM NamingSteady == NamingSpec => SteadyResolution
<1>1. NamingTypeOK /\ [NamingNext]_namingVars =>
        [\A n \in Nodes :
            Resolution(n)' # Resolution(n) => NodeOwner(n) \in Signers]_namingVars
  BY ResolverByOwner, AddrByOwner DEF Resolution, NamingTypeOK, PotTypeOK
<1> QED BY <1>1, NamingTyped, PTL DEF NamingSpec, SteadyResolution

-----------------------------------------------------------------------------
(* The client.  The Settler does not sign, and nobody has a right on its    *)
(* name until its grace period is over: what the two nodes it settled say   *)
(* stands, so that every read of a call finds the same, whatever is done    *)
(* between two of them.                                                     *)

SettledNode == NodeOf(SettledLabel)

SettlerStands ==
    Settled =>
        /\ OwnerOf(SettledLabel) = Settler /\ approvals[SettledLabel] = None
        /\ registrations[SettledLabel].expires >= SettledUntil
        /\ \A n \in {SettledNode, NodeFor(Settler)} :
               NodeOwner(n) = Settler /\ NodeResolver(n) = PublicResolverId
        /\ addrs[SettledNode] = Settler
        /\ names[NodeFor(Settler)] = SettledName

LEMMA TheSettler ==
    /\ Settler \in Claimants /\ Settler \in Accounts
    /\ Settler \notin Signers /\ Settler \notin Minters /\ Settler # None
    /\ SettledLabel \in Labels /\ SettledLabel \in Names
    /\ SettledNode \in Nodes /\ NodeFor(Settler) \in Nodes
    /\ \A p \in Nodes, l \in Labels :
           SettledNode = NamehashStep(p, l) => p = PotNode /\ l = SettledLabel
    /\ \A l \in Labels : NodeOf(l) = SettledNode => l = SettledLabel
    /\ PublicResolverId # None
<1>1. /\ Settler \in Claimants /\ Settler \in Accounts
      /\ Settler \notin Signers /\ Settler \notin Minters /\ Settler # None
  BY ClientAssumption, ReverseAssumption, RegistryAssumption
<1>2. /\ SettledLabel \in Labels /\ SettledLabel \in Names
      /\ SettledNode \in Nodes /\ NodeFor(Settler) \in Nodes
  BY <1>1, ClientAssumption, ReverseNodes DEF Names, SettledNode
<1>3. ASSUME NEW p \in Nodes, NEW l \in Labels, SettledNode = NamehashStep(p, l)
      PROVE  p = PotNode /\ l = SettledLabel
  <2>1. p \in Seq(Labels) /\ PotNode \in Seq(Labels)
    BY RegistryAssumption, PotRegistrarAssumption
  <2> QED BY <1>2, <1>3, <2>1, AppendInjective DEF SettledNode, NodeOf, NamehashStep
<1>4. \A l \in Labels : NodeOf(l) = SettledNode => l = SettledLabel
  BY <1>3, PotRegistrarAssumption DEF NodeOf
<1> QED BY <1>1, <1>2, <1>3, <1>4, ResolverAssumption, RegistryAssumption

\* Time goes on.
LEMMA SettledBefore ==
    ASSUME NamingTypeOK, [NamingNext]_namingVars, Settled'
    PROVE  Settled
<1>1. now \in Nat /\ SettledUntil + DefaultGrace \in Nat
  BY ClientAssumption, PotRegistrarAssumption DEF NamingTypeOK, PotTypeOK
<1>2. now' = now \/ now' = now + 1
  <2>1. CASE PotRegistrarNext \/ MinterNext
    BY <2>1 DEF PotRegistrarNext, MinterNext, SetRegistrarAdmin, AddController,
                RemoveController, SetGracePeriod, Register, Renew, Transfer, Approve
  <2> QED BY <2>1 DEF NamingNext, PotSystemNext, Tick, namingVars, potSystemVars
<1> QED BY <1>1, <1>2 DEF Settled

\* The lease of the settled name has some time left.
LEMMA SettledInGrace ==
    ASSUME NamingTypeOK, Governed, SettlerStands, Settled
    PROVE  /\ Registered(SettledLabel)
           /\ now < registrations[SettledLabel].expires + gracePeriod
           /\ ~Available(SettledLabel)
<1>1. PotTypeOK
  BY DEF NamingTypeOK
<1>2. Registered(SettledLabel)
  BY TheSettler DEF SettlerStands, OwnerOf
<1>3. /\ now \in Nat /\ SettledUntil \in Nat /\ DefaultGrace \in Nat
      /\ registrations[SettledLabel].expires \in Nat
  BY <1>1, <1>2, TheSettler, RegisteredTyped, TimesAreNat, ClientAssumption,
     PotRegistrarAssumption
<1>4. now < registrations[SettledLabel].expires + gracePeriod
  BY <1>3 DEF SettlerStands, Settled, Governed
<1> QED BY <1>1, <1>2, <1>4, TheSettler, NotAvailableInGrace

\* The lease goes on.
LEMMA SettledLeaseStands ==
    ASSUME NamingTypeOK, Governed, SettlerStands, Settled, NamingNext
    PROVE  /\ OwnerOf(SettledLabel)' = Settler /\ approvals'[SettledLabel] = None
           /\ registrations'[SettledLabel].expires >= SettledUntil
<1>1. CASE PotSystemNext \/ MinterNext
  <2> DEFINE Callers == Signers \cup Minters
  <2>1. PotTypeOK /\ PotStep(Callers) /\ Callers \subseteq Accounts
    BY <1>1, NamingPotStep, CallersAreAccounts DEF NamingTypeOK
  <2>2. {OwnerOf(SettledLabel), approvals[SettledLabel]} \cap Callers = {}
    BY <2>1, TheSettler, RegistryAssumption DEF SettlerStands
  <2>3. /\ Registered(SettledLabel)
        /\ registrations'[SettledLabel].expires >= registrations[SettledLabel].expires
        /\ OwnerOf(SettledLabel)' = OwnerOf(SettledLabel)
    <3> HIDE DEF Callers
    <3> QED BY <2>1, <2>2, SettledInGrace, StepNoTakeover, TheSettler
  <2>4. /\ SettledUntil \in Nat
        /\ registrations[SettledLabel].expires \in Nat
        /\ registrations'[SettledLabel].expires \in Nat
    <3>1. PotTypeOK'
      BY <2>1, NamingKeepsPot
    <3>2. Registered(SettledLabel)'
      BY <2>3, TheSettler DEF SettlerStands, OwnerOf
    <3>3. /\ registrations[SettledLabel] \in Registration
          /\ registrations'[SettledLabel] \in Registration
      BY <2>1, <2>3, <3>1, <3>2, TheSettler DEF PotTypeOK, Registered
    <3> QED BY <3>3, ClientAssumption, PotRegistrarAssumption DEF Registration
  <2>5. approvals'[SettledLabel] = None
    <3>1. CASE UNCHANGED approvals
      BY <3>1 DEF SettlerStands
    <3>2. CASE \E caller \in Callers : PotWrite(caller)
      <4>1. ~\E caller \in Callers, who \in Accounts : Approve(caller, SettledLabel, who)
        BY <2>2 DEF Approve
      <4>2. approvals'[SettledLabel] = approvals[SettledLabel]
            \/ approvals'[SettledLabel] = None
        BY <2>1, <3>2, <4>1, TheSettler
           DEF PotWrite, SetRegistrarAdmin, AddController, RemoveController,
               SetGracePeriod, Register, Renew, Transfer, Approve, PotTypeOK,
               ApprovalsAfterHandover
      <4> QED BY <4>2 DEF SettlerStands
    <3> QED BY <2>1, <3>1, <3>2 DEF PotStep, Tick, potVars
  <2> QED BY <2>3, <2>4, <2>5 DEF SettlerStands
<1>2. CASE UNCHANGED potVars
  BY <1>2 DEF potVars, SettlerStands, OwnerOf, Registered
<1> QED BY <1>1, <1>2 DEF NamingNext

\* The records of the two nodes in the Registry are not written to.
LEMMA SettledRecordsStand ==
    ASSUME NamingTypeOK, Governed, Deployer \notin Signers, SettlerStands, Settled,
           NamingNext, NEW n \in {SettledNode, NodeFor(Settler)}
    PROVE  records'[n] = records[n]
<1>0. RegistryTypeOK /\ PotTypeOK /\ n \in Nodes /\ NodeOwner(n) = Settler
  BY TheSettler DEF NamingTypeOK, PotTypeOK, SettlerStands
<1>1. CASE n = NodeFor(Settler)
  BY <1>0, <1>1, ReverseWrites, TheSettler
<1>2. CASE n = SettledNode
  <2>1. CASE \E caller \in Signers : RegistryWrite(caller)
    <3>1. NodeOwner(PotNode) \notin Signers
      BY NamingAssumption DEF Governed
    <3> QED BY <1>0, <1>2, <2>1, <3>1, WriteByOwner, TheSettler, RegistryAssumption
  <2>2. CASE \E caller \in Signers \cup Minters, label \in Names, owner \in Accounts :
                 Mirrored(caller, label, owner)
    <3>1. PICK caller \in Signers \cup Minters, label \in Names, owner \in Accounts :
               Mirrored(caller, label, owner)
      BY <2>2
    <3>2. label # SettledLabel
      <4>1. caller \notin {OwnerOf(SettledLabel), approvals[SettledLabel]}
        BY TheSettler, CallersAreAccounts, RegistryAssumption DEF SettlerStands
      <4> QED BY <3>1, <4>1, SettledInGrace DEF Mirrored, Register, CanRegister, Transfer
    <3>3. NodeOf(label) # n
      BY <1>2, <3>2, TheSettler, NamesAreLabels
    <3> QED BY <1>0, <3>1, <3>3 DEF Mirrored, SetSubnodeOwner, NodeOf, RegistryTypeOK
  <2>3. CASE \E caller \in Signers \cap Claimants : Claimed(caller)
    <3>1. PICK caller \in Signers \cap Claimants : Claimed(caller)
      BY <2>3
    <3>2. NodeFor(caller) # n
      BY <1>2, <3>1, ReverseNodes, TheSettler DEF SettledNode
    <3> QED BY <1>0, <3>1, <3>2 DEF Claimed, SetSubnodeOwner, NodeFor, RegistryTypeOK
  <2> QED BY <2>1, <2>2, <2>3, RegistryWrites
<1> QED BY <1>1, <1>2

\* Nor are the records that the two nodes have in the PublicResolver.
LEMMA SettledAnswersStand ==
    ASSUME NamingTypeOK, SettlerStands, Settled, NamingNext
    PROVE  addrs'[SettledNode] = Settler /\ names'[NodeFor(Settler)] = SettledName
<1>1. CASE UNCHANGED resolverVars
  BY <1>1 DEF resolverVars, SettlerStands
<1>2. CASE \E caller \in Signers, node \in Nodes :
               \/ \E value \in Addresses : SetAddr(caller, node, value)
               \/ \E key \in TextKeys, value \in TextValues :
                      SetText(caller, node, key, value)
               \/ \E name \in NameValues : SetName(caller, node, name)
  BY <1>2, TheSettler
     DEF SetAddr, SetText, SetName, OnlyNodeOwner, NamingTypeOK, SettlerStands
<1>3. CASE \E caller \in Signers \cap Claimants, name \in NameValues :
               SetPrimaryName(caller, name)
  <2>1. \A caller \in Signers \cap Claimants : NodeFor(caller) # NodeFor(Settler)
    BY ReverseNodes, TheSettler
  <2> QED BY <1>3, <2>1, TheSettler
          DEF SetPrimaryName, SetName, NamingTypeOK, SettlerStands
<1> QED BY <1>1, <1>2, <1>3, ResolverWrites

LEMMA NamingKeepsSettler ==
    ASSUME NamingTypeOK, Governed, Deployer \notin Signers, SettlerStands,
           [NamingNext]_namingVars
    PROVE  SettlerStands'
<1> SUFFICES ASSUME Settled' PROVE SettlerStands'
  BY DEF SettlerStands
<1>0. Settled
  BY SettledBefore
<1>1. CASE UNCHANGED namingVars
  BY <1>0, <1>1 DEF SettlerStands, OwnerOf, Registered, NodeOwner, NodeResolver,
              NodeExists, namingVars, potSystemVars, potVars, resolverVars
<1>2. CASE NamingNext
  <2>1. \A n \in {SettledNode, NodeFor(Settler)} :
            NodeOwner(n)' = Settler /\ NodeResolver(n)' = PublicResolverId
    BY <1>0, <1>2, SettledRecordsStand
       DEF SettlerStands, NodeOwner, NodeResolver, NodeExists
  <2> QED BY <1>0, <1>2, <2>1, SettledLeaseStands, SettledAnswersStand DEF SettlerStands
<1> QED BY <1>1, <1>2

-----------------------------------------------------------------------------
(* The call in progress.                                                    *)

\* A step of the client, for which the chain is as it is.
ClientStep ==
    /\ \/ \E name \in Spellings : StartResolve(name)
       \/ \E text \in DOMAIN AccountOf : StartReverse(text)
       \/ ReadReverseResolver
       \/ ReadName
       \/ ReadForwardResolver
       \/ ReadAddr
    /\ UNCHANGED namingVars

CallShaped ==
    /\ DOMAIN call = {"op", "who", "name", "step", "resolver", "answer"}
    /\ call.op = "resolve" => call.step \in {"forward resolver", "addr", "done"}
    /\ call.step \in {"reverse resolver", "name"} => AccountOf[call.who] \in Claimants

\* A call that looks the settled name up is on its way to the Settler.
ForwardCall ==
    /\ Settled
    /\ call.op = "resolve" /\ CanNormalize(call.name)
    /\ Folded(call.name) = Folded(SettledName)
    => /\ call.step = "addr" => call.resolver = PublicResolverId
       /\ call.step = "done" => call.answer = Settler

\* A call that looks the Settler up is on its way to the settled name.
ReverseCall ==
    Settled /\ call.op = "reverse" /\ call.who = Settler =>
        /\ call.step # "done" => AccountOf[call.who] = Settler
        /\ call.step \in {"name", "addr"} => call.resolver = PublicResolverId
        /\ call.step \in {"forward resolver", "addr"} => call.name = SettledName
        /\ call.step = "done" => call.answer = SettledName

CallOnItsWay == CallShaped /\ ForwardCall /\ ReverseCall

\* Spellings that fold to the same are hashed to the same.
LEMMA FoldedHash ==
    ASSUME NEW name, Folded(name) = Folded(SettledName)
    PROVE  Namehash(name) = SettledNode
<1>1. Namehash(name) = Namehash(SettledName)
  BY DEF Namehash
<1> QED BY <1>1, ClientAssumption DEF SettledNode

\* What a read of the two nodes brings back.
LEMMA SettledReads ==
    ASSUME NamingTypeOK, SettlerStands, Settled
    PROVE  /\ \A n \in {SettledNode, NodeFor(Settler)} :
                  /\ Known(records, n) # None
                  /\ NodeResolver(n) = PublicResolverId
           /\ PublicResolverId # None
           /\ Known(addrs, SettledNode) = Settler
           /\ names[NodeFor(Settler)] = SettledName
<1>1. \A n \in {SettledNode, NodeFor(Settler)} : n \in Nodes /\ NodeExists(n)
  BY TheSettler DEF SettlerStands, NodeOwner
<1> QED BY <1>1, TheSettler DEF Known, NodeExists, SettlerStands

\* A dry run of the PublicResolver brings back its record.
LEMMA HonestReplies ==
    ASSUME call.resolver = PublicResolverId, NEW record, NEW replies
    PROVE  Replies(record, replies) = {record}
  BY ClientAssumption DEF Replies

\* The call is kept, or ends, or is handed another value.
LEMMA ReturnShape ==
    ASSUME CallShaped, NEW answer, Return(answer)
    PROVE  /\ CallShaped'
           /\ call'.op = call.op /\ call'.who = call.who /\ call'.name = call.name
           /\ call'.step = "done" /\ call'.answer = answer
  BY DEF CallShaped, Return

LEMMA ResolveStarts ==
    ASSUME CallOnItsWay, NEW name \in Spellings, StartResolve(name), UNCHANGED namingVars
    PROVE  CallOnItsWay'
<1>1. CASE CanNormalize(name)
  <2>1. call' = Call("resolve", None, name, "forward resolver")
    BY <1>1 DEF StartResolve
  <2> QED BY <2>1 DEF CallOnItsWay, CallShaped, ForwardCall, ReverseCall, Call
<1>2. CASE ~CanNormalize(name)
  <2>1. call' = [Call("resolve", None, name, "done") EXCEPT !.answer = Thrown]
    BY <1>2 DEF StartResolve, Refused
  <2>2. call'.op = "resolve" /\ call'.step = "done" /\ call'.name = name /\ CallShaped'
    BY <2>1 DEF CallShaped, Call
  <2> QED BY <1>2, <2>2 DEF CallOnItsWay, ForwardCall, ReverseCall
<1> QED BY <1>1, <1>2

LEMMA ReverseStarts ==
    ASSUME CallOnItsWay, HasReverse, NEW text \in DOMAIN AccountOf, StartReverse(text),
           UNCHANGED namingVars
    PROVE  CallOnItsWay'
<1>1. text = Settler => AccountOf[text] = Settler /\ Settler # None
  BY ClientAssumption, TheSettler
<1>2. CASE AccountOf[text] = None
  <2>1. call' = [Call("reverse", text, None, "done") EXCEPT !.answer = Thrown]
    BY <1>2 DEF StartReverse, Refused
  <2>2. call'.op = "reverse" /\ call'.step = "done" /\ call'.who = text /\ CallShaped'
    BY <2>1 DEF CallShaped, Call
  <2> QED BY <1>1, <1>2, <2>2 DEF CallOnItsWay, ForwardCall, ReverseCall
<1>3. CASE AccountOf[text] # None
  <2>1. call' = Call("reverse", text, None, "reverse resolver")
    BY <1>3 DEF StartReverse
  <2>2. AccountOf[text] \in Claimants
    BY <1>3, ClientAssumption
  <2> QED BY <1>1, <2>1, <2>2 DEF CallOnItsWay, CallShaped, ForwardCall, ReverseCall, Call
<1> QED BY <1>2, <1>3

\* A read of a resolver ends the call, or finds one.
LEMMA ResolverRead ==
    ASSUME CallShaped, NEW step, NEW node, NEW next \in {"name", "addr"},
           ReadResolver(step, node, next),
           next = "name" => call.op # "resolve" /\ AccountOf[call.who] \in Claimants
    PROVE  /\ CallShaped'
           /\ call'.op = call.op /\ call'.who = call.who /\ call'.name = call.name
           /\ \/ /\ call'.step = "done" /\ call'.answer = None
                 /\ Known(records, node) = None \/ NodeResolver(node) = None
              \/ call'.step = next /\ call'.resolver = NodeResolver(node)
<1>1. CASE Known(records, node) = None \/ NodeResolver(node) = None
  BY <1>1, ReturnShape DEF ReadResolver
<1>2. CASE call' = [call EXCEPT !.step = next, !.resolver = NodeResolver(node)]
  BY <1>2 DEF CallShaped
<1> QED BY <1>1, <1>2 DEF ReadResolver

LEMMA ReverseResolverRead ==
    ASSUME CallOnItsWay, NamingTypeOK, SettlerStands, ReadReverseResolver,
           UNCHANGED namingVars
    PROVE  CallOnItsWay'
<1> DEFINE node == NodeFor(AccountOf[call.who])
<1>1. /\ call.step = "reverse resolver" /\ call.op # "resolve" /\ CallShaped
      /\ AccountOf[call.who] \in Claimants
  BY DEF ReadReverseResolver, ReadResolver, CallOnItsWay, CallShaped
<1>2. ReadResolver("reverse resolver", node, "name")
  BY DEF ReadReverseResolver
<1>3. Settled' <=> Settled
  BY DEF Settled, namingVars, potSystemVars
<1>4. /\ CallShaped'
      /\ call'.op = call.op /\ call'.who = call.who /\ call'.name = call.name
      /\ \/ /\ call'.step = "done" /\ call'.answer = None
            /\ Known(records, node) = None \/ NodeResolver(node) = None
         \/ call'.step = "name" /\ call'.resolver = NodeResolver(node)
  BY <1>1, <1>2, ResolverRead
<1>5. ASSUME Settled, call.op = "reverse", call.who = Settler
      PROVE  /\ AccountOf[call.who] = Settler
             /\ call'.step = "name" /\ call'.resolver = PublicResolverId
  <2>1. AccountOf[call.who] = Settler
    BY <1>1, <1>5 DEF CallOnItsWay, ReverseCall
  <2> QED BY <1>4, <1>5, <2>1, SettledReads
<1> QED BY <1>1, <1>3, <1>4, <1>5 DEF CallOnItsWay, ForwardCall, ReverseCall

LEMMA ForwardResolverRead ==
    ASSUME CallOnItsWay, NamingTypeOK, SettlerStands, ReadForwardResolver,
           UNCHANGED namingVars
    PROVE  CallOnItsWay'
<1> DEFINE node == Namehash(call.name)
<1>1. call.step = "forward resolver" /\ CallShaped
  BY DEF ReadForwardResolver, ReadResolver, CallOnItsWay
<1>2. ReadResolver("forward resolver", node, "addr")
  BY DEF ReadForwardResolver
<1>3. Settled' <=> Settled
  BY DEF Settled, namingVars, potSystemVars
<1>4. /\ CallShaped'
      /\ call'.op = call.op /\ call'.who = call.who /\ call'.name = call.name
      /\ \/ /\ call'.step = "done" /\ call'.answer = None
            /\ Known(records, node) = None \/ NodeResolver(node) = None
         \/ call'.step = "addr" /\ call'.resolver = NodeResolver(node)
  BY <1>1, <1>2, ResolverRead
<1>5. ASSUME Settled, Folded(call.name) = Folded(SettledName)
      PROVE  call'.step = "addr" /\ call'.resolver = PublicResolverId
  BY <1>4, <1>5, FoldedHash, SettledReads
<1>6. ForwardCall'
  BY <1>3, <1>4, <1>5 DEF ForwardCall
<1>7. ReverseCall'
  <2>1. ASSUME Settled, call.op = "reverse", call.who = Settler
        PROVE  call.name = SettledName /\ AccountOf[call.who] = Settler
    BY <1>1, <2>1 DEF CallOnItsWay, ReverseCall
  <2> QED BY <1>3, <1>4, <1>5, <2>1 DEF ReverseCall
<1> QED BY <1>4, <1>6, <1>7 DEF CallOnItsWay

\* The name read ends the call, or finds a name that normalize takes.
LEMMA NameFound ==
    ASSUME CallShaped, NamingTypeOK, ReadName
    PROVE  \E name \in Replies(names[NodeFor(AccountOf[call.who])], Spellings) :
              \/ Return(name) /\ name \in {None, Thrown}
              \/ Return(None) /\ name = <<>>
              \/ Return(Thrown) /\ name \in Spellings \ {<<>>} /\ ~CanNormalize(name)
              \/ /\ call' = [call EXCEPT !.step = "forward resolver", !.name = name]
                 /\ name \in Spellings /\ CanNormalize(name)
<1>1. call.step = "name"
  BY DEF ReadName
<1>2. PICK name \in Replies(names[NodeFor(AccountOf[call.who])], Spellings) :
           CASE name \in {None, Thrown} -> Return(name)
             [] name = <<>>             -> Return(None)
             [] name \in Spellings \ {<<>>} /\ ~CanNormalize(name) -> Return(Thrown)
             [] name \in Spellings \ {<<>>} /\ CanNormalize(name) ->
                    call' = [call EXCEPT !.step = "forward resolver", !.name = name]
  BY DEF ReadName
<1>3. names[NodeFor(AccountOf[call.who])] \in Spellings \cup {None}
  <2>1. NodeFor(AccountOf[call.who]) \in Nodes
    BY <1>1, ReverseNodes DEF CallShaped
  <2> QED BY <2>1, ClientAssumption DEF NamingTypeOK
<1>4. name \in Spellings \cup {None, Thrown}
  BY <1>2, <1>3 DEF Replies
<1> QED BY <1>2, <1>4

LEMMA NameRead ==
    ASSUME CallOnItsWay, NamingTypeOK, SettlerStands, ReadName, UNCHANGED namingVars
    PROVE  CallOnItsWay'
<1>1. call.step = "name" /\ call.op # "resolve" /\ CallShaped
  BY DEF ReadName, CallOnItsWay, CallShaped
<1>2. Settled' <=> Settled
  BY DEF Settled, namingVars, potSystemVars
<1>3. PICK name \in Replies(names[NodeFor(AccountOf[call.who])], Spellings) :
          \/ Return(name) /\ name \in {None, Thrown}
          \/ Return(None) /\ name = <<>>
          \/ Return(Thrown) /\ name \in Spellings \ {<<>>} /\ ~CanNormalize(name)
          \/ /\ call' = [call EXCEPT !.step = "forward resolver", !.name = name]
             /\ name \in Spellings /\ CanNormalize(name)
  BY <1>1, NameFound
<1>4. /\ CallShaped'
      /\ call'.op = call.op /\ call'.who = call.who
      /\ \/ call'.step = "done"
         \/ call'.step = "forward resolver" /\ call'.name = name
  <2>1. CASE call' = [call EXCEPT !.step = "forward resolver", !.name = name]
    BY <1>1, <2>1 DEF CallShaped
  <2> QED BY <1>1, <1>3, <2>1, ReturnShape
<1>5. ASSUME Settled, call.op = "reverse", call.who = Settler
      PROVE  /\ call'.step = "forward resolver" /\ call'.name = SettledName
             /\ AccountOf[call.who] = Settler
  <2>1. AccountOf[call.who] = Settler /\ call.resolver = PublicResolverId
    BY <1>1, <1>5 DEF CallOnItsWay, ReverseCall
  <2>2. name = SettledName
    BY <1>3, <1>5, <2>1, HonestReplies, SettledReads
  <2>3. /\ SettledName \notin {None, Thrown, <<>>} /\ CanNormalize(SettledName)
    BY ClientAssumption, ResolverAssumption DEF CanNormalize
  <2>4. call' = [call EXCEPT !.step = "forward resolver", !.name = name]
    BY <1>3, <2>2, <2>3
  <2> QED BY <1>1, <2>1, <2>2, <2>4 DEF CallShaped
<1> QED BY <1>1, <1>2, <1>4, <1>5 DEF CallOnItsWay, ForwardCall, ReverseCall

LEMMA AddrRead ==
    ASSUME CallOnItsWay, NamingTypeOK, SettlerStands, ReadAddr, UNCHANGED namingVars
    PROVE  CallOnItsWay'
<1>1. call.step = "addr" /\ CallShaped
  BY DEF ReadAddr, CallOnItsWay
<1>2. Settled' <=> Settled
  BY DEF Settled, namingVars, potSystemVars
<1>3. PICK addr \in Replies(Known(addrs, Namehash(call.name)), Claimants) :
          IF addr = Thrown \/ call.op = "resolve"
          THEN Return(addr)
          ELSE Return(Verified(addr))
  BY DEF ReadAddr
<1>4. /\ CallShaped'
      /\ call'.op = call.op /\ call'.who = call.who /\ call'.name = call.name
      /\ call'.step = "done"
  BY <1>1, <1>3, ReturnShape
<1>5. ASSUME Settled, Folded(call.name) = Folded(SettledName),
             call.resolver = PublicResolverId
      PROVE  addr = Settler
  BY <1>3, <1>5, HonestReplies, FoldedHash, SettledReads
<1>6. Settler # Thrown
  BY TheSettler, ClientAssumption
<1>7. ForwardCall'
  <2>1. ASSUME Settled, call.op = "resolve", CanNormalize(call.name),
               Folded(call.name) = Folded(SettledName)
        PROVE  call'.answer = Settler
    <3>1. call.resolver = PublicResolverId
      BY <1>1, <2>1 DEF CallOnItsWay, ForwardCall
    <3> QED BY <1>1, <1>3, <1>5, <2>1, <3>1, ReturnShape
  <2> QED BY <1>2, <1>4, <2>1 DEF ForwardCall
<1>8. ReverseCall'
  <2>1. ASSUME Settled, call.op = "reverse", call.who = Settler
        PROVE  call'.answer = SettledName
    <3>1. call.resolver = PublicResolverId /\ call.name = SettledName
      BY <1>1, <2>1 DEF CallOnItsWay, ReverseCall
    <3>2. Return(Verified(addr)) /\ Verified(addr) = SettledName
      BY <1>3, <1>5, <1>6, <2>1, <3>1 DEF Verified
    <3> QED BY <1>1, <3>2, ReturnShape
  <2> QED BY <1>2, <1>4, <2>1 DEF ReverseCall
<1> QED BY <1>4, <1>7, <1>8 DEF CallOnItsWay

LEMMA ClientKeepsCall ==
    ASSUME CallOnItsWay, HasReverse, NamingTypeOK, SettlerStands, ClientStep
    PROVE  CallOnItsWay'
  BY ResolveStarts, ReverseStarts, ReverseResolverRead, ForwardResolverRead,
     NameRead, AddrRead DEF ClientStep

\* What is done on the chain, the call in progress does not see.
LEMMA ChainKeepsCall ==
    ASSUME CallOnItsWay, NamingTypeOK, [NamingNext]_namingVars, UNCHANGED call
    PROVE  CallOnItsWay'
<1>1. Settled' => Settled
  BY SettledBefore
<1> QED BY <1>1 DEF CallOnItsWay, CallShaped, ForwardCall, ReverseCall

-----------------------------------------------------------------------------

\* The state that the client starts from is one of the name service, with two
\* names registered and settled.
LEMMA ClientInitTyped ==
    ASSUME ClientInit
    PROVE  NamingTypeOK
<1>1. /\ Squatter \in Claimants /\ Squatter \in Accounts
      /\ SquatLabel \in Labels /\ SquatLabel # SettledLabel
  BY ClientAssumption, ReverseAssumption DEF Names
<1>2. \A l \in Labels : HolderOf(l) \in Accounts \cup {None}
  BY <1>1, TheSettler DEF HolderOf
<1>3. addrs \in [Nodes -> Accounts \cup {None}]
  <2>1. ASSUME NEW n \in Nodes, NEW l \in Held, n = NodeOf(l)
        PROVE  HolderOf(n[Len(n)]) \in Accounts
    <3>1. l \in Labels /\ PotNode \in Seq(Labels) /\ HolderOf(l) \in Accounts
      BY <1>1, TheSettler, RegistryAssumption, PotRegistrarAssumption DEF Held, HolderOf
    <3>2. n[Len(n)] = l
      BY <2>1, <3>1 DEF NodeOf, NamehashStep
    <3> QED BY <3>1, <3>2
  <2> QED BY <2>1 DEF ClientInit
<1>4. RegistryTypeOK
  <2>1. \A who \in Accounts : Resolving(who) \in Record
    BY WiredTyped, ResolverAssumption DEF Resolving, Owned, Record
  <2>2. ASSUME NEW n \in Nodes, NEW l \in Held, n = NodeOf(l)
        PROVE  addrs[n] \in Accounts
    <3>1. l \in Labels /\ PotNode \in Seq(Labels) /\ HolderOf(l) \in Accounts
      BY <1>1, TheSettler, RegistryAssumption, PotRegistrarAssumption DEF Held, HolderOf
    <3>2. n[Len(n)] = l
      BY <2>2, <3>1 DEF NodeOf, NamehashStep
    <3> QED BY <2>2, <3>1, <3>2 DEF ClientInit
  <2> QED BY <2>1, <2>2, WiredTyped, TheSettler DEF ClientInit, RegistryTypeOK
<1>5. PotTypeOK
  <2>1. registrations \in [Labels -> Registration \cup {None}]
    BY <1>2, ClientAssumption DEF ClientInit, Registration
  <2>2. balances \in [Accounts -> 0..MaxU32]
    BY ClientAssumption, PotRegistrarAssumption DEF ClientInit
  <2> QED BY <1>4, <2>1, <2>2, RegistryAssumption, PotRegistrarAssumption, NamingAssumption
          DEF ClientInit, PotTypeOK
<1>6. names \in [Nodes -> NameValues \cup {None}]
  BY ClientAssumption DEF ClientInit
<1> QED BY <1>3, <1>5, <1>6, RegistryAssumption, ResolverAssumption
        DEF ClientInit, NamingTypeOK, ReverseInit

LEMMA ClientInitGoverned ==
    ASSUME ClientInit
    PROVE  Governed
<1>1. ASSUME NEW n \in {Root, PotNode, ReverseNode, AddrReverseNode}
      PROVE  records[n] = WiredRecords[n]
  <2>1. n \in Nodes /\ n # NodeFor(Settler)
    BY TopNodes, ReverseNodes, TheSettler
  <2>2. \A l \in Held : n # NodeOf(l)
    BY TopNodes, TheSettler, ClientAssumption, PotRegistrarAssumption
       DEF Held, NodeOf, Names
  <2> QED BY <2>1, <2>2 DEF ClientInit
<1> QED BY <1>1, WiringGoverns DEF ClientInit

LEMMA ClientInitSettled ==
    ASSUME ClientInit
    PROVE  SettlerStands
<1>1. /\ registrations[SettledLabel] = [owner |-> Settler, expires |-> SettledUntil]
      /\ approvals[SettledLabel] = None
  <2>1. HolderOf(SettledLabel) = Settler
    BY ClientAssumption DEF HolderOf
  <2> QED BY <2>1, TheSettler DEF ClientInit
<1>2. SettledUntil \in Nat
  BY ClientAssumption, PotRegistrarAssumption
<1>3. Registered(SettledLabel)
  BY <1>1, ClientAssumption, TheSettler, NoneIsNoRegistration DEF Registered, Registration
<1>4. addrs[SettledNode] = Settler
  <2>1. PotNode \in Seq(Labels) /\ SettledLabel \in Labels
    BY TheSettler, RegistryAssumption, PotRegistrarAssumption
  <2>2. SettledNode[Len(SettledNode)] = SettledLabel
    BY <2>1 DEF SettledNode, NodeOf, NamehashStep
  <2>3. HolderOf(SettledLabel) = Settler /\ SettledLabel \in Held
    BY ClientAssumption DEF HolderOf, Held
  <2> QED BY <2>2, <2>3, TheSettler DEF ClientInit, SettledNode
<1>5. \A n \in {SettledNode, NodeFor(Settler)} : records[n] = Resolving(Settler)
  <2>1. SettledLabel \in Held /\ Held \subseteq Labels
    BY TheSettler, ClientAssumption DEF Held, Names
  <2>2. \A l \in Held : NodeOf(l) # NodeFor(Settler)
    BY <2>1, TheSettler, ReverseNodes
  <2>3. records[NodeFor(Settler)] = Resolving(Settler)
    BY <2>2, TheSettler DEF ClientInit
  <2>4. SettledNode # NodeFor(Settler) /\ \E l \in Held : SettledNode = NodeOf(l)
    BY <2>1, <2>2 DEF SettledNode
  <2>5. records[SettledNode] = Resolving(addrs[SettledNode])
    BY <2>4, TheSettler DEF ClientInit
  <2> QED BY <1>4, <2>3, <2>5
<1>6. /\ Resolving(Settler) # None
      /\ Resolving(Settler).owner = Settler
      /\ Resolving(Settler).resolver = PublicResolverId
  <2>1. Resolving(Settler) = [owner |-> Settler, resolver |-> PublicResolverId, ttl |-> 0]
    BY DEF Resolving, Owned
  <2>2. Resolving(Settler) \in Record
    BY <2>1, TheSettler, ResolverAssumption, RegistryAssumption DEF Record
  <2> QED BY <2>1, <2>2, NoneIsNoRecord
<1>7. names[NodeFor(Settler)] = SettledName
  BY TheSettler DEF ClientInit
<1> QED BY <1>1, <1>2, <1>3, <1>4, <1>5, <1>6, <1>7
        DEF SettlerStands, OwnerOf, NodeOwner, NodeResolver, NodeExists

\* The invariant that the answers follow from.
SettledInv == NamingTypeOK /\ Governed /\ SettlerStands /\ CallOnItsWay

LEMMA ClientInitOnItsWay ==
    ASSUME ClientInit
    PROVE  SettledInv
<1>1. CallOnItsWay
  BY DEF ClientInit, Call, CallOnItsWay, CallShaped, ForwardCall, ReverseCall
<1> QED BY <1>1, ClientInitTyped, ClientInitGoverned, ClientInitSettled DEF SettledInv

LEMMA ClientKeepsAnswers ==
    ASSUME SettledInv, Deployer \notin Signers, HasReverse, [ClientNext]_clientVars
    PROVE  SettledInv'
<1> USE DEF SettledInv
<1>1. [NamingNext]_namingVars
  BY DEF ClientNext, clientVars
<1>2. NamingTypeOK' /\ Governed' /\ SettlerStands'
  BY <1>1, NamingKeepsTypes, NamingKeepsGoverned, NamingKeepsSettler
<1>3. CASE UNCHANGED call
  BY <1>1, <1>2, <1>3, ChainKeepsCall
<1>4. CASE ClientStep
  BY <1>2, <1>4, ClientKeepsCall
<1> QED BY <1>2, <1>3, <1>4 DEF ClientNext, ClientStep, clientVars

\* Whatever is done between two reads, every spelling that folds to the
\* settled name resolves to the Settler, and the Settler reverses to it, until
\* the grace period of the name is over.
THEOREM ClientSettledAnswers ==
    ASSUME Deployer \notin Signers, HasReverse
    PROVE  ClientSpec => []SettledAnswers
<1>1. SettledInv => SettledAnswers
  BY DEF SettledInv, CallOnItsWay, ForwardCall, ReverseCall, SettledAnswers, Answered
<1> QED BY <1>1, ClientInitOnItsWay, ClientKeepsAnswers, PTL DEF ClientSpec

-----------------------------------------------------------------------------
(* Who else is said to have the settled name.                               *)

\* Nobody mints another top level, since the root is the Deployer's.
TwoTops == \A n \in Nodes : NodeExists(n) => OnTree(n)

LEMMA SubnodesOnTree ==
    /\ \A p \in Nodes, l \in Labels : p # Root /\ OnTree(p) => OnTree(NamehashStep(p, l))
    /\ \A l \in Labels : OnTree(NodeOf(l))
    /\ \A a \in Claimants : OnTree(NodeFor(a))
    /\ \A n \in {Root, PotNode, ReverseNode, AddrReverseNode} : OnTree(n)
<1>1. ASSUME NEW p \in Nodes, NEW l \in Labels, p # Root, OnTree(p)
      PROVE  OnTree(NamehashStep(p, l))
  <2>1. p \in Seq(Labels) /\ Len(p) > 0
    BY <1>1, RegistryAssumption, EmptySeq DEF Root
  <2>2. Append(p, l)[1] = p[1]
    BY <2>1, AppendProperties
  <2> QED BY <1>1, <2>2 DEF OnTree, NamehashStep
<1>2. \A n \in {Root, PotNode, ReverseNode} : OnTree(n)
  BY DEF OnTree
<1>3. PICK addr \in Labels : AddrReverseNode = NamehashStep(ReverseNode, addr)
  BY NamingAssumption
<1>4. OnTree(AddrReverseNode)
  BY <1>1, <1>2, <1>3, TopNodes
<1>5. \A a \in Claimants : OnTree(NodeFor(a))
  BY <1>1, <1>4, TopNodes, ReverseAssumption DEF NodeFor
<1>6. \A l \in Labels : OnTree(NodeOf(l))
  BY <1>1, <1>2, TopNodes DEF NodeOf
<1> QED BY <1>1, <1>2, <1>4, <1>5, <1>6

LEMMA NamingKeepsTops ==
    ASSUME NamingTypeOK, Governed, Deployer \notin Signers, TwoTops, [NamingNext]_namingVars
    PROVE  TwoTops'
<1>1. CASE UNCHANGED records
  BY <1>1 DEF TwoTops, NodeExists
<1>2. ASSUME NEW p \in Nodes, NEW l \in Labels, NEW caller, NEW owner,
             SetSubnodeOwner(caller, p, l, owner), p # Root, NodeExists(p)
      PROVE  TwoTops'
  <2>1. OnTree(NamehashStep(p, l))
    BY <1>2, SubnodesOnTree DEF TwoTops
  <2>2. \A n \in Nodes : NodeExists(n)' => NodeExists(n) \/ n = NamehashStep(p, l)
    BY <1>2 DEF SetSubnodeOwner, NodeExists, NamingTypeOK, PotTypeOK, RegistryTypeOK
  <2> QED BY <2>1, <2>2 DEF TwoTops, OnTree
<1>3. ASSUME NEW n \in Nodes, NodeOwner(n) \in Accounts
      PROVE  NodeExists(n)
  BY <1>3, RegistryAssumption DEF NodeOwner
<1>4. PotRegistrarId \in Accounts /\ ReverseRegistrarId \in Accounts
  BY PotRegistrarAssumption, ReverseAssumption
<1>5. CASE \E caller \in Signers : RegistryWrite(caller)
  <2>1. PICK caller \in Signers : RegistryWrite(caller)
    BY <1>5
  <2>2. caller \in Accounts /\ NodeOwner(Root) # caller
    BY RegistryAssumption DEF Governed
  <2>3. CASE \E node \in Nodes :
               \/ \E newOwner \in Accounts : SetOwner(caller, node, newOwner)
               \/ \E resolver \in Accounts \cup {None} : SetResolver(caller, node, resolver)
               \/ \E ttl \in Ttls : SetTtl(caller, node, ttl)
    <3>1. \A n \in Nodes : NodeExists(n)' => NodeExists(n)
      BY <2>2, <2>3, <1>3
         DEF SetOwner, SetResolver, SetTtl, OnlyOwner, NodeExists, NamingTypeOK, PotTypeOK,
             RegistryTypeOK
    <3> QED BY <3>1 DEF TwoTops, OnTree
  <2>4. CASE \E p \in Nodes, l \in Labels, owner \in Accounts : SetSubnodeOwner(caller, p, l, owner)
    BY <1>2, <1>3, <2>2, <2>4 DEF SetSubnodeOwner, OnlyOwner
  <2> QED BY <2>1, <2>3, <2>4 DEF RegistryWrite
<1>6. CASE \E caller \in Signers \cup Minters, label \in Names, owner \in Accounts :
               Mirrored(caller, label, owner)
  BY <1>2, <1>3, <1>4, <1>6, TopNodes, NamesAreLabels DEF Mirrored, Governed
<1>7. CASE \E caller \in Signers \cap Claimants : Claimed(caller)
  BY <1>2, <1>3, <1>4, <1>7, TopNodes, ReverseAssumption DEF Claimed, Governed
<1> QED BY <1>1, <1>5, <1>6, <1>7, RegistryWrites DEF namingVars, potSystemVars

LEMMA ClientInitTops ==
    ASSUME ClientInit
    PROVE  TwoTops
<1> SUFFICES ASSUME NEW n \in Nodes, NodeExists(n) PROVE OnTree(n)
  BY DEF TwoTops
<1>1. CASE n = NodeFor(Settler)
  BY <1>1, SubnodesOnTree, TheSettler
<1>2. CASE \E l \in Held : n = NodeOf(l)
  BY <1>2, SubnodesOnTree, TheSettler, ClientAssumption DEF Held, Names
<1>3. CASE n # NodeFor(Settler) /\ ~\E l \in Held : n = NodeOf(l)
  <2>1. WiredRecords[n] # None
    BY <1>3 DEF ClientInit, NodeExists
  <2>2. n \in {Root, PotNode, ReverseNode, AddrReverseNode}
    BY <2>1 DEF WiredRecords
  <2> QED BY <2>2, SubnodesOnTree
<1> QED BY <1>1, <1>2, <1>3

\* What reverse makes of a name it has found: normalize takes it before its
\* node is read, and where it folds to the settled name its node is the
\* Settler's, and so is the address there.
NameVetted ==
    Settled /\ call.op = "reverse" =>
        /\ call.step \in {"forward resolver", "addr"} => CanNormalize(call.name)
        /\ call.step = "addr" => OnTree(Namehash(call.name))
        /\ call.step = "addr" /\ Folded(call.name) = Folded(SettledName)
               => call.resolver = PublicResolverId
        /\ call.step = "done" /\ call.answer \in Spellings
               => /\ CanNormalize(call.answer) /\ OnTree(Namehash(call.answer))
                  /\ Folded(call.answer) = Folded(SettledName) => call.who = Settler

LEMMA VettedFromStart ==
    ASSUME \/ \E name \in Spellings : StartResolve(name)
           \/ \E text \in DOMAIN AccountOf : StartReverse(text)
    PROVE  NameVetted'
<1>1. None \notin Spellings /\ Thrown \notin Spellings
  BY ClientAssumption
<1>2. ASSUME NEW name \in Spellings, StartResolve(name)
      PROVE  call'.op = "resolve"
  <2>1. CASE CanNormalize(name)
    <3>1. call' = Call("resolve", None, name, "forward resolver")
      BY <1>2, <2>1 DEF StartResolve
    <3> QED BY <3>1 DEF Call
  <2>2. CASE ~CanNormalize(name)
    <3>1. call' = [Call("resolve", None, name, "done") EXCEPT !.answer = Thrown]
      BY <1>2, <2>2 DEF StartResolve, Refused
    <3> QED BY <3>1 DEF Call
  <2> QED BY <2>1, <2>2
<1>3. ASSUME NEW text \in DOMAIN AccountOf, StartReverse(text)
      PROVE  \/ call'.step = "done" /\ call'.answer \in {None, Thrown}
             \/ call'.step = "reverse resolver"
  <2>1. \A answer \in {None, Thrown} :
            Refused("reverse", text, None, answer)
                => call'.step = "done" /\ call'.answer = answer
    BY DEF Refused, Call
  <2>2. Call("reverse", text, None, "reverse resolver").step = "reverse resolver"
    BY DEF Call
  <2>3. \/ Refused("reverse", text, None, None) \/ Refused("reverse", text, None, Thrown)
        \/ call' = Call("reverse", text, None, "reverse resolver")
    BY <1>3 DEF StartReverse
  <2> QED BY <2>1, <2>2, <2>3
<1> QED BY <1>1, <1>2, <1>3 DEF NameVetted

LEMMA VettedByResolverReads ==
    ASSUME CallShaped, NameVetted, NamingTypeOK, SettlerStands, TwoTops,
           UNCHANGED namingVars, ReadReverseResolver \/ ReadForwardResolver
    PROVE  NameVetted'
<1>1. None \notin Spellings
  BY ClientAssumption
<1>2. Settled' <=> Settled
  BY DEF Settled, namingVars, potSystemVars
<1>3. CASE ReadReverseResolver
  <2>1. call.step = "reverse resolver" /\ call.op # "resolve"
        /\ AccountOf[call.who] \in Claimants
    BY <1>3 DEF ReadReverseResolver, ReadResolver, CallShaped
  <2>2. \/ call'.step = "done" /\ call'.answer = None
        \/ call'.step = "name"
    BY <1>3, <2>1, ResolverRead DEF ReadReverseResolver
  <2> QED BY <1>1, <2>2 DEF NameVetted
<1>4. CASE ReadForwardResolver
  <2> DEFINE node == Namehash(call.name)
  <2>1. call.step = "forward resolver"
    BY <1>4 DEF ReadForwardResolver, ReadResolver
  <2>2. /\ call'.op = call.op /\ call'.name = call.name
        /\ \/ call'.step = "done" /\ call'.answer = None
           \/ /\ call'.step = "addr" /\ call'.resolver = NodeResolver(node)
              /\ Known(records, node) # None
    <3>1. ReadResolver("forward resolver", node, "addr")
      BY <1>4 DEF ReadForwardResolver
    <3>2. /\ call'.op = call.op /\ call'.name = call.name
          /\ \/ call'.step = "done" /\ call'.answer = None
             \/ call'.step = "addr" /\ call'.resolver = NodeResolver(node)
      BY <3>1, ResolverRead
    <3>3. Known(records, node) = None => Return(None)
      BY <3>1 DEF ReadResolver
    <3> QED BY <3>2, <3>3, ReturnShape
  <2>3. ASSUME Settled, Folded(call.name) = Folded(SettledName)
        PROVE  NodeResolver(node) = PublicResolverId
    BY <2>3, FoldedHash, SettledReads
  <2>4. Known(records, node) # None => OnTree(node)
    BY DEF Known, TwoTops, NodeExists
  <2> QED BY <1>1, <1>2, <2>1, <2>2, <2>3, <2>4 DEF NameVetted, OnTree
<1> QED BY <1>3, <1>4

LEMMA VettedByNameRead ==
    ASSUME CallShaped, NameVetted, NamingTypeOK, ReadName
    PROVE  NameVetted'
<1>1. None \notin Spellings /\ Thrown \notin Spellings
  BY ClientAssumption
<1>2. call.step = "name" /\ call.op # "resolve"
  BY DEF ReadName, CallShaped
<1>3. \/ Return(None) \/ Return(Thrown)
      \/ \E name \in Spellings :
             /\ CanNormalize(name)
             /\ call' = [call EXCEPT !.step = "forward resolver", !.name = name]
  BY <1>2, NameFound
<1>4. CASE Return(None) \/ Return(Thrown)
  BY <1>1, <1>4, ReturnShape DEF NameVetted
<1>5. CASE \E name \in Spellings :
               /\ CanNormalize(name)
               /\ call' = [call EXCEPT !.step = "forward resolver", !.name = name]
  <2>1. PICK name \in Spellings :
            /\ CanNormalize(name)
            /\ call' = [call EXCEPT !.step = "forward resolver", !.name = name]
    BY <1>5
  <2>2. call'.step = "forward resolver" /\ call'.name = name
    BY <2>1 DEF CallShaped
  <2> QED BY <2>1, <2>2 DEF NameVetted
<1> QED BY <1>3, <1>4, <1>5

LEMMA VettedByAddrRead ==
    ASSUME CallShaped, NameVetted, NamingTypeOK, SettlerStands, ReadAddr,
           UNCHANGED namingVars
    PROVE  NameVetted'
<1>1. None \notin Spellings /\ Thrown \notin Spellings
  BY ClientAssumption
<1>2. Settled' <=> Settled
  BY DEF Settled, namingVars, potSystemVars
<1>3. PICK addr \in Replies(Known(addrs, Namehash(call.name)), Claimants) :
          IF addr = Thrown \/ call.op = "resolve"
          THEN Return(addr)
          ELSE Return(Verified(addr))
  BY DEF ReadAddr
<1>4. call.step = "addr"
  BY DEF ReadAddr
<1>5. /\ call'.op = call.op /\ call'.who = call.who /\ call'.step = "done"
      /\ call.op = "reverse" /\ call'.answer \in Spellings
             => addr = call.who /\ call'.answer = call.name
  <2>1. CASE addr = Thrown \/ call.op = "resolve"
    BY <1>1, <1>3, <2>1, ReturnShape
  <2>2. CASE ~(addr = Thrown \/ call.op = "resolve")
    BY <1>1, <1>3, <2>2, ReturnShape DEF Verified
  <2> QED BY <2>1, <2>2
<1>6. ASSUME Settled, Folded(call.name) = Folded(SettledName),
             call.resolver = PublicResolverId
      PROVE  addr = Settler
  BY <1>3, <1>6, HonestReplies, FoldedHash, SettledReads
<1> QED BY <1>2, <1>4, <1>5, <1>6 DEF NameVetted, OnTree

LEMMA VettedNoImpersonation ==
    ASSUME Deployer \notin Signers, HasReverse, ReadersToldApart
    PROVE  ClientSpec => []NoImpersonation
<1> DEFINE Inv == SettledInv /\ TwoTops /\ NameVetted
<1>1. ClientInit => Inv
  <2>1. ASSUME ClientInit PROVE NameVetted
    BY <2>1 DEF ClientInit, Call, NameVetted
  <2> QED BY <2>1, ClientInitOnItsWay, ClientInitTops
<1>2. Inv /\ [ClientNext]_clientVars => Inv'
  <2> SUFFICES ASSUME Inv, [ClientNext]_clientVars PROVE Inv'
    OBVIOUS
  <2>1. [NamingNext]_namingVars
    BY DEF ClientNext, clientVars
  <2>2. SettledInv' /\ NamingTypeOK /\ SettlerStands /\ CallShaped
    BY ClientKeepsAnswers DEF SettledInv, CallOnItsWay
  <2>5. TwoTops'
    BY <2>1, NamingKeepsTops DEF SettledInv
  <2>3. CASE UNCHANGED call
    <3>1. Settled' => Settled
      BY <2>1, <2>2, SettledBefore
    <3> QED BY <2>2, <2>3, <2>5, <3>1 DEF NameVetted, OnTree
  <2>4. CASE ClientStep
    BY <2>2, <2>4, <2>5, VettedFromStart, VettedByResolverReads, VettedByNameRead,
       VettedByAddrRead DEF ClientStep
  <2> QED BY <2>3, <2>4 DEF ClientNext, ClientStep, clientVars
<1>3. Inv => NoImpersonation
  BY DEF NameVetted, NoImpersonation, Answered, ReadersToldApart
<1> QED BY <1>1, <1>2, <1>3, PTL DEF ClientSpec

\* Without a ReverseRegistrar, reverse answers null at once.
Speechless ==
    /\ DOMAIN call = {"op", "who", "name", "step", "resolver", "answer"}
    /\ call.op = "reverse" => call.step = "done" /\ call.answer = None
    /\ call.step \notin {"reverse resolver", "name"}

LEMMA NoReverse ==
    ASSUME ~HasReverse
    PROVE  ClientSpec => []NoImpersonation
<1>1. ClientInit => Speechless
  BY DEF ClientInit, Call, Speechless
<1>2. ASSUME Speechless, ClientStep PROVE Speechless'
  <2>1. CASE \E name \in Spellings : StartResolve(name)
    <3>1. PICK name \in Spellings :
            \/ call' = Call("resolve", None, name, "forward resolver")
            \/ call' = [Call("resolve", None, name, "done") EXCEPT !.answer = Thrown]
      BY <2>1 DEF StartResolve, Refused
    <3>2. CASE call' = Call("resolve", None, name, "forward resolver")
      BY <3>2 DEF Call, Speechless
    <3>3. CASE call' = [Call("resolve", None, name, "done") EXCEPT !.answer = Thrown]
      BY <3>3 DEF Call, Speechless
    <3> QED BY <3>1, <3>2, <3>3
  <2>2. CASE \E text \in DOMAIN AccountOf : StartReverse(text)
    <3>1. PICK text \in DOMAIN AccountOf :
            call' = [Call("reverse", text, None, "done") EXCEPT !.answer = None]
      BY <2>2 DEF StartReverse, Refused
    <3> QED BY <3>1 DEF Call, Speechless
  <2>3. CASE ReadForwardResolver \/ ReadAddr
    <3>1. call.op # "reverse"
      BY <1>2, <2>3 DEF Speechless, ReadForwardResolver, ReadAddr, ReadResolver
    <3>2. \/ \E answer : call' = [call EXCEPT !.step = "done", !.answer = answer]
          \/ \E r : call' = [call EXCEPT !.step = "addr", !.resolver = r]
      <4>1. CASE ReadForwardResolver
        BY <4>1 DEF ReadForwardResolver, ReadResolver, Return
      <4>2. CASE ReadAddr
        BY <4>2 DEF ReadAddr, Return
      <4> QED BY <2>3, <4>1, <4>2
    <3>3. /\ call'.op = call.op /\ call'.step \in {"done", "addr"}
          /\ DOMAIN call' = DOMAIN call
      BY <1>2, <3>2 DEF Speechless
    <3> QED BY <1>2, <3>1, <3>3 DEF Speechless
  <2>4. ~ReadReverseResolver /\ ~ReadName
    BY <1>2 DEF Speechless, ReadReverseResolver, ReadResolver, ReadName
  <2> QED BY <1>2, <2>1, <2>2, <2>3, <2>4 DEF ClientStep
<1>3. Speechless /\ [ClientNext]_clientVars => Speechless'
  BY <1>2 DEF ClientNext, ClientStep, clientVars, Speechless
<1>4. Speechless => NoImpersonation
  BY ClientAssumption DEF Speechless, NoImpersonation, Answered
<1> QED BY <1>1, <1>3, <1>4, PTL DEF ClientSpec

\* Whatever another account writes into its reverse record, and whatever
\* contract it points its nodes to, reverse never says that it has a name that
\* reads as the settled one, as long as normalize.ts tells the readings apart.
THEOREM ClientNoImpersonation ==
    ASSUME Deployer \notin Signers, ReadersToldApart
    PROVE  ClientSpec => []NoImpersonation
  BY VettedNoImpersonation, NoReverse

=============================================================================
