------------------------- MODULE PotRegistrarProofs -------------------------
(***************************************************************************)
(* What the Registry and the PotRegistrar over it guarantee for every set   *)
(* of accounts, every tree, every number of names, every choice of who      *)
(* signs, and every width of their integers; and that registrations are     *)
(* leases, in the sense of NameLease.                                       *)
(*                                                                          *)
(* The facts about single steps are stated for messages from any account at *)
(* all (RegistryWrite), or from an arbitrary set of accounts (PotStep), so  *)
(* that they also hold of the calls that other contracts make: the          *)
(* PotRegistrar calls the Registry, and the controller the PotRegistrar.    *)
(***************************************************************************)
EXTENDS PotRegistrar, SequenceTheorems, FiniteSetTheorems, TLAPS

-----------------------------------------------------------------------------
(* The Registry.                                                            *)

\* A message that `caller` sends to the Registry.
RegistryWrite(caller) ==
    \/ \E node \in Nodes, newOwner \in Accounts : SetOwner(caller, node, newOwner)
    \/ \E node \in Nodes, resolver \in Accounts \cup {None} :
           SetResolver(caller, node, resolver)
    \/ \E node \in Nodes, ttl \in Ttls : SetTtl(caller, node, ttl)
    \/ \E node \in Nodes, label \in Labels, owner \in Accounts :
           SetSubnodeOwner(caller, node, label, owner)

\* A message from a signer is a message from an account.
LEMMA SignersWrite ==
    ASSUME RegistryNext
    PROVE  \E caller \in Signers : RegistryWrite(caller)
  BY RegistryAssumption DEF RegistryNext, RegistryWrite

\* An account that passes only_owner does so on a node that exists.
LEMMA OwnerExists ==
    ASSUME NEW caller \in Accounts, NEW node \in Nodes, OnlyOwner(caller, node)
    PROVE  NodeExists(node) /\ records[node].owner = caller
  BY RegistryAssumption DEF OnlyOwner, NodeOwner

\* A write by any account keeps the records well formed.
LEMMA WriteTyped ==
    ASSUME NEW caller \in Accounts, RegistryTypeOK, RegistryWrite(caller)
    PROVE  RegistryTypeOK'
<1>1. ASSUME NEW node \in Nodes, NEW newOwner \in Accounts,
             SetOwner(caller, node, newOwner)
      PROVE  RegistryTypeOK'
  <2>1. records[node] \in Record
    BY <1>1, OwnerExists DEF RegistryTypeOK, SetOwner, NodeExists
  <2>2. [records[node] EXCEPT !.owner = newOwner] \in Record
    BY <2>1, <1>1 DEF Record
  <2> QED BY <1>1, <2>2 DEF RegistryTypeOK, SetOwner
<1>2. ASSUME NEW node \in Nodes, NEW resolver \in Accounts \cup {None},
             SetResolver(caller, node, resolver)
      PROVE  RegistryTypeOK'
  <2>1. records[node] \in Record
    BY <1>2, OwnerExists DEF RegistryTypeOK, SetResolver, NodeExists
  <2>2. [records[node] EXCEPT !.resolver = resolver] \in Record
    BY <2>1, <1>2 DEF Record
  <2> QED BY <1>2, <2>2 DEF RegistryTypeOK, SetResolver
<1>3. ASSUME NEW node \in Nodes, NEW ttl \in Ttls, SetTtl(caller, node, ttl)
      PROVE  RegistryTypeOK'
  <2>1. records[node] \in Record
    BY <1>3, OwnerExists DEF RegistryTypeOK, SetTtl, NodeExists
  <2>2. [records[node] EXCEPT !.ttl = ttl] \in Record
    BY <2>1, <1>3 DEF Record
  <2> QED BY <1>3, <2>2 DEF RegistryTypeOK, SetTtl
<1>4. ASSUME NEW parent \in Nodes, NEW label \in Labels, NEW owner \in Accounts,
             SetSubnodeOwner(caller, parent, label, owner)
      PROVE  RegistryTypeOK'
  <2> DEFINE node == NamehashStep(parent, label)
  <2>1. node \in Nodes
    BY <1>4 DEF SetSubnodeOwner
  <2>2. NodeResolver(node) \in Accounts \cup {None}
    BY <2>1 DEF NodeResolver, NodeExists, RegistryTypeOK, Record
  <2>3. [owner |-> owner, resolver |-> NodeResolver(node), ttl |-> 0] \in Record
    BY <2>2, <1>4, RegistryAssumption DEF Record
  <2> QED BY <1>4, <2>3 DEF RegistryTypeOK, SetSubnodeOwner
<1> QED BY <1>1, <1>2, <1>3, <1>4 DEF RegistryWrite

\* A node that is minted stays minted.
LEMMA WriteKeepsNodes ==
    ASSUME NEW caller \in Accounts, RegistryTypeOK, RegistryWrite(caller),
           NEW n \in Nodes, NodeExists(n)
    PROVE  NodeExists(n)'
<1>1. records'[n] \in Record \cup {None}
  BY WriteTyped DEF RegistryTypeOK
<1>2. records[n] \in Record
  BY DEF RegistryTypeOK, NodeExists
<1>3. \A v \in Accounts : [records[n] EXCEPT !.owner = v] \in Record
  BY <1>2 DEF Record
<1>4. \A v \in Accounts \cup {None} : [records[n] EXCEPT !.resolver = v] \in Record
  BY <1>2 DEF Record
<1>5. \A v \in Ttls : [records[n] EXCEPT !.ttl = v] \in Record
  BY <1>2 DEF Record
<1>6. CASE \E node \in Nodes, newOwner \in Accounts : SetOwner(caller, node, newOwner)
  BY <1>2, <1>3, <1>6, NoneIsNoRecord DEF SetOwner, NodeExists, RegistryTypeOK
<1>7. CASE \E node \in Nodes, resolver \in Accounts \cup {None} :
               SetResolver(caller, node, resolver)
  BY <1>2, <1>4, <1>7, NoneIsNoRecord DEF SetResolver, NodeExists, RegistryTypeOK
<1>8. CASE \E node \in Nodes, ttl \in Ttls : SetTtl(caller, node, ttl)
  BY <1>2, <1>5, <1>8, NoneIsNoRecord DEF SetTtl, NodeExists, RegistryTypeOK
<1>9. CASE \E node \in Nodes, label \in Labels, owner \in Accounts :
               SetSubnodeOwner(caller, node, label, owner)
  <2> PICK node \in Nodes, label \in Labels, owner \in Accounts :
             SetSubnodeOwner(caller, node, label, owner)
    BY <1>9
  <2>1. NodeResolver(NamehashStep(node, label)) \in Accounts \cup {None}
    BY DEF SetSubnodeOwner, NodeResolver, NodeExists, RegistryTypeOK, Record
  <2>2. [owner |-> owner, resolver |-> NodeResolver(NamehashStep(node, label)),
         ttl |-> 0] \in Record
    BY <2>1, RegistryAssumption DEF Record
  <2> QED BY <1>2, <2>2, NoneIsNoRecord DEF SetSubnodeOwner, NodeExists, RegistryTypeOK
<1> QED BY <1>6, <1>7, <1>8, <1>9 DEF RegistryWrite

\* The record of a node changes only through a message of its owner, or of
\* the owner of the node above it.
LEMMA WriteByOwner ==
    ASSUME NEW caller \in Accounts, RegistryTypeOK, RegistryWrite(caller),
           NEW n \in Nodes, records'[n] # records[n]
    PROVE  \/ NodeOwner(n) = caller
           \/ \E p \in Nodes, l \in Labels :
                  n = NamehashStep(p, l) /\ NodeOwner(p) = caller
<1>1. CASE \E node \in Nodes, newOwner \in Accounts : SetOwner(caller, node, newOwner)
  BY <1>1 DEF SetOwner, OnlyOwner, RegistryTypeOK
<1>2. CASE \E node \in Nodes, resolver \in Accounts \cup {None} :
               SetResolver(caller, node, resolver)
  BY <1>2 DEF SetResolver, OnlyOwner, RegistryTypeOK
<1>3. CASE \E node \in Nodes, ttl \in Ttls : SetTtl(caller, node, ttl)
  BY <1>3 DEF SetTtl, OnlyOwner, RegistryTypeOK
<1>4. CASE \E node \in Nodes, label \in Labels, owner \in Accounts :
               SetSubnodeOwner(caller, node, label, owner)
  BY <1>4 DEF SetSubnodeOwner, OnlyOwner, RegistryTypeOK
<1> QED BY <1>1, <1>2, <1>3, <1>4 DEF RegistryWrite

\* A node is minted below a node that exists.
LEMMA WriteClosed ==
    ASSUME NEW caller \in Accounts, RegistryTypeOK, TreeClosed,
           RegistryWrite(caller)
    PROVE  TreeClosed'
<1> SUFFICES ASSUME NEW n \in Nodes \ {Root}, NodeExists(n)'
             PROVE  \E p \in Nodes, l \in Labels :
                        NodeExists(p)' /\ n = NamehashStep(p, l)
  BY DEF TreeClosed
<1>1. CASE NodeExists(n)
  <2>1. PICK p \in Nodes, l \in Labels : NodeExists(p) /\ n = NamehashStep(p, l)
    BY <1>1 DEF TreeClosed
  <2>2. NodeExists(p)'
    BY <2>1, WriteKeepsNodes
  <2> QED BY <2>1, <2>2
<1>2. CASE ~NodeExists(n)
  <2>1. records'[n] # records[n]
    BY <1>2 DEF NodeExists
  <2>2. NodeOwner(n) # caller
    BY <1>2, RegistryAssumption DEF NodeOwner
  <2>3. PICK p \in Nodes, l \in Labels : n = NamehashStep(p, l) /\ NodeOwner(p) = caller
    BY <2>1, <2>2, WriteByOwner
  <2>4. NodeExists(p)'
    BY <2>3, OwnerExists, WriteKeepsNodes DEF OnlyOwner
  <2> QED BY <2>3, <2>4
<1> QED BY <1>1, <1>2

-----------------------------------------------------------------------------

\* Every reachable record is well formed.
THEOREM RegistryTyped == RegistrySpec => []RegistryTypeOK
<1>1. RegistryInit => RegistryTypeOK
  BY RegistryAssumption DEF RegistryInit, RegistryTypeOK, Record, Root
<1>2. RegistryTypeOK /\ [RegistryNext]_records => RegistryTypeOK'
  BY SignersWrite, WriteTyped, RegistryAssumption DEF RegistryTypeOK
<1> QED BY <1>1, <1>2, PTL DEF RegistrySpec

\* The minted nodes are a tree at all times.
THEOREM RegistryTree == RegistrySpec => []TreeClosed
<1>1. RegistryInit => TreeClosed
  BY DEF RegistryInit, TreeClosed, NodeExists
<1>2. RegistryTypeOK /\ TreeClosed /\ [RegistryNext]_records => TreeClosed'
  <2>1. ASSUME RegistryTypeOK, TreeClosed, RegistryNext PROVE TreeClosed'
    BY <2>1, SignersWrite, WriteClosed, RegistryAssumption
  <2>2. ASSUME TreeClosed, UNCHANGED records PROVE TreeClosed'
    BY <2>2 DEF TreeClosed, NodeExists
  <2> QED BY <2>1, <2>2
<1> QED BY <1>1, <1>2, RegistryTyped, PTL DEF RegistrySpec

\* What no signer owns, below what no signer owns, never changes.
THEOREM RegistryOwned == RegistrySpec => OnlyOwnersWrite
<1>1. RegistryTypeOK /\ [RegistryNext]_records =>
        [\A n \in Nodes :
            records'[n] # records[n] =>
                \/ NodeOwner(n) \in Signers
                \/ \E p \in Nodes, l \in Labels :
                       n = NamehashStep(p, l) /\ NodeOwner(p) \in Signers]_records
  BY SignersWrite, WriteByOwner, RegistryAssumption
<1> QED BY <1>1, RegistryTyped, PTL DEF RegistrySpec, OnlyOwnersWrite

-----------------------------------------------------------------------------
(* The PotRegistrar.                                                        *)

\* A message that `caller` sends to the PotRegistrar.
PotWrite(caller) ==
    \/ \E who \in Accounts : SetRegistrarAdmin(caller, who)
    \/ \E who \in Accounts : AddController(caller, who)
    \/ \E who \in Accounts : RemoveController(caller, who)
    \/ \E ms \in Graces : SetGracePeriod(caller, ms)
    \/ \E label \in Names, owner \in Accounts, duration \in Durations :
           Register(caller, label, owner, duration)
    \/ \E label \in Names, duration \in Durations : Renew(caller, label, duration)
    \/ \E label \in Names, to \in Accounts : Transfer(caller, label, to)
    \/ \E label \in Names, to \in Accounts : Approve(caller, label, to)

\* A step of the two contracts in which `Callers` write to the PotRegistrar.
PotStep(Callers) ==
    \/ \E caller \in Accounts : RegistryWrite(caller) /\ UNCHANGED <<potVars, now>>
    \/ \E caller \in Callers : PotWrite(caller)
    \/ Tick

LEMMA NextIsPotStep ==
    ASSUME PotSystemNext
    PROVE  PotStep(Signers)
<1>1. CASE RegistryNext /\ UNCHANGED <<potVars, now>>
  BY <1>1, SignersWrite, RegistryAssumption DEF PotStep
<1>2. CASE PotRegistrarNext
  BY <1>2, RegistryAssumption, PotRegistrarAssumption
     DEF PotRegistrarNext, PotStep, PotWrite
<1>3. CASE Tick
  BY <1>3 DEF PotStep
<1> QED BY <1>1, <1>2, <1>3 DEF PotSystemNext

-----------------------------------------------------------------------------

\* Saturating addition stays within u64, and falls short of the true sum only
\* by stopping at MaxU64.
LEMMA SatAddBounds ==
    ASSUME NEW a \in Nat, NEW b \in Nat
    PROVE  /\ SatAdd(a, b) \in 0..MaxU64
           /\ SatAdd(a, b) = MaxU64 \/ SatAdd(a, b) = a + b
           /\ a <= MaxU64 => SatAdd(a, b) >= a
  BY PotRegistrarAssumption DEF SatAdd

LEMMA NamesAreLabels == Names \subseteq Labels
  BY DEF Names

\* A mirror call is a write to the Registry by the PotRegistrar, or nothing.
LEMMA MirrorIsWrite ==
    ASSUME NEW label \in Labels, NEW owner \in Accounts, MirrorOwner(label, owner)
    PROVE  RegistryWrite(PotRegistrarId) \/ UNCHANGED records
  BY PotRegistrarAssumption DEF MirrorOwner, RegistryWrite

LEMMA MirrorTyped ==
    ASSUME RegistryTypeOK, NEW label \in Labels, NEW owner \in Accounts,
           MirrorOwner(label, owner)
    PROVE  RegistryTypeOK'
  BY MirrorIsWrite, WriteTyped, PotRegistrarAssumption DEF RegistryTypeOK

LEMMA BalanceOpsTyped ==
    ASSUME NEW bals \in [Accounts -> 0..MaxU32], NEW who \in Accounts
    PROVE  /\ IncBalance(bals, who) \in [Accounts -> 0..MaxU32]
           /\ DecBalance(bals, who) \in [Accounts -> 0..MaxU32]
  BY PotRegistrarAssumption DEF IncBalance, DecBalance

\* Times and durations are naturals.
LEMMA TimesAreNat ==
    ASSUME PotTypeOK
    PROVE  /\ now \in Nat /\ now < MaxU64
           /\ gracePeriod \in Nat
           /\ Durations \subseteq Nat
  BY PotRegistrarAssumption DEF PotTypeOK

LEMMA RegisteredTyped ==
    ASSUME PotTypeOK, NEW label \in Labels, Registered(label)
    PROVE  /\ registrations[label] \in Registration
           /\ OwnerOf(label) \in Accounts
           /\ OwnerOf(label) = registrations[label].owner
           /\ registrations[label].expires \in 0..MaxU64
           /\ registrations[label].expires \in Nat
  BY PotRegistrarAssumption DEF PotTypeOK, Registered, Registration, OwnerOf

LEMMA HandoverBalancesTyped ==
    ASSUME PotTypeOK, NEW label \in Labels, Registered(label), NEW to \in Accounts
    PROVE  BalancesAfterHandover(label, to) \in [Accounts -> 0..MaxU32]
<1>1. DecBalance(balances, OwnerOf(label)) \in [Accounts -> 0..MaxU32]
  BY RegisteredTyped, BalanceOpsTyped DEF PotTypeOK
<1> QED BY <1>1, BalanceOpsTyped DEF BalancesAfterHandover

\* Every write, from anybody, keeps the state well typed.
LEMMA PotWriteTyped ==
    ASSUME PotTypeOK, NEW caller \in Accounts, PotWrite(caller)
    PROVE  PotTypeOK'
<1> USE PotRegistrarAssumption, NamesAreLabels
<1>1. ASSUME NEW who \in Accounts, SetRegistrarAdmin(caller, who) PROVE PotTypeOK'
  BY <1>1 DEF PotTypeOK, RegistryTypeOK, SetRegistrarAdmin
<1>2. ASSUME NEW who \in Accounts, AddController(caller, who) PROVE PotTypeOK'
  BY <1>2 DEF PotTypeOK, RegistryTypeOK, AddController
<1>3. ASSUME NEW who \in Accounts, RemoveController(caller, who) PROVE PotTypeOK'
  BY <1>3 DEF PotTypeOK, RegistryTypeOK, RemoveController
<1>4. ASSUME NEW ms \in Graces, SetGracePeriod(caller, ms) PROVE PotTypeOK'
  BY <1>4 DEF PotTypeOK, RegistryTypeOK, SetGracePeriod
<1>5. ASSUME NEW label \in Names, NEW owner \in Accounts, NEW duration \in Durations,
             Register(caller, label, owner, duration)
      PROVE  PotTypeOK'
  <2>1. RegistryTypeOK'
    BY <1>5, MirrorTyped DEF Register, PotTypeOK
  <2>2. SatAdd(now, duration) \in 0..MaxU64
    BY SatAddBounds, TimesAreNat
  <2>3. registrations' \in [Labels -> Registration \cup {None}]
    BY <1>5, <2>2 DEF Register, PotTypeOK, Registration
  <2>4. approvals' \in [Labels -> Accounts \cup {None}]
    BY <1>5 DEF Register, ApprovalsAfterHandover, PotTypeOK
  <2>5. balances' \in [Accounts -> 0..MaxU32]
    <3>1. CASE Registered(label)
      BY <1>5, <3>1, HandoverBalancesTyped DEF Register
    <3>2. CASE ~Registered(label)
      BY <1>5, <3>2, BalanceOpsTyped DEF Register, PotTypeOK
    <3> QED BY <3>1, <3>2
  <2> QED BY <1>5, <2>1, <2>3, <2>4, <2>5 DEF Register, PotTypeOK
<1>6. ASSUME NEW label \in Names, NEW duration \in Durations,
             Renew(caller, label, duration)
      PROVE  PotTypeOK'
  <2>1. /\ registrations[label] \in Registration
        /\ registrations[label].expires \in Nat
    BY <1>6, RegisteredTyped DEF Renew, CanRenew
  <2>2. SatAdd(registrations[label].expires, duration) \in 0..MaxU64
    BY <2>1, SatAddBounds, TimesAreNat
  <2>3. \A e \in 0..MaxU64 : [registrations[label] EXCEPT !.expires = e] \in Registration
    BY <2>1 DEF Registration
  <2>4. registrations' \in [Labels -> Registration \cup {None}]
    BY <1>6, <2>2, <2>3 DEF Renew, PotTypeOK
  <2> QED BY <1>6, <2>4 DEF Renew, PotTypeOK, RegistryTypeOK
<1>7. ASSUME NEW label \in Names, NEW to \in Accounts, Transfer(caller, label, to)
      PROVE  PotTypeOK'
  <2>1. RegistryTypeOK'
    BY <1>7, MirrorTyped DEF Transfer, PotTypeOK
  <2>2. registrations[label] \in Registration /\ OwnerOf(label) \in Accounts
    BY <1>7, RegisteredTyped DEF Transfer
  <2>3. [registrations[label] EXCEPT !.owner = to] \in Registration
    BY <2>2 DEF Registration
  <2>4. registrations' \in [Labels -> Registration \cup {None}]
    BY <1>7, <2>3 DEF Transfer, PotTypeOK
  <2>5. balances' \in [Accounts -> 0..MaxU32]
    BY <1>7, HandoverBalancesTyped DEF Transfer
  <2>6. approvals' \in [Labels -> Accounts \cup {None}]
    BY <1>7 DEF Transfer, ApprovalsAfterHandover, PotTypeOK
  <2> QED BY <1>7, <2>1, <2>4, <2>5, <2>6 DEF Transfer, PotTypeOK
<1>8. ASSUME NEW label \in Names, NEW to \in Accounts, Approve(caller, label, to)
      PROVE  PotTypeOK'
  BY <1>8 DEF PotTypeOK, RegistryTypeOK, Approve
<1> QED BY <1>1, <1>2, <1>3, <1>4, <1>5, <1>6, <1>7, <1>8 DEF PotWrite

LEMMA PotStepTyped ==
    ASSUME PotTypeOK, NEW Callers, Callers \subseteq Accounts, PotStep(Callers)
    PROVE  PotTypeOK'
<1>1. ASSUME NEW caller \in Accounts, RegistryWrite(caller), UNCHANGED <<potVars, now>>
      PROVE  PotTypeOK'
  BY <1>1, WriteTyped DEF PotTypeOK, potVars
<1>2. CASE Tick
  BY <1>2, PotRegistrarAssumption DEF Tick, PotTypeOK, potVars, RegistryTypeOK
<1> QED BY <1>1, <1>2, PotWriteTyped DEF PotStep

\* The PotRegistrar and the Registry behind it are always well typed.
THEOREM PotTyped == PotSystemSpec => []PotTypeOK
<1>1. PotSystemInit => PotTypeOK
  <2>1. RegistryInit => RegistryTypeOK
    BY RegistryAssumption DEF RegistryInit, RegistryTypeOK, Record, Root
  <2> QED BY <2>1, RegistryAssumption, PotRegistrarAssumption
          DEF PotSystemInit, PotRegistrarInit, PotTypeOK
<1>2. PotTypeOK /\ [PotSystemNext]_potSystemVars => PotTypeOK'
  <2>1. ASSUME PotTypeOK, PotSystemNext PROVE PotTypeOK'
    BY <2>1, NextIsPotStep, PotStepTyped, RegistryAssumption
  <2>2. ASSUME PotTypeOK, UNCHANGED potSystemVars PROVE PotTypeOK'
    BY <2>2 DEF PotTypeOK, RegistryTypeOK, potSystemVars, potVars
  <2> QED BY <2>1, <2>2
<1> QED BY <1>1, <1>2, PTL DEF PotSystemSpec

\* The PotRegistrar writes to the Registry only by mirroring a handover.
LEMMA PotWriteClosed ==
    ASSUME PotTypeOK, TreeClosed, NEW caller \in Accounts, PotWrite(caller)
    PROVE  TreeClosed'
<1>1. ASSUME UNCHANGED records PROVE TreeClosed'
  BY <1>1 DEF TreeClosed, NodeExists
<1>2. ASSUME NEW label \in Labels, NEW owner \in Accounts, MirrorOwner(label, owner)
      PROVE  TreeClosed'
  BY <1>1, <1>2, MirrorIsWrite, WriteClosed, PotRegistrarAssumption DEF PotTypeOK
<1>3. CASE \E label \in Names, owner \in Accounts, duration \in Durations :
               Register(caller, label, owner, duration)
  BY <1>2, <1>3, NamesAreLabels DEF Register
<1>4. CASE \E label \in Names, to \in Accounts : Transfer(caller, label, to)
  BY <1>2, <1>4, NamesAreLabels DEF Transfer
<1>5. CASE \/ \E who \in Accounts : \/ SetRegistrarAdmin(caller, who)
                                     \/ AddController(caller, who)
                                     \/ RemoveController(caller, who)
           \/ \E ms \in Graces : SetGracePeriod(caller, ms)
           \/ \E label \in Names, duration \in Durations : Renew(caller, label, duration)
           \/ \E label \in Names, to \in Accounts : Approve(caller, label, to)
  BY <1>1, <1>5 DEF SetRegistrarAdmin, AddController, RemoveController,
                    SetGracePeriod, Renew, Approve
<1> QED BY <1>3, <1>4, <1>5 DEF PotWrite

LEMMA StepTree ==
    ASSUME PotTypeOK, TreeClosed, NEW Callers, Callers \subseteq Accounts,
           PotStep(Callers)
    PROVE  TreeClosed'
<1>1. CASE \E caller \in Accounts : RegistryWrite(caller)
  BY <1>1, WriteClosed DEF PotTypeOK
<1>2. CASE \E caller \in Callers : PotWrite(caller)
  BY <1>2, PotWriteClosed
<1>3. CASE Tick
  BY <1>3 DEF Tick, TreeClosed, NodeExists
<1> QED BY <1>1, <1>2, <1>3 DEF PotStep

\* The minted nodes stay a tree when the PotRegistrar mints nodes as well,
\* whether or not failed messages are rolled back.
THEOREM PotTree == PotSystemSpec => []TreeClosed
<1>1. PotSystemInit => TreeClosed
  BY DEF PotSystemInit, RegistryInit, TreeClosed, NodeExists
<1>2. PotTypeOK /\ TreeClosed /\ [PotSystemNext]_potSystemVars => TreeClosed'
  <2>1. ASSUME TreeClosed, UNCHANGED potSystemVars PROVE TreeClosed'
    BY <2>1 DEF TreeClosed, NodeExists, potSystemVars
  <2> QED BY <2>1, NextIsPotStep, StepTree, RegistryAssumption
<1> QED BY <1>1, <1>2, PotTyped, PTL DEF PotSystemSpec

-----------------------------------------------------------------------------

\* A step that changes an entry is a mint, a renewal or a transfer of it.
LEMMA EntryChanges ==
    ASSUME PotTypeOK, NEW Callers, Callers \subseteq Accounts, PotStep(Callers),
           NEW l \in Labels, registrations'[l] # registrations[l]
    PROVE  \E caller \in Callers :
              \/ \E owner \in Accounts, duration \in Durations :
                     Register(caller, l, owner, duration)
              \/ \E duration \in Durations : Renew(caller, l, duration)
              \/ \E to \in Accounts : Transfer(caller, l, to)
<1>1. PICK caller \in Callers : PotWrite(caller)
  BY DEF PotStep, Tick, potVars
<1>2. CASE \E label \in Names, owner \in Accounts, duration \in Durations :
               Register(caller, label, owner, duration)
  <2>1. PICK label \in Names, owner \in Accounts, duration \in Durations :
               Register(caller, label, owner, duration)
    BY <1>2
  <2>2. registrations' = [registrations EXCEPT ![label] =
                            [owner |-> owner, expires |-> SatAdd(now, duration)]]
    BY <2>1 DEF Register
  <2>3. l = label
    BY <2>2 DEF PotTypeOK
  <2> QED BY <2>1, <2>3
<1>3. CASE \E label \in Names, duration \in Durations : Renew(caller, label, duration)
  BY <1>3 DEF Renew, PotTypeOK
<1>4. CASE \E label \in Names, to \in Accounts : Transfer(caller, label, to)
  BY <1>4 DEF Transfer, PotTypeOK
<1>5. CASE \/ \E who \in Accounts : \/ SetRegistrarAdmin(caller, who)
                                     \/ AddController(caller, who)
                                     \/ RemoveController(caller, who)
           \/ \E ms \in Graces : SetGracePeriod(caller, ms)
           \/ \E label \in Names, to \in Accounts : Approve(caller, label, to)
  BY <1>5 DEF SetRegistrarAdmin, AddController, RemoveController,
              SetGracePeriod, Approve
<1> QED BY <1>1, <1>2, <1>3, <1>4, <1>5 DEF PotWrite

\* The entry that a mint writes.
LEMMA RegisterEntry ==
    ASSUME PotTypeOK, NEW caller, NEW l \in Labels, NEW owner \in Accounts,
           NEW duration \in Durations, Register(caller, l, owner, duration)
    PROVE  /\ Available(l)
           /\ duration >= MinDuration
           /\ registrations'[l] = [owner |-> owner, expires |-> SatAdd(now, duration)]
           /\ Registered(l)'
           /\ OwnerOf(l)' = owner
<1>1. registrations'[l] = [owner |-> owner, expires |-> SatAdd(now, duration)]
  BY DEF Register, PotTypeOK
<1>2. registrations'[l] \in Registration
  BY <1>1, SatAddBounds, TimesAreNat DEF Registration
<1>3. Registered(l)'
  BY <1>2, NoneIsNoRegistration DEF Registered
<1> QED BY <1>1, <1>3 DEF Register, CanRegister, OwnerOf

\* The entry that a renewal writes.
LEMMA RenewEntry ==
    ASSUME PotTypeOK, NEW caller, NEW l \in Labels,
           NEW duration \in Durations, Renew(caller, l, duration)
    PROVE  /\ Registered(l) /\ now < GraceEnd(l)
           /\ duration >= MinDuration
           /\ registrations'[l].expires = SatAdd(registrations[l].expires, duration)
           /\ Registered(l)'
           /\ OwnerOf(l)' = OwnerOf(l)
<1>1. Registered(l) /\ registrations[l] \in Registration
  BY RegisteredTyped DEF Renew, CanRenew
<1>2. registrations'[l] = [registrations[l] EXCEPT
                             !.expires = SatAdd(registrations[l].expires, duration)]
  BY DEF Renew, PotTypeOK
<1>3. SatAdd(registrations[l].expires, duration) \in 0..MaxU64
  BY <1>1, RegisteredTyped, SatAddBounds, TimesAreNat
<1>4. /\ registrations'[l] \in Registration
      /\ registrations'[l].owner = registrations[l].owner
      /\ registrations'[l].expires = SatAdd(registrations[l].expires, duration)
  BY <1>1, <1>2, <1>3 DEF Registration
<1>5. Registered(l)'
  BY <1>4, NoneIsNoRegistration DEF Registered
<1> QED BY <1>1, <1>4, <1>5 DEF Renew, CanRenew, OwnerOf

\* The entry that a transfer writes.
LEMMA TransferEntry ==
    ASSUME PotTypeOK, NEW caller, NEW l \in Labels, NEW to \in Accounts,
           Transfer(caller, l, to)
    PROVE  /\ Registered(l)
           /\ caller \in {OwnerOf(l), approvals[l]}
           /\ registrations'[l].expires = registrations[l].expires
           /\ Registered(l)'
           /\ OwnerOf(l)' = to
<1>1. Registered(l) /\ registrations[l] \in Registration
  BY RegisteredTyped DEF Transfer
<1>2. registrations'[l] = [registrations[l] EXCEPT !.owner = to]
  BY DEF Transfer, PotTypeOK
<1>3. /\ registrations'[l] \in Registration
      /\ registrations'[l].owner = to
      /\ registrations'[l].expires = registrations[l].expires
  BY <1>1, <1>2 DEF Registration
<1>4. Registered(l)'
  BY <1>3, NoneIsNoRegistration DEF Registered
<1> QED BY <1>1, <1>3, <1>4 DEF Transfer, OwnerOf

\* A change of holder is a mint or a transfer.
LEMMA HolderChanges ==
    ASSUME PotTypeOK, NEW Callers, Callers \subseteq Accounts, PotStep(Callers),
           NEW l \in Labels, OwnerOf(l)' # OwnerOf(l)
    PROVE  \E caller \in Callers :
              \/ \E owner \in Accounts, duration \in Durations :
                     Register(caller, l, owner, duration)
              \/ \E to \in Accounts : Transfer(caller, l, to)
<1>1. registrations'[l] # registrations[l]
  BY DEF OwnerOf, Registered
<1> QED BY <1>1, EntryChanges, RenewEntry

-----------------------------------------------------------------------------

\* When a name is free nobody is approved for it: what ApprovalsFollowHolder
\* needs of the state, because a first mint leaves the approvals alone.
ApprovalsNeedEntry == \A l \in Labels : approvals[l] # None => Registered(l)

LEMMA StepApprovals ==
    ASSUME PotTypeOK, ApprovalsNeedEntry, NEW Callers, Callers \subseteq Accounts,
           PotStep(Callers), NEW l \in Labels, OwnerOf(l)' # OwnerOf(l)
    PROVE  approvals'[l] = None
<1>1. CASE \E caller \in Callers, owner \in Accounts, duration \in Durations :
               Register(caller, l, owner, duration)
  BY <1>1 DEF Register, ApprovalsAfterHandover, ApprovalsNeedEntry, PotTypeOK
<1>2. CASE \E caller \in Callers, to \in Accounts : Transfer(caller, l, to)
  BY <1>2 DEF Transfer, ApprovalsAfterHandover, PotTypeOK
<1> QED BY <1>1, <1>2, HolderChanges

LEMMA StepApprovalsNeedEntry ==
    ASSUME PotTypeOK, ApprovalsNeedEntry, NEW Callers, Callers \subseteq Accounts,
           PotStep(Callers)
    PROVE  ApprovalsNeedEntry'
<1> SUFFICES ASSUME NEW l \in Labels, approvals'[l] # None
             PROVE  Registered(l)'
  BY DEF ApprovalsNeedEntry
<1>1. OwnerOf(l)' = OwnerOf(l)
  BY StepApprovals
<1>2. CASE approvals[l] # None
  <2>1. OwnerOf(l) \in Accounts
    BY <1>2, RegisteredTyped DEF ApprovalsNeedEntry
  <2> QED BY <1>1, <2>1, RegistryAssumption DEF OwnerOf
<1>3. CASE approvals[l] = None
  <2>1. PICK caller \in Callers : PotWrite(caller)
    BY <1>3 DEF PotStep, Tick, potVars
  <2>2. PICK to \in Accounts : Approve(caller, l, to)
    BY <1>3, <2>1
       DEF PotWrite, SetRegistrarAdmin, AddController, RemoveController,
           SetGracePeriod, Register, Renew, Transfer, Approve, PotTypeOK,
           ApprovalsAfterHandover
  <2> QED BY <2>2 DEF Approve, Registered
<1> QED BY <1>2, <1>3

THEOREM PotApprovalsNeedEntry == PotSystemSpec => []ApprovalsNeedEntry
<1>1. PotSystemInit => ApprovalsNeedEntry
  BY DEF PotSystemInit, PotRegistrarInit, ApprovalsNeedEntry
<1>2. PotTypeOK /\ ApprovalsNeedEntry /\ [PotSystemNext]_potSystemVars
        => ApprovalsNeedEntry'
  <2>1. ASSUME PotTypeOK, ApprovalsNeedEntry, PotSystemNext PROVE ApprovalsNeedEntry'
    BY <2>1, NextIsPotStep, StepApprovalsNeedEntry, RegistryAssumption
  <2>2. ASSUME ApprovalsNeedEntry, UNCHANGED potSystemVars PROVE ApprovalsNeedEntry'
    BY <2>2 DEF ApprovalsNeedEntry, Registered, potSystemVars, potVars
  <2> QED BY <2>1, <2>2
<1> QED BY <1>1, <1>2, PotTyped, PTL DEF PotSystemSpec

\* An approval dies with the tenure in which it was given.
THEOREM PotApprovals == PotSystemSpec => ApprovalsFollowHolder
<1>1. PotTypeOK /\ ApprovalsNeedEntry /\ [PotSystemNext]_potSystemVars =>
        [\A l \in Labels : OwnerOf(l)' # OwnerOf(l) => approvals'[l] = None]_potSystemVars
  BY NextIsPotStep, StepApprovals, RegistryAssumption
<1> QED BY <1>1, PotTyped, PotApprovalsNeedEntry, PTL
        DEF PotSystemSpec, ApprovalsFollowHolder
-----------------------------------------------------------------------------

\* The end of the grace period, where it saturates, is still in the future.
LEMMA GraceInTrueTime ==
    ASSUME PotTypeOK, NEW l \in Labels, Registered(l)
    PROVE  (now < GraceEnd(l)) <=> (now < registrations[l].expires + gracePeriod)
<1>1. /\ registrations[l].expires \in Nat
      /\ now \in Nat /\ now < MaxU64 /\ gracePeriod \in Nat /\ MaxU64 \in Nat
  BY RegisteredTyped, TimesAreNat, PotRegistrarAssumption
<1> QED BY <1>1 DEF GraceEnd, SatAdd

\* A name within its grace period is not available.
LEMMA NotAvailableInGrace ==
    ASSUME PotTypeOK, NEW l \in Labels, Registered(l),
           now < registrations[l].expires + gracePeriod
    PROVE  ~Available(l)
<1>1. now < GraceEnd(l)
  BY GraceInTrueTime
<1>2. registrations[l].expires \in Nat /\ gracePeriod \in Nat
  BY RegisteredTyped, TimesAreNat
<1>3. GraceEnd(l) \in 0..MaxU64
  BY <1>2, SatAddBounds DEF GraceEnd
<1> QED BY <1>1, <1>3, TimesAreNat, PotRegistrarAssumption DEF Available

LEMMA StepNoTakeover ==
    ASSUME PotTypeOK, NEW Callers, Callers \subseteq Accounts, PotStep(Callers),
           NEW l \in Labels, Registered(l),
           now < registrations[l].expires + gracePeriod
    PROVE  /\ Registered(l)'
           /\ registrations'[l].expires >= registrations[l].expires
           /\ OwnerOf(l)' # OwnerOf(l) =>
                  /\ {OwnerOf(l), approvals[l]} \cap Callers # {}
                  /\ registrations'[l].expires = registrations[l].expires
<1>1. ~Available(l)
  BY NotAvailableInGrace
<1>2. registrations[l].expires \in Nat /\ registrations[l].expires <= MaxU64
  BY RegisteredTyped, PotRegistrarAssumption
<1>3. CASE registrations'[l] = registrations[l]
  BY <1>2, <1>3 DEF Registered, OwnerOf
<1>4. CASE \E caller \in Callers, owner \in Accounts, duration \in Durations :
               Register(caller, l, owner, duration)
  BY <1>1, <1>4, RegisterEntry
<1>5. CASE \E caller \in Callers, duration \in Durations : Renew(caller, l, duration)
  <2>1. PICK caller \in Callers, duration \in Durations : Renew(caller, l, duration)
    BY <1>5
  <2>2. SatAdd(registrations[l].expires, duration) >= registrations[l].expires
    BY <1>2, SatAddBounds, TimesAreNat
  <2> QED BY <2>1, <2>2, RenewEntry
<1>6. CASE \E caller \in Callers, to \in Accounts : Transfer(caller, l, to)
  BY <1>2, <1>6, TransferEntry
<1> QED BY <1>3, <1>4, <1>5, <1>6, EntryChanges

\* Nobody takes a name, or its time, before its grace period is over.
THEOREM PotNoTakeover == PotSystemSpec => NoTakeover
<1>1. PotTypeOK /\ [PotSystemNext]_potSystemVars =>
        [\A l \in Labels :
            Registered(l) /\ now < registrations[l].expires + gracePeriod =>
                /\ Registered(l)'
                /\ registrations'[l].expires >= registrations[l].expires
                /\ OwnerOf(l)' # OwnerOf(l) =>
                       /\ {OwnerOf(l), approvals[l]} \cap Signers # {}
                       /\ registrations'[l].expires = registrations[l].expires]_potSystemVars
  BY NextIsPotStep, StepNoTakeover, RegistryAssumption
<1> QED BY <1>1, PotTyped, PTL DEF PotSystemSpec, NoTakeover

LEMMA StepLease ==
    ASSUME PotTypeOK, NEW Callers, Callers \subseteq Accounts, PotStep(Callers),
           NEW l \in Labels, Registered(l)',
           Registered(l) => registrations'[l].expires # registrations[l].expires
    PROVE  \/ registrations'[l].expires = MaxU64
           \/ registrations'[l].expires
                >= MinDuration + IF Available(l) THEN now
                                 ELSE registrations[l].expires
<1>1. registrations'[l] # registrations[l]
  BY DEF Registered
<1>2. now \in Nat /\ MinDuration \in Nat
  BY TimesAreNat, PotRegistrarAssumption
<1>3. CASE \E caller \in Callers, owner \in Accounts, duration \in Durations :
               Register(caller, l, owner, duration)
  <2>1. PICK caller \in Callers, owner \in Accounts, duration \in Durations :
               Register(caller, l, owner, duration)
    BY <1>3
  <2>2. duration \in Nat
    BY TimesAreNat
  <2>3. /\ Available(l)
        /\ duration >= MinDuration
        /\ registrations'[l] = [owner |-> owner, expires |-> SatAdd(now, duration)]
    BY <2>1, RegisterEntry
  <2>4. registrations'[l].expires = SatAdd(now, duration)
    BY <2>3
  <2>5. SatAdd(now, duration) = MaxU64 \/ SatAdd(now, duration) = now + duration
    BY <1>2, <2>2, SatAddBounds
  <2> QED BY <1>2, <2>2, <2>3, <2>4, <2>5
<1>4. CASE \E caller \in Callers, duration \in Durations : Renew(caller, l, duration)
  <2>1. PICK caller \in Callers, duration \in Durations : Renew(caller, l, duration)
    BY <1>4
  <2>2. duration \in Nat
    BY TimesAreNat
  <2>3. /\ Registered(l) /\ now < GraceEnd(l)
        /\ duration >= MinDuration
        /\ registrations'[l].expires = SatAdd(registrations[l].expires, duration)
    BY <2>1, RenewEntry
  <2>4. registrations[l].expires \in Nat
    BY <2>3, RegisteredTyped
  <2>5. ~Available(l)
    BY <2>3, GraceInTrueTime, NotAvailableInGrace
  <2>6. \/ SatAdd(registrations[l].expires, duration) = MaxU64
        \/ SatAdd(registrations[l].expires, duration)
             = registrations[l].expires + duration
    BY <2>2, <2>4, SatAddBounds
  <2> QED BY <1>2, <2>2, <2>3, <2>4, <2>5, <2>6
<1>5. CASE \E caller \in Callers, to \in Accounts : Transfer(caller, l, to)
  BY <1>5, TransferEntry
<1> QED BY <1>1, <1>3, <1>4, <1>5, EntryChanges

\* Every mint and every renewal adds at least the minimum duration.
THEOREM PotLease == PotSystemSpec => LeaseAtLeastMinimum
<1>1. PotTypeOK /\ [PotSystemNext]_potSystemVars =>
        [\A l \in Labels :
            /\ Registered(l)'
            /\ Registered(l) => registrations'[l].expires # registrations[l].expires
            => \/ registrations'[l].expires = MaxU64
               \/ registrations'[l].expires
                    >= MinDuration + IF Available(l) THEN now
                                     ELSE registrations[l].expires]_potSystemVars
  BY NextIsPotStep, StepLease, RegistryAssumption
<1> QED BY <1>1, PotTyped, PTL DEF PotSystemSpec, LeaseAtLeastMinimum

LEMMA MirrorSetsOwner ==
    ASSUME RegistryTypeOK, NEW l \in Labels, NEW owner \in Accounts,
           SetSubnodeOwner(PotRegistrarId, PotNode, l, owner)
    PROVE  NodeOwner(NodeOf(l))' = owner
<1> DEFINE r == [owner |-> owner, resolver |-> NodeResolver(NodeOf(l)), ttl |-> 0]
<1>1. NodeOf(l) \in Nodes /\ records'[NodeOf(l)] = r
  BY DEF SetSubnodeOwner, NodeOf, RegistryTypeOK
<1>2. NodeResolver(NodeOf(l)) \in Accounts \cup {None}
  BY <1>1 DEF NodeResolver, NodeExists, RegistryTypeOK, Record
<1>3. r \in Record
  BY <1>2, RegistryAssumption DEF Record
<1> QED BY <1>1, <1>3, NoneIsNoRecord DEF NodeOwner, NodeExists

LEMMA StepMirrored ==
    ASSUME ErrRollsBack, PotTypeOK, NEW Callers, Callers \subseteq Accounts,
           PotStep(Callers), NEW l \in Labels, OwnerOf(l)' # OwnerOf(l)
    PROVE  NodeOwner(NodeOf(l))' = OwnerOf(l)'
<1>1. CASE \E caller \in Callers, owner \in Accounts, duration \in Durations :
               Register(caller, l, owner, duration)
  BY <1>1, RegisterEntry, MirrorSetsOwner DEF Register, MirrorOwner, PotTypeOK
<1>2. CASE \E caller \in Callers, to \in Accounts : Transfer(caller, l, to)
  BY <1>2, TransferEntry, MirrorSetsOwner DEF Transfer, MirrorOwner, PotTypeOK
<1> QED BY <1>1, <1>2, HolderChanges

\* If failed messages are rolled back, the Registry follows every handover.
THEOREM PotMirrored == ErrRollsBack => (PotSystemSpec => HandoverMirrored)
<1> SUFFICES ASSUME ErrRollsBack PROVE PotSystemSpec => HandoverMirrored
  OBVIOUS
<1>1. PotTypeOK /\ [PotSystemNext]_potSystemVars =>
        [\A l \in Labels :
            OwnerOf(l)' # OwnerOf(l) =>
                NodeOwner(NodeOf(l))' = OwnerOf(l)']_potSystemVars
  BY NextIsPotStep, StepMirrored, RegistryAssumption
<1> QED BY <1>1, PotTyped, PTL DEF PotSystemSpec, HandoverMirrored

-----------------------------------------------------------------------------

\* The names that an account holds.
NamesOf(a) == {l \in Labels : OwnerOf(l) = a}

\* A u32 can count them all.
CountsFit == IsFiniteSet(Labels) /\ Cardinality(Labels) <= MaxU32

LEMMA HeldFinite ==
    ASSUME CountsFit, NEW S \in SUBSET Labels
    PROVE  IsFiniteSet(S) /\ Cardinality(S) \in Nat /\ Cardinality(S) <= MaxU32
<1>1. IsFiniteSet(S) /\ Cardinality(S) <= Cardinality(Labels)
  BY FS_Subset DEF CountsFit
<1>2. Cardinality(S) \in Nat /\ Cardinality(Labels) \in Nat
  BY <1>1, FS_CardinalityType DEF CountsFit
<1> QED BY <1>1, <1>2, PotRegistrarAssumption DEF CountsFit

\* What the two adjustments of a handover do to each account's count.
LEMMA HandoverCounts ==
    ASSUME PotTypeOK, NEW l \in Labels, NEW to \in Accounts, NEW a \in Accounts,
           balances' = IF Registered(l) THEN BalancesAfterHandover(l, to)
                       ELSE IncBalance(balances, to)
    PROVE  /\ OwnerOf(l) = to /\ a = to /\ balances[a] > 0 => balances'[a] = balances[a]
           /\ OwnerOf(l) # to /\ a = to /\ balances[a] < MaxU32
                => balances'[a] = balances[a] + 1
           /\ OwnerOf(l) # to /\ a = OwnerOf(l) /\ balances[a] > 0
                => balances'[a] = balances[a] - 1
           /\ a # to /\ a # OwnerOf(l) => balances'[a] = balances[a]
<1>1. balances \in [Accounts -> 0..MaxU32] /\ MaxU32 \in Nat
  BY PotRegistrarAssumption DEF PotTypeOK
<1>2. CASE Registered(l)
  BY <1>1, <1>2, RegisteredTyped DEF BalancesAfterHandover, IncBalance, DecBalance
<1>3. CASE ~Registered(l)
  <2>1. OwnerOf(l) \notin Accounts
    BY <1>3, RegistryAssumption DEF OwnerOf
  <2> QED BY <1>1, <1>3, <2>1 DEF IncBalance
<1> QED BY <1>2, <1>3

\* A handover of one name keeps the counts right.
LEMMA HandoverBalances ==
    ASSUME PotTypeOK, CountsFit, BalancesMatch,
           NEW l \in Labels, NEW to \in Accounts, OwnerOf(l)' = to,
           \A m \in Labels \ {l} : OwnerOf(m)' = OwnerOf(m),
           balances' = IF Registered(l) THEN BalancesAfterHandover(l, to)
                       ELSE IncBalance(balances, to)
    PROVE  BalancesMatch'
<1> SUFFICES ASSUME NEW a \in Accounts
             PROVE  balances'[a] = Cardinality(NamesOf(a)')
  BY DEF BalancesMatch, NamesOf
<1>1. /\ IsFiniteSet(NamesOf(a)) /\ Cardinality(NamesOf(a)) \in Nat
      /\ IsFiniteSet(NamesOf(a)') /\ Cardinality(NamesOf(a)') \in Nat
      /\ Cardinality(NamesOf(a)') <= MaxU32
  <2>1. NamesOf(a) \in SUBSET Labels /\ NamesOf(a)' \in SUBSET Labels
    BY DEF NamesOf
  <2> QED BY <2>1, HeldFinite
<1>2. balances[a] = Cardinality(NamesOf(a))
  BY DEF BalancesMatch, NamesOf
<1>3. CASE a = to /\ OwnerOf(l) # to
  <2>1. l \notin NamesOf(a) /\ NamesOf(a)' = NamesOf(a) \cup {l}
    BY <1>3 DEF NamesOf
  <2>2. Cardinality(NamesOf(a)') = Cardinality(NamesOf(a)) + 1
    BY <1>1, <2>1, FS_AddElement
  <2>3. balances[a] < MaxU32
    BY <1>1, <1>2, <2>2, PotRegistrarAssumption
  <2> QED BY <1>2, <1>3, <2>2, <2>3, HandoverCounts
<1>4. CASE a = OwnerOf(l) /\ OwnerOf(l) # to
  <2>1. l \in NamesOf(a) /\ NamesOf(a)' = NamesOf(a) \ {l}
    BY <1>4 DEF NamesOf
  <2>2. Cardinality(NamesOf(a)') = Cardinality(NamesOf(a)) - 1
    BY <1>1, <2>1, FS_RemoveElement
  <2>3. balances[a] > 0
    BY <1>1, <1>2, <2>2
  <2> QED BY <1>2, <1>4, <2>2, <2>3, HandoverCounts
<1>5. CASE a = to /\ OwnerOf(l) = to
  <2>1. l \in NamesOf(a) /\ NamesOf(a)' = NamesOf(a)
    BY <1>5 DEF NamesOf
  <2>2. Cardinality(NamesOf(a)) # 0
    BY <1>1, <2>1, FS_EmptySet
  <2>3. balances[a] > 0
    BY <1>1, <1>2, <2>2
  <2> QED BY <1>2, <1>5, <2>1, <2>3, HandoverCounts
<1>6. CASE a # to /\ a # OwnerOf(l)
  <2>1. NamesOf(a)' = NamesOf(a)
    BY <1>6 DEF NamesOf
  <2> QED BY <1>2, <1>6, <2>1, HandoverCounts
<1> QED BY <1>3, <1>4, <1>5, <1>6

\* A step that leaves the holders and the counts alone leaves them matching.
LEMMA SameBalances ==
    ASSUME BalancesMatch, balances' = balances,
           \A l \in Labels : OwnerOf(l)' = OwnerOf(l)
    PROVE  BalancesMatch'
<1> SUFFICES ASSUME NEW a \in Accounts
             PROVE  balances'[a] = Cardinality(NamesOf(a)')
  BY DEF BalancesMatch, NamesOf
<1>1. NamesOf(a)' = NamesOf(a)
  BY DEF NamesOf
<1> QED BY <1>1 DEF BalancesMatch, NamesOf

\* Only mints and transfers touch the balances, one name at a time.
LEMMA StepBalances ==
    ASSUME PotTypeOK, CountsFit, BalancesMatch, NEW Callers,
           Callers \subseteq Accounts, PotStep(Callers)
    PROVE  BalancesMatch'
<1>1. ASSUME NEW caller \in Callers, NEW l \in Names, NEW owner \in Accounts,
             NEW duration \in Durations, Register(caller, l, owner, duration)
      PROVE  BalancesMatch'
  <2>1. l \in Labels /\ OwnerOf(l)' = owner
    BY <1>1, NamesAreLabels, RegisterEntry
  <2>2. \A m \in Labels \ {l} : OwnerOf(m)' = OwnerOf(m)
    BY <1>1, <2>1 DEF Register, PotTypeOK, OwnerOf, Registered
  <2>3. balances' = IF Registered(l) THEN BalancesAfterHandover(l, owner)
                    ELSE IncBalance(balances, owner)
    BY <1>1 DEF Register
  <2> QED BY <2>1, <2>2, <2>3, HandoverBalances
<1>2. ASSUME NEW caller \in Callers, NEW l \in Names, NEW to \in Accounts,
             Transfer(caller, l, to)
      PROVE  BalancesMatch'
  <2>1. l \in Labels /\ OwnerOf(l)' = to
    BY <1>2, NamesAreLabels, TransferEntry
  <2>2. \A m \in Labels \ {l} : OwnerOf(m)' = OwnerOf(m)
    BY <1>2, <2>1 DEF Transfer, PotTypeOK, OwnerOf, Registered
  <2>3. Registered(l) /\ balances' = BalancesAfterHandover(l, to)
    BY <1>2 DEF Transfer
  <2> QED BY <2>1, <2>2, <2>3, HandoverBalances
<1>3. ASSUME NEW caller \in Callers, NEW l \in Names, NEW duration \in Durations,
             Renew(caller, l, duration)
      PROVE  BalancesMatch'
  <2>1. l \in Labels /\ OwnerOf(l)' = OwnerOf(l)
    BY <1>3, NamesAreLabels, RenewEntry
  <2>2. \A m \in Labels \ {l} : OwnerOf(m)' = OwnerOf(m)
    BY <1>3, <2>1 DEF Renew, PotTypeOK, OwnerOf, Registered
  <2>3. balances' = balances
    BY <1>3 DEF Renew
  <2> QED BY <2>1, <2>2, <2>3, SameBalances
<1>4. CASE UNCHANGED <<registrations, balances>>
  BY <1>4, SameBalances DEF OwnerOf, Registered
<1>5. CASE \E caller \in Callers :
               \/ \E who \in Accounts : \/ SetRegistrarAdmin(caller, who)
                                        \/ AddController(caller, who)
                                        \/ RemoveController(caller, who)
               \/ \E ms \in Graces : SetGracePeriod(caller, ms)
               \/ \E label \in Names, to \in Accounts : Approve(caller, label, to)
  BY <1>4, <1>5 DEF SetRegistrarAdmin, AddController, RemoveController,
                    SetGracePeriod, Approve
<1>6. CASE \/ \E caller \in Accounts : RegistryWrite(caller) /\ UNCHANGED <<potVars, now>>
           \/ Tick
  BY <1>4, <1>6 DEF Tick, potVars
<1> QED BY <1>1, <1>2, <1>3, <1>5, <1>6 DEF PotStep, PotWrite

LEMMA InitialBalances ==
    ASSUME PotSystemInit
    PROVE  BalancesMatch
<1> SUFFICES ASSUME NEW a \in Accounts PROVE balances[a] = Cardinality(NamesOf(a))
  BY DEF BalancesMatch, NamesOf
<1>1. NamesOf(a) = {} /\ balances[a] = 0
  BY RegistryAssumption
     DEF PotSystemInit, PotRegistrarInit, NamesOf, OwnerOf, Registered
<1> QED BY <1>1, FS_EmptySet

\* balance_of is exact, as long as a u32 can count the names.
THEOREM PotBalances == CountsFit => (PotSystemSpec => []BalancesMatch)
<1> SUFFICES ASSUME CountsFit PROVE PotSystemSpec => []BalancesMatch
  OBVIOUS
<1>1. PotSystemInit => BalancesMatch
  BY InitialBalances
<1>2. PotTypeOK /\ BalancesMatch /\ [PotSystemNext]_potSystemVars => BalancesMatch'
  <2>1. ASSUME PotTypeOK, BalancesMatch, PotSystemNext PROVE BalancesMatch'
    BY <2>1, NextIsPotStep, StepBalances, RegistryAssumption
  <2>2. ASSUME BalancesMatch, UNCHANGED potSystemVars PROVE BalancesMatch'
    BY <2>2, SameBalances DEF OwnerOf, Registered, potSystemVars, potVars
  <2> QED BY <2>1, <2>2
<1> QED BY <1>1, <1>2, PotTyped, PTL DEF PotSystemSpec

-----------------------------------------------------------------------------
(* The lease: the mapping is that of PotRegistrar!Lease.  What it needs of  *)
(* a reachable state is that it is well typed and that a name that was never *)
(* held has no approval.                                                    *)

\* What the mapping makes of an entry, and of the one after a step.
LEMMA MappedEntry ==
    ASSUME NEW l \in Labels
    PROVE  /\ Lease!Leased(l) <=> OwnerOf(l) # None
           /\ [m \in Labels |-> OwnerOf(m)][l] = OwnerOf(l)
           /\ [m \in Labels |-> OwnerOf(m)]'[l] = OwnerOf(l)'
  BY DEF Lease!Leased

LEMMA RegisteredIsLeased ==
    ASSUME PotTypeOK, NEW l \in Labels
    PROVE  Registered(l) <=> OwnerOf(l) # None
  BY RegisteredTyped, RegistryAssumption DEF OwnerOf

\* A name is kept, in the sense of NameLease, unless it is available.
LEMMA KeptUnlessAvailable ==
    ASSUME PotTypeOK, NEW l \in Labels
    PROVE  Lease!Kept(l) <=> Registered(l) /\ now < registrations[l].expires + gracePeriod
  BY RegisteredIsLeased DEF Lease!Kept, Lease!Leased

\* A step that leaves the entries and approvals of all other names alone.
LEMMA OnlyOneName ==
    ASSUME PotTypeOK, PotTypeOK', NEW l \in Labels,
           \A m \in Labels \ {l} : /\ registrations'[m] = registrations[m]
                                   /\ approvals'[m] = approvals[m],
           UNCHANGED <<gracePeriod, now>>
    PROVE  Lease!Only(l)
<1> DEFINE H == [m \in Labels |-> OwnerOf(m)]
           U == [m \in Labels |-> IF Registered(m) THEN registrations[m].expires ELSE None]
<1>1. \A m \in Labels \ {l} : OwnerOf(m)' = OwnerOf(m) /\ (Registered(m)' <=> Registered(m))
  BY DEF OwnerOf, Registered
<1>2. H' = [H EXCEPT ![l] = H'[l]]
  BY <1>1
<1>3. U' = [U EXCEPT ![l] = U'[l]]
  BY <1>1
<1>4. approvals' = [approvals EXCEPT ![l] = approvals'[l]]
  BY DEF PotTypeOK
<1> QED BY <1>2, <1>3, <1>4 DEF Lease!Only

LEMMA RegisterGrants ==
    ASSUME PotTypeOK, PotTypeOK', ApprovalsNeedEntry, NEW caller, NEW l \in Labels,
           NEW owner \in Accounts, NEW duration \in Durations,
           Register(caller, l, owner, duration)
    PROVE  Lease!Grant(l)
<1>1. /\ Available(l) /\ duration >= MinDuration
      /\ registrations'[l] = [owner |-> owner, expires |-> SatAdd(now, duration)]
      /\ Registered(l)' /\ OwnerOf(l)' = owner
  BY RegisterEntry
<1>2. /\ now \in Nat /\ duration \in Nat /\ MinDuration \in Nat /\ MaxU64 \in Nat
      /\ SatAdd(now, duration) \in 0..MaxU64
      /\ SatAdd(now, duration) = MaxU64 \/ SatAdd(now, duration) = now + duration
  BY TimesAreNat, SatAddBounds, PotRegistrarAssumption
<1>3. ~Lease!Kept(l)
  BY <1>1, KeptUnlessAvailable, NotAvailableInGrace
<1>4. approvals'[l] = None
  <2>1. CASE Registered(l)
    BY <2>1 DEF Register, ApprovalsAfterHandover, PotTypeOK
  <2>2. CASE ~Registered(l)
    BY <2>2 DEF Register, ApprovalsNeedEntry
  <2> QED BY <2>1, <2>2
<1>5. registrations'[l].expires = SatAdd(now, duration)
  BY <1>1
<1>6. Lease!Term(now, SatAdd(now, duration))
  BY <1>1, <1>2 DEF Lease!Term
<1>7. Lease!Only(l)
  BY OnlyOneName DEF Register, ApprovalsAfterHandover, PotTypeOK
<1> QED BY <1>1, <1>2, <1>3, <1>4, <1>5, <1>6, <1>7 DEF Lease!Grant

LEMMA RenewProlongs ==
    ASSUME PotTypeOK, PotTypeOK', NEW caller, NEW l \in Labels,
           NEW duration \in Durations, Renew(caller, l, duration)
    PROVE  Lease!Prolong(l)
<1>1. /\ Registered(l) /\ now < GraceEnd(l) /\ duration >= MinDuration
      /\ registrations'[l].expires = SatAdd(registrations[l].expires, duration)
      /\ Registered(l)' /\ OwnerOf(l)' = OwnerOf(l)
  BY RenewEntry
<1> DEFINE e == registrations[l].expires
<1>2. /\ e \in Nat /\ e <= MaxU64 /\ duration \in Nat /\ MinDuration \in Nat /\ MaxU64 \in Nat
  BY <1>1, RegisteredTyped, TimesAreNat, PotRegistrarAssumption
<1>3. /\ SatAdd(e, duration) \in e..MaxU64
      /\ Lease!Term(e, SatAdd(e, duration))
  <2>1. /\ SatAdd(e, duration) \in 0..MaxU64 /\ SatAdd(e, duration) >= e
        /\ SatAdd(e, duration) = MaxU64 \/ SatAdd(e, duration) = e + duration
    BY <1>2, SatAddBounds
  <2>2. SatAdd(e, duration) \in e..MaxU64
    BY <1>2, <2>1
  <2>3. SatAdd(e, duration) = MaxU64 \/ SatAdd(e, duration) >= e + MinDuration
    BY <1>1, <1>2, <2>1
  <2> QED BY <2>2, <2>3 DEF Lease!Term
<1>4. Lease!Kept(l)
  BY <1>1, KeptUnlessAvailable, GraceInTrueTime
<1>5. Lease!Only(l)
  BY OnlyOneName DEF Renew, PotTypeOK
<1>6. /\ approvals' = approvals
      /\ [m \in Labels |-> OwnerOf(m)]' = [m \in Labels |-> OwnerOf(m)]
  <2>1. \A m \in Labels \ {l} : OwnerOf(m)' = OwnerOf(m)
    BY DEF Renew, OwnerOf, Registered, PotTypeOK
  <2> QED BY <1>1, <2>1 DEF Renew
<1> QED BY <1>1, <1>3, <1>4, <1>5, <1>6 DEF Lease!Prolong

LEMMA TransferHandsOver ==
    ASSUME PotTypeOK, PotTypeOK', NEW caller \in Signers, NEW l \in Labels,
           NEW to \in Accounts, Transfer(caller, l, to)
    PROVE  Lease!HandOver(l)
<1>1. /\ Registered(l) /\ caller \in {OwnerOf(l), approvals[l]}
      /\ registrations'[l].expires = registrations[l].expires
      /\ Registered(l)' /\ OwnerOf(l)' = to
  BY TransferEntry
<1> DEFINE U == [m \in Labels |-> IF Registered(m) THEN registrations[m].expires ELSE None]
<1>2. U' = U
  <2>1. \A m \in Labels \ {l} : /\ registrations'[m] = registrations[m]
                                /\ Registered(m)' <=> Registered(m)
    BY DEF Transfer, Registered, PotTypeOK
  <2> QED BY <1>1, <2>1
<1>3. approvals'[l] = None
  BY DEF Transfer, ApprovalsAfterHandover, PotTypeOK
<1>4. Lease!Only(l)
  BY OnlyOneName DEF Transfer, ApprovalsAfterHandover, PotTypeOK
<1>5. Lease!Leased(l)
  BY <1>1, RegisteredIsLeased DEF Lease!Leased
<1> QED BY <1>1, <1>2, <1>3, <1>4, <1>5 DEF Lease!HandOver

LEMMA ApproveAppoints ==
    ASSUME PotTypeOK, PotTypeOK', NEW caller \in Signers, NEW l \in Labels,
           NEW who \in Accounts, Approve(caller, l, who)
    PROVE  Lease!Appoint(l)
<1> DEFINE H == [m \in Labels |-> OwnerOf(m)]
           U == [m \in Labels |-> IF Registered(m) THEN registrations[m].expires ELSE None]
<1>1. Lease!Only(l)
  BY OnlyOneName DEF Approve, PotTypeOK
<1>2. H' = H /\ U' = U
  BY DEF Approve, OwnerOf, Registered
<1>3. Lease!Leased(l) /\ OwnerOf(l) \in Signers /\ approvals'[l] \in Accounts
  BY RegisteredIsLeased DEF Approve, Lease!Leased, PotTypeOK
<1> QED BY <1>1, <1>2, <1>3 DEF Lease!Appoint

\* Every step of the two contracts is one of NameLease, or does not show there.
LEMMA StepLeases ==
    ASSUME PotTypeOK, PotTypeOK', ApprovalsNeedEntry, PotStep(Signers)
    PROVE  Lease!LeaseNext \/ UNCHANGED Lease!leaseVars
<1> USE NamesAreLabels
<1>1. CASE UNCHANGED <<potVars, now>>
  BY <1>1 DEF potVars, OwnerOf, Registered, Lease!leaseVars
<1>2. CASE Tick
  BY <1>2 DEF Tick, potVars, OwnerOf, Registered, Lease!LeaseNext, Lease!Pass
<1>3. ASSUME NEW caller \in Signers, PotWrite(caller)
      PROVE  Lease!LeaseNext \/ UNCHANGED Lease!leaseVars
  <2>1. CASE \E who \in Accounts : \/ SetRegistrarAdmin(caller, who)
                                   \/ AddController(caller, who)
                                   \/ RemoveController(caller, who)
    BY <2>1 DEF SetRegistrarAdmin, AddController, RemoveController,
                OwnerOf, Registered, Lease!leaseVars
  <2>2. CASE \E ms \in Graces : SetGracePeriod(caller, ms)
    BY <2>2, PotRegistrarAssumption
       DEF SetGracePeriod, OwnerOf, Registered, Lease!LeaseNext, Lease!ChangeGrace
  <2>3. CASE \E label \in Names, owner \in Accounts, duration \in Durations :
                 Register(caller, label, owner, duration)
    BY <2>3, RegisterGrants DEF Lease!LeaseNext
  <2>4. CASE \E label \in Names, duration \in Durations : Renew(caller, label, duration)
    BY <2>4, RenewProlongs DEF Lease!LeaseNext
  <2>5. CASE \E label \in Names, to \in Accounts : Transfer(caller, label, to)
    BY <2>5, TransferHandsOver DEF Lease!LeaseNext
  <2>6. CASE \E label \in Names, to \in Accounts : Approve(caller, label, to)
    BY <2>6, ApproveAppoints DEF Lease!LeaseNext
  <2> QED BY <1>3, <2>1, <2>2, <2>3, <2>4, <2>5, <2>6 DEF PotWrite
<1> QED BY <1>1, <1>2, <1>3 DEF PotStep

LEMMA InitialLease ==
    ASSUME PotSystemInit
    PROVE  Lease!LeaseInit
  BY PotRegistrarAssumption
     DEF PotSystemInit, PotRegistrarInit, OwnerOf, Registered, Lease!LeaseInit

\* Registrations are leases: the PotRegistrar grants, prolongs and hands over
\* names as NameLease says, and does nothing else to them.
THEOREM PotImplementsNameLease == PotSystemSpec => ImplementsNameLease
<1>1. PotSystemInit => Lease!LeaseInit
  BY InitialLease
<1>2. PotTypeOK /\ PotTypeOK' /\ ApprovalsNeedEntry /\ [PotSystemNext]_potSystemVars
        => [Lease!LeaseNext]_(Lease!leaseVars)
  <2>1. ASSUME PotTypeOK, PotTypeOK', ApprovalsNeedEntry, PotSystemNext
        PROVE  [Lease!LeaseNext]_(Lease!leaseVars)
    BY <2>1, NextIsPotStep, StepLeases
  <2>2. ASSUME UNCHANGED potSystemVars PROVE UNCHANGED Lease!leaseVars
    BY <2>2 DEF potSystemVars, potVars, OwnerOf, Registered, Lease!leaseVars
  <2> QED BY <2>1, <2>2
<1> QED BY <1>1, <1>2, PotTyped, PotApprovalsNeedEntry, PTL
        DEF PotSystemSpec, ImplementsNameLease, Lease!LeaseSpec

=============================================================================
