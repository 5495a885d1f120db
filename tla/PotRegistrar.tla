---------------------------- MODULE PotRegistrar ----------------------------
(***************************************************************************)
(* contracts/pot_registrar/lib.rs: who holds which name under .pot, and     *)
(* until when.  Controllers mint and renew; a holder, or the account it     *)
(* approved, transfers; every change of holder is mirrored into the         *)
(* Registry by a cross-contract call made in the PotRegistrar's own name.   *)
(*                                                                          *)
(* The contract keeps two u64 and u32 quantities, times and balances, whose *)
(* arithmetic saturates at MaxU64 and MaxU32.  The clock is the block       *)
(* timestamp.                                                               *)
(*                                                                          *)
(* ErrRollsBack is a property of the contract language's runtime, not of    *)
(* this code: whether the state written by a message that ends with `?` on  *)
(* an Err is undone.  A message that fails before it writes anything does   *)
(* nothing either way, so only a message with such a late failure has a     *)
(* disjunct for it.                                                         *)
(***************************************************************************)
EXTENDS Registry, FiniteSets

CONSTANTS
    PotRegistrarId,     \* the account of this contract
    PotNode,            \* the node id of .pot, fixed at deployment
    MinDuration,        \* MIN_DURATION_MS, 28 days
    DefaultGrace,       \* DEFAULT_GRACE_MS, 90 days
    Durations,          \* the values that inputs name as duration_ms
    Graces,             \* the grace periods that inputs name
    Admins,             \* the accounts that inputs name as an admin
    Controllers,        \* the accounts that inputs name as a controller
    MaxU64,             \* where times saturate
    MaxU32,             \* where balances saturate
    MaxTime,            \* bound on the clock
    ErrRollsBack        \* see above

ASSUME PotRegistrarAssumption ==
    /\ PotRegistrarId \in Accounts
    /\ PotNode \in Nodes
    /\ MinDuration \in Nat /\ MinDuration > 0
    /\ DefaultGrace \in Graces
    /\ Admins \subseteq Accounts
    /\ Controllers \subseteq Accounts
    /\ Durations \subseteq 0..MaxU64
    /\ Graces \subseteq 0..MaxU64
    /\ MaxU64 \in Nat /\ MaxU32 \in Nat
    /\ MaxTime \in Nat /\ MaxTime < MaxU64
    /\ ErrRollsBack \in BOOLEAN

Registration == [owner : Accounts, expires : 0..MaxU64]

ASSUME NoneIsNoRegistration == None \notin Registration

VARIABLES
    registrations,      \* registrations[l] = None: no entry
    approvals,          \* approvals[l] = None: no entry
    balances,           \* a missing entry counts as 0
    controllers,        \* the accounts mapped to true
    registrarAdmin,
    gracePeriod,
    now                 \* block_timestamp

potVars == <<registrations, approvals, balances, controllers,
             registrarAdmin, gracePeriod>>
potSystemVars == <<records, potVars, now>>

-----------------------------------------------------------------------------

\* Mutant: the addition is not saturating.
PlainAdd(a, b) == a + b

\* Mutant: the addition wraps around.
WrappingAdd(a, b) == (a + b) % (MaxU64 + 1)

SatAdd(a, b) == IF a + b > MaxU64 THEN MaxU64 ELSE a + b

NodeOf(label) == NamehashStep(PotNode, label)

Registered(label) == registrations[label] # None

OwnerOf(label) == IF Registered(label) THEN registrations[label].owner ELSE None

\* The instant from which a registered name is past its grace period.
GraceEnd(label) == SatAdd(registrations[label].expires, gracePeriod)

\* Mutant: the grace period is forgotten.
AvailableOnExpiry(label) == Registered(label) => now >= registrations[label].expires

Available(label) == Registered(label) => now >= GraceEnd(label)

IncBalance(bals, who) ==
    [bals EXCEPT ![who] = IF @ < MaxU32 THEN @ + 1 ELSE @]

DecBalance(bals, who) ==
    [bals EXCEPT ![who] = IF @ > 0 THEN @ - 1 ELSE @]

\* Mutant: the former holder keeps its count.
BalancesNoDecrement(label, to) == IncBalance(balances, to)

\* The balances once `label` goes from its holder to `to`.
BalancesAfterHandover(label, to) ==
    IncBalance(DecBalance(balances, OwnerOf(label)), to)

\* Mutant: the approval survives.
ApprovalsKept(label) == approvals

ApprovalsAfterHandover(label) == [approvals EXCEPT ![label] = None]

\* Mutant: the Registry's refusal is ignored.
MirrorOwnerIgnoringErr(label, owner) ==
    \/ SetSubnodeOwner(PotRegistrarId, PotNode, label, owner)
    \/ ~OnlyOwner(PotRegistrarId, PotNode) /\ UNCHANGED records

\* The call to Registry.set_subnode_owner(pot_node, label, owner), the last
\* thing that can fail in register and transfer.
MirrorOwner(label, owner) ==
    \/ SetSubnodeOwner(PotRegistrarId, PotNode, label, owner)
    \/ /\ ~ErrRollsBack
       /\ ~OnlyOwner(PotRegistrarId, PotNode)
       /\ UNCHANGED records

-----------------------------------------------------------------------------

PotRegistrarInit ==
    /\ registrations = [l \in Labels |-> None]
    /\ approvals = [l \in Labels |-> None]
    /\ balances = [a \in Accounts |-> 0]
    /\ controllers = {}
    /\ registrarAdmin = Deployer
    /\ gracePeriod = DefaultGrace
    /\ now = 0

SetRegistrarAdmin(caller, who) ==
    /\ caller = registrarAdmin
    /\ registrarAdmin' = who
    /\ UNCHANGED <<records, registrations, approvals, balances, controllers,
                   gracePeriod, now>>

AddController(caller, controller) ==
    /\ caller = registrarAdmin
    /\ controllers' = controllers \cup {controller}
    /\ UNCHANGED <<records, registrations, approvals, balances,
                   registrarAdmin, gracePeriod, now>>

RemoveController(caller, controller) ==
    /\ caller = registrarAdmin
    /\ controllers' = controllers \ {controller}
    /\ UNCHANGED <<records, registrations, approvals, balances,
                   registrarAdmin, gracePeriod, now>>

SetGracePeriod(caller, ms) ==
    /\ caller = registrarAdmin
    /\ gracePeriod' = ms
    /\ UNCHANGED <<records, registrations, approvals, balances, controllers,
                   registrarAdmin, now>>

\* What register checks before it writes.
CanRegister(caller, label, duration) ==
    /\ caller \in controllers
    /\ duration >= MinDuration
    /\ Available(label)

\* Mints a name.  The entry of a holder whose grace is over is evicted.
Register(caller, label, owner, duration) ==
    /\ CanRegister(caller, label, duration)
    /\ registrations' = [registrations EXCEPT ![label] =
                           [owner |-> owner, expires |-> SatAdd(now, duration)]]
    /\ IF Registered(label)
       THEN /\ approvals' = ApprovalsAfterHandover(label)
            /\ balances' = BalancesAfterHandover(label, owner)
       ELSE /\ UNCHANGED approvals
            /\ balances' = IncBalance(balances, owner)
    /\ MirrorOwner(label, owner)
    /\ UNCHANGED <<controllers, registrarAdmin, gracePeriod, now>>

\* Mutant: no minimum on the duration of a renewal.
CanRenewShortly(caller, label, duration) ==
    /\ caller \in controllers
    /\ Registered(label)
    /\ now < GraceEnd(label)

\* What renew checks before it writes.
CanRenew(caller, label, duration) ==
    /\ caller \in controllers
    /\ duration >= MinDuration
    /\ Registered(label)
    /\ now < GraceEnd(label)

\* Mutant: the copy of the entry is extended, and not inserted back.
RenewCopyOnly(caller, label, duration) ==
    /\ CanRenew(caller, label, duration)
    /\ UNCHANGED potSystemVars

\* Mutant: the name is extended from now.
RenewFromNow(caller, label, duration) ==
    /\ CanRenew(caller, label, duration)
    /\ registrations' = [registrations EXCEPT ![label].expires = SatAdd(now, duration)]
    /\ UNCHANGED <<records, approvals, balances, controllers, registrarAdmin,
                   gracePeriod, now>>

\* Extends a name from its expiry, not from now.
Renew(caller, label, duration) ==
    /\ CanRenew(caller, label, duration)
    /\ registrations' = [registrations EXCEPT ![label].expires = SatAdd(@, duration)]
    /\ UNCHANGED <<records, approvals, balances, controllers, registrarAdmin,
                   gracePeriod, now>>

\* Hands a name over, expired or not, until it is evicted.
Transfer(caller, label, to) ==
    /\ Registered(label)
    /\ caller \in {OwnerOf(label), approvals[label]}
    /\ balances' = BalancesAfterHandover(label, to)
    /\ approvals' = ApprovalsAfterHandover(label)
    /\ registrations' = [registrations EXCEPT ![label].owner = to]
    /\ MirrorOwner(label, to)
    /\ UNCHANGED <<controllers, registrarAdmin, gracePeriod, now>>

Approve(caller, label, approved) ==
    /\ Registered(label)
    /\ caller = OwnerOf(label)
    /\ approvals' = [approvals EXCEPT ![label] = approved]
    /\ UNCHANGED <<records, registrations, balances, controllers,
                   registrarAdmin, gracePeriod, now>>

-----------------------------------------------------------------------------

\* The names considered: those whose node is within the bound on the tree.
Names == {l \in Labels : NodeOf(l) \in Nodes}

\* A message sent to the PotRegistrar by one of the signing accounts.
PotRegistrarNext ==
    \E caller \in Signers :
        \/ \E who \in Admins : SetRegistrarAdmin(caller, who)
        \/ \E who \in Controllers :
               \/ AddController(caller, who)
               \/ RemoveController(caller, who)
        \/ \E ms \in Graces : SetGracePeriod(caller, ms)
        \/ \E label \in Names, duration \in Durations :
               \/ \E owner \in Heirs : Register(caller, label, owner, duration)
               \/ Renew(caller, label, duration)
        \/ \E label \in Names, who \in Heirs :
               \/ Transfer(caller, label, who)
               \/ Approve(caller, label, who)

\* A block with a later timestamp.
Tick ==
    /\ now < MaxTime
    /\ now' = now + 1
    /\ UNCHANGED <<records, potVars>>

PotSystemInit == RegistryInit /\ PotRegistrarInit

PotSystemNext ==
    \/ RegistryNext /\ UNCHANGED <<potVars, now>>
    \/ PotRegistrarNext
    \/ Tick

PotSystemSpec == PotSystemInit /\ [][PotSystemNext]_potSystemVars
-----------------------------------------------------------------------------

\* Every variable holds a value of its Rust type, the clock is in bounds.
PotTypeOK ==
    /\ RegistryTypeOK
    /\ registrations \in [Labels -> Registration \cup {None}]
    /\ approvals \in [Labels -> Accounts \cup {None}]
    /\ balances \in [Accounts -> 0..MaxU32]
    /\ controllers \subseteq Accounts
    /\ registrarAdmin \in Accounts
    /\ gracePeriod \in Graces
    /\ now \in 0..MaxTime

\* balance_of(a) is the number of names a holds, through evictions, transfers
\* to oneself and re-registrations by the same holder.
BalancesMatch ==
    \A a \in Accounts : balances[a] = Cardinality({l \in Labels : OwnerOf(l) = a})

\* An approval does not outlive the tenure it was given in: the account that
\* a former holder approved has no say once the name has a new holder.
ApprovalsFollowHolder ==
    [][\A l \in Labels : OwnerOf(l)' # OwnerOf(l) => approvals'[l] = None]_potSystemVars

\* Until its grace period is over, in true arithmetic, a name keeps its entry,
\* never loses time, and changes hands only at the will of its holder or of
\* the account it approved, with the time it had left.
NoTakeover ==
    [][\A l \in Labels :
          Registered(l) /\ now < registrations[l].expires + gracePeriod =>
              /\ Registered(l)'
              /\ registrations'[l].expires >= registrations[l].expires
              /\ OwnerOf(l)' # OwnerOf(l) =>
                     /\ {OwnerOf(l), approvals[l]} \cap Signers # {}
                     /\ registrations'[l].expires = registrations[l].expires]_potSystemVars

\* Whatever sets an expiry grants at least the minimum duration, counted from
\* now for a mint and from the old expiry for a renewal, however close to the
\* end of u64 it is.
LeaseAtLeastMinimum ==
    [][\A l \in Labels :
          /\ Registered(l)'
          /\ Registered(l) => registrations'[l].expires # registrations[l].expires
          => \/ registrations'[l].expires = MaxU64
             \/ registrations'[l].expires
                  >= MinDuration + IF Available(l) THEN now
                                   ELSE registrations[l].expires]_potSystemVars

\* When failed messages are rolled back, no name changes hands in the
\* PotRegistrar without its node in the Registry going to the same account in
\* the same step (the comment above the mirror call in transfer).
HandoverMirrored ==
    [][\A l \in Labels :
          OwnerOf(l)' # OwnerOf(l) =>
              NodeOwner(NodeOf(l))' = OwnerOf(l)']_potSystemVars

-----------------------------------------------------------------------------

\* A registration is a lease, an approval the appointment of a delegate.
Lease == INSTANCE NameLease WITH
    Leasable  <- Labels,
    Holders   <- Accounts,
    Actors    <- Signers,
    MinTerm   <- MinDuration,
    EndOfTime <- MaxU64,
    Unleased  <- None,
    holder    <- [l \in Labels |-> OwnerOf(l)],
    delegate  <- approvals,
    until     <- [l \in Labels |->
                    IF Registered(l) THEN registrations[l].expires ELSE None],
    grace     <- gracePeriod,
    clock     <- now

\* With its saturating sums, its evictions, its delegates and its mirror in the
\* Registry, the PotRegistrar leases names and does nothing else to them.
ImplementsNameLease == Lease!LeaseSpec

=============================================================================
