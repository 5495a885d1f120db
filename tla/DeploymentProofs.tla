-------------------------- MODULE DeploymentProofs --------------------------
(***************************************************************************)
(* What the contracts guarantee once they are put together: while the       *)
(* script wires them, after it, and if it stops half-way, for any accounts, *)
(* names, prices, payments and widths of the integers.                      *)
(*                                                                          *)
(* The controller calls the PotRegistrar in its own name and moves money;   *)
(* the script sends messages as the Deployer.  MarketSteps says what each   *)
(* of them does to the PotRegistrar and its Registry, so that the facts     *)
(* about single steps proved of those two apply.                            *)
(*                                                                          *)
(* The dApp's registration, which uses these contracts, is the last part.   *)
(***************************************************************************)
EXTENDS Deployment, MintFlow, PotRegistrarProofs

\* A mint or a renewal that the controller asks for.
ControllerCall ==
    \E label \in Names, duration \in Durations :
        \/ \E owner \in Accounts : Register(ControllerId, label, owner, duration)
        \/ Renew(ControllerId, label, duration)

\* What a message to the market does to the two naming contracts.
LEMMA MarketNextSteps ==
    ASSUME MarketNext
    PROVE  \/ PotSystemNext /\ UNCHANGED controllerVars
           \/ ControllerCall
           \/ UNCHANGED potSystemVars
<1>1. CASE ControllerNext
  <2>1. PICK caller \in Signers :
          \/ \E tiers \in PriceTables : SetPrices(caller, tiers)
          \/ \E window \in Windows : SetCommitAgeWindow(caller, window)
          \/ \E who \in Treasuries : SetTreasury(caller, who)
          \/ \E c \in Commitments : Commit(c)
          \/ \E name \in Names, duration \in Durations, paid \in Payments :
                 \/ \E owner \in Heirs, secret \in Secrets :
                        \/ Reveal(caller, name, owner, duration, secret, paid)
                        \/ FailedReveal(caller, name, owner, duration, secret, paid)
                 \/ GiftRenewal(caller, name, duration, paid)
                 \/ FailedRenewal(caller, name, duration, paid)
    BY <1>1 DEF ControllerNext
  <2>2. CASE \/ \E tiers \in PriceTables : SetPrices(caller, tiers)
             \/ \E window \in Windows : SetCommitAgeWindow(caller, window)
             \/ \E who \in Treasuries : SetTreasury(caller, who)
             \/ \E c \in Commitments : Commit(c)
    BY <2>2 DEF SetPrices, SetCommitAgeWindow, SetTreasury, Commit
  <2>3. CASE \E name \in Names, duration \in Durations, paid \in Payments :
                 \/ \E owner \in Heirs, secret \in Secrets :
                        FailedReveal(caller, name, owner, duration, secret, paid)
                 \/ FailedRenewal(caller, name, duration, paid)
    BY <2>3 DEF FailedReveal, FailedRenewal
  <2>4. CASE \E name \in Names, duration \in Durations, paid \in Payments :
                 \/ \E owner \in Heirs, secret \in Secrets :
                        Reveal(caller, name, owner, duration, secret, paid)
                 \/ GiftRenewal(caller, name, duration, paid)
    BY <2>4, RegistryAssumption DEF Reveal, GiftRenewal, ControllerCall
  <2> QED BY <2>1, <2>2, <2>3, <2>4
<1> QED BY <1>1 DEF MarketNext

\* What a step of the deployment does to them.
LEMMA MarketSteps ==
    ASSUME DeploymentNext
    PROVE  \/ PotSystemNext /\ UNCHANGED controllerVars
           \/ ControllerCall
           \/ AddController(Deployer, ControllerId) /\ UNCHANGED controllerVars
           \/ RegistryWrite(Deployer) /\ UNCHANGED <<potVars, now, controllerVars>>
           \/ UNCHANGED potSystemVars
<1>1. CASE WiringStep
  <2>1. CASE WirePot \/ WireReverse \/ WireAddrReverse
    BY <2>1, DeploymentAssumption, RegistryAssumption, PotRegistrarAssumption
       DEF WirePot, WireReverse, WireAddrReverse, RegistryWrite, Root
  <2>2. CASE AuthorizeController
    BY <2>2 DEF AuthorizeController
  <2>3. CASE OpenCommitWindow
    BY <2>3 DEF OpenCommitWindow, SetCommitAgeWindow
  <2> QED BY <1>1, <2>1, <2>2, <2>3 DEF WiringStep
<1> QED BY <1>1, MarketNextSteps DEF DeploymentNext

\* Those who write to the two contracts.
MarketCallers == Signers \cup {ControllerId, Deployer}

LEMMA CallersAreAccounts == MarketCallers \subseteq Accounts
  BY RegistryAssumption, ControllerAssumption DEF MarketCallers

LEMMA MarketPotStep ==
    ASSUME DeploymentNext
    PROVE  PotStep(MarketCallers) \/ UNCHANGED potSystemVars
<1>1. CASE PotSystemNext
  BY <1>1, NextIsPotStep DEF PotStep, MarketCallers
<1>2. CASE ControllerCall
  BY <1>2 DEF ControllerCall, PotStep, PotWrite, MarketCallers
<1>3. CASE AddController(Deployer, ControllerId)
  BY <1>3, ControllerAssumption DEF PotStep, PotWrite, MarketCallers
<1>4. CASE RegistryWrite(Deployer) /\ UNCHANGED <<potVars, now>>
  BY <1>4, RegistryAssumption DEF PotStep
<1> QED BY <1>1, <1>2, <1>3, <1>4, MarketSteps

-----------------------------------------------------------------------------
(* Money.                                                                   *)

\* A transfer of what is there leaves every balance a natural.
LEMMA MoveTyped ==
    ASSUME NEW bals \in [Accounts -> Nat], NEW from \in Accounts, NEW to \in Accounts,
           NEW amount \in Nat, amount <= bals[from]
    PROVE  /\ Move(bals, from, to, amount) \in [Accounts -> Nat]
           /\ \A a \in Accounts \ {from} :
                  Move(bals, from, to, amount)[a]
                    = bals[a] + IF a = to THEN amount ELSE 0
  BY DEF Move

LEMMA QuoteTyped ==
    ASSUME prices \in PriceTiers, NEW len \in Nat, NEW d \in Nat
    PROVE  /\ PricePerYear(len) \in Nat
           /\ SatMul(PricePerYear(len), d) \in Nat
           /\ Quote(len, d) \in Nat
<1>1. PricePerYear(len) \in Nat
  <2>1. /\ prices.premium \in Nat /\ prices.high \in Nat
        /\ prices.medium \in Nat /\ prices.base \in Nat
    BY ControllerAssumption DEF PriceTiers
  <2> QED BY <2>1 DEF PricePerYear
<1>2. SatMul(PricePerYear(len), d) \in Nat
  BY <1>1, ControllerAssumption DEF SatMul
<1> QED BY <1>1, <1>2, ControllerAssumption DEF Quote

\* More time is never quoted at a lower price.
LEMMA QuoteMonotone ==
    ASSUME prices \in PriceTiers, NEW len \in Nat, NEW d \in Nat, NEW e \in Nat, d <= e
    PROVE  Quote(len, d) <= Quote(len, e)
<1> DEFINE p == PricePerYear(len)
<1>1. p \in Nat /\ SatMul(p, d) \in Nat /\ SatMul(p, e) \in Nat
  BY QuoteTyped
<1>2. p * d <= p * e
  <2>1. e = d + (e - d) /\ e - d \in Nat
    OBVIOUS
  <2>2. p * e = p * d + p * (e - d)
    BY <1>1, <2>1
  <2>3. p * (e - d) \in Nat /\ p * d \in Nat
    BY <1>1, <2>1
  <2> QED BY <2>2, <2>3
<1>3. SatMul(p, d) <= SatMul(p, e)
  BY <1>1, <1>2, ControllerAssumption DEF SatMul
<1>4. \A a, b \in Nat : a <= b => a \div Year <= b \div Year
  BY ControllerAssumption
<1> QED BY <1>1, <1>3, <1>4 DEF Quote

\* The value sent along a call goes from the caller to the controller.
LEMMA DepositTyped ==
    ASSUME funds \in [Accounts -> Nat], NEW caller \in Signers, NEW paid \in Nat,
           paid <= funds[caller]
    PROVE  /\ Deposit(caller, paid) \in [Accounts -> Nat]
           /\ \A a \in Accounts \ {caller} :
                  Deposit(caller, paid)[a] = funds[a] + IF a = ControllerId THEN paid ELSE 0
<1>1. caller \in Accounts /\ ControllerId \in Accounts
  BY RegistryAssumption, ControllerAssumption
<1> QED BY <1>1, MoveTyped DEF Deposit

\* Where a payment that covers what is owed goes.
LEMMA SettleTyped ==
    ASSUME funds \in [Accounts -> Nat], treasury \in Accounts,
           NEW caller \in Signers, NEW paid \in Nat, NEW owed \in Nat,
           paid <= funds[caller], owed <= paid
    PROVE  /\ Settle(caller, paid, owed) \in [Accounts -> Nat]
           /\ treasury # caller =>
                  Settle(caller, paid, owed)[treasury] >= funds[treasury] + owed
<1> DEFINE held == Deposit(caller, paid)
           left == Move(held, ControllerId, treasury, owed)
<1>1. /\ caller # ControllerId /\ ControllerId \in Accounts
      /\ funds[ControllerId] \in Nat /\ funds[treasury] \in Nat
  BY ControllerAssumption
<1>2. /\ held \in [Accounts -> Nat]
      /\ held[ControllerId] = funds[ControllerId] + paid
      /\ treasury \notin {caller, ControllerId} => held[treasury] = funds[treasury]
  BY <1>1, DepositTyped
<1>3. CASE treasury = ControllerId
  BY <1>1, <1>2, <1>3 DEF Settle
<1>4. CASE treasury # ControllerId
  <2> HIDE DEF held
  <2>1. owed <= held[ControllerId]
    BY <1>1, <1>2
  <2>2. /\ left \in [Accounts -> Nat]
        /\ left[treasury] = held[treasury] + owed
    BY <1>1, <1>2, <1>4, <2>1, MoveTyped
  <2>3. Settle(caller, paid, owed) = left
    BY <1>4 DEF Settle, held
  <2> QED BY <1>1, <1>2, <1>4, <2>2, <2>3
<1> QED BY <1>3, <1>4

-----------------------------------------------------------------------------
(* Types.                                                                   *)

\* What MarketTypeOK says of the controller.
ControllerTypeOK ==
    /\ commitments \in [Commitments -> 0..MaxTime \cup {None}]
    /\ prices \in PriceTiers
    /\ minCommitAge \in 0..MaxU64
    /\ maxCommitAge \in 0..MaxU64
    /\ controllerAdmin \in Accounts
    /\ treasury \in Accounts
    /\ funds \in [Accounts -> Nat]

LEMMA WindowTyped ==
    ASSUME NEW window \in Window
    PROVE  window[1] \in 0..MaxU64 /\ window[2] \in 0..MaxU64
  BY DEF Window

LEMMA CommitmentTyped ==
    ASSUME NEW name \in Names, NEW owner \in Heirs, NEW secret \in Secrets
    PROVE  MakeCommitment(name, owner, secret) \in Commitments
  BY DEF MakeCommitment, Commitments

LEMMA ControllerStepTyped ==
    ASSUME PotTypeOK, ControllerTypeOK, ControllerNext
    PROVE  ControllerTypeOK'
<1>1. PICK caller \in Signers :
        \/ \E tiers \in PriceTables : SetPrices(caller, tiers)
        \/ \E window \in Windows : SetCommitAgeWindow(caller, window)
        \/ \E who \in Treasuries : SetTreasury(caller, who)
        \/ \E c \in Commitments : Commit(c)
        \/ \E name \in Names, duration \in Durations, paid \in Payments :
               \/ \E owner \in Heirs, secret \in Secrets :
                      \/ Reveal(caller, name, owner, duration, secret, paid)
                      \/ FailedReveal(caller, name, owner, duration, secret, paid)
               \/ GiftRenewal(caller, name, duration, paid)
               \/ FailedRenewal(caller, name, duration, paid)
  BY DEF ControllerNext
<1>2. ASSUME NEW tiers \in PriceTables, SetPrices(caller, tiers)
      PROVE  ControllerTypeOK'
  BY <1>2, ControllerAssumption DEF SetPrices, ControllerTypeOK
<1>3. ASSUME NEW window \in Windows, SetCommitAgeWindow(caller, window)
      PROVE  ControllerTypeOK'
  BY <1>3, WindowTyped, ControllerAssumption DEF SetCommitAgeWindow, ControllerTypeOK
<1>4. ASSUME NEW who \in Treasuries, SetTreasury(caller, who)
      PROVE  ControllerTypeOK'
  BY <1>4, ControllerAssumption DEF SetTreasury, ControllerTypeOK
<1>5. ASSUME NEW c \in Commitments, Commit(c)
      PROVE  ControllerTypeOK'
  BY <1>5 DEF Commit, PotTypeOK, ControllerTypeOK, settingVars
<1>6. ASSUME NEW name \in Names, NEW duration \in Durations, NEW paid \in Payments
      PROVE  /\ paid \in Nat
             /\ Quote(NameLen[name], duration) \in Nat
  <2>1. duration \in Nat /\ NameLen[name] \in Nat
    BY TimesAreNat, NamesAreLabels, ControllerAssumption
  <2> QED BY <2>1, QuoteTyped, ControllerAssumption DEF ControllerTypeOK
<1>7. ASSUME NEW c \in Commitments
      PROVE  SpendCommitment(c) \in [Commitments -> 0..MaxTime \cup {None}]
  BY DEF SpendCommitment, ControllerTypeOK
<1>8. ASSUME NEW name \in Names, NEW duration \in Durations, NEW paid \in Payments,
             NEW owner \in Heirs, NEW secret \in Secrets,
             \/ Reveal(caller, name, owner, duration, secret, paid)
             \/ FailedReveal(caller, name, owner, duration, secret, paid)
      PROVE  ControllerTypeOK'
  <2> DEFINE c == MakeCommitment(name, owner, secret)
             owed == Quote(NameLen[name], duration)
  <2>1. paid \in Nat /\ owed \in Nat /\ c \in Commitments
    BY <1>6, CommitmentTyped
  <2>2. paid <= funds[caller] /\ UNCHANGED settingVars
    BY <1>8 DEF Reveal, FailedReveal
  <2>3. /\ Deposit(caller, paid) \in [Accounts -> Nat]
        /\ PaysRent(paid, owed) => Settle(caller, paid, owed) \in [Accounts -> Nat]
    <3>1. funds \in [Accounts -> Nat] /\ treasury \in Accounts
      BY DEF ControllerTypeOK
    <3>2. PaysRent(paid, owed) => owed <= paid
      BY <2>1 DEF PaysRent
    <3> QED BY <2>1, <2>2, <3>1, <3>2, DepositTyped, SettleTyped
  <2>4. SpendCommitment(c) \in [Commitments -> 0..MaxTime \cup {None}]
    BY <2>1, <1>7
  <2>5. /\ funds' = Deposit(caller, paid) \/ (PaysRent(paid, owed) /\ funds' = Settle(caller, paid, owed))
        /\ commitments' \in {commitments, SpendCommitment(c)}
    BY <1>8 DEF Reveal, FailedReveal
  <2> QED BY <2>2, <2>3, <2>4, <2>5 DEF ControllerTypeOK, settingVars
<1>9. ASSUME NEW name \in Names, NEW duration \in Durations, NEW paid \in Payments,
             \/ GiftRenewal(caller, name, duration, paid)
             \/ FailedRenewal(caller, name, duration, paid)
      PROVE  ControllerTypeOK'
  <2> DEFINE owed == Quote(NameLen[name], duration)
  <2>1. paid \in Nat /\ owed \in Nat
    BY <1>6
  <2>2. paid <= funds[caller] /\ UNCHANGED <<commitments, settingVars>>
    BY <1>9 DEF GiftRenewal, FailedRenewal
  <2>3. /\ Deposit(caller, paid) \in [Accounts -> Nat]
        /\ PaysRent(paid, owed) => Settle(caller, paid, owed) \in [Accounts -> Nat]
    <3>1. funds \in [Accounts -> Nat] /\ treasury \in Accounts
      BY DEF ControllerTypeOK
    <3>2. PaysRent(paid, owed) => owed <= paid
      BY <2>1 DEF PaysRent
    <3> QED BY <2>1, <2>2, <3>1, <3>2, DepositTyped, SettleTyped
  <2>4. funds' = Deposit(caller, paid) \/ (PaysRent(paid, owed) /\ funds' = Settle(caller, paid, owed))
    BY <1>9 DEF GiftRenewal, FailedRenewal
  <2> QED BY <2>2, <2>3, <2>4 DEF ControllerTypeOK, settingVars
<1> QED BY <1>1, <1>2, <1>3, <1>4, <1>5, <1>8, <1>9

\* The market is always well typed, and no balance goes below zero.
THEOREM MarketTyped == DeploymentSpec => []MarketTypeOK
<1>1. MarketTypeOK <=> PotTypeOK /\ ControllerTypeOK /\ wired \in 0..5
  BY DEF MarketTypeOK, ControllerTypeOK
<1>2. DeploymentInit => MarketTypeOK
  <2> SUFFICES ASSUME DeploymentInit PROVE MarketTypeOK
    OBVIOUS
  <2>1. RegistryTypeOK
    BY RegistryAssumption DEF DeploymentInit, MarketInit, PotSystemInit, RegistryInit,
                              RegistryTypeOK, Record, Root
  <2>2. PotTypeOK
    BY <2>1, RegistryAssumption, PotRegistrarAssumption
       DEF DeploymentInit, MarketInit, PotSystemInit, PotRegistrarInit, PotTypeOK
  <2>3. ControllerTypeOK
    BY WindowTyped, RegistryAssumption, ControllerAssumption
       DEF DeploymentInit, MarketInit, ControllerInit, ControllerTypeOK
  <2> QED BY <1>1, <2>2, <2>3 DEF DeploymentInit
<1>3. MarketTypeOK /\ [DeploymentNext]_deployVars => MarketTypeOK'
  <2> SUFFICES ASSUME PotTypeOK, ControllerTypeOK, wired \in 0..5,
                      [DeploymentNext]_deployVars
               PROVE  PotTypeOK' /\ ControllerTypeOK' /\ wired' \in 0..5
    BY <1>1 DEF MarketTypeOK, ControllerTypeOK
  <2>1. ASSUME UNCHANGED potSystemVars PROVE PotTypeOK'
    BY <2>1 DEF PotTypeOK, RegistryTypeOK, potSystemVars, potVars
  <2>2. PotTypeOK'
    BY <2>1, MarketPotStep, CallersAreAccounts, PotStepTyped DEF deployVars, marketVars
  <2>3. ASSUME UNCHANGED controllerVars PROVE ControllerTypeOK'
    BY <2>3 DEF ControllerTypeOK, controllerVars, settingVars
  <2>4. CASE WiringStep
    <3>1. wired' \in 0..5
      BY <2>4 DEF WiringStep
    <3>2. CASE UNCHANGED controllerVars
      BY <2>2, <2>3, <3>1, <3>2
    <3>3. CASE OpenCommitWindow
      BY <2>2, <3>1, <3>3, WindowTyped, DeploymentAssumption
         DEF OpenCommitWindow, SetCommitAgeWindow, ControllerTypeOK
    <3> QED BY <2>4, <3>2, <3>3
            DEF WiringStep, WirePot, WireReverse, WireAddrReverse, AuthorizeController
  <2>5. CASE MarketNext /\ UNCHANGED wired
    BY <2>2, <2>3, <2>5, ControllerStepTyped DEF MarketNext
  <2>6. CASE UNCHANGED deployVars
    BY <2>2, <2>3, <2>6 DEF deployVars, marketVars
  <2> QED BY <2>4, <2>5, <2>6 DEF DeploymentNext
<1> QED BY <1>2, <1>3, PTL DEF DeploymentSpec

-----------------------------------------------------------------------------
(* Rent and commitments.                                                    *)

\* Governance authorizes no account to mint but the controller: either the
\* admin is left alone, or it never names another one.
MintersTrusted == Deployer \notin Signers \/ Controllers \subseteq {ControllerId}

\* What it amounts to in a reachable state.
OnlyControllerMints ==
    /\ controllers \subseteq {ControllerId}
    /\ Deployer \notin Signers => registrarAdmin = Deployer

\* A commitment was made in the past, so that its age is now less its time.
CommittedInPast ==
    \A c \in Commitments : commitments[c] # None => commitments[c] <= now

\* What the script has done so far stands, as long as the Deployer does nothing
\* else and the PotRegistrar, a contract, does not sign.
Scripted == Deployer \notin Signers /\ PotRegistrarId \notin Signers

WiringStands ==
    /\ NodeOwner(Root) = Deployer
    /\ NodeOwner(PotNode) = IF wired = 0 THEN None ELSE PotRegistrarId
    /\ registrarAdmin = Deployer
    /\ controllers \subseteq IF wired < 4 THEN {} ELSE {ControllerId}

\* A step that leaves an entry and its expiry alone adds no time to the lease,
\* nor does a handover of a name whose time is over.
LEMMA NoGain ==
    ASSUME PotTypeOK, NEW l \in Labels,
           Registered(l)' => /\ Registered(l)
                             /\ registrations'[l].expires = registrations[l].expires
    PROVE  ~(LeaseGained(l) > 0)
<1>1. CASE ~Registered(l)'
  BY <1>1 DEF LeaseGained
<1>2. CASE Registered(l)'
  <2> DEFINE e == registrations[l].expires
  <2>1. /\ Registered(l) /\ registrations'[l].expires = e
        /\ e \in Nat /\ e <= MaxU64 /\ now \in Nat /\ gracePeriod \in Nat
    BY <1>2, RegisteredTyped, TimesAreNat, PotRegistrarAssumption
  <2>2. LeaseGained(l) = e - IF Available(l) THEN now ELSE e
    BY <1>2, <2>1 DEF LeaseGained
  <2>3. Available(l) => now >= e
    <3>1. SatAdd(e, gracePeriod) \in Nat /\ SatAdd(e, gracePeriod) >= e
      BY <2>1, PotRegistrarAssumption DEF SatAdd
    <3> QED BY <2>1, <3>1 DEF Available, GraceEnd
  <2> QED BY <2>1, <2>2, <2>3
<1> QED BY <1>1, <1>2

\* The time that a mint adds is what it was asked for, or less where the expiry
\* saturates, and never nothing.
LEMMA MintGain ==
    ASSUME PotTypeOK, NEW caller, NEW l \in Labels, NEW owner \in Accounts,
           NEW duration \in Durations, Register(caller, l, owner, duration)
    PROVE  /\ LeaseGained(l) \in Nat /\ LeaseGained(l) <= duration
           /\ LeaseGained(l) > 0
<1>1. /\ Available(l) /\ duration >= MinDuration
      /\ registrations'[l] = [owner |-> owner, expires |-> SatAdd(now, duration)]
      /\ Registered(l)'
  BY RegisterEntry
<1>2. LeaseGained(l) = SatAdd(now, duration) - now
  BY <1>1 DEF LeaseGained
<1>3. /\ now \in Nat /\ now < MaxU64 /\ duration \in Nat /\ MaxU64 \in Nat
      /\ MinDuration \in Nat /\ MinDuration > 0
  BY TimesAreNat, PotRegistrarAssumption
<1> QED BY <1>1, <1>2, <1>3 DEF SatAdd

\* So is the time that a renewal adds, unless the name runs to the end of u64.
LEMMA RenewalGain ==
    ASSUME PotTypeOK, NEW caller, NEW l \in Labels,
           NEW duration \in Durations, Renew(caller, l, duration)
    PROVE  /\ LeaseGained(l) \in Nat /\ LeaseGained(l) <= duration
           /\ Registered(l)
           /\ LeaseGained(l) > 0 \/ registrations[l].expires = MaxU64
<1> DEFINE e == registrations[l].expires
<1>1. /\ Registered(l) /\ now < GraceEnd(l) /\ duration >= MinDuration
      /\ registrations'[l].expires = SatAdd(e, duration)
      /\ Registered(l)'
  BY RenewEntry
<1>2. /\ e \in Nat /\ e <= MaxU64 /\ duration \in Nat /\ MaxU64 \in Nat
      /\ MinDuration \in Nat /\ MinDuration > 0
  BY <1>1, RegisteredTyped, TimesAreNat, PotRegistrarAssumption
<1>3. ~Available(l)
  BY <1>1, GraceInTrueTime, NotAvailableInGrace
<1>4. LeaseGained(l) = SatAdd(e, duration) - e
  BY <1>1, <1>3 DEF LeaseGained
<1> QED BY <1>1, <1>2, <1>4 DEF SatAdd

\* Whoever adds time to a lease does it through the controller.
LEMMA GainIsPaid ==
    ASSUME PotTypeOK, OnlyControllerMints, DeploymentNext,
           NEW l \in Names, LeaseGained(l) > 0
    PROVE  \E caller \in Signers, duration \in Durations, paid \in Payments :
              \/ \E owner \in Heirs, secret \in Secrets :
                     Reveal(caller, l, owner, duration, secret, paid)
              \/ GiftRenewal(caller, l, duration, paid)
<1>1. l \in Labels
  BY NamesAreLabels
<1>2. registrations'[l] # registrations[l]
  BY <1>1, NoGain DEF Registered
<1>3. ~PotSystemNext
  <2> SUFFICES ASSUME PotSystemNext PROVE FALSE
    OBVIOUS
  <2>1. PICK caller \in Signers :
           \/ \E owner \in Accounts, duration \in Durations :
                  Register(caller, l, owner, duration)
           \/ \E duration \in Durations : Renew(caller, l, duration)
           \/ \E to \in Accounts : Transfer(caller, l, to)
    BY <1>1, <1>2, NextIsPotStep, EntryChanges, RegistryAssumption
  <2>2. caller \notin controllers
    BY ControllerAssumption DEF OnlyControllerMints
  <2>3. PICK to \in Accounts : Transfer(caller, l, to)
    BY <2>1, <2>2 DEF Register, CanRegister, Renew, CanRenew
  <2> QED BY <1>1, <2>3, TransferEntry, NoGain
<1>4. ControllerNext
  BY <1>2, <1>3 DEF DeploymentNext, MarketNext, WiringStep, WirePot, WireReverse,
        WireAddrReverse, AuthorizeController, AddController, OpenCommitWindow,
        SetCommitAgeWindow, potSystemVars, potVars
<1>5. PICK caller \in Signers, name \in Names, duration \in Durations, paid \in Payments :
           \/ \E owner \in Heirs, secret \in Secrets :
                  Reveal(caller, name, owner, duration, secret, paid)
           \/ GiftRenewal(caller, name, duration, paid)
  BY <1>2, <1>4 DEF ControllerNext, SetPrices, SetCommitAgeWindow, SetTreasury, Commit,
                    FailedReveal, FailedRenewal, potSystemVars, potVars
<1>6. name = l
  BY <1>1, <1>2, <1>5 DEF Reveal, GiftRenewal, Register, Renew, PotTypeOK
<1> QED BY <1>5, <1>6

LEMMA StepOnlyController ==
    ASSUME MintersTrusted, OnlyControllerMints, DeploymentNext
    PROVE  OnlyControllerMints'
<1>1. CASE UNCHANGED <<controllers, registrarAdmin>>
  BY <1>1 DEF OnlyControllerMints
<1>2. CASE AddController(Deployer, ControllerId)
  BY <1>2 DEF AddController, OnlyControllerMints
<1>3. CASE \E caller \in Signers :
               \/ \E who \in Admins : SetRegistrarAdmin(caller, who)
               \/ \E who \in Controllers :
                      AddController(caller, who) \/ RemoveController(caller, who)
  BY <1>3 DEF MintersTrusted, OnlyControllerMints, SetRegistrarAdmin, AddController,
              RemoveController
<1>4. CASE PotSystemNext
  BY <1>1, <1>3, <1>4
     DEF PotSystemNext, PotRegistrarNext, Tick, potVars, SetGracePeriod, Register,
         Renew, Transfer, Approve
<1> QED BY <1>1, <1>2, <1>4, MarketSteps
        DEF ControllerCall, Register, Renew, potSystemVars, potVars

\* Whoever is trusted to name the minters, it is the controller that mints.
THEOREM MarketOnlyControllerMints ==
    MintersTrusted => (DeploymentSpec => []OnlyControllerMints)
<1> SUFFICES ASSUME MintersTrusted PROVE DeploymentSpec => []OnlyControllerMints
  OBVIOUS
<1>1. DeploymentInit => OnlyControllerMints
  BY DEF DeploymentInit, MarketInit, PotSystemInit, PotRegistrarInit, OnlyControllerMints
<1>2. OnlyControllerMints /\ [DeploymentNext]_deployVars => OnlyControllerMints'
  BY StepOnlyController
     DEF OnlyControllerMints, deployVars, marketVars, potSystemVars, potVars
<1> QED BY <1>1, <1>2, PTL DEF DeploymentSpec

\* The rent of a mint or a renewal reaches the treasury, or stays with the
\* controller where that is the treasury.
LEMMA RentArrives ==
    ASSUME PotTypeOK, ControllerTypeOK, NEW caller \in Signers, treasury # caller,
           NEW l \in Names, NEW duration \in Durations, NEW paid \in Payments,
           NEW gained \in Nat, gained <= duration,
           paid <= funds[caller],
           PaysRent(paid, Quote(NameLen[l], duration)),
           funds' = Settle(caller, paid, Quote(NameLen[l], duration))
    PROVE  funds'[treasury] - funds[treasury] >= Quote(NameLen[l], gained)
<1> DEFINE owed == Quote(NameLen[l], duration)
           worth == Quote(NameLen[l], gained)
<1>1. /\ duration \in Nat /\ NameLen[l] \in Nat /\ paid \in Nat
      /\ funds \in [Accounts -> Nat] /\ treasury \in Accounts /\ prices \in PriceTiers
  BY TimesAreNat, NamesAreLabels, ControllerAssumption DEF ControllerTypeOK
<1>2. owed \in Nat /\ worth \in Nat /\ worth <= owed
  BY <1>1, QuoteTyped, QuoteMonotone
<1>3. owed <= paid
  BY <1>1, <1>2 DEF PaysRent
<1>4. funds' \in [Accounts -> Nat] /\ funds'[treasury] >= funds[treasury] + owed
  <2> HIDE DEF owed
  <2> QED BY <1>1, <1>2, <1>3, SettleTyped DEF owed
<1>5. funds[treasury] \in Nat /\ funds'[treasury] \in Nat
  BY <1>1, <1>4
<1> QED BY <1>2, <1>4, <1>5

\* Nobody gets time for less than its price at the moment.
THEOREM MarketNoFreeLease == MintersTrusted => (DeploymentSpec => NoFreeLease)
<1> SUFFICES ASSUME MintersTrusted PROVE DeploymentSpec => NoFreeLease
  OBVIOUS
<1>1. ASSUME MarketTypeOK, OnlyControllerMints, DeploymentNext,
             NEW l \in Names, LeaseGained(l) > 0, treasury \notin Signers
      PROVE  funds'[treasury] - funds[treasury] >= Quote(NameLen[l], LeaseGained(l))
  <2>1. PotTypeOK /\ ControllerTypeOK /\ l \in Labels
    BY <1>1, NamesAreLabels DEF MarketTypeOK, ControllerTypeOK
  <2>2. PICK caller \in Signers, duration \in Durations, paid \in Payments :
           \/ \E owner \in Heirs, secret \in Secrets :
                  Reveal(caller, l, owner, duration, secret, paid)
           \/ GiftRenewal(caller, l, duration, paid)
    BY <1>1, <2>1, GainIsPaid
  <2>3. LeaseGained(l) \in Nat /\ LeaseGained(l) <= duration
    BY <2>1, <2>2, MintGain, RenewalGain, RegistryAssumption DEF Reveal, GiftRenewal
  <2>4. /\ paid <= funds[caller]
        /\ PaysRent(paid, Quote(NameLen[l], duration))
        /\ funds' = Settle(caller, paid, Quote(NameLen[l], duration))
    BY <2>2 DEF Reveal, GiftRenewal
  <2>5. treasury # caller
    BY <1>1
  <2> QED BY <2>1, <2>3, <2>4, <2>5, RentArrives
<1>2. MarketTypeOK /\ OnlyControllerMints /\ [DeploymentNext]_deployVars =>
        [\A l \in Names :
            LeaseGained(l) > 0 /\ treasury \notin Signers =>
                funds'[treasury] - funds[treasury]
                  >= Quote(NameLen[l], LeaseGained(l))]_deployVars
  BY <1>1
<1> QED BY <1>2, MarketTyped, MarketOnlyControllerMints, PTL
        DEF DeploymentSpec, NoFreeLease

\* The clock does not go back.
LEMMA ClockOnly ==
    ASSUME PotTypeOK, DeploymentNext
    PROVE  now' \in Nat /\ now' >= now
<1>1. now \in Nat
  BY TimesAreNat
<1> QED BY <1>1, MarketSteps
        DEF PotSystemNext, PotRegistrarNext, SetRegistrarAdmin, AddController,
            RemoveController, SetGracePeriod, Register, Renew, Transfer, Approve, Tick,
            ControllerCall, potSystemVars

\* A step touches no commitment but by making it now or by spending it.
LEMMA CommitmentChanges ==
    ASSUME ControllerTypeOK, DeploymentNext, NEW c \in Commitments
    PROVE  commitments'[c] \in {commitments[c], now, None}
<1>1. CASE UNCHANGED controllerVars
  BY <1>1 DEF controllerVars
<1>2. CASE OpenCommitWindow
  BY <1>2 DEF OpenCommitWindow, SetCommitAgeWindow
<1>3. CASE ControllerNext
  BY <1>3 DEF ControllerNext, SetPrices, SetCommitAgeWindow, SetTreasury, Commit,
              Reveal, FailedReveal, GiftRenewal, FailedRenewal, SpendCommitment,
              ControllerTypeOK
<1> QED BY <1>1, <1>2, <1>3
        DEF DeploymentNext, MarketNext, WiringStep, WirePot, WireReverse,
            WireAddrReverse, AuthorizeController

\* A commitment bears the time at which it was last made.
THEOREM MarketCommittedInPast == DeploymentSpec => []CommittedInPast
<1>1. DeploymentInit => CommittedInPast
  BY DEF DeploymentInit, MarketInit, ControllerInit, CommittedInPast
<1>2. MarketTypeOK /\ CommittedInPast /\ [DeploymentNext]_deployVars => CommittedInPast'
  <2>1. ASSUME MarketTypeOK, CommittedInPast, DeploymentNext,
               NEW c \in Commitments, commitments'[c] # None
        PROVE  commitments'[c] <= now'
    <3>1. /\ PotTypeOK /\ ControllerTypeOK /\ now \in Nat
          /\ commitments[c] # None => commitments[c] \in Nat
      BY <2>1, TimesAreNat, PotRegistrarAssumption DEF MarketTypeOK, ControllerTypeOK
    <3>2. commitments'[c] \in {commitments[c], now}
      BY <2>1, <3>1, CommitmentChanges
    <3> QED BY <2>1, <3>1, <3>2, ClockOnly DEF CommittedInPast
  <2>2. ASSUME CommittedInPast, UNCHANGED deployVars PROVE CommittedInPast'
    BY <2>2 DEF CommittedInPast, deployVars, marketVars, controllerVars, potSystemVars
  <2> QED BY <2>1, <2>2 DEF CommittedInPast
<1> QED BY <1>1, <1>2, MarketTyped, PTL DEF DeploymentSpec

\* No name is minted but to the owner named by a commitment of the right age,
\* which is spent.  What the code takes for the age of a commitment is the age
\* in true arithmetic, since no commitment lies in the future.
THEOREM MarketMintSpendsCommitment ==
    MintersTrusted => (DeploymentSpec => MintSpendsCommitment)
<1> SUFFICES ASSUME MintersTrusted PROVE DeploymentSpec => MintSpendsCommitment
  OBVIOUS
<1>1. ASSUME MarketTypeOK, OnlyControllerMints, CommittedInPast, DeploymentNext,
             NEW l \in Names, Minted(l)
      PROVE  \E secret \in Secrets :
                LET c == MakeCommitment(l, OwnerOf(l)', secret)
                IN  /\ commitments[c] # None
                    /\ now - commitments[c] \in minCommitAge..maxCommitAge
                    /\ commitments'[c] = None
  <2>1. PotTypeOK /\ ControllerTypeOK /\ l \in Labels
    BY <1>1, NamesAreLabels DEF MarketTypeOK, ControllerTypeOK
  <2>2. PICK caller \in Signers, duration \in Durations, paid \in Payments :
           \/ \E owner \in Heirs, secret \in Secrets :
                  Reveal(caller, l, owner, duration, secret, paid)
           \/ GiftRenewal(caller, l, duration, paid)
    BY <1>1, <2>1, GainIsPaid DEF Minted
  <2>3. ~GiftRenewal(caller, l, duration, paid)
    <3>1. Renew(ControllerId, l, duration) => ~Available(l)
      BY <2>1, RenewEntry, GraceInTrueTime, NotAvailableInGrace
    <3> QED BY <1>1, <3>1 DEF GiftRenewal, Minted
  <2>4. PICK owner \in Heirs, secret \in Secrets :
           Reveal(caller, l, owner, duration, secret, paid)
    BY <2>2, <2>3
  <2> DEFINE c == MakeCommitment(l, owner, secret)
  <2>5. c \in Commitments
    BY CommitmentTyped
  <2>6. OwnerOf(l)' = owner
    BY <2>1, <2>4, RegisterEntry, RegistryAssumption DEF Reveal
  <2>7. commitments[c] # None /\ commitments'[c] = None
    BY <2>1, <2>4, <2>5 DEF Reveal, CanReveal, SpendCommitment, ControllerTypeOK
  <2>8. now - commitments[c] \in minCommitAge..maxCommitAge
    <3>1. /\ now \in Nat /\ commitments[c] \in Nat /\ commitments[c] <= now
          /\ minCommitAge \in Nat /\ maxCommitAge \in Nat
      BY <1>1, <2>1, <2>5, <2>7, TimesAreNat, PotRegistrarAssumption
         DEF ControllerTypeOK, CommittedInPast
    <3>2. CommitmentAge(c) >= minCommitAge /\ CommitmentAge(c) <= maxCommitAge
      BY <2>4 DEF Reveal, CanReveal
    <3>3. CommitmentAge(c) = now - commitments[c]
      BY <3>1 DEF CommitmentAge, SatSub
    <3> QED BY <3>1, <3>2, <3>3
  <2> QED BY <2>6, <2>7, <2>8
<1>2. MarketTypeOK /\ OnlyControllerMints /\ CommittedInPast /\ [DeploymentNext]_deployVars =>
        [\A l \in Names :
            Minted(l) =>
                \E secret \in Secrets :
                    LET c == MakeCommitment(l, OwnerOf(l)', secret)
                    IN  /\ commitments[c] # None
                        /\ now - commitments[c] \in minCommitAge..maxCommitAge
                        /\ commitments'[c] = None]_deployVars
  BY <1>1
<1> QED BY <1>2, MarketTyped, MarketOnlyControllerMints, MarketCommittedInPast, PTL
        DEF DeploymentSpec, MintSpendsCommitment

\* If failed messages are rolled back, rent is only paid for time.
THEOREM MarketNoRentForNothing == ErrRollsBack => (DeploymentSpec => NoRentForNothing)
<1> SUFFICES ASSUME ErrRollsBack PROVE DeploymentSpec => NoRentForNothing
  OBVIOUS
<1>1. ASSUME MarketTypeOK, DeploymentNext, funds' # funds
      PROVE  \E l \in Names :
                \/ LeaseGained(l) > 0
                \/ Registered(l) /\ registrations[l].expires = MaxU64
  <2>1. PotTypeOK
    BY <1>1 DEF MarketTypeOK
  <2>2. ControllerNext
    BY <1>1 DEF DeploymentNext, MarketNext, WiringStep, WirePot, WireReverse,
          WireAddrReverse, AuthorizeController, OpenCommitWindow, SetCommitAgeWindow,
          controllerVars
  <2>3. PICK caller \in Signers, name \in Names, duration \in Durations, paid \in Payments :
             \/ \E owner \in Heirs, secret \in Secrets :
                    Reveal(caller, name, owner, duration, secret, paid)
             \/ GiftRenewal(caller, name, duration, paid)
    BY <1>1, <2>2 DEF ControllerNext, SetPrices, SetCommitAgeWindow, SetTreasury, Commit,
                      FailedReveal, FailedRenewal
  <2>4. name \in Labels
    BY NamesAreLabels
  <2>5. CASE \E owner \in Heirs : Register(ControllerId, name, owner, duration)
    BY <2>1, <2>4, <2>5, MintGain, RegistryAssumption
  <2>6. CASE Renew(ControllerId, name, duration)
    BY <2>1, <2>4, <2>6, RenewalGain
  <2> QED BY <2>3, <2>5, <2>6 DEF Reveal, GiftRenewal
<1>2. MarketTypeOK /\ [DeploymentNext]_deployVars =>
        [(\E a \in {treasury, ControllerId} : funds'[a] > funds[a])
           => \E l \in Names :
                  \/ LeaseGained(l) > 0
                  \/ Registered(l) /\ registrations[l].expires = MaxU64]_deployVars
  <2>1. ASSUME MarketTypeOK, NEW a \in {treasury, ControllerId}, funds'[a] > funds[a]
        PROVE  funds' # funds
    <3>1. a \in Accounts /\ funds[a] \in Nat
      BY <2>1, ControllerAssumption DEF MarketTypeOK
    <3> QED BY <2>1, <3>1
  <2> QED BY <1>1, <2>1
<1> QED BY <1>2, MarketTyped, PTL DEF DeploymentSpec, NoRentForNothing

-----------------------------------------------------------------------------
(* What the PotRegistrar promises holds of it as it is deployed.            *)

\* If failed messages are rolled back, the Registry follows every handover,
\* whoever asks the PotRegistrar for it.
THEOREM MarketMirrored == ErrRollsBack => (DeploymentSpec => HandoverMirrored)
<1> SUFFICES ASSUME ErrRollsBack PROVE DeploymentSpec => HandoverMirrored
  OBVIOUS
<1>1. ASSUME PotTypeOK, DeploymentNext, NEW l \in Labels, OwnerOf(l)' # OwnerOf(l)
      PROVE  NodeOwner(NodeOf(l))' = OwnerOf(l)'
  <2>1. PotStep(MarketCallers)
    BY <1>1, MarketPotStep DEF OwnerOf, Registered, potSystemVars, potVars
  <2> QED BY <1>1, <2>1, CallersAreAccounts, StepMirrored
<1>2. MarketTypeOK /\ [DeploymentNext]_deployVars =>
        [\A l \in Labels :
            OwnerOf(l)' # OwnerOf(l) =>
                NodeOwner(NodeOf(l))' = OwnerOf(l)']_potSystemVars
  BY <1>1 DEF MarketTypeOK, deployVars, marketVars
<1> QED BY <1>2, MarketTyped, PTL DEF DeploymentSpec, HandoverMirrored

\* balance_of is exact with the controller minting and renewing, too.
THEOREM MarketBalances == CountsFit => (DeploymentSpec => []BalancesMatch)
<1> SUFFICES ASSUME CountsFit PROVE DeploymentSpec => []BalancesMatch
  OBVIOUS
<1>1. DeploymentInit => BalancesMatch
  BY InitialBalances DEF DeploymentInit, MarketInit
<1>2. MarketTypeOK /\ BalancesMatch /\ [DeploymentNext]_deployVars => BalancesMatch'
  <2>1. ASSUME BalancesMatch, UNCHANGED potSystemVars PROVE BalancesMatch'
    BY <2>1, SameBalances DEF OwnerOf, Registered, potSystemVars, potVars
  <2> QED BY <2>1, MarketPotStep, CallersAreAccounts, StepBalances
          DEF MarketTypeOK, deployVars, marketVars
<1> QED BY <1>1, <1>2, MarketTyped, PTL DEF DeploymentSpec

THEOREM MarketApprovalsNeedEntry == DeploymentSpec => []ApprovalsNeedEntry
<1>1. DeploymentInit => ApprovalsNeedEntry
  BY DEF DeploymentInit, MarketInit, PotSystemInit, PotRegistrarInit, ApprovalsNeedEntry
<1>2. MarketTypeOK /\ ApprovalsNeedEntry /\ [DeploymentNext]_deployVars
        => ApprovalsNeedEntry'
  <2>1. ASSUME ApprovalsNeedEntry, UNCHANGED potSystemVars PROVE ApprovalsNeedEntry'
    BY <2>1 DEF ApprovalsNeedEntry, Registered, potSystemVars, potVars
  <2> QED BY <2>1, MarketPotStep, CallersAreAccounts, StepApprovalsNeedEntry
          DEF MarketTypeOK, deployVars, marketVars
<1> QED BY <1>1, <1>2, MarketTyped, PTL DEF DeploymentSpec

\* Approvals die with the tenure also when a name passes through the controller.
THEOREM MarketApprovals == DeploymentSpec => ApprovalsFollowHolder
<1>1. ASSUME PotTypeOK, ApprovalsNeedEntry, DeploymentNext, NEW l \in Labels,
             OwnerOf(l)' # OwnerOf(l)
      PROVE  approvals'[l] = None
  <2>1. PotStep(MarketCallers)
    BY <1>1, MarketPotStep DEF OwnerOf, Registered, potSystemVars, potVars
  <2> QED BY <1>1, <2>1, CallersAreAccounts, StepApprovals
<1>2. MarketTypeOK /\ ApprovalsNeedEntry /\ [DeploymentNext]_deployVars =>
        [\A l \in Labels : OwnerOf(l)' # OwnerOf(l) => approvals'[l] = None]_potSystemVars
  BY <1>1 DEF MarketTypeOK, deployVars, marketVars
<1> QED BY <1>2, MarketTyped, MarketApprovalsNeedEntry, PTL
        DEF DeploymentSpec, ApprovalsFollowHolder

\* Nobody is minted or renewed for less than the minimum, whatever was paid.
THEOREM MarketLease == DeploymentSpec => LeaseAtLeastMinimum
<1>1. ASSUME PotTypeOK, DeploymentNext, NEW l \in Labels, Registered(l)',
             Registered(l) => registrations'[l].expires # registrations[l].expires
      PROVE  \/ registrations'[l].expires = MaxU64
             \/ registrations'[l].expires
                  >= MinDuration + IF Available(l) THEN now
                                   ELSE registrations[l].expires
  <2>1. PotStep(MarketCallers)
    BY <1>1, MarketPotStep DEF Registered, potSystemVars, potVars
  <2> QED BY <1>1, <2>1, CallersAreAccounts, StepLease
<1>2. MarketTypeOK /\ [DeploymentNext]_deployVars =>
        [\A l \in Labels :
            /\ Registered(l)'
            /\ Registered(l) => registrations'[l].expires # registrations[l].expires
            => \/ registrations'[l].expires = MaxU64
               \/ registrations'[l].expires
                    >= MinDuration + IF Available(l) THEN now
                                     ELSE registrations[l].expires]_potSystemVars
  BY <1>1 DEF MarketTypeOK, deployVars, marketVars
<1> QED BY <1>2, MarketTyped, PTL DEF DeploymentSpec, LeaseAtLeastMinimum

\* The minted nodes are a tree while the script wires them and ever after.
THEOREM MarketTree == DeploymentSpec => []TreeClosed
<1>1. DeploymentInit => TreeClosed
  BY DEF DeploymentInit, MarketInit, PotSystemInit, RegistryInit, TreeClosed, NodeExists
<1>2. MarketTypeOK /\ TreeClosed /\ [DeploymentNext]_deployVars => TreeClosed'
  <2>1. ASSUME TreeClosed, UNCHANGED potSystemVars PROVE TreeClosed'
    BY <2>1 DEF TreeClosed, NodeExists, potSystemVars
  <2> QED BY <2>1, MarketPotStep, CallersAreAccounts, StepTree
          DEF MarketTypeOK, deployVars, marketVars
<1> QED BY <1>1, <1>2, MarketTyped, PTL DEF DeploymentSpec

\* With the controller at its door and the script at work, the PotRegistrar
\* still leases names and does nothing else to them: neither the controller nor
\* the Deployer, unless it signs, hands over anybody's name.
THEOREM MarketImplementsNameLease == DeploymentSpec => ImplementsNameLease
<1>1. DeploymentInit => Lease!LeaseInit
  BY InitialLease DEF DeploymentInit, MarketInit
<1>2. ASSUME PotTypeOK, PotTypeOK', ApprovalsNeedEntry, DeploymentNext
      PROVE  Lease!LeaseNext \/ UNCHANGED Lease!leaseVars
  <2>1. CASE PotSystemNext
    BY <1>2, <2>1, NextIsPotStep, StepLeases
  <2>2. CASE ControllerCall
    <3>1. CASE \E label \in Names, duration \in Durations, owner \in Accounts :
                   Register(ControllerId, label, owner, duration)
      BY <1>2, <3>1, NamesAreLabels, RegisterGrants DEF Lease!LeaseNext
    <3>2. CASE \E label \in Names, duration \in Durations :
                   Renew(ControllerId, label, duration)
      BY <1>2, <3>2, NamesAreLabels, RenewProlongs DEF Lease!LeaseNext
    <3> QED BY <2>2, <3>1, <3>2 DEF ControllerCall
  <2>3. CASE UNCHANGED <<registrations, approvals, gracePeriod, now>>
    BY <2>3 DEF OwnerOf, Registered, Lease!leaseVars
  <2> QED BY <1>2, <2>1, <2>2, <2>3, MarketSteps
          DEF AddController, potSystemVars, potVars
<1>3. MarketTypeOK /\ MarketTypeOK' /\ ApprovalsNeedEntry /\ [DeploymentNext]_deployVars
        => [Lease!LeaseNext]_(Lease!leaseVars)
  <2>1. ASSUME UNCHANGED deployVars PROVE UNCHANGED Lease!leaseVars
    BY <2>1 DEF deployVars, marketVars, potSystemVars, potVars, OwnerOf, Registered,
                Lease!leaseVars
  <2> QED BY <1>2, <2>1 DEF MarketTypeOK
<1> QED BY <1>1, <1>3, MarketTyped, MarketApprovalsNeedEntry, PTL
        DEF DeploymentSpec, ImplementsNameLease, Lease!LeaseSpec

\* Nobody takes a name before its grace period is over: what the controller
\* mints is available, and what it renews it leaves with its holder.
THEOREM MarketNoTakeover == DeploymentSpec => NoTakeover
<1>1. ASSUME PotTypeOK, DeploymentNext, NEW l \in Labels, Registered(l),
             now < registrations[l].expires + gracePeriod
      PROVE  /\ Registered(l)'
             /\ registrations'[l].expires >= registrations[l].expires
             /\ OwnerOf(l)' # OwnerOf(l) =>
                    /\ {OwnerOf(l), approvals[l]} \cap Signers # {}
                    /\ registrations'[l].expires = registrations[l].expires
  <2>1. CASE registrations'[l] = registrations[l]
    <3>1. registrations[l].expires \in Nat
      BY <1>1, RegisteredTyped
    <3> QED BY <1>1, <2>1, <3>1 DEF Registered, OwnerOf
  <2>2. CASE PotSystemNext
    BY <1>1, <2>2, NextIsPotStep, StepNoTakeover, RegistryAssumption
  <2>3. CASE ControllerCall /\ registrations'[l] # registrations[l]
    <3>1. PotStep({ControllerId})
      BY <2>3 DEF ControllerCall, PotStep, PotWrite
    <3>2. /\ Registered(l)'
          /\ registrations'[l].expires >= registrations[l].expires
      BY <1>1, <3>1, StepNoTakeover, ControllerAssumption
    <3>3. OwnerOf(l)' = OwnerOf(l)
      <4>1. PICK label \in Names, duration \in Durations :
               \/ \E owner \in Accounts : Register(ControllerId, label, owner, duration)
               \/ Renew(ControllerId, label, duration)
        BY <2>3 DEF ControllerCall
      <4>2. label = l
        BY <1>1, <2>3, <4>1 DEF Register, Renew, PotTypeOK
      <4>3. ~Available(l)
        BY <1>1, NotAvailableInGrace
      <4> QED BY <1>1, <4>1, <4>2, <4>3, RenewEntry DEF Register, CanRegister
    <3> QED BY <3>2, <3>3
  <2> QED BY <1>1, <2>1, <2>2, <2>3, MarketSteps
          DEF AddController, potSystemVars, potVars
<1>2. MarketTypeOK /\ [DeploymentNext]_deployVars =>
        [\A l \in Labels :
            Registered(l) /\ now < registrations[l].expires + gracePeriod =>
                /\ Registered(l)'
                /\ registrations'[l].expires >= registrations[l].expires
                /\ OwnerOf(l)' # OwnerOf(l) =>
                       /\ {OwnerOf(l), approvals[l]} \cap Signers # {}
                       /\ registrations'[l].expires = registrations[l].expires]_potSystemVars
  BY <1>1 DEF MarketTypeOK, deployVars, marketVars
<1> QED BY <1>2, MarketTyped, PTL DEF DeploymentSpec, NoTakeover

-----------------------------------------------------------------------------
(* Wiring.                                                                  *)

\* Where the nodes that the script and the PotRegistrar mint are in the tree.
LEMMA Tree ==
    ASSUME NEW p \in Nodes, NEW l \in Labels
    PROVE  /\ NamehashStep(p, l) # Root
           /\ NamehashStep(p, l) = PotNode => p = Root /\ l = PotLabel
           /\ \A m \in Labels : NamehashStep(p, l) = NodeOf(m) => p = PotNode /\ l = m
<1>1. p \in Seq(Labels) /\ PotNode \in Seq(Labels) /\ <<>> \in Seq(Labels)
  BY RegistryAssumption, PotRegistrarAssumption
<1>2. NamehashStep(p, l) # Root
  BY <1>1, AppendProperties DEF NamehashStep, Root
<1>3. NamehashStep(p, l) = PotNode => p = Root /\ l = PotLabel
  <2>1. PotLabel \in Labels /\ PotNode = Append(<<>>, PotLabel)
    BY DeploymentAssumption DEF NamehashStep, Root
  <2>2. \A q \in Seq(Labels), m \in Labels : Append(p, l) = Append(q, m) => p = q /\ l = m
    BY <1>1, AppendInjective
  <2> QED BY <1>1, <2>1, <2>2 DEF NamehashStep, Root
<1>4. \A m \in Labels : NamehashStep(p, l) = NodeOf(m) => p = PotNode /\ l = m
  BY <1>1, AppendInjective DEF NamehashStep, NodeOf
<1> QED BY <1>2, <1>3, <1>4

\* The node of a name is neither the root, nor .pot, nor that of another name.
LEMMA NameNodes ==
    ASSUME NEW l \in Names
    PROVE  /\ l \in Labels /\ NodeOf(l) \in Nodes
           /\ NodeOf(l) # Root /\ NodeOf(l) # PotNode /\ PotNode # Root
           /\ \A m \in Labels : NodeOf(l) = NodeOf(m) => l = m
<1>1. l \in Labels /\ NodeOf(l) \in Nodes /\ PotNode \in Nodes /\ Root \in Nodes
  BY RegistryAssumption, PotRegistrarAssumption DEF Names, Root
<1>2. PotNode = NamehashStep(Root, PotLabel) /\ PotLabel \in Labels
  BY DeploymentAssumption
<1>3. PotNode # Root
  BY <1>1, <1>2, Tree
<1>4. NodeOf(l) # Root /\ NodeOf(l) # PotNode
  BY <1>1, <1>3, Tree DEF NodeOf
<1>5. \A m \in Labels : NodeOf(l) = NodeOf(m) => l = m
  BY <1>1, Tree DEF NodeOf
<1> QED BY <1>1, <1>3, <1>4, <1>5

\* The owner of the root and of .pot, and which names have a node.
SameTop == /\ NodeOwner(Root)' = NodeOwner(Root)
           /\ NodeOwner(PotNode)' = NodeOwner(PotNode)

SameNames == \A l \in Names : NodeExists(NodeOf(l))' <=> NodeExists(NodeOf(l))

\* What a signer writes to the Registry is below what the script has wired.
LEMMA SignersBelow ==
    ASSUME RegistryTypeOK, Scripted, WiringStands,
           NEW caller \in Signers, RegistryWrite(caller)
    PROVE  SameTop /\ SameNames
<1>1. /\ caller \in Accounts /\ Root \in Nodes /\ PotNode \in Nodes
      /\ NodeOwner(Root) # caller /\ NodeOwner(PotNode) # caller
  BY RegistryAssumption, PotRegistrarAssumption DEF Scripted, WiringStands, Root
<1>2. ASSUME NEW n \in {Root, PotNode} PROVE records'[n] = records[n]
  BY <1>1, <1>2, WriteByOwner, Tree
<1>3. SameTop
  BY <1>2 DEF SameTop, NodeOwner, NodeExists
<1>4. ASSUME NEW l \in Names, ~NodeExists(NodeOf(l)) PROVE ~NodeExists(NodeOf(l))'
  <2>1. NodeOwner(NodeOf(l)) # caller
    BY <1>1, <1>4, RegistryAssumption DEF NodeOwner
  <2>2. records'[NodeOf(l)] = records[NodeOf(l)]
    BY <1>1, <2>1, WriteByOwner, Tree, NameNodes
  <2> QED BY <1>4, <2>2 DEF NodeExists
<1>5. ASSUME NEW l \in Names, NodeExists(NodeOf(l)) PROVE NodeExists(NodeOf(l))'
  BY <1>1, <1>5, WriteKeepsNodes, NameNodes
<1> QED BY <1>3, <1>4, <1>5 DEF SameNames

\* A mirror call that goes through gives the name its node and touches no other.
LEMMA MirrorMintsNode ==
    ASSUME RegistryTypeOK, NEW l \in Names, NEW owner \in Accounts,
           SetSubnodeOwner(PotRegistrarId, PotNode, l, owner)
    PROVE  /\ SameTop
           /\ NodeExists(NodeOf(l))'
           /\ \A m \in Names \ {l} : NodeExists(NodeOf(m))' <=> NodeExists(NodeOf(m))
<1>1. NodeOwner(NodeOf(l))' = owner
  BY MirrorSetsOwner, NameNodes
<1>2. NodeExists(NodeOf(l))'
  BY <1>1, RegistryAssumption DEF NodeOwner
<1>3. \A n \in Nodes \ {NodeOf(l)} : records'[n] = records[n]
  BY DEF SetSubnodeOwner, NodeOf, RegistryTypeOK
<1>4. Root \in Nodes \ {NodeOf(l)} /\ PotNode \in Nodes \ {NodeOf(l)}
  BY NameNodes, RegistryAssumption, PotRegistrarAssumption DEF Root
<1>5. SameTop
  BY <1>3, <1>4 DEF SameTop, NodeOwner, NodeExists
<1>6. \A m \in Names \ {l} : NodeOf(m) \in Nodes \ {NodeOf(l)}
  BY NameNodes
<1> QED BY <1>2, <1>3, <1>5, <1>6 DEF NodeExists

\* The same, of whatever becomes of a mirror call once .pot is wired.
LEMMA MirrorOnceWired ==
    ASSUME RegistryTypeOK, NEW l \in Names, NEW owner \in Accounts,
           MirrorOwner(l, owner),
           NodeOwner(PotNode) = PotRegistrarId \/ NodeExists(NodeOf(l))
    PROVE  /\ SameTop
           /\ NodeExists(NodeOf(l))'
           /\ \A m \in Names \ {l} : NodeExists(NodeOf(m))' <=> NodeExists(NodeOf(m))
<1>1. CASE SetSubnodeOwner(PotRegistrarId, PotNode, l, owner)
  BY <1>1, MirrorMintsNode
<1>2. CASE UNCHANGED records /\ NodeExists(NodeOf(l))
  BY <1>2 DEF SameTop, NodeOwner, NodeExists
<1> QED BY <1>1, <1>2 DEF MirrorOwner, OnlyOwner

\* A step that leaves the owners of the root and of .pot, the admin and the
\* entries alone, and mints no node of a name.
LEMMA StandsStill ==
    ASSUME WiringStands, NamesMirrored, SameTop, SameNames,
           \A l \in Names : Registered(l)' <=> Registered(l),
           UNCHANGED <<controllers, registrarAdmin, wired>>
    PROVE  WiringStands' /\ NamesMirrored'
<1>1. WiringStands'
  BY DEF WiringStands, SameTop
<1>2. NamesMirrored'
  <2>1. Names' = Names
    BY DEF Names, NodeOf, NamehashStep
  <2>2. \A l \in Names : NodeExists(NodeOf(l))' <=> NodeExists(NodeOf(l))
    BY DEF SameNames
  <2> QED BY <2>2 DEF NamesMirrored
<1> QED BY <1>1, <1>2

\* The messages of the signers to the two naming contracts.
LEMMA SignersKeepMirror ==
    ASSUME PotTypeOK, Scripted, WiringStands, NamesMirrored,
           PotSystemNext, UNCHANGED wired
    PROVE  WiringStands' /\ NamesMirrored'
<1>0. RegistryTypeOK /\ \A caller \in Signers : caller \notin controllers
  BY ControllerAssumption DEF PotTypeOK, WiringStands
<1>1. CASE RegistryNext /\ UNCHANGED <<potVars, now>>
  <2>1. SameTop /\ SameNames
    BY <1>0, <1>1, SignersWrite, SignersBelow
  <2> QED BY <1>1, <2>1, StandsStill DEF potVars, Registered
<1>2. ASSUME UNCHANGED <<records, registrations, controllers, registrarAdmin>>
      PROVE  WiringStands' /\ NamesMirrored'
  BY <1>2, StandsStill DEF SameTop, SameNames, NodeOwner, NodeExists, Registered
<1>3. CASE Tick
  BY <1>2, <1>3 DEF Tick, potVars
<1>4. CASE PotRegistrarNext
  <2>1. PICK caller \in Signers :
          \/ \E who \in Admins : SetRegistrarAdmin(caller, who)
          \/ \E who \in Controllers :
                 \/ AddController(caller, who)
                 \/ RemoveController(caller, who)
          \/ \E ms \in Graces : SetGracePeriod(caller, ms)
          \/ \E label \in Names, duration \in Durations :
                 \/ \E owner \in Heirs : Register(caller, label, owner, duration)
                 \/ Renew(caller, label, duration)
          \/ \E label \in Names, who \in Heirs :
                 \/ Transfer(caller, label, who)
                 \/ Approve(caller, label, who)
    BY <1>4 DEF PotRegistrarNext
  <2>2. caller # registrarAdmin /\ caller \notin controllers
    BY <1>0 DEF Scripted, WiringStands
  <2>3. CASE \E label \in Names, who \in Heirs : Approve(caller, label, who)
    BY <1>2, <2>3 DEF Approve
  <2>4. CASE \E label \in Names, to \in Heirs : Transfer(caller, label, to)
    <3>1. PICK label \in Names, to \in Heirs : Transfer(caller, label, to)
      BY <2>4
    <3>2. to \in Accounts /\ label \in Labels
      BY RegistryAssumption, NamesAreLabels
    <3>3. Registered(label) /\ Registered(label)' /\ MirrorOwner(label, to)
      BY <3>1, <3>2, TransferEntry DEF Transfer
    <3>4. NodeExists(NodeOf(label))
      BY <3>3 DEF NamesMirrored
    <3>5. SameTop /\ SameNames
      BY <1>0, <3>2, <3>3, <3>4, MirrorOnceWired DEF SameNames
    <3>6. \A l \in Names : Registered(l)' <=> Registered(l)
      BY <3>1, <3>3, NamesAreLabels DEF Transfer, Registered, PotTypeOK
    <3> QED BY <3>1, <3>5, <3>6, StandsStill DEF Transfer
  <2> QED BY <2>1, <2>2, <2>3, <2>4
          DEF SetRegistrarAdmin, AddController, RemoveController, SetGracePeriod,
              Register, CanRegister, Renew, CanRenew
<1> QED BY <1>1, <1>3, <1>4 DEF PotSystemNext

\* The mints and renewals of the controller, which has been authorized only
\* after .pot was given to the PotRegistrar.
LEMMA ControllerKeepsMirror ==
    ASSUME PotTypeOK, WiringStands, NamesMirrored, ControllerCall, UNCHANGED wired
    PROVE  WiringStands' /\ NamesMirrored'
<1>1. CASE \E label \in Names, duration \in Durations, owner \in Accounts :
               Register(ControllerId, label, owner, duration)
  <2>1. PICK label \in Names, duration \in Durations, owner \in Accounts :
               Register(ControllerId, label, owner, duration)
    BY <1>1
  <2>2. label \in Labels /\ RegistryTypeOK
    BY NamesAreLabels DEF PotTypeOK
  <2>3. Registered(label)' /\ MirrorOwner(label, owner)
    BY <2>1, <2>2, RegisterEntry DEF Register
  <2>4. NodeOwner(PotNode) = PotRegistrarId
    BY <2>1 DEF Register, CanRegister, WiringStands
  <2>5. /\ SameTop
        /\ NodeExists(NodeOf(label))'
        /\ \A m \in Names \ {label} : NodeExists(NodeOf(m))' <=> NodeExists(NodeOf(m))
    BY <2>2, <2>3, <2>4, MirrorOnceWired
  <2>6. \A l \in Names \ {label} : Registered(l)' <=> Registered(l)
    BY <2>1, NamesAreLabels DEF Register, Registered, PotTypeOK
  <2>7. NamesMirrored'
    BY <2>3, <2>5, <2>6 DEF NamesMirrored
  <2>8. WiringStands'
    BY <2>1, <2>5 DEF WiringStands, SameTop, Register
  <2> QED BY <2>7, <2>8
<1>2. CASE \E label \in Names, duration \in Durations :
               Renew(ControllerId, label, duration)
  <2>1. PICK label \in Names, duration \in Durations :
               Renew(ControllerId, label, duration)
    BY <1>2
  <2>2. SameTop /\ SameNames
    BY <2>1 DEF Renew, SameTop, SameNames, NodeOwner, NodeExists
  <2>3. Registered(label) /\ Registered(label)'
    BY <2>1, RenewEntry, NamesAreLabels
  <2>4. \A l \in Names : Registered(l)' <=> Registered(l)
    BY <2>1, <2>3, NamesAreLabels DEF Renew, Registered, PotTypeOK
  <2> QED BY <2>1, <2>2, <2>4, StandsStill DEF Renew
<1> QED BY <1>1, <1>2 DEF ControllerCall

\* Where the script mints: at .pot, or beside it and the names.
LEMMA ScriptNodes ==
    /\ NamehashStep(Root, PotLabel) = PotNode /\ PotNode # Root
    /\ \A l \in Names : NodeOf(l) # PotNode
    /\ \A l \in Names : NamehashStep(Root, ReverseLabel) \notin {Root, PotNode, NodeOf(l)}
    /\ \A l \in Names :
           NamehashStep(ReverseNode, AddrLabel) \notin {Root, PotNode, NodeOf(l)}
    /\ NamehashStep(Root, ReverseLabel) \notin {Root, PotNode}
    /\ NamehashStep(ReverseNode, AddrLabel) \notin {Root, PotNode}
<1>1. /\ Root \in Nodes /\ ReverseNode \in Nodes /\ PotNode \in Nodes
      /\ PotLabel \in Labels /\ ReverseLabel \in Labels /\ AddrLabel \in Labels
      /\ PotLabel # ReverseLabel /\ PotNode = NamehashStep(Root, PotLabel)
  BY RegistryAssumption, PotRegistrarAssumption, DeploymentAssumption DEF Root
<1>2. ReverseNode # Root /\ PotNode # Root
  BY <1>1, Tree DEF ReverseNode
<1>3. ReverseNode # PotNode
  BY <1>1, Tree DEF ReverseNode
<1>4. NamehashStep(ReverseNode, AddrLabel) \notin {Root, PotNode}
  BY <1>1, <1>2, Tree
<1>5. ASSUME NEW l \in Names
      PROVE  ReverseNode # NodeOf(l) /\ NamehashStep(ReverseNode, AddrLabel) # NodeOf(l)
  BY <1>1, <1>2, <1>3, Tree, NamesAreLabels DEF ReverseNode
<1>6. ASSUME NEW l \in Names PROVE NodeOf(l) # PotNode
  BY <1>1, <1>2, Tree, NamesAreLabels
<1> QED BY <1>1, <1>2, <1>3, <1>4, <1>5, <1>6 DEF ReverseNode

\* A node that the script mints beside .pot and the names.
LEMMA MintBeside ==
    ASSUME RegistryTypeOK, NEW p, NEW l, NEW owner, SetSubnodeOwner(Deployer, p, l, owner),
           NamehashStep(p, l) # Root, \A m \in Names : NamehashStep(p, l) # NodeOf(m)
    PROVE  /\ SameNames
           /\ NodeOwner(Root)' = NodeOwner(Root)
           /\ NamehashStep(p, l) # PotNode => SameTop
<1>1. \A n \in Nodes \ {NamehashStep(p, l)} : records'[n] = records[n]
  BY DEF SetSubnodeOwner, RegistryTypeOK
<1>2. Root \in Nodes /\ PotNode \in Nodes /\ \A m \in Names : NodeOf(m) \in Nodes
  BY RegistryAssumption, PotRegistrarAssumption DEF Root, Names
<1> QED BY <1>1, <1>2 DEF SameNames, SameTop, NodeOwner, NodeExists

\* The messages of the script, in its order.
LEMMA WiringKeepsMirror ==
    ASSUME PotTypeOK, wired \in 0..5, WiringStands, NamesMirrored, WiringStep
    PROVE  WiringStands' /\ NamesMirrored'
<1>1. ASSUME SameNames, UNCHANGED registrations PROVE NamesMirrored'
  BY <1>1 DEF SameNames, NamesMirrored, Registered
<1>2. RegistryTypeOK
  BY DEF PotTypeOK
<1>3. CASE wired = 0 /\ wired' = 1 /\ WirePot
  <2>1. SetSubnodeOwner(Deployer, Root, PotLabel, PotRegistrarId)
    BY <1>3 DEF WirePot
  <2>2. SameNames /\ NodeOwner(Root)' = NodeOwner(Root)
    BY <1>2, <2>1, ScriptNodes, MintBeside
  <2>3. NodeOwner(PotNode)' = PotRegistrarId
    <3> DEFINE r == [owner |-> PotRegistrarId, resolver |-> NodeResolver(PotNode), ttl |-> 0]
    <3>1. PotNode \in Nodes /\ records'[PotNode] = r
      BY <1>2, <2>1, ScriptNodes DEF SetSubnodeOwner, RegistryTypeOK
    <3>2. NodeResolver(PotNode) \in Accounts \cup {None}
      BY <1>2, <3>1 DEF NodeResolver, NodeExists, RegistryTypeOK, Record
    <3>3. r \in Record
      BY <3>2, RegistryAssumption, PotRegistrarAssumption DEF Record
    <3> QED BY <3>1, <3>3, NoneIsNoRecord DEF NodeOwner, NodeExists
  <2> QED BY <1>1, <1>3, <2>2, <2>3 DEF WirePot, WiringStands, potVars
<1>4. CASE wired = 1 /\ wired' = 2 /\ WireReverse
  <2>1. SameNames /\ SameTop
    BY <1>2, <1>4, ScriptNodes, MintBeside DEF WireReverse
  <2> QED BY <1>1, <1>4, <2>1 DEF WireReverse, WiringStands, SameTop, potVars
<1>5. CASE wired = 2 /\ wired' = 3 /\ WireAddrReverse
  <2>1. SameNames /\ SameTop
    BY <1>2, <1>5, ScriptNodes, MintBeside DEF WireAddrReverse
  <2> QED BY <1>1, <1>5, <2>1 DEF WireAddrReverse, WiringStands, SameTop, potVars
<1>6. CASE wired = 3 /\ wired' = 4 /\ AuthorizeController
  <2>1. SameNames /\ SameTop
    BY <1>6 DEF AuthorizeController, AddController, SameNames, SameTop, NodeOwner, NodeExists
  <2> QED BY <1>1, <1>6, <2>1 DEF AuthorizeController, AddController, WiringStands, SameTop
<1>7. CASE wired = 4 /\ wired' = 5 /\ OpenCommitWindow
  <2>1. UNCHANGED potSystemVars
    BY <1>7 DEF OpenCommitWindow, SetCommitAgeWindow
  <2>2. SameNames /\ SameTop
    BY <2>1 DEF potSystemVars, SameNames, SameTop, NodeOwner, NodeExists
  <2> QED BY <1>1, <1>7, <2>1, <2>2 DEF WiringStands, SameTop, potSystemVars, potVars
<1> QED BY <1>3, <1>4, <1>5, <1>6, <1>7 DEF WiringStep

\* At every moment of the deployment and after it, a name has a node exactly
\* when it has an entry, with or without rollback.
THEOREM MarketNamesMirrored == Scripted => (DeploymentSpec => []NamesMirrored)
<1> SUFFICES ASSUME Scripted PROVE DeploymentSpec => []NamesMirrored
  OBVIOUS
<1>1. DeploymentInit => WiringStands /\ NamesMirrored
  <2> SUFFICES ASSUME DeploymentInit PROVE WiringStands /\ NamesMirrored
    OBVIOUS
  <2>1. /\ records = [n \in Nodes |->
                        IF n = Root
                        THEN [owner |-> Deployer, resolver |-> None, ttl |-> 0]
                        ELSE None]
        /\ registrations = [l \in Labels |-> None]
        /\ controllers = {} /\ registrarAdmin = Deployer /\ wired = 0
    BY DEF DeploymentInit, MarketInit, PotSystemInit, RegistryInit, PotRegistrarInit
  <2>2. Root \in Nodes /\ PotNode \in Nodes /\ PotNode # Root
    BY RegistryAssumption, PotRegistrarAssumption, DeploymentAssumption, Tree DEF Root
  <2>3. records[Root] \in Record
    BY <2>1, <2>2, RegistryAssumption DEF Record
  <2>4. WiringStands
    BY <2>1, <2>2, <2>3, NoneIsNoRecord DEF WiringStands, NodeOwner, NodeExists
  <2>5. NamesMirrored
    BY <2>1, NameNodes DEF NamesMirrored, NodeExists, Registered
  <2> QED BY <2>4, <2>5
<1>2. MarketTypeOK /\ WiringStands /\ NamesMirrored /\ [DeploymentNext]_deployVars
        => WiringStands' /\ NamesMirrored'
  <2>1. ASSUME MarketTypeOK, WiringStands, NamesMirrored, MarketNext, UNCHANGED wired
        PROVE  WiringStands' /\ NamesMirrored'
    <3>1. PotTypeOK
      BY <2>1 DEF MarketTypeOK
    <3>2. CASE PotSystemNext
      BY <2>1, <3>1, <3>2, SignersKeepMirror
    <3>3. CASE ControllerCall
      BY <2>1, <3>1, <3>3, ControllerKeepsMirror
    <3>4. CASE UNCHANGED potSystemVars
      BY <2>1, <3>4, StandsStill
         DEF potSystemVars, potVars, SameTop, SameNames, NodeOwner, NodeExists, Registered
    <3> QED BY <2>1, <3>2, <3>3, <3>4, MarketNextSteps
  <2>2. ASSUME WiringStands, NamesMirrored, UNCHANGED deployVars
        PROVE  WiringStands' /\ NamesMirrored'
    BY <2>2, StandsStill
       DEF deployVars, marketVars, potSystemVars, potVars, SameTop, SameNames,
           NodeOwner, NodeExists, Registered
  <2> QED BY <2>1, <2>2, WiringKeepsMirror DEF DeploymentNext, MarketTypeOK
<1> QED BY <1>1, <1>2, MarketTyped, PTL DEF DeploymentSpec

-----------------------------------------------------------------------------
(* The dApp's registration.                                                 *)

\* A typed name is one label: it has no dot.  In a name with a dot the client
\* sees several labels, and the contracts one.
OneLabelEach == \A r \in Runs : Node[r] = NodeOf(Name[r])

\* What a run has done so far.
Progress == [status : {"idle", "available", "running", "done", "error"},
             at     : 1..4,
             lease  : 0..MaxU64 \cup {None}]

FlowTypeOK ==
    /\ PotTypeOK
    /\ ControllerTypeOK
    /\ addrs \in [Nodes -> Accounts \cup {None}]
    /\ runs \in [Runs -> Progress]

LEMMA RunFacts ==
    ASSUME NEW r \in Runs
    PROVE  /\ Who[r] \in Signers /\ Who[r] \in Heirs /\ Who[r] \in Accounts
           /\ Name[r] \in Names /\ Name[r] \in Labels
           /\ Node[r] \in Nodes
           /\ Commitment(r) \in Commitments
           /\ RentDuration \in Durations /\ RentDuration \in Nat
           /\ Value(r) \in Nat
<1>1. Name[r] \in Names /\ Node[r] \in Nodes
  BY MintFlowAssumption DEF Name, Node
<1>2. Who[r] \in Signers /\ Who[r] \in Heirs /\ Who[r] \in Accounts
  BY MintFlowAssumption, RegistryAssumption
<1>3. RentDuration \in Durations /\ RentDuration \in Nat
  BY MintFlowAssumption, PotRegistrarAssumption
<1>4. Commitment(r) \in Commitments
  BY <1>1, <1>2, CommitmentTyped, MintFlowAssumption DEF Commitment
<1>5. Value(r) \in Nat
  <2> DEFINE perYear == ClientPerYear(NameLen[Name[r]])
  <2>1. perYear \in Nat
    <3>1. /\ ClientPrices.premium \in Nat /\ ClientPrices.high \in Nat
          /\ ClientPrices.medium \in Nat /\ ClientPrices.base \in Nat
      BY MintFlowAssumption, ControllerAssumption DEF PriceTiers
    <3> QED BY <3>1 DEF ClientPerYear
  <2> HIDE DEF perYear
  <2>2. perYear * RentDuration \in Nat
    BY <1>3, <2>1
  <2>3. (perYear * RentDuration) \div Year \in Nat
    BY <2>2, ControllerAssumption
  <2>4. Value(r) = (perYear * RentDuration) \div Year + Tip
    BY DEF Value, perYear
  <2> QED BY <2>3, <2>4, MintFlowAssumption
<1> QED BY <1>1, <1>2, <1>3, <1>4, <1>5, NamesAreLabels

\* The four messages that a run sends, and what the chain does with them.
LEMMA Messages ==
    ASSUME NEW r \in Runs, Deliver(r)
    PROVE  \/ UNCHANGED chainVars
           \/ Plan[runs[r].at] = "commit" /\ Commit(Commitment(r)) /\ UNCHANGED resolverVars
           \/ /\ Plan[runs[r].at] = "register"
              /\ Accepted(r, "register")
              /\ Reveal(Who[r], Name[r], Who[r], RentDuration, Secret, Value(r))
              /\ UNCHANGED resolverVars
           \/ /\ Plan[runs[r].at] = "set_resolver"
              /\ SetResolver(Who[r], Node[r], PublicResolverId)
              /\ UNCHANGED <<potVars, now, controllerVars, resolverVars>>
           \/ /\ Plan[runs[r].at] = "set_addr"
              /\ SetAddr(Who[r], Node[r], Who[r])
              /\ UNCHANGED <<potVars, now, controllerVars>>
<1>1. CASE ~Accepted(r, Plan[runs[r].at])
  BY <1>1 DEF Deliver
<1>2. CASE Accepted(r, Plan[runs[r].at])
  <2>1. Perform(r, Plan[runs[r].at])
    BY <1>2 DEF Deliver
  <2> QED BY <1>2, <2>1 DEF Perform
<1> QED BY <1>1, <1>2

LEMMA DeliverTyped ==
    ASSUME PotTypeOK, ControllerTypeOK, addrs \in [Nodes -> Accounts \cup {None}],
           NEW r \in Runs, Deliver(r)
    PROVE  /\ PotTypeOK' /\ ControllerTypeOK'
           /\ addrs' \in [Nodes -> Accounts \cup {None}]
<1>1. CASE UNCHANGED chainVars
  BY <1>1 DEF PotTypeOK, RegistryTypeOK, ControllerTypeOK, chainVars, marketVars,
              potSystemVars, potVars, controllerVars, settingVars, resolverVars
<1>2. CASE Commit(Commitment(r)) /\ UNCHANGED resolverVars
  <2>1. PotTypeOK' /\ addrs' \in [Nodes -> Accounts \cup {None}]
    BY <1>2 DEF Commit, PotTypeOK, RegistryTypeOK, potSystemVars, potVars, resolverVars
  <2>2. ControllerTypeOK'
    BY <1>2 DEF Commit, ControllerTypeOK, PotTypeOK, settingVars
  <2> QED BY <2>1, <2>2
<1>3. CASE /\ Reveal(Who[r], Name[r], Who[r], RentDuration, Secret, Value(r))
           /\ UNCHANGED resolverVars
  <2> DEFINE owed == Quote(NameLen[Name[r]], RentDuration)
             c == MakeCommitment(Name[r], Who[r], Secret)
  <2>1. PotWrite(ControllerId)
    BY <1>3, RunFacts DEF Reveal, PotWrite
  <2>2. PotTypeOK'
    BY <2>1, PotWriteTyped, ControllerAssumption
  <2>3. /\ funds \in [Accounts -> Nat] /\ treasury \in Accounts /\ prices \in PriceTiers
        /\ NameLen[Name[r]] \in Nat
    BY RunFacts, ControllerAssumption DEF ControllerTypeOK
  <2>4. owed \in Nat
    BY <2>3, RunFacts, QuoteTyped
  <2>5. Value(r) <= funds[Who[r]] /\ PaysRent(Value(r), owed) /\ funds' = Settle(Who[r], Value(r), owed)
    BY <1>3 DEF Reveal
  <2>6. owed <= Value(r)
    BY <2>4, <2>5, RunFacts DEF PaysRent
  <2>7. funds' \in [Accounts -> Nat]
    <3> HIDE DEF owed
    <3> QED BY <2>3, <2>4, <2>5, <2>6, RunFacts, SettleTyped
  <2>8. commitments' \in [Commitments -> 0..MaxTime \cup {None}]
    BY <1>3 DEF Reveal, SpendCommitment, ControllerTypeOK
  <2>9. ControllerTypeOK'
    BY <1>3, <2>7, <2>8 DEF Reveal, ControllerTypeOK, settingVars
  <2> QED BY <1>3, <2>2, <2>9 DEF resolverVars
<1>4. CASE /\ SetResolver(Who[r], Node[r], PublicResolverId)
           /\ UNCHANGED <<potVars, now, controllerVars, resolverVars>>
  <2>1. RegistryWrite(Who[r])
    BY <1>4, RunFacts, ResolverAssumption DEF RegistryWrite
  <2>2. RegistryTypeOK'
    BY <2>1, RunFacts, WriteTyped DEF PotTypeOK
  <2>3. PotTypeOK'
    BY <1>4, <2>2 DEF PotTypeOK, potVars
  <2> QED BY <1>4, <2>3 DEF ControllerTypeOK, controllerVars, settingVars, resolverVars
<1>5. CASE /\ SetAddr(Who[r], Node[r], Who[r])
           /\ UNCHANGED <<potVars, now, controllerVars>>
  <2>1. addrs' \in [Nodes -> Accounts \cup {None}]
    BY <1>5, RunFacts DEF SetAddr
  <2>2. PotTypeOK'
    BY <1>5 DEF PotTypeOK, RegistryTypeOK, potVars, SetAddr
  <2> QED BY <1>5, <2>1, <2>2 DEF ControllerTypeOK, controllerVars, settingVars
<1> QED BY <1>1, <1>2, <1>3, <1>4, <1>5, Messages

\* What a step does to the runs.
LEMMA RunSteps ==
    ASSUME FlowTypeOK, MintFlowNext
    PROVE  \/ UNCHANGED runs /\ Tick /\ UNCHANGED <<controllerVars, resolverVars>>
           \/ \E r \in Runs :
                /\ \A q \in Runs \ {r} : runs'[q] = runs[q]
                /\ runs' \in [Runs -> Progress]
                /\ \/ /\ runs[r].status \in {"idle", "available"}
                      /\ runs'[r].status # "done" /\ runs'[r].lease = runs[r].lease
                      /\ \/ UNCHANGED funds
                         \/ funds' = [funds EXCEPT ![Who[r]] = @ + Drip]
                      /\ UNCHANGED <<potSystemVars, commitments, settingVars, resolverVars>>
                   \/ /\ runs[r].status = "running" /\ Deliver(r)
                      /\ runs'[r].lease = LeaseWon(r)
                      /\ \/ runs[r].at = 4 /\ runs'[r].status = "done"
                         \/ /\ runs[r].at # 4 /\ runs'[r].status = "running"
                            /\ runs'[r].at = runs[r].at + 1
                   \/ /\ runs[r].status = "running"
                      /\ Deliver(r) \/ UNCHANGED chainVars
                      /\ runs'[r].lease = None /\ runs'[r].status = "error"
<1>1. runs \in [Runs -> Progress] /\ \A r \in Runs : runs[r] \in Progress
  BY DEF FlowTypeOK
<1>2. ASSUME NEW r \in Runs, NEW s \in {"idle", "available", "running", "done", "error"}
      PROVE  [runs[r] EXCEPT !.status = s] \in Progress
  BY <1>1 DEF Progress
<1>3. ASSUME NEW r \in Runs, Search(r) \/ Fund(r)
      PROVE  /\ \A q \in Runs \ {r} : runs'[q] = runs[q]
             /\ runs' \in [Runs -> Progress]
             /\ runs[r].status \in {"idle", "available"}
             /\ runs'[r].status # "done" /\ runs'[r].lease = runs[r].lease
             /\ \/ UNCHANGED funds
                \/ funds' = [funds EXCEPT ![Who[r]] = @ + Drip]
             /\ UNCHANGED <<potSystemVars, commitments, settingVars, resolverVars>>
  <2>1. PICK s \in {"available", "running", "error"} : runs' = [runs EXCEPT ![r].status = s]
    BY <1>3 DEF Search, Fund
  <2>2. /\ runs' = [runs EXCEPT ![r] = [runs[r] EXCEPT !.status = s]]
        /\ [runs[r] EXCEPT !.status = s].status = s
        /\ [runs[r] EXCEPT !.status = s].lease = runs[r].lease
    BY <1>1, <2>1 DEF Progress
  <2>3. runs'[r] = [runs[r] EXCEPT !.status = s]
    BY <1>1, <2>2
  <2>4. /\ runs[r].status \in {"idle", "available"}
        /\ \/ UNCHANGED funds
           \/ funds' = [funds EXCEPT ![Who[r]] = @ + Drip]
        /\ UNCHANGED <<potSystemVars, commitments, settingVars, resolverVars>>
    BY <1>3 DEF Search, Fund, chainVars, marketVars, controllerVars
  <2> QED BY <1>1, <1>2, <2>2, <2>3, <2>4
<1>4. ASSUME NEW r \in Runs, Include(r)
      PROVE  /\ \A q \in Runs \ {r} : runs'[q] = runs[q]
             /\ runs' \in [Runs -> Progress]
             /\ runs[r].status = "running" /\ Deliver(r)
             /\ runs'[r].lease = LeaseWon(r)
             /\ \/ runs[r].at = 4 /\ runs'[r].status = "done"
                \/ /\ runs[r].at # 4 /\ runs'[r].status = "running"
                   /\ runs'[r].at = runs[r].at + 1
  <2> DEFINE last == [runs[r] EXCEPT !.status = "done", !.lease = LeaseWon(r)]
             next == [runs[r] EXCEPT !.at = runs[r].at + 1, !.lease = LeaseWon(r)]
  <2>1. LeaseWon(r) \in 0..MaxU64 \cup {None}
    <3>1. now \in Nat /\ RentDuration \in Nat
      BY RunFacts, TimesAreNat DEF FlowTypeOK
    <3>2. SatAdd(now, RentDuration) \in 0..MaxU64
      BY <3>1, SatAddBounds
    <3>3. runs[r].lease \in 0..MaxU64 \cup {None}
      BY <1>1 DEF Progress
    <3> QED BY <3>2, <3>3 DEF LeaseWon
  <2>2. Len(Plan) = 4
    BY DEF Plan
  <2>3. /\ runs[r].status = "running" /\ Deliver(r)
        /\ \/ runs[r].at = 4 /\ runs' = [runs EXCEPT ![r] = last]
           \/ runs[r].at # 4 /\ runs' = [runs EXCEPT ![r] = next]
    <3>1. /\ runs[r].status = "running" /\ Deliver(r)
          /\ runs' = [runs EXCEPT ![r] = IF @.at = Len(Plan)
                                         THEN [@ EXCEPT !.status = "done", !.lease = LeaseWon(r)]
                                         ELSE [@ EXCEPT !.at = runs[r].at + 1,
                                                        !.lease = LeaseWon(r)]]
      BY <1>4 DEF Include
    <3> HIDE DEF LeaseWon
    <3>2. CASE runs[r].at = 4
      BY <1>1, <2>2, <3>1, <3>2
    <3>3. CASE runs[r].at # 4
      BY <1>1, <2>2, <3>1, <3>3
    <3> QED BY <3>1, <3>2, <3>3
  <2>4. /\ last.lease = LeaseWon(r) /\ last.status = "done" /\ last \in Progress
        /\ next.lease = LeaseWon(r) /\ next.status = runs[r].status
        /\ next.at = runs[r].at + 1
        /\ runs[r].at # 4 => next \in Progress
    <3> DEFINE won == LeaseWon(r)
    <3>1. runs[r] \in Progress /\ won \in 0..MaxU64 \cup {None}
      BY <1>1, <2>1
    <3> HIDE DEF won
    <3>2. /\ [runs[r] EXCEPT !.status = "done", !.lease = won] \in Progress
          /\ [runs[r] EXCEPT !.status = "done", !.lease = won].lease = won
          /\ [runs[r] EXCEPT !.status = "done", !.lease = won].status = "done"
      BY <3>1 DEF Progress
    <3>3. /\ [runs[r] EXCEPT !.at = runs[r].at + 1, !.lease = won].lease = won
          /\ [runs[r] EXCEPT !.at = runs[r].at + 1, !.lease = won].status = runs[r].status
          /\ [runs[r] EXCEPT !.at = runs[r].at + 1, !.lease = won].at = runs[r].at + 1
      BY <3>1 DEF Progress
    <3>4. runs[r].at # 4 => runs[r].at + 1 \in 1..4
      BY <3>1 DEF Progress
    <3>5. runs[r].at # 4 =>
              [runs[r] EXCEPT !.at = runs[r].at + 1, !.lease = won] \in Progress
      BY <3>1, <3>4 DEF Progress
    <3> QED BY <3>2, <3>3, <3>5 DEF won
  <2> HIDE DEF last, next
  <2>5. \/ runs[r].at = 4 /\ runs'[r] = last /\ runs' \in [Runs -> Progress]
        \/ runs[r].at # 4 /\ runs'[r] = next /\ runs' \in [Runs -> Progress]
    BY <1>1, <2>3, <2>4
  <2>6. \A q \in Runs \ {r} : runs'[q] = runs[q]
    BY <1>1, <2>3
  <2> QED BY <2>3, <2>4, <2>5, <2>6
<1>5. ASSUME NEW r \in Runs, Lose(r)
      PROVE  /\ \A q \in Runs \ {r} : runs'[q] = runs[q]
             /\ runs' \in [Runs -> Progress]
             /\ runs[r].status = "running"
             /\ Deliver(r) \/ UNCHANGED chainVars
             /\ runs'[r].lease = None /\ runs'[r].status = "error"
  <2> DEFINE new == [status |-> "error", at |-> 1, lease |-> None]
  <2>1. [Idle EXCEPT !.status = "error"] = new
    BY DEF Idle
  <2>2. /\ runs' = [runs EXCEPT ![r] = new]
        /\ runs[r].status = "running" /\ (Deliver(r) \/ UNCHANGED chainVars)
    BY <1>5, <2>1 DEF Lose
  <2>3. new \in Progress /\ new.lease = None /\ new.status = "error"
    BY DEF Progress
  <2> HIDE DEF new
  <2>4. runs'[r] = new /\ runs' \in [Runs -> Progress]
    BY <1>1, <2>2, <2>3
  <2> QED BY <1>1, <2>2, <2>3, <2>4
<1> QED BY <1>3, <1>4, <1>5 DEF MintFlowNext

LEMMA FlowKeepsTypes ==
    ASSUME FlowTypeOK, [MintFlowNext]_mintVars
    PROVE  FlowTypeOK'
<1>1. CASE UNCHANGED mintVars
  BY <1>1 DEF FlowTypeOK, PotTypeOK, RegistryTypeOK, ControllerTypeOK, mintVars, chainVars,
              marketVars, potSystemVars, potVars, controllerVars, settingVars, resolverVars
<1>2. CASE UNCHANGED runs /\ Tick /\ UNCHANGED <<controllerVars, resolverVars>>
  <2>1. PotStep({})
    BY <1>2 DEF PotStep
  <2>2. PotTypeOK'
    BY <2>1, PotStepTyped DEF FlowTypeOK
  <2> QED BY <1>2, <2>2 DEF FlowTypeOK, ControllerTypeOK, controllerVars, settingVars,
                            resolverVars
<1>3. ASSUME NEW r \in Runs, runs' \in [Runs -> Progress],
             UNCHANGED <<potSystemVars, commitments, settingVars, resolverVars>>,
             UNCHANGED funds \/ funds' = [funds EXCEPT ![Who[r]] = @ + Drip]
      PROVE  FlowTypeOK'
  <2>1. funds' \in [Accounts -> Nat]
    BY <1>3, RunFacts, MintFlowAssumption DEF FlowTypeOK, ControllerTypeOK
  <2> QED BY <1>3, <2>1 DEF FlowTypeOK, PotTypeOK, RegistryTypeOK, ControllerTypeOK,
                            potSystemVars, potVars, settingVars, resolverVars
<1>4. ASSUME NEW r \in Runs, runs' \in [Runs -> Progress],
             Deliver(r) \/ UNCHANGED chainVars
      PROVE  FlowTypeOK'
  <2>1. CASE Deliver(r)
    BY <1>4, <2>1, DeliverTyped DEF FlowTypeOK
  <2>2. CASE UNCHANGED chainVars
    BY <1>4, <2>2
       DEF FlowTypeOK, PotTypeOK, RegistryTypeOK, ControllerTypeOK, chainVars, marketVars,
           potSystemVars, potVars, controllerVars, settingVars, resolverVars
  <2> QED BY <1>4, <2>1, <2>2
<1> QED BY <1>1, <1>2, <1>3, <1>4, RunSteps

LEMMA FlowInitTyped ==
    ASSUME MintFlowInit
    PROVE  FlowTypeOK
<1>1. RegistryTypeOK
  BY RegistryAssumption, PotRegistrarAssumption DEF MintFlowInit, RegistryTypeOK, Record
<1>2. PotTypeOK
  BY <1>1, RegistryAssumption, PotRegistrarAssumption, ControllerAssumption
     DEF MintFlowInit, PotTypeOK
<1>3. ControllerTypeOK
  BY WindowTyped, RegistryAssumption, ControllerAssumption
     DEF MintFlowInit, ControllerInit, ControllerTypeOK
<1>4. Idle \in Progress
  BY DEF Idle, Progress
<1> QED BY <1>2, <1>3, <1>4 DEF MintFlowInit, ResolverInit, FlowTypeOK

\* The contracts and the runs that use them stay well typed.
THEOREM FlowTyped == MintFlowSpec => []FlowTypeOK
  BY FlowInitTyped, FlowKeepsTypes, PTL DEF MintFlowSpec

\* Money only leaves the account that sends register.
LEMMA PayerPays ==
    ASSUME FlowTypeOK, NEW r \in Runs,
           Reveal(Who[r], Name[r], Who[r], RentDuration, Secret, Value(r)),
           NEW a \in Accounts \ {Who[r]}
    PROVE  funds'[a] >= funds[a]
<1> DEFINE owed == Quote(NameLen[Name[r]], RentDuration)
           held == Deposit(Who[r], Value(r))
<1>1. /\ funds \in [Accounts -> Nat] /\ treasury \in Accounts /\ prices \in PriceTiers
      /\ NameLen[Name[r]] \in Nat
  BY RunFacts, ControllerAssumption DEF FlowTypeOK, ControllerTypeOK
<1>2. owed \in Nat
  BY <1>1, RunFacts, QuoteTyped
<1>3. /\ Value(r) <= funds[Who[r]] /\ PaysRent(Value(r), owed)
      /\ funds' = Settle(Who[r], Value(r), owed)
  BY DEF Reveal
<1>4. owed <= Value(r) /\ Value(r) \in Nat /\ ControllerId \in Accounts /\ Who[r] # ControllerId
  BY <1>2, <1>3, RunFacts, ControllerAssumption DEF PaysRent
<1>5. /\ held \in [Accounts -> Nat]
      /\ \A x \in Accounts \ {Who[r]} :
             held[x] = funds[x] + IF x = ControllerId THEN Value(r) ELSE 0
  BY <1>1, <1>3, RunFacts, DepositTyped
<1> HIDE DEF owed, held
<1>6. funds' \in {held, Move(held, ControllerId, treasury, owed)}
  BY <1>3 DEF Settle, held
<1>7. owed <= held[ControllerId]
  BY <1>1, <1>2, <1>4, <1>5
<1>8. CASE funds' = held
  BY <1>1, <1>4, <1>5, <1>8
<1>9. CASE funds' = Move(held, ControllerId, treasury, owed)
  <2>1. funds'[a] = (held[a] - IF a = ControllerId THEN owed ELSE 0)
                      + IF a = treasury THEN owed ELSE 0
    BY <1>9 DEF Move
  <2> QED BY <1>1, <1>2, <1>4, <1>5, <2>1
<1> QED BY <1>6, <1>8, <1>9

\* Whoever pays is granted the name, which was free.
THEOREM FlowOnlyWinnersPay == MintFlowSpec => OnlyWinnersPay
<1>1. ASSUME FlowTypeOK, MintFlowNext, NEW a \in Heirs, funds'[a] < funds[a]
      PROVE  \E l \in Names :
                /\ Registered(l) => now >= registrations[l].expires + gracePeriod
                /\ registrations'[l] = [owner |-> a, expires |-> SatAdd(now, RentDuration)]
  <2>0. a \in Accounts /\ funds \in [Accounts -> Nat] /\ Drip \in Nat
    BY RegistryAssumption, <1>1, MintFlowAssumption DEF FlowTypeOK, ControllerTypeOK
  <2>1. \A r \in Runs : funds' # [funds EXCEPT ![Who[r]] = @ + Drip]
    BY <1>1, <2>0, RunFacts
  <2>2. funds' # funds
    BY <1>1, <2>0
  <2>3. PICK r \in Runs : Deliver(r)
    BY <1>1, <2>1, <2>2, RunSteps DEF chainVars, marketVars, controllerVars
  <2>4. /\ Reveal(Who[r], Name[r], Who[r], RentDuration, Secret, Value(r))
    BY <2>2, <2>3, Messages DEF chainVars, marketVars, controllerVars, Commit
  <2>5. a = Who[r]
    <3>1. a # Who[r] => funds'[a] >= funds[a]
      BY <1>1, <2>0, <2>4, PayerPays
    <3>2. funds'[a] \in Nat
      BY <1>1, <2>0, FlowKeepsTypes DEF FlowTypeOK, ControllerTypeOK
    <3> QED BY <1>1, <2>0, <3>1, <3>2
  <2>6. Register(ControllerId, Name[r], Who[r], RentDuration)
    BY <2>4 DEF Reveal
  <2>7. /\ Available(Name[r])
        /\ registrations'[Name[r]] = [owner |-> a, expires |-> SatAdd(now, RentDuration)]
    BY <1>1, <2>5, <2>6, RegisterEntry, RunFacts DEF FlowTypeOK
  <2>8. Registered(Name[r]) => ~(now < registrations[Name[r]].expires + gracePeriod)
    BY <1>1, <2>7, NotAvailableInGrace, RunFacts DEF FlowTypeOK
  <2>9. Registered(Name[r]) =>
            now \in Nat /\ gracePeriod \in Nat /\ registrations[Name[r]].expires \in Nat
    BY <1>1, RegisteredTyped, TimesAreNat, RunFacts DEF FlowTypeOK
  <2> QED BY <2>7, <2>8, <2>9, RunFacts
<1>2. ASSUME FlowTypeOK, [MintFlowNext]_mintVars
      PROVE  [\A a \in Heirs :
                funds'[a] < funds[a] =>
                    \E l \in Names :
                        /\ Registered(l) => now >= registrations[l].expires + gracePeriod
                        /\ registrations'[l] =
                              [owner |-> a, expires |-> SatAdd(now, RentDuration)]]_mintVars
  BY <1>1, <1>2
<1> QED BY <1>2, FlowTyped, PTL DEF MintFlowSpec, OnlyWinnersPay

\* The lease that a run got, and its grace period, are not over.
InLease(r) == runs[r].lease # None /\ now < runs[r].lease + gracePeriod

\* Until then the name and its node are the signer's.
NameWon(r) ==
    /\ registrations[Name[r]] = [owner |-> Who[r], expires |-> runs[r].lease]
    /\ NodeOwner(Node[r]) = Who[r]

Directed(r) == NodeResolver(Node[r]) = PublicResolverId
Published(r) == addrs[Node[r]] = Who[r]

\* How far a run that got its name has come in publishing it.
WinsStand ==
    \A r \in Runs : InLease(r) =>
        /\ NameWon(r)
        /\ runs[r].status \in {"running", "done"}
        /\ runs[r].status = "running" => runs[r].at \in {3, 4}
        /\ runs[r].status = "done" \/ runs[r].at = 4 => Directed(r)
        /\ runs[r].status = "done" => Published(r)

\* The mirror call is made where the registrar owns .pot, as accepted ones do.
LEMMA MintMirrored ==
    ASSUME FlowTypeOK, NEW q \in Runs, Accepted(q, "register"),
           Reveal(Who[q], Name[q], Who[q], RentDuration, Secret, Value(q))
    PROVE  /\ Register(ControllerId, Name[q], Who[q], RentDuration)
           /\ SetSubnodeOwner(PotRegistrarId, PotNode, Name[q], Who[q])
           /\ UNCHANGED <<now, gracePeriod>>
<1>1. Register(ControllerId, Name[q], Who[q], RentDuration)
  BY DEF Reveal
<1>2. OnlyOwner(PotRegistrarId, PotNode)
  BY DEF Accepted
<1> QED BY <1>1, <1>2 DEF Register, MirrorOwner

\* What was won stands, whatever message of whichever run is delivered.
LEMMA DeliveryKeepsWin ==
    ASSUME FlowTypeOK, OneLabelEach, NEW q \in Runs, Deliver(q),
           NEW r \in Runs, InLease(r), NameWon(r)
    PROVE  /\ UNCHANGED <<now, gracePeriod>>
           /\ registrations'[Name[r]] = registrations[Name[r]]
           /\ NodeOwner(Node[r])' = Who[r]
           /\ Directed(r) => Directed(r)'
           /\ Published(r) => Published(r)'
<1>0. /\ Node[r] \in Nodes /\ Who[r] \in Accounts /\ Name[r] \in Labels
      /\ PotTypeOK /\ RegistryTypeOK
  BY RunFacts DEF FlowTypeOK, PotTypeOK
<1>1. CASE UNCHANGED <<potSystemVars, resolverVars>>
  BY <1>1 DEF NameWon, NodeOwner, NodeExists, NodeResolver, Directed, Published,
              potSystemVars, potVars, resolverVars
<1>2. CASE /\ Accepted(q, "register")
           /\ Reveal(Who[q], Name[q], Who[q], RentDuration, Secret, Value(q))
           /\ UNCHANGED resolverVars
  <2>1. /\ Register(ControllerId, Name[q], Who[q], RentDuration)
        /\ SetSubnodeOwner(PotRegistrarId, PotNode, Name[q], Who[q])
        /\ UNCHANGED <<now, gracePeriod>>
    BY <1>2, MintMirrored
  <2>2. Name[q] # Name[r]
    <3>1. Available(Name[q])
      BY <2>1 DEF Register, CanRegister
    <3>2. [owner |-> Who[r], expires |-> runs[r].lease] \in Registration
      <4>1. runs[r].lease \in 0..MaxU64
        BY DEF FlowTypeOK, Progress, InLease
      <4> QED BY <1>0, <4>1 DEF Registration
    <3>3. /\ Registered(Name[r])
          /\ now < registrations[Name[r]].expires + gracePeriod
      BY <3>2, NoneIsNoRegistration DEF NameWon, InLease, Registered
    <3>4. ~Available(Name[r])
      BY <1>0, <3>3, NotAvailableInGrace
    <3> QED BY <3>1, <3>4
  <2>3. NodeOf(Name[q]) # Node[r]
    <3>1. PotNode \in Seq(Labels) /\ Name[q] \in Labels
      BY RunFacts, RegistryAssumption, PotRegistrarAssumption
    <3> QED BY <1>0, <2>2, <3>1, AppendInjective DEF OneLabelEach, NodeOf, NamehashStep
  <2>4. records'[Node[r]] = records[Node[r]]
    BY <1>0, <2>1, <2>3 DEF SetSubnodeOwner, NodeOf, RegistryTypeOK
  <2>5. registrations'[Name[r]] = registrations[Name[r]]
    BY <1>0, <2>1, <2>2 DEF Register, PotTypeOK
  <2> QED BY <1>2, <2>1, <2>4, <2>5
          DEF NameWon, NodeOwner, NodeExists, NodeResolver, Directed, Published, resolverVars
<1>3. CASE /\ SetResolver(Who[q], Node[q], PublicResolverId)
           /\ UNCHANGED <<potVars, now, controllerVars, resolverVars>>
  <2>1. NodeExists(Node[r]) /\ records[Node[r]] \in Record
    BY <1>0, RegistryAssumption DEF NameWon, NodeOwner, NodeExists, RegistryTypeOK
  <2>2. CASE Node[q] # Node[r]
    <3>1. records'[Node[r]] = records[Node[r]]
      BY <1>0, <1>3, <2>2 DEF SetResolver, RegistryTypeOK
    <3> QED BY <1>3, <3>1
            DEF NameWon, NodeOwner, NodeExists, NodeResolver, Directed, Published, potVars,
                resolverVars
  <2>3. CASE Node[q] = Node[r]
    <3> DEFINE new == [records[Node[r]] EXCEPT !.resolver = PublicResolverId]
    <3>1. records'[Node[r]] = new
      BY <1>0, <1>3, <2>3 DEF SetResolver, RegistryTypeOK
    <3>2. /\ new \in Record /\ new.owner = records[Node[r]].owner
          /\ new.resolver = PublicResolverId
      BY <2>1, ResolverAssumption DEF Record
    <3> HIDE DEF new
    <3>3. NodeExists(Node[r])' /\ NodeOwner(Node[r])' = Who[r]
      BY <2>1, <3>1, <3>2, NoneIsNoRecord DEF NodeExists, NodeOwner, NameWon
    <3>4. Directed(r)'
      BY <3>1, <3>2, <3>3 DEF Directed, NodeResolver, NodeExists
    <3> QED BY <1>3, <3>3, <3>4 DEF Published, potVars, resolverVars
  <2> QED BY <2>2, <2>3
<1>4. CASE /\ SetAddr(Who[q], Node[q], Who[q])
           /\ UNCHANGED <<potVars, now, controllerVars>>
  <2>1. Published(r) => Published(r)'
    BY <1>0, <1>4 DEF SetAddr, OnlyNodeOwner, NameWon, Published, FlowTypeOK
  <2> QED BY <1>4, <2>1
          DEF SetAddr, NameWon, NodeOwner, NodeExists, NodeResolver, Directed, potVars
<1> QED BY <1>1, <1>2, <1>3, <1>4, Messages
        DEF Commit, chainVars, marketVars, potSystemVars

\* The extrinsic of a run itself: the mint gives it name and node, the next
\* one directs the node to the resolver, and the last publishes the account.
LEMMA DeliveryAdvances ==
    ASSUME FlowTypeOK, OneLabelEach, NEW r \in Runs, Deliver(r)
    PROVE  /\ Plan[runs[r].at] = "register" /\ Accepted(r, "register") =>
                 /\ registrations'[Name[r]] =
                       [owner |-> Who[r], expires |-> SatAdd(now, RentDuration)]
                 /\ NodeOwner(Node[r])' = Who[r]
           /\ Plan[runs[r].at] = "set_resolver" /\ NameWon(r) => Directed(r)'
           /\ Plan[runs[r].at] = "set_addr" /\ NameWon(r) => Published(r)'
<1>0. /\ Node[r] \in Nodes /\ Who[r] \in Accounts /\ Name[r] \in Labels
      /\ PotTypeOK /\ RegistryTypeOK
  BY RunFacts DEF FlowTypeOK, PotTypeOK
<1>1. ASSUME Plan[runs[r].at] = "register", Accepted(r, "register")
      PROVE  /\ registrations'[Name[r]] =
                   [owner |-> Who[r], expires |-> SatAdd(now, RentDuration)]
             /\ NodeOwner(Node[r])' = Who[r]
  <2>1. Reveal(Who[r], Name[r], Who[r], RentDuration, Secret, Value(r))
    BY <1>1 DEF Deliver, Perform
  <2>2. /\ Register(ControllerId, Name[r], Who[r], RentDuration)
        /\ SetSubnodeOwner(PotRegistrarId, PotNode, Name[r], Who[r])
    BY <1>1, <2>1, MintMirrored
  <2>3. NodeOwner(NodeOf(Name[r]))' = Who[r]
    BY <1>0, <2>2, MirrorSetsOwner
  <2> QED BY <1>0, <2>2, <2>3, RegisterEntry, RunFacts DEF OneLabelEach
<1>2. ASSUME Plan[runs[r].at] = "set_resolver", NameWon(r)
      PROVE  Directed(r)'
  <2>1. Accepted(r, "set_resolver")
    BY <1>2 DEF Accepted, OnlyOwner, NameWon
  <2>2. SetResolver(Who[r], Node[r], PublicResolverId)
    BY <1>2, <2>1 DEF Deliver, Perform
  <2>3. records[Node[r]] \in Record
    BY <1>0, <1>2, RegistryAssumption DEF NameWon, NodeOwner, NodeExists, RegistryTypeOK
  <2>4. [records[Node[r]] EXCEPT !.resolver = PublicResolverId] \in Record
    BY <2>3, ResolverAssumption DEF Record
  <2>5. /\ records'[Node[r]] = [records[Node[r]] EXCEPT !.resolver = PublicResolverId]
        /\ records'[Node[r]].resolver = PublicResolverId
    BY <1>0, <2>2, <2>3 DEF SetResolver, RegistryTypeOK, Record
  <2> QED BY <2>4, <2>5, NoneIsNoRecord DEF Directed, NodeResolver, NodeExists
<1>3. ASSUME Plan[runs[r].at] = "set_addr", NameWon(r)
      PROVE  Published(r)'
  <2>1. Accepted(r, "set_addr")
    BY <1>3 DEF Accepted, OnlyOwner, NameWon
  <2>2. SetAddr(Who[r], Node[r], Who[r])
    BY <1>3, <2>1 DEF Deliver, Perform
  <2> QED BY <1>0, <2>2 DEF SetAddr, Published, FlowTypeOK
<1> QED BY <1>1, <1>2, <1>3

\* No message moves the clock, or the grace period.
LEMMA DeliveryClock ==
    ASSUME NEW q \in Runs, Deliver(q)
    PROVE  UNCHANGED <<now, gracePeriod>>
  BY Messages
     DEF Commit, Reveal, Register, SetResolver, SetAddr, chainVars, marketVars,
         potSystemVars, potVars

LEMMA FlowKeepsWins ==
    ASSUME FlowTypeOK, OneLabelEach, WinsStand, [MintFlowNext]_mintVars
    PROVE  WinsStand'
<1> USE DEF WinsStand
<1>1. CASE UNCHANGED mintVars
  BY <1>1 DEF InLease, NameWon, NodeOwner, NodeExists, NodeResolver, Directed, Published,
              mintVars, chainVars, marketVars, potSystemVars, potVars, resolverVars
<1>2. CASE UNCHANGED runs /\ Tick /\ UNCHANGED <<controllerVars, resolverVars>>
  <2>1. now \in Nat /\ now' = now + 1 /\ gracePeriod \in Nat
    BY <1>2, TimesAreNat DEF FlowTypeOK, Tick
  <2>2. \A r \in Runs : runs[r].lease \in Nat \cup {None}
    BY PotRegistrarAssumption DEF FlowTypeOK, Progress
  <2>3. \A r \in Runs : InLease(r)' => InLease(r)
    BY <1>2, <2>1, <2>2 DEF InLease, Tick, potVars
  <2> QED BY <1>2, <2>3 DEF NameWon, NodeOwner, NodeExists, NodeResolver, Directed,
                            Published, Tick, potVars, resolverVars
<1>3. CASE /\ MintFlowNext
           /\ ~(UNCHANGED runs /\ Tick /\ UNCHANGED <<controllerVars, resolverVars>>)
  <2>1. PICK r \in Runs :
           /\ \A q \in Runs \ {r} : runs'[q] = runs[q]
           /\ \/ /\ runs[r].status \in {"idle", "available"}
                 /\ runs'[r].status # "done" /\ runs'[r].lease = runs[r].lease
                 /\ UNCHANGED <<potSystemVars, resolverVars>>
              \/ /\ runs[r].status = "running" /\ Deliver(r)
                 /\ runs'[r].lease = LeaseWon(r)
                 /\ \/ runs[r].at = 4 /\ runs'[r].status = "done"
                    \/ /\ runs[r].at # 4 /\ runs'[r].status = "running"
                       /\ runs'[r].at = runs[r].at + 1
              \/ /\ runs[r].status = "running"
                 /\ Deliver(r) \/ UNCHANGED chainVars
                 /\ runs'[r].lease = None /\ runs'[r].status = "error"
    BY <1>3, RunSteps
  <2>2. Deliver(r) \/ UNCHANGED <<potSystemVars, resolverVars>>
    BY <2>1 DEF chainVars, marketVars
  <2>3. UNCHANGED <<now, gracePeriod>>
    BY <1>3, <2>2, DeliveryClock DEF potSystemVars, potVars
  <2>4. ASSUME NEW q \in Runs, InLease(q)
        PROVE  /\ registrations'[Name[q]] = registrations[Name[q]]
               /\ NodeOwner(Node[q])' = Who[q]
               /\ Directed(q) => Directed(q)'
               /\ Published(q) => Published(q)'
    <3>1. NameWon(q)
      BY <2>4
    <3>2. CASE Deliver(r)
      BY <2>4, <3>1, <3>2, DeliveryKeepsWin
    <3>3. CASE UNCHANGED <<potSystemVars, resolverVars>>
      BY <3>1, <3>3 DEF NameWon, NodeOwner, NodeExists, NodeResolver, Directed, Published,
                        potSystemVars, potVars, resolverVars
    <3> QED BY <2>2, <3>2, <3>3
  <2>5. ASSUME NEW q \in Runs \ {r}, InLease(q)'
        PROVE  /\ NameWon(q)'
               /\ runs'[q].status \in {"running", "done"}
               /\ runs'[q].status = "running" => runs'[q].at \in {3, 4}
               /\ runs'[q].status = "done" \/ runs'[q].at = 4 => Directed(q)'
               /\ runs'[q].status = "done" => Published(q)'
    <3>1. runs'[q] = runs[q] /\ InLease(q)
      BY <2>1, <2>3, <2>5 DEF InLease
    <3> QED BY <2>4, <2>5, <3>1 DEF NameWon
  <2>6. ASSUME InLease(r)'
        PROVE  /\ NameWon(r)'
               /\ runs'[r].status \in {"running", "done"}
               /\ runs'[r].status = "running" => runs'[r].at \in {3, 4}
               /\ runs'[r].status = "done" \/ runs'[r].at = 4 => Directed(r)'
               /\ runs'[r].status = "done" => Published(r)'
    <3>1. runs[r].status = "running" /\ Deliver(r)
      BY <2>1, <2>3, <2>6 DEF InLease
    <3>2. /\ runs'[r].lease = LeaseWon(r)
          /\ \/ runs[r].at = 4 /\ runs'[r].status = "done"
             \/ /\ runs[r].at # 4 /\ runs'[r].status = "running"
                /\ runs'[r].at = runs[r].at + 1
      BY <2>1, <2>6, <3>1 DEF InLease
    <3>3. /\ Plan[1] = "commit" /\ Plan[2] = "register"
          /\ Plan[3] = "set_resolver" /\ Plan[4] = "set_addr"
      BY DEF Plan
    <3>4. runs[r].at \in 1..4
      BY DEF FlowTypeOK, Progress
    <3>5. CASE runs[r].at = 2 /\ Accepted(r, "register")
      <4>1. runs'[r].lease = SatAdd(now, RentDuration)
        BY <3>2, <3>3, <3>5 DEF LeaseWon
      <4>2. NameWon(r)'
        BY <3>1, <3>3, <3>5, <4>1, DeliveryAdvances DEF NameWon
      <4> QED BY <3>2, <3>5, <4>2
    <3>6. CASE ~(runs[r].at = 2 /\ Accepted(r, "register"))
      <4>1. runs'[r].lease = runs[r].lease
        BY <3>2, <3>3, <3>4, <3>6 DEF LeaseWon
      <4>2. InLease(r)
        BY <2>3, <2>6, <4>1 DEF InLease
      <4>3. NameWon(r) /\ runs[r].at \in {3, 4} /\ (runs[r].at = 4 => Directed(r))
        BY <3>1, <4>2
      <4>4. NameWon(r)'
        BY <2>4, <4>1, <4>2, <4>3 DEF NameWon
      <4>5. runs[r].at = 3 => Directed(r)'
        BY <3>1, <3>3, <4>3, DeliveryAdvances
      <4>6. runs[r].at = 4 => Directed(r)' /\ Published(r)'
        BY <2>4, <3>1, <3>3, <4>2, <4>3, DeliveryAdvances
      <4> QED BY <3>2, <4>3, <4>4, <4>5, <4>6
    <3> QED BY <3>5, <3>6
  <2> QED BY <2>5, <2>6
<1> QED BY <1>1, <1>2, <1>3

\* A run that got the name and went through has the name resolve to the account
\* that signed, until the lease and its grace period are over, whatever the
\* other runs do, as long as names have no dot.
THEOREM FlowWinnerResolves == OneLabelEach => (MintFlowSpec => []WinnerResolves)
<1> SUFFICES ASSUME OneLabelEach PROVE MintFlowSpec => []WinnerResolves
  OBVIOUS
<1>1. MintFlowInit => WinsStand
  BY DEF MintFlowInit, Idle, WinsStand, InLease
<1>2. WinsStand => WinnerResolves
  BY DEF WinsStand, InLease, Directed, Published, WinnerResolves, Resolution
<1> QED BY <1>1, <1>2, FlowTyped, FlowKeepsWins, PTL DEF MintFlowSpec

=============================================================================
