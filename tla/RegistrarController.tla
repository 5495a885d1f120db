------------------------ MODULE RegistrarController ------------------------
(***************************************************************************)
(* contracts/registrar_controller/lib.rs: the public door to .pot.  A       *)
(* buyer commits to a hash of (name, owner, secret), waits, and reveals it  *)
(* with the rent; the controller consumes the commitment, forwards the rent *)
(* to the treasury and asks the PotRegistrar to mint.                       *)
(*                                                                          *)
(* A commitment is the triple it hashes: owner and secret have fixed width, *)
(* so distinct triples concatenate to distinct bytes.  A name and its label *)
(* hash are one value; NameLen gives its number of chars.  The funds of an  *)
(* account are its free balance on the chain; fees are left out.            *)
(***************************************************************************)
EXTENDS PotRegistrar

CONSTANTS
    ControllerId,       \* the account of this contract
    FirstTreasury,      \* the treasury given to the constructor
    NameLen,            \* name -> chars().count()
    Secrets,
    FirstPrices,        \* the price tiers set by the constructor
    PriceTables,        \* the price tiers that inputs name
    Year,               \* YEAR_MS
    MaxU128,            \* where a price times a duration saturates
    FirstWindow,        \* the constructor's <<min, max>> commitment age
    Windows,            \* the windows that inputs name
    Treasuries,         \* the accounts that inputs name as the treasury
    Payments,           \* the values that are transferred along a call
    FirstFunds          \* what each account has at the start

PriceTiers == [premium : 0..MaxU128, high : 0..MaxU128,
               medium : 0..MaxU128, base : 0..MaxU128]

Window == (0..MaxU64) \X (0..MaxU64)

ASSUME ControllerAssumption ==
    /\ ControllerId \in Accounts /\ FirstTreasury \in Accounts
    /\ ControllerId \notin Signers
    /\ NameLen \in [Labels -> Nat]
    /\ MaxU128 \in Nat
    /\ FirstPrices \in PriceTiers /\ PriceTables \subseteq PriceTiers
    /\ Year \in Nat /\ Year > 0
    /\ FirstWindow \in Window /\ Windows \subseteq Window
    /\ Treasuries \subseteq Accounts
    /\ Payments \subseteq Nat
    /\ FirstFunds \in [Accounts -> Nat]
    /\ None \notin Nat

Commitments == Names \X Heirs \X Secrets

VARIABLES
    commitments,        \* commitment -> timestamp, or None
    prices,
    minCommitAge,
    maxCommitAge,
    controllerAdmin,
    treasury,
    funds               \* the chain's balances

settingVars == <<prices, minCommitAge, maxCommitAge, controllerAdmin, treasury>>
controllerVars == <<commitments, settingVars, funds>>
marketVars == <<potSystemVars, controllerVars>>

-----------------------------------------------------------------------------

SatSub(a, b) == IF a < b THEN 0 ELSE a - b

PricePerYear(len) ==
    CASE len = 0       -> 0
      [] len \in 1..2  -> prices.premium
      [] len = 3       -> prices.high
      [] len = 4       -> prices.medium
      [] OTHER         -> prices.base

SatMul(a, b) == IF a * b > MaxU128 THEN MaxU128 ELSE a * b

Quote(len, duration) == SatMul(PricePerYear(len), duration) \div Year

MakeCommitment(name, owner, secret) == <<name, owner, secret>>

CommitmentAge(c) == SatSub(now, commitments[c])

\* Mutant: a commitment never grows too old.
CanRevealForever(name, c) ==
    /\ NameLen[name] > 0
    /\ commitments[c] # None
    /\ CommitmentAge(c) >= minCommitAge

\* Mutant: the minimum age itself is too young.
CanRevealLater(name, c) ==
    /\ NameLen[name] > 0
    /\ commitments[c] # None
    /\ CommitmentAge(c) > minCommitAge
    /\ CommitmentAge(c) <= maxCommitAge

\* The commitment was made, neither too recently nor too long ago.
CanReveal(name, c) ==
    /\ NameLen[name] > 0
    /\ commitments[c] # None
    /\ CommitmentAge(c) >= minCommitAge
    /\ CommitmentAge(c) <= maxCommitAge

Move(bals, from, to, amount) ==
    [a \in Accounts |-> (bals[a] - IF a = from THEN amount ELSE 0)
                        + IF a = to THEN amount ELSE 0]

\* The chain moves the value sent along a call before the code runs.
Deposit(caller, paid) == Move(funds, caller, ControllerId, paid)

PaysRent(paid, owed) == paid >= owed

\* Mutant: the commitment stays.
CommitmentKept(c) == commitments

\* The commitments once c is consumed.
SpendCommitment(c) == [commitments EXCEPT ![c] = None]

\* Mutant: the excess is forwarded, the rent kept.
SettleExcess(caller, paid, owed) ==
    Move(Deposit(caller, paid), ControllerId, treasury, paid - owed)

\* The deposit, then the rent forwarded to the treasury, if it is not this
\* contract.  What was paid in excess stays here.
Settle(caller, paid, owed) ==
    IF treasury = ControllerId
    THEN Deposit(caller, paid)
    ELSE Move(Deposit(caller, paid), ControllerId, treasury, owed)

-----------------------------------------------------------------------------

ControllerInit ==
    /\ commitments = [c \in Commitments |-> None]
    /\ prices = FirstPrices
    /\ minCommitAge = FirstWindow[1]
    /\ maxCommitAge = FirstWindow[2]
    /\ controllerAdmin = Deployer
    /\ treasury = FirstTreasury
    /\ funds = FirstFunds

SetPrices(caller, tiers) ==
    /\ caller = controllerAdmin
    /\ prices' = tiers
    /\ UNCHANGED <<potSystemVars, commitments, minCommitAge, maxCommitAge,
                   controllerAdmin, treasury, funds>>

\* Nothing relates the two ends of the window.
SetCommitAgeWindow(caller, window) ==
    /\ caller = controllerAdmin
    /\ minCommitAge' = window[1]
    /\ maxCommitAge' = window[2]
    /\ UNCHANGED <<potSystemVars, commitments, prices, controllerAdmin,
                   treasury, funds>>

SetTreasury(caller, who) ==
    /\ caller = controllerAdmin
    /\ treasury' = who
    /\ UNCHANGED <<potSystemVars, commitments, prices, minCommitAge,
                   maxCommitAge, controllerAdmin, funds>>

\* Anyone may commit to any hash; doing it again restarts its age.
Commit(c) ==
    /\ commitments' = [commitments EXCEPT ![c] = now]
    /\ UNCHANGED <<potSystemVars, settingVars, funds>>

\* The reveal that mints.  Register's disjunct for a Registry that refuses the
\* mirror call is the one late failure that leaves a mint behind.
Reveal(caller, name, owner, duration, secret, paid) ==
    LET c == MakeCommitment(name, owner, secret)
        owed == Quote(NameLen[name], duration)
    IN  /\ paid <= funds[caller]
        /\ CanReveal(name, c)
        /\ PaysRent(paid, owed)
        /\ commitments' = SpendCommitment(c)
        /\ funds' = Settle(caller, paid, owed)
        /\ Register(ControllerId, name, owner, duration)
        /\ UNCHANGED settingVars

\* The renewal of a name, which anyone may pay for.
GiftRenewal(caller, name, duration, paid) ==
    LET owed == Quote(NameLen[name], duration)
    IN  /\ paid <= funds[caller]
        /\ NameLen[name] > 0
        /\ PaysRent(paid, owed)
        /\ funds' = Settle(caller, paid, owed)
        /\ Renew(ControllerId, name, duration)
        /\ UNCHANGED <<commitments, settingVars>>

\* The chain may refuse the transfer to the treasury (rent, existential
\* deposit); it is attempted only when there is something to forward.
ForwardsRent(owed) == owed > 0 /\ treasury # ControllerId

\* Failures that are not rolled back.  A reveal that fails keeps the value
\* sent along it; from the point where it took the commitment, that is gone
\* too; from the point where it forwarded the rent, so is the rent.
FailedReveal(caller, name, owner, duration, secret, paid) ==
    LET c == MakeCommitment(name, owner, secret)
        owed == Quote(NameLen[name], duration)
        accepted == CanReveal(name, c) /\ PaysRent(paid, owed)
    IN  /\ ~ErrRollsBack
        /\ paid <= funds[caller]
        /\ \/ /\ ~accepted
              /\ funds' = Deposit(caller, paid)
              /\ UNCHANGED commitments
           \/ /\ accepted
              /\ ForwardsRent(owed)
              /\ funds' = Deposit(caller, paid)
              /\ commitments' = SpendCommitment(c)
           \/ /\ accepted
              /\ ~CanRegister(ControllerId, name, duration)
              /\ funds' = Settle(caller, paid, owed)
              /\ commitments' = SpendCommitment(c)
        /\ UNCHANGED <<potSystemVars, settingVars>>

FailedRenewal(caller, name, duration, paid) ==
    LET owed == Quote(NameLen[name], duration)
        accepted == NameLen[name] > 0 /\ PaysRent(paid, owed)
    IN  /\ ~ErrRollsBack
        /\ paid <= funds[caller]
        /\ \/ ~accepted /\ funds' = Deposit(caller, paid)
           \/ accepted /\ ForwardsRent(owed) /\ funds' = Deposit(caller, paid)
           \/ /\ accepted
              /\ ~CanRenew(ControllerId, name, duration)
              /\ funds' = Settle(caller, paid, owed)
        /\ UNCHANGED <<potSystemVars, commitments, settingVars>>

-----------------------------------------------------------------------------

\* A message sent to the controller by one of the signing accounts.
ControllerNext ==
    \E caller \in Signers :
        \/ \E tiers \in PriceTables : SetPrices(caller, tiers)
        \/ \E window \in Windows : SetCommitAgeWindow(caller, window)
        \/ \E who \in Treasuries : SetTreasury(caller, who)
        \/ \E c \in Commitments : Commit(c)
        \/ \E name \in Names, duration \in Durations, paid \in Payments :
               \/ \E owner \in Heirs, secret \in Secrets :
                      \/ Reveal(caller, name, owner, duration, secret, paid)
                      \/ FailedReveal(caller, name, owner, duration, secret, paid)
               \/ GiftRenewal(caller, name, duration, paid)
               \/ FailedRenewal(caller, name, duration, paid)

MarketInit == PotSystemInit /\ ControllerInit

MarketNext ==
    \/ PotSystemNext /\ UNCHANGED controllerVars
    \/ ControllerNext

=============================================================================
