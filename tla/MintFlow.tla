------------------------------ MODULE MintFlow ------------------------------
(***************************************************************************)
(* The dApp's registration: components/SearchConsole.tsx finds a name to be *)
(* available, asks the faucet for money, and runs registerName of           *)
(* lib/register.ts, four extrinsics one after the other.                    *)
(*                                                                          *)
(* registerName only learns that an extrinsic is in a block.  Whether the   *)
(* contract accepted the message it does not see, and goes on.  What the    *)
(* pool gave up, or the connection lost, may yet be in a block.             *)
(*                                                                          *)
(* The contracts take the typed name as one label; the client takes it as   *)
(* a name, and finds as many labels in it as it has parts.                  *)
(*                                                                          *)
(* Each run of the flow is one click on Register; runs of one account may   *)
(* overlap, since leaving the console does not stop what was started.       *)
(* The messages of others that matter are those of competing runs, so the   *)
(* contracts' own next-state relations are not part of this one.  Fees are  *)
(* left out.                                                                *)
(***************************************************************************)
EXTENDS RegistrarController, PublicResolver, Normalize

CONSTANTS
    Runs,
    Who,            \* run -> the account that signs, and is to own the name
    Wanted,         \* run -> the name, as it is typed
    Pot,            \* the name of the top level
    ClientPrices,   \* the yearly prices written into the client
    Tip,            \* what the client adds to the price, PLANCK
    RentDuration,   \* 60 days
    Drip,           \* what the faucet gives
    Secret          \* the constant secret of every commitment

ASSUME MintFlowAssumption ==
    /\ Who \in [Runs -> Signers \cap Heirs]
    /\ \A r \in Runs : Wanted[r] \in Seq(Chars) /\ Folded(Wanted[r]) \in Names
    /\ Pot \in Seq(Chars) /\ PotNode = <<Pot>>
    /\ \A r \in Runs : Namehash(Wanted[r] \o <<Dot>> \o Pot) \in Nodes
    /\ ClientPrices \in PriceTiers
    /\ Tip \in Nat /\ RentDuration \in Durations /\ Drip \in Nat
    /\ Secret \in Secrets

VARIABLE runs   \* run -> [status, at: the extrinsic in the pool, lease: what it got]

chainVars == <<marketVars, resolverVars>>
mintVars == <<chainVars, runs>>

-----------------------------------------------------------------------------

\* Mutant: the record is published before the name is minted.
PlanRecordFirst == <<"commit", "set_addr", "register", "set_resolver">>

\* The messages of registerName, in order.
Plan == <<"commit", "register", "set_resolver", "set_addr">>

ClientPerYear(len) ==
    CASE len >= 5 -> ClientPrices.base
      [] len = 4  -> ClientPrices.medium
      [] len = 3  -> ClientPrices.high
      [] OTHER    -> ClientPrices.premium

\* run -> normalize(rawName), of which the contracts hash the whole
Name == [r \in Runs |-> Folded(Wanted[r])]

\* What is sent along register.
Value(r) == (ClientPerYear(NameLen[Name[r]]) * RentDuration) \div Year + Tip

\* run -> whether tryNormalize takes it
Valid == [r \in Runs |-> CanNormalize(Wanted[r])]

\* run -> namehash of the name with .pot at its end
Node == [r \in Runs |-> Namehash(Wanted[r] \o <<Dot>> \o Pot)]

Commitment(r) == MakeCommitment(Name[r], Who[r], Secret)

Idle == [status |-> "idle", at |-> 1, lease |-> None]

\* The console normalizes what is typed, and reads the address of that name;
\* without one the name is "available".
Search(r) ==
    /\ runs[r].status = "idle"
    /\ Valid[r]
    /\ Resolution(Node[r]).addr = None
    /\ runs' = [runs EXCEPT ![r].status = "available"]
    /\ UNCHANGED chainVars

\* A click on Register, and the faucet: it pays, or refuses with a message
\* that says "wait", which is ignored, or with another one, which is not.
\* In the first two cases the flow begins, with its first extrinsic.
Fund(r) ==
    /\ runs[r].status = "available"
    /\ \/ /\ funds' = [funds EXCEPT ![Who[r]] = @ + Drip]
          /\ runs' = [runs EXCEPT ![r].status = "running"]
       \/ /\ runs' \in {[runs EXCEPT ![r].status = s] : s \in {"running", "error"}}
          /\ UNCHANGED funds
    /\ UNCHANGED <<potSystemVars, commitments, settingVars, resolverVars>>

\* Whether the chain and the contracts accept the message of the run.
Accepted(r, message) ==
    CASE message = "commit" -> TRUE
      [] message = "register" ->
            /\ Value(r) <= funds[Who[r]]
            /\ CanReveal(Name[r], Commitment(r))
            /\ PaysRent(Value(r), Quote(NameLen[Name[r]], RentDuration))
            /\ CanRegister(ControllerId, Name[r], RentDuration)
            /\ OnlyOwner(PotRegistrarId, PotNode)
      [] OTHER -> OnlyOwner(Who[r], Node[r])

Perform(r, message) ==
    \/ /\ message = "commit"
       /\ Commit(Commitment(r))
       /\ UNCHANGED resolverVars
    \/ /\ message = "register"
       /\ Reveal(Who[r], Name[r], Who[r], RentDuration, Secret, Value(r))
       /\ UNCHANGED resolverVars
    \/ /\ message = "set_resolver"
       /\ SetResolver(Who[r], Node[r], PublicResolverId)
       /\ UNCHANGED <<potVars, now, controllerVars, resolverVars>>
    \/ /\ message = "set_addr"
       /\ SetAddr(Who[r], Node[r], Who[r])
       /\ UNCHANGED <<potVars, now, controllerVars>>

\* The extrinsic is in a block, and the contract has accepted it or not.
Deliver(r) ==
    IF Accepted(r, Plan[runs[r].at]) THEN Perform(r, Plan[runs[r].at]) ELSE UNCHANGED chainVars

\* The lease that the delivery of the extrinsic brings the run.
LeaseWon(r) ==
    LET message == Plan[runs[r].at]
    IN  IF message = "register" /\ Accepted(r, message)
        THEN SatAdd(now, RentDuration) ELSE runs[r].lease

\* The client sees the extrinsic in a block, and sends the next one.
Include(r) ==
    /\ runs[r].status = "running"
    /\ Deliver(r)
    /\ runs' = [runs EXCEPT ![r] =
                  IF @.at = Len(Plan)
                  THEN [@ EXCEPT !.status = "done", !.lease = LeaseWon(r)]
                  ELSE [@ EXCEPT !.at = runs[r].at + 1, !.lease = LeaseWon(r)]]

\* The wallet does not sign it, or the pool gives it up, which shows as an
\* error, or the connection is lost, which does not show.  Where another node
\* has it, it is in a block all the same.
Lose(r) ==
    /\ runs[r].status = "running"
    /\ runs' = [runs EXCEPT ![r] = [Idle EXCEPT !.status = "error"]]
    /\ Deliver(r) \/ UNCHANGED chainVars

-----------------------------------------------------------------------------

MintFlowInit ==
    /\ runs = [r \in Runs |-> Idle]
    /\ registrations = [l \in Labels |-> None]
    /\ approvals = [l \in Labels |-> None]
    /\ balances = [a \in Accounts |-> 0]
    /\ controllers = {ControllerId}
    /\ registrarAdmin = Deployer
    /\ gracePeriod = DefaultGrace
    /\ now = 0
    /\ records = [n \in Nodes |->
                    CASE n = Root    -> [owner |-> Deployer, resolver |-> None, ttl |-> 0]
                      [] n = PotNode -> [owner |-> PotRegistrarId, resolver |-> None, ttl |-> 0]
                      [] OTHER       -> None]
    /\ ControllerInit
    /\ ResolverInit

MintFlowNext ==
    \/ \E r \in Runs : Search(r) \/ Fund(r) \/ Include(r) \/ Lose(r)
    \/ Tick /\ UNCHANGED <<controllerVars, resolverVars, runs>>

\* An extrinsic that stays in the pool is included: blocks go on being made.
MintFlowSpec ==
    /\ MintFlowInit
    /\ [][MintFlowNext]_mintVars
    /\ \A r \in Runs : WF_mintVars(Include(r))

-----------------------------------------------------------------------------

\* A run that got the name and went through publishes it: for the whole lease
\* and its grace period, the name resolves to the account that signed, whatever
\* the runs of others, or other runs of the same account, do meanwhile.
WinnerResolves ==
    \A r \in Runs :
        /\ runs[r].status = "done"
        /\ runs[r].lease # None
        /\ now < runs[r].lease + gracePeriod
        => Resolution(Node[r]) = [resolver |-> PublicResolverId, addr |-> Who[r]]

\* Whoever pays gets a fresh lease of the whole duration for it: a run that
\* loses the race for a name, or repeats one that succeeded, costs nothing.
OnlyWinnersPay ==
    [][\A a \in Heirs :
          funds'[a] < funds[a] =>
              \E l \in Names :
                  /\ Registered(l) => now >= registrations[l].expires + gracePeriod
                  /\ registrations'[l] = [owner |-> a, expires |-> SatAdd(now, RentDuration)]]_mintVars

\* A flow that begins fails or hangs, or its name is then taken: if every
\* extrinsic is included, with prices, window and purse as the client expects,
\* competing runs may refuse one another but not all of them.
SomebodyGetsIt ==
    \A r \in Runs :
        runs[r].status = "running"
            ~> runs[r].status = "error" \/ Registered(Name[r])

-----------------------------------------------------------------------------

\* SearchConsole.tsx:646 and 649, shown when registerName returns: "minted to
\* your account", "the label, resolver and your POT address record are all
\* on-chain".
DoneMeansPublished ==
    [][\A r \in Runs :
          runs[r].status = "running" /\ runs'[r].status = "done" =>
              /\ runs'[r].lease # None
              /\ Resolution(Node[r])' = [resolver |-> PublicResolverId, addr |-> Who[r]]]_mintVars

=============================================================================
