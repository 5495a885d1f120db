------------------------------ MODULE Console ------------------------------
(***************************************************************************)
(* app/src/components/SearchConsole.tsx with the header's account           *)
(* button: searches, and the flow that mints a name.  Between the           *)
(* awaits of one the user goes on clicking, and others run.                 *)
(*                                                                          *)
(* What the chain answers is left open.  A reset does not stop a run, it    *)
(* only makes it stale: the run goes on to submit its calls.  A console     *)
(* that is left by navigation is unmounted, but the refs its run looks at   *)
(* are still there: the run is detached, it stays current and shows         *)
(* nothing.  A search keeps the tab, and a run the account and the network, *)
(* of the render it was started from.                                       *)
(***************************************************************************)
EXTENDS Naturals

CONSTANTS
    Accounts,   \* addresses of wallets; in the lookup tab, queries
    Labels,     \* queries that normalize to themselves, of at most 32 characters
    Searches,   \* slots of searches in flight
    MaxRuns,    \* bound on the runs of the mint flow
    None

ASSUME ConsoleAssumption ==
    /\ MaxRuns \in Nat
    /\ Accounts \cap Labels = {}
    /\ None \notin Accounts \cup Labels \cup Nat
    /\ None \notin {"fund", "mint"}

Runs == 1 .. MaxRuns
Queries == Labels \cup Accounts

VARIABLES
    account,    \* loading, signedOut, noWallet or an address
    tab, busy,
    reg,        \* None or a RegisterResult
    lookup,     \* None or the status of a LookupResult
    mint,       \* MintFlowState, with the two errors in one field
    current,    \* the run whose id runIdRef holds; None after a reset
    running,    \* runningRef
    searches,   \* slot -> [at: unused, client or query, tab, q]
    runs,       \* run -> [at, label, address, detached]
    owned       \* the names remembered, as <<address, label>>

consoleVars == <<account, tab, busy, reg, lookup, mint, current, running, searches, runs, owned>>
page == <<tab, busy, reg, lookup>>
flow == <<mint, current, running>>

IdleState == [active |-> None, phase |-> "idle", step |-> 0, done |-> {}, error |-> None]

\* A run is waiting for the faucet, for a client, or for a call to be included.
Steps == <<"commit", "register", "resolver", "addr">>
InFlight == {"funding", "client"} \cup {Steps[i] : i \in 1 .. 4}

-----------------------------------------------------------------------------
(* What is shown, and so can be clicked.                                    *)

ResultShown == ~busy /\ tab = "register" /\ reg # None

PipelineShown == ResultShown /\ reg.status = "available" /\ mint.active = reg.label

OfferShown == ResultShown /\ reg.status = "available" /\ mint.active # reg.label

LookupShown == ~busy /\ tab = "lookup" /\ lookup # None

\* The lines of the pipeline: several may be there at once.
StatusShown ==
    {line \in {"toppingUp", "faucetError", "minting", "mintError", "minted"} :
        \/ line = "toppingUp" /\ mint.phase = "funding" /\ mint.error # "fund"
        \/ line = "faucetError" /\ mint.error = "fund"
        \/ line = "minting" /\ mint.phase = "minting" /\ mint.error # "mint"
        \/ line = "mintError" /\ mint.error = "mint"
        \/ line = "minted" /\ mint.phase = "done"}

\* How step i of the pipeline is drawn.
StepShown(i) ==
    IF i \in mint.done THEN "done" ELSE IF i = mint.step THEN "active" ELSE "todo"

-----------------------------------------------------------------------------
(* Searches.                                                                *)

Reset ==
    /\ current' = None
    /\ running' = FALSE
    /\ mint' = IdleState

\* The effect of a change of the tab; searches in flight are not called off.
SwitchTab ==
    /\ tab' \in {"register", "lookup"} \ {tab}
    /\ reg' = None /\ lookup' = None
    /\ Reset
    /\ UNCHANGED <<account, busy, searches, runs, owned>>

\* A search for what the user typed.  The button is disabled while busy, the
\* enter key is not.
Search(s, q) ==
    /\ searches[s].at = "unused"
    /\ busy' = TRUE
    /\ reg' = None /\ lookup' = None
    /\ Reset
    /\ searches' = [searches EXCEPT ![s] = [at |-> "client", tab |-> tab, q |-> q]]
    /\ UNCHANGED <<account, tab, runs, owned>>

\* The first of several searches to end sets busy to false.
SearchOver(s) ==
    /\ searches' = [searches EXCEPT ![s] = [at |-> "unused", tab |-> "register", q |-> None]]
    /\ busy' = FALSE

\* getClient fails: the error is one of the lookup tab, whatever the tab.
SearchFails(s) ==
    /\ searches[s].at # "unused"
    /\ searches[s].at = "query" => searches[s].tab = "register"
    /\ lookup' = "error"
    /\ SearchOver(s)
    /\ UNCHANGED <<account, tab, reg, flow, runs, owned>>

\* The client is there: what does not normalize needs no query.
SearchGoesOn(s) ==
    /\ searches[s].at = "client"
    /\ IF searches[s].tab = "register" /\ searches[s].q \notin Labels
       THEN reg' = [status |-> "invalid", label |-> searches[s].q, address |-> None] /\ SearchOver(s)
       ELSE searches' = [searches EXCEPT ![s].at = "query"] /\ UNCHANGED <<reg, busy>>
    /\ UNCHANGED <<account, tab, lookup, flow, runs, owned>>

\* The answer of resolve, or of reverse.
SearchAnswered(s) ==
    /\ searches[s].at = "query"
    /\ \/ /\ searches[s].tab = "register"
          /\ \E a \in Accounts \cup {None} :
                reg' = [status |-> IF a = None THEN "available" ELSE "registered",
                        label |-> searches[s].q, address |-> a]
          /\ UNCHANGED lookup
       \/ /\ searches[s].tab = "lookup"
          /\ lookup' \in IF searches[s].q \in Accounts THEN {"ok", "none", "error"} ELSE {"invalid", "error"}
          /\ UNCHANGED reg
    /\ SearchOver(s)
    /\ UNCHANGED <<account, tab, flow, runs, owned>>

-----------------------------------------------------------------------------
(* The mint flow.                                                           *)

IsCurrent(r) == current = r \/ runs[r].detached

\* setState of a run that is current; nobody sees that of an unmounted console.
Show(r, state) == mint' = IF current = r THEN state ELSE mint

\* Mutant: the finally does not ask whether the run is current.
FinishAny(r) == running' = FALSE

\* The finally.
Finish(r) == running' = (running /\ current # r)

\* The offer asks to connect until the user is authenticated.
Authenticated == account \notin {"loading", "signedOut"}

\* Its address is there only once the wallet is.
HasWallet == account \in Accounts

\* Register.
Start(r) ==
    /\ OfferShown /\ Authenticated /\ HasWallet
    /\ ~running
    /\ runs[r].at = "unused" /\ \A q \in 1 .. r - 1 : runs[q].at # "unused"
    /\ running' = TRUE /\ current' = r
    /\ mint' = [IdleState EXCEPT !.active = reg.label, !.phase = "funding"]
    /\ runs' = [runs EXCEPT ![r] = [at |-> "funding", label |-> reg.label, address |-> account,
                                    detached |-> FALSE]]
    /\ UNCHANGED <<account, page, searches, owned>>

\* Back to search.
Back ==
    /\ PipelineShown
    /\ Reset
    /\ UNCHANGED <<account, page, searches, runs, owned>>

\* A stale run returns at the next gate.
Return(r) ==
    /\ runs[r].at \in {"funding", "client"}
    /\ ~IsCurrent(r)
    /\ runs' = [runs EXCEPT ![r].at = "dropped"]
    /\ UNCHANGED <<account, page, flow, searches, owned>>

\* The faucet has paid, or asks to wait.
Funded(r) ==
    /\ runs[r].at = "funding" /\ IsCurrent(r)
    /\ runs' = [runs EXCEPT ![r].at = "client"]
    /\ Show(r, [mint EXCEPT !.phase = "minting"])
    /\ UNCHANGED <<account, page, current, running, searches, owned>>

\* It refuses for another reason; a request that fails is an error of the mint.
NotFunded(r) ==
    /\ runs[r].at = "funding" /\ IsCurrent(r)
    /\ runs' = [runs EXCEPT ![r].at = "failed"]
    /\ \E error \in {"fund", "mint"} : Show(r, [mint EXCEPT !.error = error])
    /\ Finish(r)
    /\ UNCHANGED <<account, page, current, searches, owned>>

\* Mutant: the name is remembered for the account that is signed in.
RememberSigned(r) == owned' = owned \cup {<<account, runs[r].label>>}

Remember(r) == owned' = owned \cup {<<runs[r].address, runs[r].label>>}

\* Mutant: the step is shown, whoever runs.
OnStepAny(r, idx) == mint' = [mint EXCEPT !.step = idx, !.done = @ \cup 0 .. idx - 1]

\* onStep before the call of step idx.
OnStep(r, idx) == Show(r, [mint EXCEPT !.step = idx, !.done = @ \cup 0 .. idx - 1])

\* registerName begins.
GotClient(r) ==
    /\ runs[r].at = "client" /\ IsCurrent(r)
    /\ runs' = [runs EXCEPT ![r].at = Steps[1]]
    /\ OnStep(r, 0)
    /\ UNCHANGED <<account, page, current, running, searches, owned>>

\* A call is included and the next one made, stale or not.
Included(r) ==
    \E i \in 1 .. 3 :
        /\ runs[r].at = Steps[i]
        /\ runs' = [runs EXCEPT ![r].at = Steps[i + 1]]
        /\ OnStep(r, i)
        /\ UNCHANGED <<account, page, current, running, searches, owned>>

\* getClient, the wallet, or a call fails.
MintFails(r) ==
    /\ runs[r].at \in InFlight \ {"funding"}
    /\ runs[r].at = "client" => IsCurrent(r)
    /\ runs' = [runs EXCEPT ![r].at = "failed"]
    /\ Show(r, [mint EXCEPT !.error = "mint"])
    /\ Finish(r)
    /\ UNCHANGED <<account, page, current, searches, owned>>

\* onSuccess of the mounted console.
OnSuccess(r) ==
    reg' = IF current = r /\ reg # None /\ reg.label = runs[r].label
           THEN [status |-> "registered", label |-> reg.label, address |-> runs[r].address]
           ELSE reg

\* registerName returns: the name of a stale run is not remembered.
Minted(r) ==
    /\ runs[r].at = "addr"
    /\ \/ /\ IsCurrent(r)
          /\ runs' = [runs EXCEPT ![r].at = "minted"]
          /\ Show(r, [mint EXCEPT !.phase = "done", !.step = 3, !.done = 0 .. 3])
          /\ Remember(r)
          /\ OnSuccess(r)
          /\ Finish(r)
       \/ /\ ~IsCurrent(r)
          /\ runs' = [runs EXCEPT ![r].at = "unseen"]
          /\ UNCHANGED <<mint, running, reg, owned>>
    /\ UNCHANGED <<account, tab, busy, lookup, current, searches>>

-----------------------------------------------------------------------------
(* The header.                                                              *)

\* The console is left for another page, and mounted anew.
Leave ==
    /\ tab' = "register" /\ busy' = FALSE /\ reg' = None /\ lookup' = None
    /\ Reset
    /\ searches' = [s \in Searches |-> [at |-> "unused", tab |-> "register", q |-> None]]
    /\ runs' = [r \in Runs |-> [runs[r] EXCEPT !.detached = @ \/ current = r]]
    /\ UNCHANGED <<account, owned>>

\* The links of the header, and that of a name that was looked up.
Navigate == Leave
ViewProfile == LookupShown /\ lookup = "ok" /\ Leave

\* Privy loads; login, from the header or from the offer; the wallet appears.
Account(from, to) ==
    /\ account \in from
    /\ account' \in to
    /\ UNCHANGED <<page, flow, searches, runs, owned>>

Load == Account({"loading"}, {"signedOut"})
Login == Account({"signedOut"}, {"noWallet"})
WalletReady == Account({"noWallet"}, Accounts)
Logout == Account({"noWallet"} \cup Accounts, {"signedOut"})

-----------------------------------------------------------------------------

ConsoleInit ==
    /\ account = "loading"
    /\ tab = "register" /\ busy = FALSE /\ reg = None /\ lookup = None
    /\ mint = IdleState /\ current = None /\ running = FALSE
    /\ searches = [s \in Searches |-> [at |-> "unused", tab |-> "register", q |-> None]]
    /\ runs = [r \in Runs |-> [at |-> "unused", label |-> None, address |-> None, detached |-> FALSE]]
    /\ owned = {}

\* What ends an await.
SearchStep(s) == SearchFails(s) \/ SearchGoesOn(s) \/ SearchAnswered(s)
RunStep(r) == \/ Return(r) \/ Funded(r) \/ NotFunded(r) \/ GotClient(r)
              \/ Included(r) \/ MintFails(r) \/ Minted(r)

ConsoleNext ==
    \/ \E s \in Searches, q \in Queries : Search(s, q)
    \/ \E s \in Searches : SearchStep(s)
    \/ \E r \in Runs : Start(r) \/ RunStep(r)
    \/ SwitchTab \/ Back \/ Navigate \/ ViewProfile
    \/ Load \/ Login \/ WalletReady \/ Logout

ConsoleSpec == ConsoleInit /\ [][ConsoleNext]_consoleVars

-----------------------------------------------------------------------------

\* The state of the console is well typed.
ConsoleTypeOK ==
    /\ account \in {"loading", "signedOut", "noWallet"} \cup Accounts
    /\ tab \in {"register", "lookup"} /\ busy \in BOOLEAN /\ running \in BOOLEAN
    /\ reg \in {None} \cup [status : {"available", "registered", "invalid"},
                            label : Queries, address : Accounts \cup {None}]
    /\ lookup \in {None, "ok", "none", "invalid", "error"}
    /\ mint \in [active : Labels \cup {None}, phase : {"idle", "funding", "minting", "done"},
                 step : 0 .. 3, done : SUBSET (0 .. 3), error : {None, "fund", "mint"}]
    /\ current \in Runs \cup {None}
    /\ searches \in [Searches -> [at : {"unused", "client", "query"},
                                  tab : {"register", "lookup"}, q : Queries \cup {None}]]
    /\ runs \in [Runs -> [at : {"unused", "dropped", "failed", "minted", "unseen"} \cup InFlight,
                          label : Labels \cup {None}, address : Accounts \cup {None},
                          detached : BOOLEAN]]
    /\ owned \subseteq Accounts \X Labels

\* SearchConsole.tsx:97-101, 177: Register is refused exactly while the run it
\* would be confused with is in flight: no way of ending a run, of a stale run
\* ending late, or of resetting one leaves the button dead or frees it early.
RegisterAlive == running <=> current # None /\ runs[current].at \in InFlight

\* SearchConsole.tsx:81-82, "stale resolves are dropped": the pipeline tells
\* the truth of the current run, and of no other: its label, what it is doing,
\* the steps done and the one it is at, and whether it failed or is done.
PipelineTruthful ==
    /\ mint.active # None <=> current # None
    /\ current # None =>
          LET at == runs[current].at IN
          /\ mint.active = runs[current].label
          /\ at = "funding" => StatusShown = {"toppingUp"}
          /\ at \in InFlight \ {"funding"} => StatusShown = {"minting"}
          /\ \A i \in 1 .. 4 : at = Steps[i] =>
                /\ StepShown(i - 1) = "active"
                /\ \A j \in 0 .. i - 2 : StepShown(j) = "done"
                /\ \A j \in i .. 3 : StepShown(j) = "todo"
          /\ at = "minted" <=> "minted" \in StatusShown
          /\ at = "failed" <=> StatusShown \cap {"faucetError", "mintError"} # {}

\* owned-names.ts: the names remembered are those that runs minted, each for
\* the account whose run it was, whoever is signed in when the run ends; those
\* of stale runs are missing.
RememberedForMinter ==
    owned = {<<runs[r].address, runs[r].label>> : r \in {q \in Runs : runs[q].at = "minted"}}

=============================================================================
