--------------------------- MODULE ConsoleProofs ----------------------------
(***************************************************************************)
(* What the search console guarantees for any number of searches and runs:  *)
(* the lock on Register, what the pipeline shows, and the names remembered  *)
(* are those of the runs, however runs and searches end.                    *)
(*                                                                          *)
(* The type invariant is not inductive alone: that what is answered and     *)
(* what is minted has a label needs that a search and a run have one for as *)
(* long as they go on.  The rest follows from where the current run stands: *)
(* it is in flight, failed or minted, and nobody but it writes the state of *)
(* the flow.                                                                *)
(***************************************************************************)
EXTENDS Console, TLAPS

Ats == {"unused", "dropped", "failed", "minted", "unseen"} \cup InFlight
RunStates == [at : Ats, label : Labels \cup {None}, address : Accounts \cup {None},
              detached : BOOLEAN]
SearchStates == [at : {"unused", "client", "query"}, tab : {"register", "lookup"},
                 q : Queries \cup {None}]
FlowStates == [active : Labels \cup {None}, phase : {"idle", "funding", "minting", "done"},
               step : 0 .. 3, done : SUBSET (0 .. 3), error : {None, "fund", "mint"}]
Results == [status : {"available", "registered", "invalid"},
            label : Queries, address : Accounts \cup {None}]

\* What is searched for, offered and minted.
Named ==
    /\ \A s \in Searches : searches[s].at # "unused" => searches[s].q \in Queries
    /\ \A s \in Searches :
          searches[s].at = "query" /\ searches[s].tab = "register" => searches[s].q \in Labels
    /\ reg # None /\ reg.status = "available" => reg.label \in Labels
    /\ \A r \in Runs : runs[r].at # "unused" =>
          runs[r].label \in Labels /\ runs[r].address \in Accounts

TypeInv == ConsoleTypeOK /\ Named

-----------------------------------------------------------------------------
(* The states of searches, runs and the flow.                               *)

LEMMA NoneIsApart == None \notin Runs /\ None \notin Labels /\ None \notin Accounts
  BY ConsoleAssumption DEF Runs

LEMMA StepsInFlight ==
    /\ Steps[1] = "commit" /\ Steps[2] = "register" /\ Steps[3] = "resolver" /\ Steps[4] = "addr"
    /\ InFlight = {"funding", "client", "commit", "register", "resolver", "addr"}
<1>1. /\ Steps[1] = "commit" /\ Steps[2] = "register" /\ Steps[3] = "resolver"
      /\ Steps[4] = "addr"
  BY DEF Steps
<1>2. {Steps[i] : i \in 1 .. 4} = {Steps[1], Steps[2], Steps[3], Steps[4]}
  OBVIOUS
<1> QED BY <1>1, <1>2 DEF InFlight

\* A run moves on.
LEMMA RunMoves ==
    ASSUME runs \in [Runs -> RunStates], NEW r \in Runs, NEW to \in Ats
    PROVE  /\ [runs EXCEPT ![r].at = to] \in [Runs -> RunStates]
           /\ [runs EXCEPT ![r].at = to][r].at = to
           /\ [runs EXCEPT ![r].at = to][r].label = runs[r].label
           /\ [runs EXCEPT ![r].at = to][r].address = runs[r].address
           /\ [runs EXCEPT ![r].at = to][r].detached = runs[r].detached
           /\ \A q \in Runs \ {r} : [runs EXCEPT ![r].at = to][q] = runs[q]
  BY DEF RunStates

LEMMA IdleIsAState == IdleState \in FlowStates
  BY DEF IdleState, FlowStates

\* The searches are as they were, or gone.
LEMMA SearchesKept ==
    ASSUME TypeInv, UNCHANGED <<searches, reg, runs>>
    PROVE  Named'
  BY DEF TypeInv, Named

-----------------------------------------------------------------------------
(* Every step keeps the types.                                              *)

LEMMA InitIsTyped == ConsoleInit => TypeInv
<1> SUFFICES ASSUME ConsoleInit PROVE TypeInv
  OBVIOUS
<1>1. ConsoleTypeOK
  BY IdleIsAState DEF ConsoleInit, ConsoleTypeOK, FlowStates
<1>2. Named
  BY DEF ConsoleInit, Named
<1> QED BY <1>1, <1>2 DEF TypeInv

LEMMA ResetIsTyped ==
    ASSUME Reset PROVE running' \in BOOLEAN /\ current' \in Runs \cup {None} /\ mint' \in FlowStates
  BY IdleIsAState DEF Reset

\* What the user does with the console, and what the header does.
LEMMA ClicksAreTyped ==
    ASSUME TypeInv,
           \/ SwitchTab \/ Back \/ Navigate \/ ViewProfile
           \/ Load \/ Login \/ WalletReady \/ Logout
    PROVE  TypeInv'
<1> USE DEF TypeInv, page, flow
<1>1. CASE SwitchTab
  BY <1>1, ResetIsTyped DEF SwitchTab, ConsoleTypeOK, FlowStates, Named
<1>2. CASE Back
  BY <1>2, ResetIsTyped, SearchesKept DEF Back, ConsoleTypeOK, FlowStates
<1>3. CASE Leave
  <2>1. runs' \in [Runs -> RunStates]
    BY <1>3 DEF Leave, ConsoleTypeOK, RunStates, Ats
  <2>2. ConsoleTypeOK'
    BY <1>3, <2>1, ResetIsTyped DEF Leave, ConsoleTypeOK, FlowStates, RunStates, Ats
  <2>3. \A r \in Runs : /\ runs'[r].at = runs[r].at
                       /\ runs'[r].label = runs[r].label
                       /\ runs'[r].address = runs[r].address
    <3>1. runs \in [Runs -> RunStates]
      BY DEF ConsoleTypeOK, RunStates, Ats
    <3> QED BY <1>3, <3>1 DEF Leave, RunStates
  <2>4. \A s \in Searches : searches'[s].at = "unused"
    BY <1>3 DEF Leave
  <2>5. reg' = None
    BY <1>3 DEF Leave
  <2>6. Named'
    BY <2>3, <2>4, <2>5 DEF Named
  <2> QED BY <2>2, <2>6
<1>4. CASE Load \/ Login \/ WalletReady \/ Logout
  <2>1. account' \in {"loading", "signedOut", "noWallet"} \cup Accounts
    BY <1>4 DEF Load, Login, WalletReady, Logout, Account
  <2>2. UNCHANGED <<page, flow, searches, runs, owned>>
    BY <1>4 DEF Load, Login, WalletReady, Logout, Account
  <2> QED BY <2>1, <2>2, SearchesKept DEF ConsoleTypeOK
<1> QED BY <1>1, <1>2, <1>3, <1>4 DEF Navigate, ViewProfile

LEMMA SearchesAreTyped ==
    ASSUME TypeInv, NEW s \in Searches,
           (\E q \in Queries : Search(s, q)) \/ SearchStep(s)
    PROVE  TypeInv'
<1> USE DEF TypeInv, page, flow
<1> DEFINE unused == [at |-> "unused", tab |-> "register", q |-> None]
<1>0. searches \in [Searches -> SearchStates] /\ reg \in {None} \cup Results
  BY DEF ConsoleTypeOK, SearchStates, Results
<1>1. ASSUME NEW q \in Queries, Search(s, q) PROVE TypeInv'
  <2>1. /\ searches' \in [Searches -> SearchStates]
        /\ searches'[s] = [at |-> "client", tab |-> tab, q |-> q]
        /\ \A t \in Searches \ {s} : searches'[t] = searches[t]
    BY <1>0, <1>1 DEF Search, ConsoleTypeOK, SearchStates
  <2>2. ConsoleTypeOK'
    BY <1>1, <2>1, ResetIsTyped DEF Search, ConsoleTypeOK, SearchStates, FlowStates
  <2>3. Named'
    BY <1>1, <2>1 DEF Search, Named
  <2> QED BY <2>2, <2>3
<1>2. ASSUME SearchOver(s)
      PROVE  /\ searches' \in [Searches -> SearchStates]
             /\ searches'[s] = unused
             /\ \A t \in Searches \ {s} : searches'[t] = searches[t]
             /\ busy' \in BOOLEAN
  BY <1>0, <1>2 DEF SearchOver, SearchStates
<1>3. CASE SearchFails(s)
  <2>1. ConsoleTypeOK'
    BY <1>2, <1>3 DEF SearchFails, ConsoleTypeOK, SearchStates
  <2>2. Named'
    BY <1>2, <1>3 DEF SearchFails, Named
  <2> QED BY <2>1, <2>2
<1>4. CASE SearchGoesOn(s)
  <2>1. CASE searches[s].tab = "register" /\ searches[s].q \notin Labels
    <3>1. /\ SearchOver(s)
          /\ reg' = [status |-> "invalid", label |-> searches[s].q, address |-> None]
          /\ searches[s].q \in Queries
      BY <1>4, <2>1 DEF SearchGoesOn, Named
    <3>2. ConsoleTypeOK'
      BY <1>2, <1>4, <3>1 DEF SearchGoesOn, ConsoleTypeOK, SearchStates, Results
    <3>3. Named'
      BY <1>2, <1>4, <3>1 DEF SearchGoesOn, Named
    <3> QED BY <3>2, <3>3
  <2>2. CASE ~(searches[s].tab = "register" /\ searches[s].q \notin Labels)
    <3>1. /\ searches' \in [Searches -> SearchStates]
          /\ searches'[s] = [searches[s] EXCEPT !.at = "query"]
          /\ \A t \in Searches \ {s} : searches'[t] = searches[t]
          /\ UNCHANGED <<reg, busy>>
      BY <1>0, <1>4, <2>2 DEF SearchGoesOn, SearchStates
    <3>2. ConsoleTypeOK'
      BY <1>4, <3>1 DEF SearchGoesOn, ConsoleTypeOK, SearchStates
    <3>3. Named'
      BY <1>0, <1>4, <2>2, <3>1 DEF SearchGoesOn, Named, SearchStates
    <3> QED BY <3>2, <3>3
  <2> QED BY <2>1, <2>2
<1>5. CASE SearchAnswered(s)
  <2>1. SearchOver(s)
    BY <1>5 DEF SearchAnswered
  <2>2. /\ reg' \in {None} \cup Results
        /\ reg' # None /\ reg'.status = "available" => reg'.label \in Labels
        /\ lookup' \in {None, "ok", "none", "invalid", "error"}
    <3>1. CASE searches[s].tab = "register"
      <4>1. PICK a \in Accounts \cup {None} :
               reg' = [status |-> IF a = None THEN "available" ELSE "registered",
                       label |-> searches[s].q, address |-> a]
        BY <1>5, <3>1 DEF SearchAnswered
      <4>2. searches[s].q \in Labels /\ searches[s].q \in Queries
        BY <1>5, <3>1 DEF SearchAnswered, Named, Queries
      <4>3. lookup' = lookup
        BY <1>5, <3>1 DEF SearchAnswered
      <4> QED BY <4>1, <4>2, <4>3 DEF Results, ConsoleTypeOK
    <3>2. CASE searches[s].tab # "register"
      <4>1. reg' = reg /\ lookup' \in {"ok", "none", "invalid", "error"}
        BY <1>5, <3>2 DEF SearchAnswered
      <4> QED BY <1>0, <4>1 DEF Named
    <3> QED BY <3>1, <3>2
  <2>3. ConsoleTypeOK'
    BY <1>2, <1>5, <2>1, <2>2 DEF SearchAnswered, ConsoleTypeOK, SearchStates, Results
  <2>4. Named'
    BY <1>2, <1>5, <2>1, <2>2 DEF SearchAnswered, Named
  <2> QED BY <2>3, <2>4
<1> QED BY <1>1, <1>3, <1>4, <1>5 DEF SearchStep

\* What a run shows, whoever it is.
LEMMA ShowIsTyped ==
    ASSUME TypeInv, NEW r \in Runs, NEW state \in FlowStates, Show(r, state)
    PROVE  mint' \in FlowStates
  BY DEF Show, TypeInv, ConsoleTypeOK, FlowStates

LEMMA OnStepIsTyped ==
    ASSUME TypeInv, NEW r \in Runs, NEW idx \in 0 .. 3, OnStep(r, idx)
    PROVE  mint' \in FlowStates
<1> DEFINE to == [mint EXCEPT !.step = idx, !.done = @ \cup 0 .. idx - 1]
<1>1. mint \in FlowStates
  BY DEF TypeInv, ConsoleTypeOK, FlowStates
<1>2. mint.done \cup 0 .. idx - 1 \in SUBSET (0 .. 3)
  BY <1>1 DEF FlowStates
<1>3. to \in FlowStates
  BY <1>1, <1>2 DEF FlowStates
<1> QED BY <1>1, <1>3 DEF OnStep, Show

\* A run that has begun has a name, and keeps it.
LEMMA RunsAreTyped ==
    ASSUME TypeInv, NEW r \in Runs, Start(r) \/ RunStep(r)
    PROVE  TypeInv'
<1> USE DEF page, flow
<1>0. /\ runs \in [Runs -> RunStates] /\ mint \in FlowStates
      /\ reg \in {None} \cup Results
  BY DEF TypeInv, ConsoleTypeOK, RunStates, Ats, FlowStates, Results
<1>1. ASSUME NEW to \in Ats, runs[r].at # "unused", runs' = [runs EXCEPT ![r].at = to],
             UNCHANGED <<account, tab, busy, lookup, searches>>,
             running' \in BOOLEAN, current' \in Runs \cup {None}, mint' \in FlowStates,
             reg' \in {None} \cup Results,
             reg' # None /\ reg'.status = "available" => reg'.label \in Labels,
             owned' \subseteq Accounts \X Labels
      PROVE  TypeInv'
  <2>1. /\ runs' \in [Runs -> RunStates]
        /\ runs'[r].label = runs[r].label /\ runs'[r].address = runs[r].address
        /\ \A q \in Runs \ {r} : runs'[q] = runs[q]
    BY <1>0, <1>1, RunMoves
  <2>2. ConsoleTypeOK'
    BY <1>1, <2>1 DEF TypeInv, ConsoleTypeOK, RunStates, Ats, FlowStates, Results
  <2>3. Named'
    BY <1>1, <2>1 DEF TypeInv, Named
  <2> QED BY <2>2, <2>3 DEF TypeInv
<1>2. /\ reg \in {None} \cup Results
      /\ reg # None /\ reg.status = "available" => reg.label \in Labels
      /\ running \in BOOLEAN /\ current \in Runs \cup {None}
      /\ owned \subseteq Accounts \X Labels
  BY <1>0 DEF TypeInv, ConsoleTypeOK, Named
<1>3. Finish(r) => running' \in BOOLEAN
  BY DEF Finish
<1>4. ASSUME Start(r) PROVE TypeInv'
  <2>1. reg.label \in Labels /\ account \in Accounts
    BY <1>4 DEF Start, OfferShown, ResultShown, HasWallet, TypeInv, Named
  <2>2. mint' \in FlowStates
    BY <1>4, <2>1, IdleIsAState DEF Start, FlowStates
  <2>3. /\ runs' \in [Runs -> RunStates]
        /\ runs'[r].label = reg.label /\ runs'[r].address = account
        /\ \A q \in Runs \ {r} : runs'[q] = runs[q]
    BY <1>0, <1>4, <2>1, StepsInFlight DEF Start, RunStates, Ats
  <2>4. ConsoleTypeOK'
    BY <1>4, <2>2, <2>3 DEF Start, TypeInv, ConsoleTypeOK, RunStates, Ats, FlowStates
  <2>5. Named'
    BY <1>4, <2>1, <2>3 DEF Start, TypeInv, Named
  <2> QED BY <2>4, <2>5 DEF TypeInv
<1>5. CASE Return(r)
  BY <1>0, <1>1, <1>2, <1>5 DEF Return, Ats
<1>6. CASE Funded(r)
  <2>1. [mint EXCEPT !.phase = "minting"] \in FlowStates
    BY <1>0 DEF FlowStates
  <2>2. mint' \in FlowStates
    BY <1>6, <2>1, ShowIsTyped DEF Funded
  <2> QED BY <1>1, <1>2, <1>6, <2>2, StepsInFlight DEF Funded, Ats
<1>7. CASE NotFunded(r)
  <2>1. PICK error \in {"fund", "mint"} : Show(r, [mint EXCEPT !.error = error])
    BY <1>7 DEF NotFunded
  <2>2. [mint EXCEPT !.error = error] \in FlowStates
    BY <1>0 DEF FlowStates
  <2>3. mint' \in FlowStates
    BY <2>1, <2>2, ShowIsTyped
  <2> QED BY <1>1, <1>2, <1>3, <1>7, <2>3 DEF NotFunded, Ats
<1>8. CASE GotClient(r)
  <2>1. mint' \in FlowStates
    BY <1>8, OnStepIsTyped DEF GotClient
  <2> QED BY <1>1, <1>2, <1>8, <2>1, StepsInFlight DEF GotClient, Ats
<1>9. CASE Included(r)
  <2>1. PICK i \in 1 .. 3 :
           /\ runs[r].at = Steps[i]
           /\ runs' = [runs EXCEPT ![r].at = Steps[i + 1]]
           /\ OnStep(r, i)
           /\ UNCHANGED <<account, page, current, running, searches, owned>>
    BY <1>9 DEF Included
  <2>2. Steps[i + 1] \in Ats /\ runs[r].at # "unused"
    BY <2>1, StepsInFlight DEF Ats
  <2>3. mint' \in FlowStates
    BY <2>1, OnStepIsTyped
  <2> QED BY <1>1, <1>2, <2>1, <2>2, <2>3
<1>10. CASE MintFails(r)
  <2>1. [mint EXCEPT !.error = "mint"] \in FlowStates
    BY <1>0 DEF FlowStates
  <2>2. mint' \in FlowStates
    BY <1>10, <2>1, ShowIsTyped DEF MintFails
  <2>3. runs[r].at # "unused"
    BY <1>10, StepsInFlight DEF MintFails
  <2> QED BY <1>1, <1>2, <1>3, <1>10, <2>2, <2>3 DEF MintFails, Ats
<1>11. CASE Minted(r)
  <2>1. runs[r].at # "unused" /\ runs[r].label \in Labels /\ runs[r].address \in Accounts
    BY <1>11 DEF Minted, TypeInv, Named
  <2>2. CASE IsCurrent(r) /\ runs' = [runs EXCEPT ![r].at = "minted"]
             /\ Show(r, [mint EXCEPT !.phase = "done", !.step = 3, !.done = 0 .. 3])
             /\ Remember(r) /\ OnSuccess(r) /\ Finish(r)
    <3>1. [mint EXCEPT !.phase = "done", !.step = 3, !.done = 0 .. 3] \in FlowStates
      <4> DEFINE all == 0 .. 3
      <4>1. 3 \in 0 .. 3 /\ all \in SUBSET (0 .. 3)
        OBVIOUS
      <4> HIDE DEF all
      <4>2. [mint EXCEPT !.phase = "done", !.step = 3, !.done = all] \in FlowStates
        BY <1>0, <4>1 DEF FlowStates
      <4> QED BY <4>2 DEF all
    <3>2. mint' \in FlowStates
      BY <2>2, <3>1, ShowIsTyped
    <3>3. /\ reg' \in {None} \cup Results
          /\ reg' # None /\ reg'.status = "available" => reg'.label \in Labels
      BY <1>2, <2>1, <2>2 DEF OnSuccess, Results
    <3>4. owned' \subseteq Accounts \X Labels
      BY <1>2, <2>1, <2>2 DEF Remember
    <3> QED BY <1>1, <1>2, <1>3, <1>11, <2>1, <2>2, <3>2, <3>3, <3>4 DEF Minted, Ats
  <2>3. CASE runs' = [runs EXCEPT ![r].at = "unseen"] /\ UNCHANGED <<mint, running, reg, owned>>
    BY <1>0, <1>1, <1>2, <1>11, <2>1, <2>3 DEF Minted, Ats
  <2> QED BY <1>11, <2>2, <2>3 DEF Minted
<1> QED BY <1>4, <1>5, <1>6, <1>7, <1>8, <1>9, <1>10, <1>11 DEF RunStep

LEMMA StutterIsTyped == TypeInv /\ UNCHANGED consoleVars => TypeInv'
  BY DEF TypeInv, ConsoleTypeOK, Named, consoleVars

LEMMA TypedAlways == ConsoleSpec => []TypeInv
<1>1. ConsoleInit => TypeInv
  BY InitIsTyped
<1>2. TypeInv /\ [ConsoleNext]_consoleVars => TypeInv'
  BY ClicksAreTyped, SearchesAreTyped, RunsAreTyped, StutterIsTyped DEF ConsoleNext
<1> QED BY <1>1, <1>2, PTL DEF ConsoleSpec

\* The state of the console is well typed, whatever is clicked and whatever
\* the chain answers.
THEOREM ConsoleTyped == ConsoleSpec => []ConsoleTypeOK
<1>1. TypeInv => ConsoleTypeOK
  BY DEF TypeInv
<1> QED BY <1>1, TypedAlways, PTL

-----------------------------------------------------------------------------
(* The lock on Register.                                                    *)

\* What a step of a run may do: it goes on in flight and leaves the lock, or
\* it ends and frees the lock if that was its own.
LEMMA RunStepMoves ==
    ASSUME TypeInv, NEW r \in Runs, RunStep(r)
    PROVE  /\ current' = current
           /\ runs[r].at \in InFlight
           /\ runs'[r].label = runs[r].label /\ runs'[r].address = runs[r].address
           /\ \A q \in Runs \ {r} : runs'[q] = runs[q]
           /\ \/ runs'[r].at \in InFlight /\ running' = running
              \/ runs'[r].at \notin InFlight /\ running' = (running /\ current # r)
           /\ current # r => mint' = mint
           /\ IF runs'[r].at = "minted" THEN Remember(r) ELSE owned' = owned
<1> USE DEF page, flow
<1>0. runs \in [Runs -> RunStates] /\ running \in BOOLEAN
  BY DEF TypeInv, ConsoleTypeOK, RunStates, Ats
<1>1. ASSUME NEW to \in Ats, runs' = [runs EXCEPT ![r].at = to]
      PROVE  /\ runs'[r].at = to
             /\ runs'[r].label = runs[r].label /\ runs'[r].address = runs[r].address
             /\ \A q \in Runs \ {r} : runs'[q] = runs[q]
  BY <1>0, <1>1, RunMoves
<1>2. CASE Return(r)
  <2>1. runs' = [runs EXCEPT ![r].at = "dropped"] /\ "dropped" \in Ats
    BY <1>2 DEF Return, Ats
  <2>2. runs[r].at \in InFlight /\ "dropped" \notin InFlight
    BY <1>2, StepsInFlight DEF Return
  <2>3. current # r /\ UNCHANGED <<current, running, mint, owned>>
    BY <1>2 DEF Return, IsCurrent
  <2> QED BY <1>0, <1>1, <2>1, <2>2, <2>3
<1>3. CASE Funded(r)
  <2>1. runs' = [runs EXCEPT ![r].at = "client"] /\ "client" \in Ats
    BY <1>3, StepsInFlight DEF Funded, Ats
  <2>2. runs[r].at \in InFlight /\ "client" \in InFlight
    BY <1>3, StepsInFlight DEF Funded
  <2>3. UNCHANGED <<current, running, owned>> /\ (current # r => mint' = mint)
    BY <1>3 DEF Funded, Show
  <2> QED BY <1>1, <2>1, <2>2, <2>3
<1>4. CASE NotFunded(r)
  <2>1. runs' = [runs EXCEPT ![r].at = "failed"] /\ "failed" \in Ats
    BY <1>4 DEF NotFunded, Ats
  <2>2. runs[r].at \in InFlight /\ "failed" \notin InFlight
    BY <1>4, StepsInFlight DEF NotFunded
  <2>3. /\ UNCHANGED <<current, owned>> /\ (current # r => mint' = mint)
        /\ running' = (running /\ current # r)
    BY <1>4 DEF NotFunded, Show, Finish
  <2> QED BY <1>1, <2>1, <2>2, <2>3
<1>5. CASE GotClient(r)
  <2>1. runs' = [runs EXCEPT ![r].at = "commit"] /\ "commit" \in Ats
    BY <1>5, StepsInFlight DEF GotClient, Ats
  <2>2. runs[r].at \in InFlight /\ "commit" \in InFlight
    BY <1>5, StepsInFlight DEF GotClient
  <2>3. UNCHANGED <<current, running, owned>> /\ (current # r => mint' = mint)
    BY <1>5 DEF GotClient, OnStep, Show
  <2> QED BY <1>1, <2>1, <2>2, <2>3
<1>6. CASE Included(r)
  <2>1. PICK i \in 1 .. 3 :
           /\ runs[r].at = Steps[i]
           /\ runs' = [runs EXCEPT ![r].at = Steps[i + 1]]
           /\ OnStep(r, i)
           /\ UNCHANGED <<account, page, current, running, searches, owned>>
    BY <1>6 DEF Included
  <2>2. Steps[i] \in InFlight /\ Steps[i + 1] \in InFlight /\ Steps[i + 1] \in Ats
    BY StepsInFlight DEF Ats
  <2>3. Steps[i + 1] # "minted" /\ (current # r => mint' = mint)
    BY <2>1, StepsInFlight DEF OnStep, Show
  <2> QED BY <1>1, <2>1, <2>2, <2>3
<1>7. CASE MintFails(r)
  <2>1. runs' = [runs EXCEPT ![r].at = "failed"] /\ "failed" \in Ats
    BY <1>7 DEF MintFails, Ats
  <2>2. runs[r].at \in InFlight /\ "failed" \notin InFlight
    BY <1>7, StepsInFlight DEF MintFails
  <2>3. /\ UNCHANGED <<current, owned>> /\ (current # r => mint' = mint)
        /\ running' = (running /\ current # r)
    BY <1>7 DEF MintFails, Show, Finish
  <2> QED BY <1>1, <2>1, <2>2, <2>3
<1>8. CASE Minted(r)
  <2>1. runs[r].at \in InFlight /\ current' = current
    BY <1>8, StepsInFlight DEF Minted
  <2>2. CASE runs' = [runs EXCEPT ![r].at = "minted"] /\ Remember(r) /\ Finish(r)
             /\ Show(r, [mint EXCEPT !.phase = "done", !.step = 3, !.done = 0 .. 3])
    <3>1. "minted" \in Ats /\ "minted" \notin InFlight
      BY StepsInFlight DEF Ats
    <3>2. /\ running' = (running /\ current # r)
          /\ current # r => mint' = mint
      BY <2>2 DEF Finish, Show
    <3> QED BY <1>1, <2>1, <2>2, <3>1, <3>2
  <2>3. CASE ~IsCurrent(r) /\ runs' = [runs EXCEPT ![r].at = "unseen"]
             /\ UNCHANGED <<mint, running, reg, owned>>
    <3>1. "unseen" \in Ats /\ "unseen" \notin InFlight
      BY StepsInFlight DEF Ats
    <3>2. current # r
      BY <2>3 DEF IsCurrent
    <3> QED BY <1>0, <1>1, <2>1, <2>3, <3>1, <3>2
  <2> QED BY <1>8, <2>2, <2>3 DEF Minted
<1> QED BY <1>2, <1>3, <1>4, <1>5, <1>6, <1>7, <1>8 DEF RunStep

\* What a click or a search may do: it leaves the flow alone, or resets it.
FlowKept == UNCHANGED <<mint, current, running, runs, owned>>

RunsKept ==
    \A r \in Runs : /\ runs'[r].at = runs[r].at
                    /\ runs'[r].label = runs[r].label
                    /\ runs'[r].address = runs[r].address

LEMMA OthersKeepOrReset ==
    ASSUME TypeInv, [ConsoleNext]_consoleVars, \A r \in Runs : ~Start(r) /\ ~RunStep(r)
    PROVE  FlowKept \/ (Reset /\ RunsKept /\ owned' = owned)
<1> USE DEF page, flow, FlowKept
<1>1. ASSUME UNCHANGED runs PROVE RunsKept
  BY <1>1 DEF RunsKept
<1>2. CASE Leave
  <2>1. RunsKept
    <3>1. runs \in [Runs -> RunStates]
      BY DEF TypeInv, ConsoleTypeOK, RunStates, Ats
    <3> QED BY <1>2, <3>1 DEF Leave, RunStates, RunsKept
  <2> QED BY <1>2, <2>1 DEF Leave
<1>3. CASE SwitchTab \/ Back
  BY <1>1, <1>3 DEF SwitchTab, Back
<1>4. ASSUME NEW s \in Searches, NEW q \in Queries, Search(s, q)
      PROVE  Reset /\ RunsKept /\ owned' = owned
  BY <1>1, <1>4 DEF Search
<1>5. ASSUME NEW s \in Searches, SearchStep(s) PROVE FlowKept
  BY <1>5 DEF SearchStep, SearchFails, SearchGoesOn, SearchAnswered
<1>6. CASE Load \/ Login \/ WalletReady \/ Logout
  BY <1>6 DEF Load, Login, WalletReady, Logout, Account
<1>7. CASE UNCHANGED consoleVars
  BY <1>7 DEF consoleVars
<1> QED BY <1>2, <1>3, <1>4, <1>5, <1>6, <1>7 DEF ConsoleNext, Navigate, ViewProfile

LEMMA AliveInductive ==
    ASSUME TypeInv, RegisterAlive, [ConsoleNext]_consoleVars
    PROVE  RegisterAlive'
<1>1. CASE \E r \in Runs : Start(r)
  <2>1. PICK r \in Runs : Start(r)
    BY <1>1
  <2>2. runs'[r].at = "funding" /\ current' = r /\ running'
    BY <2>1 DEF Start, TypeInv, ConsoleTypeOK
  <2> QED BY <2>2, StepsInFlight, NoneIsApart DEF RegisterAlive
<1>2. CASE \E r \in Runs : RunStep(r)
  <2>1. PICK r \in Runs : RunStep(r)
    BY <1>2
  <2>2. current \in Runs \cup {None} /\ current' = current
    BY <2>1, RunStepMoves DEF TypeInv, ConsoleTypeOK
  <2>3. CASE current = r
    BY <2>1, <2>3, RunStepMoves, NoneIsApart DEF RegisterAlive
  <2>4. CASE current # r
    BY <2>1, <2>2, <2>4, RunStepMoves DEF RegisterAlive
  <2> QED BY <2>3, <2>4
<1>3. CASE \A r \in Runs : ~Start(r) /\ ~RunStep(r)
  BY <1>3, OthersKeepOrReset DEF FlowKept, Reset, RegisterAlive
<1> QED BY <1>1, <1>2, <1>3

\* SearchConsole.tsx:97-101, 177: Register is refused exactly while the
\* current run is in flight.
THEOREM RegisterIsAlive == ConsoleSpec => []RegisterAlive
<1>1. ConsoleInit => RegisterAlive
  BY DEF ConsoleInit, RegisterAlive
<1>2. TypeInv /\ RegisterAlive /\ [ConsoleNext]_consoleVars => RegisterAlive'
  BY AliveInductive
<1> QED BY <1>1, <1>2, TypedAlways, PTL DEF ConsoleSpec

-----------------------------------------------------------------------------
(* The names remembered.                                                    *)

LEMMA RememberedInductive ==
    ASSUME TypeInv, RememberedForMinter, [ConsoleNext]_consoleVars
    PROVE  RememberedForMinter'
<1> DEFINE mintedNames == {<<runs[r].address, runs[r].label>> : r \in {q \in Runs : runs[q].at = "minted"}}
<1>0. "minted" \notin InFlight /\ "unused" \notin InFlight
  BY StepsInFlight
<1>1. CASE \E r \in Runs : Start(r)
  <2>1. PICK r \in Runs : Start(r)
    BY <1>1
  <2>2. /\ runs'[r].at = "funding" /\ runs[r].at = "unused" /\ owned' = owned
        /\ \A q \in Runs \ {r} : runs'[q] = runs[q]
    BY <2>1 DEF Start, TypeInv, ConsoleTypeOK
  <2>3. mintedNames' = mintedNames
    BY <2>2
  <2> QED BY <2>2, <2>3 DEF RememberedForMinter
<1>2. CASE \E r \in Runs : RunStep(r)
  <2>1. PICK r \in Runs : RunStep(r)
    BY <1>2
  <2>2. /\ runs[r].at # "minted"
        /\ runs'[r].label = runs[r].label /\ runs'[r].address = runs[r].address
        /\ \A q \in Runs \ {r} : runs'[q] = runs[q]
    BY <1>0, <2>1, RunStepMoves
  <2>3. CASE runs'[r].at = "minted"
    <3>1. owned' = owned \cup {<<runs[r].address, runs[r].label>>}
      BY <2>1, <2>3, RunStepMoves DEF Remember
    <3>2. mintedNames' = mintedNames \cup {<<runs[r].address, runs[r].label>>}
      BY <2>2, <2>3
    <3> QED BY <3>1, <3>2 DEF RememberedForMinter
  <2>4. CASE runs'[r].at # "minted"
    <3>1. owned' = owned
      BY <2>1, <2>4, RunStepMoves
    <3>2. mintedNames' = mintedNames
      BY <2>2, <2>4
    <3> QED BY <3>1, <3>2 DEF RememberedForMinter
  <2> QED BY <2>3, <2>4
<1>3. CASE \A r \in Runs : ~Start(r) /\ ~RunStep(r)
  <2>1. RunsKept /\ owned' = owned
    BY <1>3, OthersKeepOrReset DEF FlowKept, RunsKept
  <2>2. mintedNames' = mintedNames
    BY <2>1 DEF RunsKept
  <2> QED BY <2>1, <2>2 DEF RememberedForMinter
<1> QED BY <1>1, <1>2, <1>3

\* owned-names.ts: the names remembered are those of the runs that minted, each
\* for the account of its run.
THEOREM RememberedIsForMinter == ConsoleSpec => []RememberedForMinter
<1>1. ConsoleInit => RememberedForMinter
  BY DEF ConsoleInit, RememberedForMinter
<1>2. TypeInv /\ RememberedForMinter /\ [ConsoleNext]_consoleVars => RememberedForMinter'
  BY RememberedInductive
<1> QED BY <1>1, <1>2, TypedAlways, PTL DEF ConsoleSpec

-----------------------------------------------------------------------------
(* The pipeline.                                                            *)

\* The state of the flow of a run that is at.
Minting(m, i) == m.phase = "minting" /\ m.error = None /\ m.step = i /\ m.done = 0 .. i - 1

TellsOf(m, at) ==
    \/ at = "funding" /\ m.phase = "funding" /\ m.error = None /\ m.step = 0 /\ m.done = {}
    \/ at = "client" /\ Minting(m, 0)
    \/ \E i \in 1 .. 4 : at = Steps[i] /\ Minting(m, i - 1)
    \/ at = "minted" /\ m.phase = "done" /\ m.error = None
    \/ at = "failed" /\ m.phase \in {"funding", "minting"} /\ m.error \in {"fund", "mint"}

FlowTells ==
    /\ mint.active # None <=> current # None
    /\ current # None => mint.active = runs[current].label /\ TellsOf(mint, runs[current].at)

\* The current run shows what it does.
LEMMA CurrentTells ==
    ASSUME TypeInv, NEW r \in Runs, current = r, RunStep(r), TellsOf(mint, runs[r].at)
    PROVE  mint'.active = mint.active /\ TellsOf(mint', runs'[r].at)
<1> USE DEF page, flow
<1>0. /\ runs \in [Runs -> RunStates] /\ mint \in FlowStates
      /\ "minted" \notin InFlight /\ "failed" \notin InFlight
  BY StepsInFlight DEF TypeInv, ConsoleTypeOK, RunStates, Ats, FlowStates
<1>1. ASSUME NEW to \in Ats, runs' = [runs EXCEPT ![r].at = to] PROVE runs'[r].at = to
  BY <1>0, <1>1, RunMoves
<1>2. CASE Return(r)
  BY <1>2 DEF Return, IsCurrent
<1>3. CASE Funded(r)
  <2>1. runs'[r].at = "client" /\ runs[r].at = "funding"
    BY <1>1, <1>3, StepsInFlight DEF Funded, Ats
  <2>2. mint' = [mint EXCEPT !.phase = "minting"]
    BY <1>3 DEF Funded, Show
  <2>3. mint.error = None /\ mint.step = 0 /\ mint.done = {}
    BY <2>1, StepsInFlight DEF TellsOf
  <2>4. {} = 0 .. 0 - 1
    OBVIOUS
  <2>5. mint'.active = mint.active /\ Minting(mint', 0)
    BY <1>0, <2>2, <2>3, <2>4 DEF FlowStates, Minting
  <2> QED BY <2>1, <2>5 DEF TellsOf
<1>4. CASE NotFunded(r)
  <2>1. runs'[r].at = "failed" /\ runs[r].at = "funding"
    BY <1>1, <1>4 DEF NotFunded, Ats
  <2>2. PICK error \in {"fund", "mint"} : mint' = [mint EXCEPT !.error = error]
    BY <1>4 DEF NotFunded, Show
  <2>3. mint.phase = "funding"
    BY <2>1, StepsInFlight DEF TellsOf
  <2> QED BY <1>0, <2>1, <2>2, <2>3 DEF FlowStates, TellsOf
<1>5. ASSUME NEW i \in 0 .. 3, OnStep(r, i), mint.phase = "minting", mint.error = None,
             mint.done = {} \/ mint.done = 0 .. i - 2
      PROVE  mint'.active = mint.active /\ Minting(mint', i)
  <2>1. mint' = [mint EXCEPT !.step = i, !.done = @ \cup 0 .. i - 1]
    BY <1>5 DEF OnStep, Show
  <2>2. mint.done \cup 0 .. i - 1 = 0 .. i - 1
    BY <1>5
  <2> QED BY <1>0, <1>5, <2>1, <2>2 DEF FlowStates, Minting
<1>6. CASE GotClient(r)
  <2>1. runs'[r].at = Steps[1] /\ runs[r].at = "client"
    BY <1>1, <1>6, StepsInFlight DEF GotClient, Ats
  <2>2. Minting(mint, 0)
    BY <2>1, StepsInFlight DEF TellsOf
  <2>3. mint.done = {}
    BY <2>2 DEF Minting
  <2>4. mint'.active = mint.active /\ Minting(mint', 0)
    BY <1>5, <1>6, <2>2, <2>3 DEF GotClient, Minting
  <2> QED BY <2>1, <2>4 DEF TellsOf
<1>7. CASE Included(r)
  <2>1. PICK i \in 1 .. 3 :
           /\ runs[r].at = Steps[i]
           /\ runs' = [runs EXCEPT ![r].at = Steps[i + 1]]
           /\ OnStep(r, i)
    BY <1>7 DEF Included
  <2>2. runs'[r].at = Steps[i + 1]
    BY <1>1, <2>1, StepsInFlight DEF Ats
  <2>3. PICK j \in 1 .. 4 : Steps[i] = Steps[j] /\ Minting(mint, j - 1)
    BY <2>1, StepsInFlight DEF TellsOf
  <2>4. j = i
    BY <2>3, StepsInFlight
  <2>5. mint.phase = "minting" /\ mint.error = None /\ mint.done = 0 .. i - 2
    BY <2>3, <2>4 DEF Minting
  <2>6. mint'.active = mint.active /\ Minting(mint', i)
    BY <1>5, <2>1, <2>5
  <2> QED BY <2>2, <2>6 DEF TellsOf
<1>8. CASE MintFails(r)
  <2>1. runs'[r].at = "failed" /\ runs[r].at \in InFlight \ {"funding"}
    BY <1>1, <1>8 DEF MintFails, Ats
  <2>2. mint' = [mint EXCEPT !.error = "mint"]
    BY <1>8 DEF MintFails, Show
  <2>3. mint.phase = "minting"
    BY <1>0, <2>1 DEF TellsOf, Minting
  <2> QED BY <1>0, <2>1, <2>2, <2>3 DEF FlowStates, TellsOf
<1>9. CASE Minted(r)
  <2> DEFINE all == 0 .. 3
  <2>1. /\ runs'[r].at = "minted" /\ runs[r].at = "addr"
        /\ mint' = [mint EXCEPT !.phase = "done", !.step = 3, !.done = all]
    BY <1>1, <1>9 DEF Minted, IsCurrent, Show, Ats
  <2> HIDE DEF all
  <2>2. mint.error = None
    BY <2>1, StepsInFlight DEF TellsOf, Minting
  <2> QED BY <1>0, <2>1, <2>2 DEF FlowStates, TellsOf
<1> QED BY <1>2, <1>3, <1>4, <1>6, <1>7, <1>8, <1>9 DEF RunStep

LEMMA TellsInductive ==
    ASSUME TypeInv, FlowTells, [ConsoleNext]_consoleVars
    PROVE  FlowTells'
<1>1. CASE \E r \in Runs : Start(r)
  <2>1. PICK r \in Runs : Start(r)
    BY <1>1
  <2>2. reg.label \in Labels
    BY <2>1 DEF Start, OfferShown, ResultShown, TypeInv, Named
  <2>3. /\ current' = r /\ runs'[r].at = "funding" /\ runs'[r].label = reg.label
        /\ mint' = [IdleState EXCEPT !.active = reg.label, !.phase = "funding"]
    BY <2>1 DEF Start, TypeInv, ConsoleTypeOK
  <2>4. TellsOf(mint', runs'[r].at) /\ mint'.active = reg.label
    BY <2>3 DEF TellsOf, IdleState
  <2> QED BY <2>2, <2>3, <2>4, NoneIsApart DEF FlowTells
<1>2. CASE \E r \in Runs : RunStep(r)
  <2>1. PICK r \in Runs : RunStep(r)
    BY <1>2
  <2>2. current \in Runs \cup {None} /\ current' = current
    BY <2>1, RunStepMoves DEF TypeInv, ConsoleTypeOK
  <2>3. CASE current = r
    <3>1. mint'.active = mint.active /\ TellsOf(mint', runs'[r].at)
      BY <2>1, <2>3, CurrentTells, NoneIsApart DEF FlowTells
    <3> QED BY <2>1, <2>2, <2>3, <3>1, RunStepMoves DEF FlowTells
  <2>4. CASE current # r
    BY <2>1, <2>2, <2>4, RunStepMoves DEF FlowTells
  <2> QED BY <2>3, <2>4
<1>3. CASE \A r \in Runs : ~Start(r) /\ ~RunStep(r)
  <2>1. CASE FlowKept
    BY <2>1 DEF FlowKept, FlowTells, TellsOf, Minting
  <2>2. CASE Reset
    BY <2>2 DEF Reset, IdleState, FlowTells
  <2> QED BY <1>3, <2>1, <2>2, OthersKeepOrReset
<1> QED BY <1>1, <1>2, <1>3

\* What is told is what is drawn.
LEMMA ToldIsDrawn ==
    ASSUME TypeInv, FlowTells
    PROVE  PipelineTruthful
<1> DEFINE at == runs[current].at
<1> SUFFICES ASSUME current # None, TellsOf(mint, at) PROVE
          /\ at = "funding" => StatusShown = {"toppingUp"}
          /\ at \in InFlight \ {"funding"} => StatusShown = {"minting"}
          /\ \A i \in 1 .. 4 : at = Steps[i] =>
                /\ StepShown(i - 1) = "active"
                /\ \A j \in 0 .. i - 2 : StepShown(j) = "done"
                /\ \A j \in i .. 3 : StepShown(j) = "todo"
          /\ at = "minted" <=> "minted" \in StatusShown
          /\ at = "failed" <=> StatusShown \cap {"faucetError", "mintError"} # {}
  BY DEF FlowTells, PipelineTruthful
<1> HIDE DEF at
<1>0. None # "fund" /\ None # "mint" /\ "minted" \notin InFlight /\ "failed" \notin InFlight
  BY ConsoleAssumption, StepsInFlight
<1>1. CASE at = "funding"
  <2>1. mint.phase = "funding" /\ mint.error = None
    BY <1>1, StepsInFlight DEF TellsOf
  <2>2. StatusShown = {"toppingUp"}
    BY <1>0, <2>1 DEF StatusShown
  <2>3. \A i \in 1 .. 4 : at # Steps[i]
    BY <1>1, StepsInFlight
  <2> QED BY <1>0, <1>1, <2>2, <2>3
<1>2. ASSUME NEW i \in 0 .. 3, Minting(mint, i), at \in InFlight \ {"funding"},
             \A k \in 1 .. 4 : at = Steps[k] => i = k - 1
      PROVE  /\ StatusShown = {"minting"}
             /\ \A k \in 1 .. 4 : at = Steps[k] =>
                   /\ StepShown(k - 1) = "active"
                   /\ \A j \in 0 .. k - 2 : StepShown(j) = "done"
                   /\ \A j \in k .. 3 : StepShown(j) = "todo"
  <2>1. StatusShown = {"minting"}
    BY <1>0, <1>2 DEF Minting, StatusShown
  <2>2. StepShown(i) = "active"
    BY <1>2 DEF Minting, StepShown
  <2>3. \A j \in 0 .. i - 1 : StepShown(j) = "done"
    BY <1>2 DEF Minting, StepShown
  <2>4. \A j \in i + 1 .. 3 : StepShown(j) = "todo"
    BY <1>2 DEF Minting, StepShown
  <2> QED BY <1>2, <2>1, <2>2, <2>3, <2>4
<1>3. CASE at = "client"
  <2>1. \A k \in 1 .. 4 : at # Steps[k]
    BY <1>3, StepsInFlight
  <2>2. at \in InFlight \ {"funding"} /\ Minting(mint, 0)
    BY <1>3, <2>1, StepsInFlight DEF TellsOf
  <2>3. StatusShown = {"minting"}
    BY <1>2, <2>1, <2>2
  <2> QED BY <1>0, <1>3, <2>1, <2>3
<1>4. CASE \E i \in 1 .. 4 : at = Steps[i]
  <2>1. PICK i \in 1 .. 4 : at = Steps[i] /\ Minting(mint, i - 1)
    BY <1>0, <1>4, StepsInFlight DEF TellsOf
  <2>2. /\ at \in InFlight \ {"funding"} /\ at # "client"
        /\ \A k \in 1 .. 4 : at = Steps[k] => i - 1 = k - 1
    BY <2>1, StepsInFlight
  <2>3. /\ StatusShown = {"minting"}
        /\ \A k \in 1 .. 4 : at = Steps[k] =>
              /\ StepShown(k - 1) = "active"
              /\ \A j \in 0 .. k - 2 : StepShown(j) = "done"
              /\ \A j \in k .. 3 : StepShown(j) = "todo"
    BY <1>2, <2>1, <2>2
  <2> QED BY <1>0, <2>2, <2>3
<1>5. CASE at = "minted"
  <2>1. at \notin InFlight /\ \A i \in 1 .. 4 : at # Steps[i]
    BY <1>5, StepsInFlight
  <2>2. mint.phase = "done" /\ mint.error = None
    BY <1>5, <2>1, StepsInFlight DEF TellsOf
  <2>3. StatusShown = {"minted"}
    BY <1>0, <2>2 DEF StatusShown
  <2> QED BY <1>5, <2>1, <2>3, StepsInFlight
<1>6. CASE at = "failed"
  <2>1. at \notin InFlight /\ \A i \in 1 .. 4 : at # Steps[i]
    BY <1>6, StepsInFlight
  <2>2. mint.phase \in {"funding", "minting"} /\ mint.error \in {"fund", "mint"}
    BY <1>6, <2>1, StepsInFlight DEF TellsOf
  <2>3. StatusShown \cap {"faucetError", "mintError"} # {} /\ "minted" \notin StatusShown
    BY <2>2 DEF StatusShown
  <2> QED BY <1>6, <2>1, <2>3, StepsInFlight
<1> QED BY <1>1, <1>3, <1>4, <1>5, <1>6 DEF TellsOf

\* SearchConsole.tsx:81-82, "stale resolves are dropped": the pipeline tells the
\* truth of the current run, and of no other.
THEOREM PipelineIsTruthful == ConsoleSpec => []PipelineTruthful
<1>1. ConsoleInit => FlowTells
  BY DEF ConsoleInit, IdleState, FlowTells
<1>2. TypeInv /\ FlowTells /\ [ConsoleNext]_consoleVars => FlowTells'
  BY TellsInductive
<1>3. TypeInv /\ FlowTells => PipelineTruthful
  BY ToldIsDrawn
<1> QED BY <1>1, <1>2, <1>3, TypedAlways, PTL DEF ConsoleSpec

=============================================================================
