----------------------------- MODULE Deployment -----------------------------
(***************************************************************************)
(* The contracts as scripts/deploy_pns.py puts them together.  The script   *)
(* instantiates them and then sends its wiring messages one extrinsic at a  *)
(* time, as the Deployer, while the rest of the world already sends         *)
(* messages of its own: `wired` counts the messages that went through, and  *)
(* a script that stops half-way leaves it there.                            *)
(*                                                                          *)
(* Signers decides whom the properties trust: with the Deployer outside     *)
(* Signers it does what the script does and nothing else.                   *)
(***************************************************************************)
EXTENDS RegistrarController

CONSTANTS
    PotLabel, ReverseLabel, AddrLabel,
    ReverseRegistrarId,     \* the account of the ReverseRegistrar
    OpenWindow              \* the commitment window that the script sets

ReverseNode == NamehashStep(Root, ReverseLabel)

ASSUME DeploymentAssumption ==
    /\ {PotLabel, ReverseLabel, AddrLabel} \subseteq Labels
    /\ PotLabel # ReverseLabel
    /\ PotNode = NamehashStep(Root, PotLabel)
    /\ ReverseNode \in Nodes
    /\ NamehashStep(ReverseNode, AddrLabel) \in Nodes
    /\ ReverseRegistrarId \in Accounts
    /\ OpenWindow \in Window
    /\ PotRegistrarId # Deployer

VARIABLE wired

deployVars == <<marketVars, wired>>

-----------------------------------------------------------------------------

\* .pot is given to the PotRegistrar.
WirePot ==
    /\ SetSubnodeOwner(Deployer, Root, PotLabel, PotRegistrarId)
    /\ UNCHANGED <<potVars, now, controllerVars>>

WireReverse ==
    /\ SetSubnodeOwner(Deployer, Root, ReverseLabel, Deployer)
    /\ UNCHANGED <<potVars, now, controllerVars>>

WireAddrReverse ==
    /\ SetSubnodeOwner(Deployer, ReverseNode, AddrLabel, ReverseRegistrarId)
    /\ UNCHANGED <<potVars, now, controllerVars>>

AuthorizeController ==
    /\ AddController(Deployer, ControllerId)
    /\ UNCHANGED controllerVars

OpenCommitWindow == SetCommitAgeWindow(Deployer, OpenWindow)

\* Mutant: the controller is authorized before .pot is handed over.
WiringStepControllerFirst ==
    /\ \/ wired = 0 /\ AuthorizeController
       \/ wired = 1 /\ WireReverse
       \/ wired = 2 /\ WireAddrReverse
       \/ wired = 3 /\ WirePot
       \/ wired = 4 /\ OpenCommitWindow
    /\ wired' = wired + 1

\* The script's messages, in its order.
WiringStep ==
    /\ \/ wired = 0 /\ WirePot
       \/ wired = 1 /\ WireReverse
       \/ wired = 2 /\ WireAddrReverse
       \/ wired = 3 /\ AuthorizeController
       \/ wired = 4 /\ OpenCommitWindow
    /\ wired' = wired + 1

DeploymentInit == MarketInit /\ wired = 0

DeploymentNext ==
    \/ WiringStep
    \/ MarketNext /\ UNCHANGED wired

DeploymentSpec == DeploymentInit /\ [][DeploymentNext]_deployVars

-----------------------------------------------------------------------------

\* Every variable of the market is well typed.
MarketTypeOK ==
    /\ PotTypeOK
    /\ commitments \in [Commitments -> 0..MaxTime \cup {None}]
    /\ prices \in PriceTiers
    /\ minCommitAge \in 0..MaxU64
    /\ maxCommitAge \in 0..MaxU64
    /\ controllerAdmin \in Accounts
    /\ treasury \in Accounts
    /\ funds \in [Accounts -> Nat]
    /\ wired \in 0..5

\* A name has a node under .pot exactly when the PotRegistrar has an entry for
\* it, at every moment of and after the deployment: nothing is minted past the
\* PotRegistrar, and no mint misses the Registry.  It rests on the order of
\* the script (.pot before the controller) and on .pot and the root staying put.
NamesMirrored ==
    \A l \in Names : Registered(l) <=> NodeExists(NodeOf(l))

\* The time that a step adds to a name's lease.
LeaseGained(l) ==
    IF ~Registered(l)' THEN 0
    ELSE registrations'[l].expires
           - (IF Available(l) THEN now ELSE registrations[l].expires)

Minted(l) == Available(l) /\ LeaseGained(l) > 0

\* A name is only minted to the owner named by a commitment that has been
\* lying there for a time within the window, and that commitment is spent.
MintSpendsCommitment ==
    [][\A l \in Names :
          Minted(l) =>
              \E secret \in Secrets :
                  LET c == MakeCommitment(l, OwnerOf(l)', secret)
                  IN  /\ commitments[c] # None
                      /\ now - commitments[c] \in minCommitAge..maxCommitAge
                      /\ commitments'[c] = None]_deployVars

\* No lease time without rent: the treasury receives the price of the time
\* that the step adds, unless it was the treasury itself that paid.
NoFreeLease ==
    [][\A l \in Names :
          LeaseGained(l) > 0 /\ treasury \notin Signers =>
              funds'[treasury] - funds[treasury]
                >= Quote(NameLen[l], LeaseGained(l))]_deployVars

\* No rent without lease time: when failed messages are rolled back, money
\* reaches the treasury, or stays with the controller, only in a step that
\* extends a lease, or renews one that already runs to the end of u64.
NoRentForNothing ==
    [][(\E a \in {treasury, ControllerId} : funds'[a] > funds[a])
         => \E l \in Names :
                \/ LeaseGained(l) > 0
                \/ Registered(l) /\ registrations[l].expires = MaxU64]_deployVars

=============================================================================
