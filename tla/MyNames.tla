------------------------------ MODULE MyNames ------------------------------
(***************************************************************************)
(* The names an account has minted in this browser, and the choice of its   *)
(* primary name: YourNames.tsx, on the home and the names page, the manage  *)
(* page, setPrimaryName of lib/reverse.ts, lib/owned-names.ts, over the     *)
(* contracts that reverse records live in.                                  *)
(*                                                                          *)
(* A flow sends three extrinsics one after the other and, as the mint flow, *)
(* does not see whether the contracts accept them.  Neither signing out nor *)
(* leaving the page stops it; what it shows at its end it shows to whoever  *)
(* is signed in by then, if its page is still there.  An extrinsic that a   *)
(* flow was told is dropped, or was told nothing of, may be put in a block   *)
(* all the same; a flow that is told nothing more waits for ever, for        *)
(* nothing limits the wait (submitContractCall, lib/register.ts:51-67).      *)
(*                                                                          *)
(* A page reads the primary name when it is mounted, when the account       *)
(* changes and, in a list of names, when the list grows; the answer is that *)
(* of a moment before.                                                      *)
(***************************************************************************)
EXTENDS ReverseRegistrar, FiniteSets

CONSTANTS
    Users,          \* the accounts that sign in
    Mintable,       \* account -> the names it may mint in this browser
    NodeOfName,     \* name -> its node below .pot
    Forward,        \* node -> the address record it has, and keeps
    MaxFlows,       \* bound on the flows and strays in flight when a flow begins
    MaxLogins       \* bound on the changes of the account

\* People sign in.  Names are below .pot, and no account starts out with a
\* reverse node.
ASSUME MyNamesAssumption ==
    /\ Users \subseteq Claimants /\ ReverseRegistrarId \notin Users
    /\ \A a \in Claimants : NodeFor(a) \in Nodes /\ Forward[NodeFor(a)] = None
    /\ \A name \in NameValues :
           NodeOfName[name] \notin {AddrReverseNode} \cup {NodeFor(a) : a \in Claimants}
    /\ Mintable \in [Users -> SUBSET NameValues]
    /\ NodeOfName \in [NameValues -> Nodes]
    /\ Forward \in [Nodes -> Accounts \cup {None}]
    /\ MaxFlows \in Nat /\ MaxLogins \in Nat

VARIABLES
    owned,      \* account -> the names in local storage
    account,    \* the address that is signed in, or None
    page,       \* [kind: home, names or manage, name: the one managed]
    primary, busy, loading,     \* the state of the page
    reads,      \* the reads in flight that may land: [of, value: unread, hung or the answer]
    flows,      \* the flows in flight: [user, name, at, mounted, hung]
    strays,     \* extrinsics no flow waits for that some node has: [user, name, at]
    last,       \* account -> the name in its last set_name that got in a block
    logins

storage == <<owned, last>>
chain == <<records, resolverVars, reverseVars>>
shown == <<page, primary, busy, loading>>
myNamesVars == <<chain, storage, account, shown, reads, flows, strays, logins>>

-----------------------------------------------------------------------------

\* Mutant: claim is trusted to point the node at a resolver.
PlanOfTwo == <<"claim", "set_name">>

\* The messages of setPrimaryName, in order.
Plan == <<"claim", "set_resolver", "set_name">>

\* What reverse answers, if nothing moves while it reads.
Reverse(a) ==
    LET name == names[NodeFor(a)] IN
    IF /\ NodeResolver(NodeFor(a)) = PublicResolverId
       /\ name # None
       /\ Resolution(NodeOfName[name]).addr = a
    THEN name ELSE None

\* Mutant: one list for all addresses of the browser.
AllNames == UNION {owned[a] : a \in Users}

\* The list, of the names remembered for the address that is signed in.
Mine == IF account = None THEN {} ELSE owned[account]

\* Whether the manage page is that of a name of whoever is signed in.
IsOwned == page.kind = "manage" /\ page.name \in Mine

\* The names tagged as primary: in the teaser of the home page, in the full list
\* of the names page, and on the page of an owned name.
TeaserTags == IF page.kind = "home" THEN Mine \cap {primary} ELSE {}
ListTags == IF page.kind = "names" THEN Mine \cap {primary} ELSE {}
PageTags == IF IsOwned THEN {page.name} \cap {primary} ELSE {}

\* Mutant: the effect is not cleaned up.
StillAlive == reads

\* The cleanup of the effect: what is in flight may land no more.
AfterCleanup == {}

\* The effect of a page, for the account a.
NewReads(kind, a) ==
    IF a = None /\ kind # "manage" THEN {}
    ELSE {[of |-> a, value |-> "unread"]}

\* What is unmounted loses its state, and what it has in flight shows no more.
Unmount ==
    /\ primary' = None /\ busy' = None
    /\ flows' = {[f EXCEPT !.mounted = FALSE] : f \in {g \in flows : ~g.hung}}

Mount(kind, name) ==
    /\ Unmount
    /\ page' = [kind |-> kind, name |-> name]
    /\ loading' = (kind = "manage")
    /\ reads' = NewReads(kind, account)
    /\ UNCHANGED <<chain, storage, account, strays, logins>>

OpenHome == page.kind # "home" /\ Mount("home", None)
OpenNames == page.kind # "names" /\ Mount("names", None)
OpenManage(name) == page.kind # "manage" /\ Mount("manage", name)

\* Login, logout, or another wallet: the effect runs anew.  The names page shows
\* its list to who is signed in only.
Become(a) ==
    /\ a # account /\ logins < MaxLogins
    /\ account' = a
    /\ logins' = logins + 1
    /\ reads' = AfterCleanup \cup NewReads(page.kind, a)
    /\ loading' = (page.kind = "manage")
    /\ IF page.kind = "names" /\ a = None THEN Unmount
                                         ELSE UNCHANGED <<primary, busy, flows>>
    /\ UNCHANGED <<chain, storage, page, strays>>

\* addOwnedName, at the end of a mint: a list of names grows, and is read anew.
AddOwnedName(a, name) ==
    /\ name \notin owned[a]
    /\ owned' = [owned EXCEPT ![a] = @ \cup {name}]
    /\ reads' = IF a = account /\ page.kind # "manage"
                THEN AfterCleanup \cup NewReads(page.kind, a) ELSE reads
    /\ UNCHANGED <<chain, last, account, shown, flows, strays, logins>>

\* The node answers.  A manage page without an account only resolves its name.
Answer(r) ==
    /\ r.value = "unread"
    /\ reads' = (reads \ {r}) \cup
                {[r EXCEPT !.value = IF r.of = None THEN None ELSE Reverse(r.of)]}
    /\ UNCHANGED <<chain, storage, account, shown, flows, strays, logins>>

\* Nothing more is heard of the read of a manage page, which goes on loading:
\* getClient does not limit its wait for a node.  In a list, such a read is as one
\* that fails.
ReadHangs(r) ==
    /\ page.kind = "manage" /\ r.value = "unread"
    /\ reads' = (reads \ {r}) \cup {[r EXCEPT !.value = "hung"]}
    /\ UNCHANGED <<chain, storage, account, shown, flows, strays, logins>>

Land(r) ==
    /\ r.value \notin {"unread", "hung"}
    /\ reads' = reads \ {r}
    /\ primary' = IF r.of # None THEN r.value ELSE primary
    /\ loading' = FALSE
    /\ UNCHANGED <<chain, storage, account, page, busy, flows, strays, logins>>

\* A read that fails is not shown; the manage page stops loading.
ReadFails(r) ==
    /\ r.value # "hung"
    /\ reads' = reads \ {r}
    /\ loading' = FALSE
    /\ UNCHANGED <<chain, storage, account, page, primary, busy, flows, strays, logins>>

-----------------------------------------------------------------------------
(* The choice of a primary name.                                            *)

\* The names with a button that is enabled: in the full list those that are not
\* tagged, and on the page of an owned name that name, while none is being set.
ListChoices == IF page.kind = "names" /\ busy = None THEN Mine \ ListTags ELSE {}
PageChoices == IF IsOwned /\ busy = None THEN {page.name} \ PageTags ELSE {}

MakePrimary(name) ==
    /\ account # None /\ name \in ListChoices \cup PageChoices
    /\ Cardinality(flows) + Cardinality(strays) < MaxFlows
    /\ busy' = name
    /\ flows' = flows \cup {[user |-> account, name |-> name, at |-> 1,
                             mounted |-> TRUE, hung |-> FALSE]}
    /\ UNCHANGED <<chain, storage, account, page, primary, loading, reads, strays, logins>>

\* Whether the contracts accept the message of a flow, or of a stray.
Accepted(f, message) ==
    IF message = "claim" THEN OnlyOwner(ReverseRegistrarId, AddrReverseNode)
                         ELSE OnlyOwner(f.user, NodeFor(f.user))

Perform(f, message) ==
    \/ message = "claim" /\ Claim(f.user)
    \/ /\ message = "set_resolver"
       /\ SetResolver(f.user, NodeFor(f.user), PublicResolverId)
       /\ UNCHANGED <<resolverVars, reverseVars>>
    \/ /\ message = "set_name"
       /\ SetName(f.user, NodeFor(f.user), f.name)
       /\ UNCHANGED reverseVars

\* Mutant: the button is freed by success alone.
FreedOnSuccess(f, success) == busy' = IF f.mounted /\ success THEN None ELSE busy

\* The finally of makePrimary.
Freed(f, success) == busy' = IF f.mounted THEN None ELSE busy

\* The extrinsic of a flow, or a stray, is put in a block.
InBlock(f) ==
    /\ IF Accepted(f, Plan[f.at]) THEN Perform(f, Plan[f.at]) ELSE UNCHANGED chain
    /\ last' = IF f.at = Len(Plan) THEN [last EXCEPT ![f.user] = f.name] ELSE last

\* The flow is told of it, and sends the next one; at its end it says so.
Include(f) ==
    LET over == f.at = Len(Plan)
        rest == flows \ {f}
    IN  /\ ~f.hung
        /\ InBlock(f)
        /\ flows' = IF over THEN rest ELSE rest \cup {[f EXCEPT !.at = @ + 1]}
        /\ primary' = IF over /\ f.mounted THEN f.name ELSE primary
        /\ IF over THEN Freed(f, TRUE) ELSE UNCHANGED busy
        /\ UNCHANGED <<owned, account, page, loading, reads, strays, logins>>

\* The extrinsic a flow waits for no more is nowhere, or stays with some node.
Abandon(f) ==
    \/ UNCHANGED strays
    \/ strays' = strays \cup {[user |-> f.user, name |-> f.name, at |-> f.at]}

\* There is no client, the wallet does not sign, the pool drops the extrinsic, or
\* the connection goes before the watch begins.
Fail(f) ==
    /\ ~f.hung
    /\ Abandon(f)
    /\ flows' = flows \ {f}
    /\ Freed(f, FALSE)
    /\ UNCHANGED <<chain, storage, account, page, primary, loading, reads, logins>>

\* Nothing more is heard of it: the connection goes while the extrinsic is
\* watched, the chain stalls, or the wallet never answers.  To a page that is
\* gone, a flow that hangs is as one that fails.
Hang(f) ==
    /\ f.mounted /\ ~f.hung
    /\ Abandon(f)
    /\ flows' = (flows \ {f}) \cup {[f EXCEPT !.hung = TRUE]}
    /\ UNCHANGED <<chain, storage, account, shown, reads, logins>>

\* A stray is put in a block, and nobody is told.
IncludeLate(x) ==
    /\ InBlock(x)
    /\ strays' = strays \ {x}
    /\ UNCHANGED <<owned, account, shown, reads, flows, logins>>

-----------------------------------------------------------------------------

MyNamesInit ==
    /\ records = [n \in Nodes |->
                    IF n = AddrReverseNode
                    THEN [owner |-> ReverseRegistrarId, resolver |-> None, ttl |-> 0]
                    ELSE IF Forward[n] # None
                    THEN [owner |-> Forward[n], resolver |-> PublicResolverId, ttl |-> 0]
                    ELSE None]
    /\ addrs = Forward
    /\ texts = [n \in Nodes |-> [k \in TextKeys |-> None]]
    /\ names = [n \in Nodes |-> None]
    /\ ReverseInit
    /\ owned = [a \in Users |-> {}]
    /\ last = [a \in Users |-> None]
    /\ account = None /\ logins = 0
    /\ page = [kind |-> "home", name |-> None]
    /\ primary = None /\ busy = None /\ loading = FALSE
    /\ reads = {} /\ flows = {} /\ strays = {}

MyNamesNext ==
    \/ OpenHome \/ OpenNames
    \/ \E name \in NameValues : OpenManage(name) \/ MakePrimary(name)
    \/ \E a \in Users \cup {None} : Become(a)
    \/ \E a \in Users : \E name \in Mintable[a] : AddOwnedName(a, name)
    \/ \E r \in reads : Answer(r) \/ Land(r) \/ ReadFails(r) \/ ReadHangs(r)
    \/ \E f \in flows : Include(f) \/ Fail(f) \/ Hang(f)
    \/ \E x \in strays : IncludeLate(x)
    \/ ReverseNext /\ UNCHANGED <<storage, account, shown, reads, flows, strays, logins>>

\* What a page waits for comes in the end, or never: no node, wallet or block is
\* assumed to answer.
MyNamesSpec ==
    /\ MyNamesInit
    /\ [][MyNamesNext]_myNamesVars
    /\ WF_myNamesVars(\E r \in reads : Answer(r) \/ Land(r) \/ ReadFails(r) \/ ReadHangs(r))
    /\ WF_myNamesVars(\E f \in flows : f.mounted /\ (Include(f) \/ Fail(f) \/ Hang(f)))

-----------------------------------------------------------------------------

\* The variables are well typed, and at most one read may land, for the account
\* that is signed in: no answer for another account lands on the page.
MyNamesTypeOK ==
    /\ names \in [Nodes -> NameValues \cup {None}]
    /\ defaultResolver \in Accounts /\ reverseAdmin \in Accounts
    /\ owned \in [Users -> SUBSET NameValues]
    /\ last \in [Users -> NameValues \cup {None}]
    /\ account \in Users \cup {None}
    /\ page \in [kind : {"home", "names", "manage"}, name : NameValues \cup {None}]
    /\ primary \in NameValues \cup {None} /\ busy \in NameValues \cup {None}
    /\ loading \in BOOLEAN
    /\ reads \subseteq [of : Users \cup {None}, value : NameValues \cup {None, "unread", "hung"}]
    /\ flows \subseteq [user : Users, name : NameValues, at : 1 .. Len(Plan),
                        mounted : BOOLEAN, hung : BOOLEAN]
    /\ strays \subseteq [user : Users, name : NameValues, at : 1 .. Len(Plan)]
    /\ Cardinality(reads) <= 1 /\ \A r \in reads : r.of = account

\* lib/reverse.ts:42, "set the caller's primary (reverse) name so reverse
\* returns it": an account is called what the last of its set_name messages that
\* got in a block said, if that name resolves to it, whether or not the flow that
\* sent it was told, however flows of several pages and their late extrinsics
\* interleave, and whatever the admin of the ReverseRegistrar does.
PrimaryStands ==
    \A a \in Users :
        last[a] # None /\ Forward[NodeOfName[last[a]]] = a => Reverse(a) = last[a]

\* YourNames.tsx:54-73: a button is locked exactly while a flow of the page is
\* in flight, and then there is one such flow.
LockedByFlow ==
    LET mine == {f \in flows : f.mounted}
    IN  Cardinality(mine) <= 1 /\ (busy # None <=> mine # {})

\* YourNames.tsx:104, 197, manage page:181, 289: a name that only this account
\* remembers is tagged as its primary name only after a set_name of the account
\* got in a block, although what is shown may be the answer for, or the choice
\* of, who was signed in before.
TagsEarned ==
    \A name \in TeaserTags \cup ListTags \cup PageTags :
        (\A b \in Users \ {account} : name \notin owned[b]) => last[account] # None


=============================================================================
