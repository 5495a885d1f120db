----------------------------- MODULE PnsClient ------------------------------
(***************************************************************************)
(* packages/sdk-ts/src/client.ts: resolve and reverse, as the sequences of  *)
(* dry-run reads they are.  Each read is served by the state of the moment, *)
(* and the chain moves on between two reads.                                *)
(*                                                                          *)
(* The chain starts with one name in the hands of the Settler, who          *)
(* registered it, wrote its records, set it as primary name, and does       *)
(* nothing more: what the client says about that name, and about the        *)
(* Settler, should stay true however the others act.                        *)
(*                                                                          *)
(* A resolver that a node names may be another contract, which answers as   *)
(* it likes, or an account without code, where the dry run fails.           *)
(***************************************************************************)
EXTENDS Naming, Normalize

CONSTANTS
    OtherContracts,     \* contracts that answer addr and name as they like
    Spellings,          \* the names that are looked up, or that another contract answers
    Settler, SettledLabel, SettledName, SettledUntil,
    Squatter, SquatLabel,   \* who has another label, one that may look the same
    AccountOf,          \* the address that is looked up -> its account, or None
    Looks,              \* character -> the one a reader takes it for, or None
    HasReverse,         \* whether the network has a ReverseRegistrar
    Thrown              \* the outcome of a call that throws

\* Names are spelled out, and only names that can be are looked up.
ASSUME ClientAssumption ==
    /\ NameValues \subseteq Spellings /\ Spellings \subseteq Seq(Chars)
    /\ None \notin Spellings
    /\ Settler \in Claimants \ (Signers \cup Minters)
    /\ SettledLabel \in Names /\ SettledUntil \in 0..MaxU64 /\ MaxU32 > 0
    /\ SettledName \in NameValues /\ CanNormalize(SettledName)
    /\ Namehash(SettledName) = NodeOf(SettledLabel)
    /\ Squatter \in Claimants \ {Settler} /\ SquatLabel \in Names \ {SettledLabel}
    /\ \A text \in DOMAIN AccountOf : AccountOf[text] \in Claimants \cup {None}
    /\ \A a \in Claimants \cap DOMAIN AccountOf : AccountOf[a] = a
    /\ Looks \in [Chars -> Chars \cup {None}]
    /\ PublicResolverId \notin OtherContracts
    /\ HasReverse \in BOOLEAN
    /\ Thrown \notin Accounts \cup Spellings \cup {None}

VARIABLE call   \* the call in progress, or its outcome when step = "done"

clientVars == <<namingVars, call>>

-----------------------------------------------------------------------------

Call(op, who, name, step) ==
    [op |-> op, who |-> who, name |-> name, step |-> step,
     resolver |-> None, answer |-> None]

Held == {SettledLabel, SquatLabel}

HolderOf(label) ==
    CASE label = SettledLabel -> Settler
      [] label = SquatLabel   -> Squatter
      [] OTHER                -> None

Resolving(owner) == [Owned(owner) EXCEPT !.resolver = PublicResolverId]

ClientInit ==
    /\ call = Call("none", None, None, "done")
    /\ registrations = [l \in Labels |->
                          IF HolderOf(l) = None THEN None
                          ELSE [owner |-> HolderOf(l), expires |-> SettledUntil]]
    /\ approvals = [l \in Labels |-> None]
    /\ balances = [a \in Accounts |-> IF a \in {Settler, Squatter} THEN 1 ELSE 0]
    /\ controllers = Minters
    /\ registrarAdmin = Deployer
    /\ gracePeriod = DefaultGrace
    /\ now = 0
    /\ addrs = [n \in Nodes |->
                  IF \E l \in Held : n = NodeOf(l) THEN HolderOf(n[Len(n)]) ELSE None]
    /\ records = [n \in Nodes |->
                    CASE n = NodeFor(Settler) -> Resolving(Settler)
                      [] \E l \in Held : n = NodeOf(l) -> Resolving(addrs[n])
                      [] OTHER -> WiredRecords[n]]
    /\ names = [n \in Nodes |-> IF n = NodeFor(Settler) THEN SettledName ELSE None]
    /\ texts = [n \in Nodes |-> [k \in TextKeys |-> None]]
    /\ ReverseInit

Return(answer) == call' = [call EXCEPT !.step = "done", !.answer = answer]

Refused(op, who, name, answer) ==
    call' = [Call(op, who, name, "done") EXCEPT !.answer = answer]

\* resolve(name): normalize throws, or the reads begin.
StartResolve(name) ==
    /\ call.step = "done"
    /\ IF CanNormalize(name)
       THEN call' = Call("resolve", None, name, "forward resolver")
       ELSE Refused("resolve", None, name, Thrown)

\* reverse(address): null without a ReverseRegistrar; decodeAddress may throw.
StartReverse(text) ==
    /\ call.step = "done"
    /\ CASE ~HasReverse -> Refused("reverse", text, None, None)
         [] HasReverse /\ AccountOf[text] = None -> Refused("reverse", text, None, Thrown)
         [] OTHER -> call' = Call("reverse", text, None, "reverse resolver")

\* The Registry and the PublicResolver know nothing of a node never minted.
Known(record, node) == IF node \in Nodes THEN record[node] ELSE None

\* registryResolver, for the node at hand.
ReadResolver(step, node, next) ==
    /\ call.step = step
    /\ IF Known(records, node) = None \/ NodeResolver(node) = None
       THEN Return(None)
       ELSE call' = [call EXCEPT !.step = next, !.resolver = NodeResolver(node)]

ReadReverseResolver ==
    ReadResolver("reverse resolver", NodeFor(AccountOf[call.who]), "name")

ReadForwardResolver ==
    ReadResolver("forward resolver", Namehash(call.name), "addr")

\* What a dry run of the resolver may bring back.
Replies(record, replies) ==
    CASE call.resolver = PublicResolverId  -> {record}
      [] call.resolver \in OtherContracts  -> replies \cup {None, Thrown}
      [] OTHER                             -> {Thrown}

\* resolverName, and normalize on what it finds.
ReadName ==
    /\ call.step = "name"
    /\ \E name \in Replies(names[NodeFor(AccountOf[call.who])], Spellings) :
           CASE name \in {None, Thrown} -> Return(name)
             [] name = <<>>             -> Return(None)
             [] name \in Spellings \ {<<>>} /\ ~CanNormalize(name) -> Return(Thrown)
             [] name \in Spellings \ {<<>>} /\ CanNormalize(name) ->
                    call' = [call EXCEPT !.step = "forward resolver", !.name = name]

\* Mutant: reverse trusts the name record.
VerifiedBlindly(addr) == call.name

\* What reverse makes of the forward address, which encodeAddress spells in
\* the one format of the network: an account is its own such spelling.  The
\* name that is returned is spelled as the record is.
Verified(addr) == IF addr = call.who THEN call.name ELSE None

\* resolverAddr.
ReadAddr ==
    /\ call.step = "addr"
    /\ \E addr \in Replies(Known(addrs, Namehash(call.name)), Claimants) :
           IF addr = Thrown \/ call.op = "resolve"
           THEN Return(addr)
           ELSE Return(Verified(addr))

ClientNext ==
    \/ NamingNext /\ UNCHANGED call
    \/ /\ \/ \E name \in Spellings : StartResolve(name)
          \/ \E text \in DOMAIN AccountOf : StartReverse(text)
          \/ ReadReverseResolver
          \/ ReadName
          \/ ReadForwardResolver
          \/ ReadAddr
       /\ UNCHANGED namingVars

ClientSpec == ClientInit /\ [][ClientNext]_clientVars

-----------------------------------------------------------------------------

\* The Settler's name is still in its grace period, in true arithmetic.
Settled == now < SettledUntil + DefaultGrace

Answered(op) == call.op = op /\ call.step = "done"

\* What a reader makes of a spelling.
ReadsAs(spelling) ==
    LET seen == SelectSeq(Folded(spelling), LAMBDA c : Looks[c] # None)
    IN  [i \in DOMAIN seen |-> Looks[seen[i]]]

\* client.ts:30-33, "input names are normalized BEFORE hashing": as long as the
\* Settler has the name, every spelling that folds to it resolves to the
\* Settler, and the Settler reverses to it, whatever happens between the reads.
SettledAnswers ==
    Settled =>
        /\ Answered("resolve") /\ CanNormalize(call.name)
           /\ Folded(call.name) = Folded(SettledName) => call.answer = Settler
        /\ Answered("reverse") /\ call.who = Settler => call.answer = SettledName

\* No other account is ever said to have a name that reads as the Settler's,
\* be it by another case, a letter of another script or a character without
\* width (reverse_registrar/lib.rs:12-14, client.ts:34-37, normalize.ts:8-15).
NoImpersonation ==
    /\ Settled
    /\ Answered("reverse")
    /\ call.answer \in Spellings
    /\ ReadsAs(call.answer) = ReadsAs(SettledName)
    => call.who = Settler

\* The nodes below the two that the script minted below the root.
OnTree(node) == node = Root \/ node[1] \in {PotNode[1], ReverseNode[1]}

\* What the rules of normalize.ts are for: of the spellings that they accept,
\* and that name a node below .pot or .reverse, those that read as the settled
\* name fold to it.  A spelling whose top level looks like .pot but is not, in
\* letters of another script, is accepted too: the rules are about one label.
ReadersToldApart ==
    \A name \in Spellings :
        /\ CanNormalize(name) /\ OnTree(Namehash(name))
        /\ ReadsAs(name) = ReadsAs(SettledName)
        => Folded(name) = Folded(SettledName)

=============================================================================
