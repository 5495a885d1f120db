---------------------------- MODULE MyNamesProofs ---------------------------
(***************************************************************************)
(* What the pages of one browser and the contracts guarantee together, for  *)
(* every number of accounts, names and flows, every set of pages opened and *)
(* accounts signed in, and whatever other signers do with their own reverse *)
(* nodes and with the ReverseRegistrar.                                     *)
(*                                                                          *)
(* The lock of the buttons is a matter of the pages alone.  That an account *)
(* is called what its last set_name in a block said rests on the contracts: *)
(* on the owner of a reverse node for ever being its account once it is     *)
(* claimed (ChainStands), on a message finding what the earlier ones of its *)
(* flow did, however late it is and whoever sent some in between            *)
(* (PendingOnTheirWay), and on that set_name being the last to write the    *)
(* name (LastStands).  What is shown was earned by some account of the      *)
(* browser that remembers the name (ShownEarned).                           *)
(***************************************************************************)
EXTENDS MyNames, SequenceTheorems, FiniteSetTheorems, TLAPS

-----------------------------------------------------------------------------
(* Types.                                                                   *)

\* A set without two different elements has at most one.
LEMMA AtMostOne ==
    ASSUME NEW S, \A r, s \in S : r = s
    PROVE  IsFiniteSet(S) /\ Cardinality(S) <= 1
<1>1. CASE S = {}
  BY <1>1, FS_EmptySet
<1>2. CASE S # {}
  <2>1. PICK r \in S : S = {r}
    BY <1>2
  <2>2. IsFiniteSet({r}) /\ Cardinality({r}) = 1
    BY FS_Singleton
  <2> QED BY <2>1, <2>2
<1> QED BY <1>1, <1>2

OneRead == \A r, s \in reads : r = s

ReadType == [of : Users \cup {None}, value : NameValues \cup {None, "unread", "hung"}]

FlowType == [user : Users, name : NameValues, at : 1 .. Len(Plan), mounted : BOOLEAN,
             hung : BOOLEAN]

StrayType == [user : Users, name : NameValues, at : 1 .. Len(Plan)]

\* What may still get in a block.
Pending == flows \cup strays

\* The reads of a page that is mounted, or that has another account.
ReadsFor(a) == OneRead' /\ reads' \subseteq ReadType /\ \A r \in reads' : r.of = a

LEMMA NewReadsFor ==
    ASSUME NEW kind, NEW a \in Users \cup {None}, reads' = NewReads(kind, a)
    PROVE  ReadsFor(a)
<1>1. reads' = {} \/ reads' = {[of |-> a, value |-> "unread"]}
  BY DEF NewReads
<1> QED BY <1>1 DEF ReadsFor, OneRead, ReadType

LEMMA FewerReads ==
    ASSUME MyNamesTypeOK, OneRead, reads' \subseteq reads
    PROVE  ReadsFor(account)
  BY DEF ReadsFor, OneRead, MyNamesTypeOK, ReadType

\* The name an account has is a name.
LEMMA ReverseIsName ==
    ASSUME MyNamesTypeOK, NEW a \in Users
    PROVE  Reverse(a) \in NameValues \cup {None}
  BY MyNamesAssumption DEF MyNamesTypeOK, Reverse

LEMMA PlanOfThree ==
    /\ Len(Plan) = 3
    /\ Plan[1] = "claim" /\ Plan[2] = "set_resolver" /\ Plan[3] = "set_name"
  BY DEF Plan

LEMMA PendingTyped ==
    ASSUME MyNamesTypeOK, NEW f \in Pending
    PROVE  /\ f.user \in Users /\ f.user \in Claimants
           /\ f.name \in NameValues /\ f.at \in 1..3
           /\ f.user # ReverseRegistrarId
<1>1. f \in FlowType \/ f \in StrayType
  BY DEF Pending, MyNamesTypeOK, FlowType, StrayType
<1>2. f.user \in Users /\ f.name \in NameValues /\ f.at \in 1 .. Len(Plan)
  BY <1>1 DEF FlowType, StrayType
<1> QED BY <1>2, PlanOfThree, MyNamesAssumption

\* What becomes of a flow that is unmounted, goes on, or hangs.
LEMMA FlowTyped ==
    ASSUME MyNamesTypeOK, NEW f \in flows
    PROVE  /\ f \in FlowType /\ f \in Pending
           /\ [f EXCEPT !.mounted = FALSE] \in FlowType
           /\ [f EXCEPT !.hung = TRUE] \in FlowType
           /\ f.at # 3 => [f EXCEPT !.at = @ + 1] \in FlowType
           /\ [user |-> f.user, name |-> f.name, at |-> f.at] \in StrayType
<1>1. f \in FlowType /\ f \in Pending
  BY DEF MyNamesTypeOK, FlowType, Pending
<1>2. /\ f.user \in Users /\ f.name \in NameValues
      /\ f.at \in 1..3 /\ f.mounted \in BOOLEAN
  BY <1>1, PlanOfThree DEF FlowType
<1>3. [f EXCEPT !.mounted = FALSE] \in FlowType /\ [f EXCEPT !.hung = TRUE] \in FlowType
  BY <1>1 DEF FlowType
<1>4. f.at # 3 => f.at + 1 \in 1 .. Len(Plan)
  BY <1>2, PlanOfThree
<1>5. ASSUME NEW n \in 1 .. Len(Plan) PROVE [f EXCEPT !.at = n] \in FlowType
  BY <1>1 DEF FlowType
<1>6. [user |-> f.user, name |-> f.name, at |-> f.at] \in StrayType
  BY <1>2, PlanOfThree DEF StrayType
<1> QED BY <1>1, <1>3, <1>4, <1>5, <1>6

\* What a flow gives up stays well typed.
LEMMA AbandonTyped ==
    ASSUME MyNamesTypeOK, NEW f \in flows, Abandon(f)
    PROVE  strays' \subseteq StrayType
<1>1. strays \subseteq StrayType
  BY DEF MyNamesTypeOK, StrayType
<1> DEFINE stray == [user |-> f.user, name |-> f.name, at |-> f.at]
<1>2. strays' \subseteq strays \cup {stray}
  BY DEF Abandon
<1>3. stray \in StrayType
  BY FlowTyped
<1> HIDE DEF stray
<1> QED BY <1>1, <1>2, <1>3

\* A message of a flow, or one to the ReverseRegistrar, keeps the contracts typed.
ChainTyped ==
    /\ names \in [Nodes -> NameValues \cup {None}]
    /\ defaultResolver \in Accounts /\ reverseAdmin \in Accounts

LEMMA PerformTyped ==
    ASSUME MyNamesTypeOK, NEW f \in Pending, NEW message, Perform(f, message)
    PROVE  ChainTyped'
  BY PendingTyped
     DEF MyNamesTypeOK, ChainTyped, Perform, Claim, SetResolver, SetName, resolverVars,
         reverseVars

LEMMA ReverseNextTyped ==
    ASSUME MyNamesTypeOK, ReverseNext
    PROVE  ChainTyped'
  BY ReverseAssumption
     DEF MyNamesTypeOK, ChainTyped, ReverseNext, SetReverseAdmin, SetDefaultResolver,
         Claim, SetPrimaryName, SetName, resolverVars, reverseVars

LEMMA ChainStaysTyped ==
    ASSUME MyNamesTypeOK, UNCHANGED chain
    PROVE  ChainTyped'
  BY DEF MyNamesTypeOK, ChainTyped, chain, resolverVars, reverseVars

\* What is put in a block keeps the contracts typed, and the record of it.
LEMMA InBlockTyped ==
    ASSUME MyNamesTypeOK, NEW f \in Pending, InBlock(f)
    PROVE  ChainTyped' /\ last' \in [Users -> NameValues \cup {None}]
<1>1. ChainTyped'
  BY ChainStaysTyped, PerformTyped DEF InBlock
<1>2. last' \in [Users -> NameValues \cup {None}]
  BY PendingTyped DEF InBlock, MyNamesTypeOK
<1> QED BY <1>1, <1>2

\* The parts of a page that are not a matter of reads, flows and contracts.
PageTyped ==
    /\ owned \in [Users -> SUBSET NameValues]
    /\ last \in [Users -> NameValues \cup {None}]
    /\ account \in Users \cup {None}
    /\ page \in [kind : {"home", "names", "manage"}, name : NameValues \cup {None}]
    /\ primary \in NameValues \cup {None} /\ busy \in NameValues \cup {None}
    /\ loading \in BOOLEAN
    /\ strays \subseteq StrayType

LEMMA TypeParts ==
    MyNamesTypeOK <=>
        /\ ChainTyped /\ PageTyped
        /\ reads \subseteq ReadType /\ flows \subseteq FlowType
        /\ Cardinality(reads) <= 1 /\ \A r \in reads : r.of = account
  BY DEF MyNamesTypeOK, ChainTyped, PageTyped, ReadType, FlowType, StrayType

LEMMA TypePartsNext ==
    ASSUME ChainTyped', PageTyped', flows' \subseteq FlowType, ReadsFor(account')
    PROVE  MyNamesTypeOK' /\ OneRead'
<1>1. Cardinality(reads') <= 1
  BY AtMostOne DEF ReadsFor, OneRead
<1> QED BY <1>1
        DEF MyNamesTypeOK, ChainTyped, PageTyped, ReadType, FlowType, StrayType, ReadsFor

\* Each step keeps the state well typed, and at most one read under way.
LEMMA MyNamesStepTyped ==
    ASSUME MyNamesTypeOK, OneRead, MyNamesNext
    PROVE  MyNamesTypeOK' /\ OneRead'
<1>0. PageTyped /\ flows \subseteq FlowType /\ reads \subseteq ReadType
  BY TypeParts
<1>1. ASSUME NEW kind \in {"home", "names", "manage"}, NEW name \in NameValues \cup {None},
             Mount(kind, name)
      PROVE  MyNamesTypeOK' /\ OneRead'
  <2>1. ChainTyped'
    BY <1>1, ChainStaysTyped DEF Mount
  <2>2. PageTyped'
    BY <1>0, <1>1 DEF Mount, Unmount, PageTyped, storage
  <2>3. flows' \subseteq FlowType
    BY <1>1, FlowTyped DEF Mount, Unmount
  <2>4. ReadsFor(account')
    BY <1>0, <1>1, NewReadsFor DEF Mount, PageTyped
  <2> QED BY <2>1, <2>2, <2>3, <2>4, TypePartsNext
<1>2. ASSUME NEW a \in Users \cup {None}, Become(a)
      PROVE  MyNamesTypeOK' /\ OneRead'
  <2>1. ChainTyped'
    BY <1>2, ChainStaysTyped DEF Become
  <2>2. PageTyped'
    BY <1>0, <1>2 DEF Become, Unmount, PageTyped, storage
  <2>3. ReadsFor(account')
    <3>1. reads' = NewReads(page.kind, a) /\ account' = a
      BY <1>2 DEF Become, AfterCleanup
    <3> QED BY <3>1, NewReadsFor
  <2>4. flows' \subseteq FlowType
    <3>1. CASE Unmount
      BY <3>1, FlowTyped DEF Unmount
    <3>2. CASE UNCHANGED <<primary, busy, flows>>
      BY <1>0, <3>2
    <3> QED BY <1>2, <3>1, <3>2 DEF Become
  <2> QED BY <2>1, <2>2, <2>3, <2>4, TypePartsNext
<1>3. ASSUME NEW a \in Users, NEW name \in Mintable[a], AddOwnedName(a, name)
      PROVE  MyNamesTypeOK' /\ OneRead'
  <2>1. ChainTyped'
    BY <1>3, ChainStaysTyped DEF AddOwnedName
  <2>2. PageTyped'
    <3>1. name \in NameValues
      BY MyNamesAssumption
    <3> QED BY <1>0, <1>3, <3>1 DEF AddOwnedName, PageTyped, shown
  <2>3. ReadsFor(account')
    <3>1. (reads' = NewReads(page.kind, a) /\ a = account) \/ reads' = reads
      BY <1>3 DEF AddOwnedName, AfterCleanup
    <3>2. account' = account
      BY <1>3 DEF AddOwnedName
    <3> QED BY <3>1, <3>2, NewReadsFor, FewerReads
  <2> QED BY <1>0, <1>3, <2>1, <2>2, <2>3, TypePartsNext DEF AddOwnedName
<1>4. ASSUME NEW r \in reads, Answer(r)
      PROVE  MyNamesTypeOK' /\ OneRead'
  <2>1. ChainTyped'
    BY <1>4, ChainStaysTyped DEF Answer
  <2>2. PageTyped'
    BY <1>0, <1>4 DEF Answer, PageTyped, shown, storage
  <2>3. ReadsFor(account')
    <3> DEFINE v == IF r.of = None THEN None ELSE Reverse(r.of)
    <3>1. r \in ReadType /\ r.of = account
      BY <1>0, TypeParts
    <3>2. v \in NameValues \cup {None}
      BY <3>1, ReverseIsName DEF ReadType
    <3>3. reads' = {[r EXCEPT !.value = v]}
      BY <1>4 DEF Answer, OneRead
    <3>4. [r EXCEPT !.value = v] \in ReadType /\ [r EXCEPT !.value = v].of = account
      <4> HIDE DEF v
      <4> QED BY <3>1, <3>2 DEF ReadType
    <3>5. account' = account
      BY <1>4 DEF Answer
    <3> HIDE DEF v
    <3> QED BY <3>3, <3>4, <3>5 DEF ReadsFor, OneRead
  <2> QED BY <1>0, <1>4, <2>1, <2>2, <2>3, TypePartsNext DEF Answer
<1>5. ASSUME NEW r \in reads, Land(r) \/ ReadFails(r)
      PROVE  MyNamesTypeOK' /\ OneRead'
  <2>1. ChainTyped'
    BY <1>5, ChainStaysTyped DEF Land, ReadFails
  <2>2. PageTyped'
    BY <1>0, <1>5 DEF Land, ReadFails, PageTyped, ReadType, storage
  <2>3. reads' \subseteq reads /\ account' = account /\ flows' = flows
    BY <1>5 DEF Land, ReadFails
  <2> QED BY <1>0, <2>1, <2>2, <2>3, FewerReads, TypePartsNext
<1>6. ASSUME NEW name \in NameValues, MakePrimary(name)
      PROVE  MyNamesTypeOK' /\ OneRead'
  <2>1. ChainTyped'
    BY <1>6, ChainStaysTyped DEF MakePrimary
  <2>2. PageTyped'
    BY <1>0, <1>6 DEF MakePrimary, PageTyped, storage
  <2>3. flows' \subseteq FlowType
    <3>1. account \in Users
      BY <1>0, <1>6 DEF MakePrimary, PageTyped
    <3>2. 1 \in 1 .. Len(Plan)
      BY PlanOfThree
    <3>3. [user |-> account, name |-> name, at |-> 1, mounted |-> TRUE, hung |-> FALSE]
            \in FlowType
      BY <3>1, <3>2 DEF FlowType
    <3> QED BY <1>0, <1>6, <3>3 DEF MakePrimary
  <2>4. reads' = reads /\ account' = account
    BY <1>6 DEF MakePrimary
  <2> QED BY <2>1, <2>2, <2>3, <2>4, FewerReads, TypePartsNext
<1>7. ASSUME NEW f \in flows, Include(f)
      PROVE  MyNamesTypeOK' /\ OneRead'
  <2>1. ChainTyped' /\ last' \in [Users -> NameValues \cup {None}]
    BY <1>7, FlowTyped, InBlockTyped DEF Include
  <2>2. PageTyped'
    BY <1>0, <1>7, <2>1, FlowTyped, PendingTyped DEF Include, Freed, PageTyped
  <2>3. flows' \subseteq FlowType
    BY <1>0, <1>7, FlowTyped, PlanOfThree DEF Include
  <2>4. reads' = reads /\ account' = account
    BY <1>7 DEF Include
  <2> QED BY <2>1, <2>2, <2>3, <2>4, FewerReads, TypePartsNext
<1>8. ASSUME NEW f \in flows, Fail(f) \/ Hang(f)
      PROVE  MyNamesTypeOK' /\ OneRead'
  <2>1. ChainTyped'
    BY <1>8, ChainStaysTyped DEF Fail, Hang
  <2>2. strays' \subseteq StrayType
    BY <1>8, AbandonTyped DEF Fail, Hang
  <2>3. PageTyped'
    BY <1>0, <1>8, <2>2 DEF Fail, Hang, Freed, PageTyped, storage, shown
  <2>4. flows' \subseteq FlowType /\ reads' = reads /\ account' = account
    BY <1>0, <1>8, FlowTyped DEF Fail, Hang
  <2> QED BY <2>1, <2>3, <2>4, FewerReads, TypePartsNext
<1>9. ASSUME NEW x \in strays, IncludeLate(x)
      PROVE  MyNamesTypeOK' /\ OneRead'
  <2>1. ChainTyped' /\ last' \in [Users -> NameValues \cup {None}]
    BY <1>9, InBlockTyped DEF IncludeLate, Pending
  <2>2. PageTyped'
    BY <1>0, <1>9, <2>1 DEF IncludeLate, PageTyped, shown
  <2>3. reads' = reads /\ account' = account /\ flows' = flows
    BY <1>9 DEF IncludeLate
  <2> QED BY <1>0, <2>1, <2>2, <2>3, FewerReads, TypePartsNext
<1>10. CASE ReverseNext /\ UNCHANGED <<storage, account, shown, reads, flows, strays, logins>>
  <2>1. PageTyped'
    BY <1>0, <1>10 DEF PageTyped, storage, shown
  <2> QED BY <1>0, <1>10, <2>1, ReverseNextTyped, FewerReads, TypePartsNext
<1>11. ASSUME NEW r \in reads, ReadHangs(r)
       PROVE  MyNamesTypeOK' /\ OneRead'
  <2>1. ChainTyped'
    BY <1>11, ChainStaysTyped DEF ReadHangs
  <2>2. PageTyped'
    BY <1>0, <1>11 DEF ReadHangs, PageTyped, shown, storage
  <2>3. ReadsFor(account')
    <3>1. r \in ReadType /\ r.of = account
      BY <1>0, TypeParts
    <3>2. reads' = {[r EXCEPT !.value = "hung"]} /\ account' = account
      BY <1>11 DEF ReadHangs, OneRead
    <3>3. [r EXCEPT !.value = "hung"] \in ReadType /\ [r EXCEPT !.value = "hung"].of = account
      BY <3>1 DEF ReadType
    <3> QED BY <3>2, <3>3 DEF ReadsFor, OneRead
  <2> QED BY <1>0, <1>11, <2>1, <2>2, <2>3, TypePartsNext DEF ReadHangs
<1> QED BY <1>1, <1>2, <1>3, <1>4, <1>5, <1>6, <1>7, <1>8, <1>9, <1>10, <1>11
        DEF MyNamesNext, OpenHome, OpenNames, OpenManage

\* The pages are always well typed, and no answer for another account lands.
THEOREM MyNamesTyped == MyNamesSpec => [](MyNamesTypeOK /\ OneRead)
<1>1. MyNamesInit => MyNamesTypeOK /\ OneRead
  <2> SUFFICES ASSUME MyNamesInit PROVE MyNamesTypeOK /\ OneRead
    OBVIOUS
  <2>1. ChainTyped
    BY RegistryAssumption, ResolverAssumption DEF MyNamesInit, ReverseInit, ChainTyped
  <2>2. PageTyped
    BY DEF MyNamesInit, PageTyped
  <2>3. reads = {} /\ flows = {} /\ Cardinality(reads) <= 1
    BY FS_EmptySet DEF MyNamesInit
  <2> QED BY <2>1, <2>2, <2>3, TypeParts DEF OneRead
<1>2. MyNamesTypeOK /\ OneRead /\ [MyNamesNext]_myNamesVars => (MyNamesTypeOK /\ OneRead)'
  <2>1. ASSUME MyNamesTypeOK, OneRead, UNCHANGED myNamesVars
        PROVE  MyNamesTypeOK' /\ OneRead'
    BY <2>1 DEF MyNamesTypeOK, OneRead, myNamesVars, chain, storage, shown, resolverVars,
                reverseVars
  <2> QED BY <2>1, MyNamesStepTyped
<1> QED BY <1>1, <1>2, PTL DEF MyNamesSpec

-----------------------------------------------------------------------------
(* The lock of the buttons.                                                 *)

Locked ==
    /\ \A f, g \in flows : f.mounted /\ g.mounted => f = g
    /\ busy # None <=> \E f \in flows : f.mounted

LEMMA LockedIsLockedByFlow ==
    ASSUME Locked
    PROVE  LockedByFlow
<1> DEFINE mine == {f \in flows : f.mounted}
<1>1. \A f, g \in mine : f = g
  BY DEF Locked
<1>2. Cardinality(mine) <= 1
  <2> HIDE DEF mine
  <2> QED BY <1>1, AtMostOne
<1> QED BY <1>2 DEF Locked, LockedByFlow

\* Where a flow goes, the lock stays or goes with it.
LEMMA StepLocked ==
    ASSUME MyNamesTypeOK, Locked, MyNamesNext
    PROVE  Locked'
<1>1. ASSUME Unmount PROVE Locked'
  <2>1. \A g \in flows' : ~g.mounted
    <3>1. \A f \in flows : ~[f EXCEPT !.mounted = FALSE].mounted
      BY FlowTyped DEF FlowType
    <3> QED BY <1>1, <3>1 DEF Unmount
  <2>2. busy' = None
    BY <1>1 DEF Unmount
  <2> QED BY <2>1, <2>2 DEF Locked
<1>2. ASSUME NEW name \in NameValues, MakePrimary(name) PROVE Locked'
  <2> DEFINE new == [user |-> account, name |-> name, at |-> 1, mounted |-> TRUE, hung |-> FALSE]
  <2>1. busy = None
    BY <1>2 DEF MakePrimary, ListChoices, PageChoices
  <2>2. \A f \in flows : ~f.mounted
    BY <2>1 DEF Locked
  <2>3. flows' = flows \cup {new} /\ new.mounted
    BY <1>2 DEF MakePrimary
  <2>4. busy' # None
    BY <1>2, ResolverAssumption DEF MakePrimary
  <2> HIDE DEF new
  <2> QED BY <2>2, <2>3, <2>4 DEF Locked
<1>3. ASSUME NEW f \in flows, flows' = flows \ {f},
             busy' = IF f.mounted THEN None ELSE busy
      PROVE  Locked'
  BY <1>3 DEF Locked
<1>4. ASSUME NEW f \in flows, Include(f) PROVE Locked'
  <2>1. CASE f.at = Len(Plan)
    <3>1. flows' = flows \ {f} /\ busy' = IF f.mounted THEN None ELSE busy
      BY <1>4, <2>1 DEF Include, Freed
    <3> QED BY <1>3, <3>1
  <2>2. CASE f.at # Len(Plan)
    <3> DEFINE next == [f EXCEPT !.at = @ + 1]
    <3>1. flows' = (flows \ {f}) \cup {next} /\ busy' = busy
      BY <1>4, <2>2 DEF Include
    <3>2. next.mounted = f.mounted
      BY FlowTyped DEF FlowType
    <3> HIDE DEF next
    <3> QED BY <3>1, <3>2 DEF Locked
  <2> QED BY <2>1, <2>2
<1>5. ASSUME NEW f \in flows, Fail(f) PROVE Locked'
  BY <1>3, <1>5 DEF Fail, Freed
<1>6. ASSUME UNCHANGED <<busy, flows>> PROVE Locked'
  BY <1>6 DEF Locked
<1>8. ASSUME NEW f \in flows, Hang(f) PROVE Locked'
  <2> DEFINE next == [f EXCEPT !.hung = TRUE]
  <2>1. flows' = (flows \ {f}) \cup {next} /\ busy' = busy
    BY <1>8 DEF Hang, shown
  <2>2. next.mounted = f.mounted
    BY FlowTyped DEF FlowType
  <2> HIDE DEF next
  <2> QED BY <2>1, <2>2 DEF Locked
<1>9. ASSUME NEW a \in Users \cup {None}, Become(a) PROVE Locked'
  BY <1>1, <1>6, <1>9 DEF Become
<1>7. CASE \/ \E a \in Users : \E name \in Mintable[a] : AddOwnedName(a, name)
           \/ \E r \in reads : Answer(r) \/ Land(r) \/ ReadFails(r) \/ ReadHangs(r)
           \/ \E x \in strays : IncludeLate(x)
           \/ ReverseNext /\ UNCHANGED <<storage, account, shown, reads, flows, strays, logins>>
  BY <1>6, <1>7 DEF AddOwnedName, Answer, Land, ReadFails, ReadHangs, IncludeLate, shown
<1> QED BY <1>1, <1>2, <1>4, <1>5, <1>7, <1>8, <1>9
        DEF MyNamesNext, OpenHome, OpenNames, OpenManage, Mount

\* A button is locked exactly while a flow of the page is in flight, and that
\* is one flow.
THEOREM MyNamesLocked == MyNamesSpec => []LockedByFlow
<1>1. MyNamesInit => Locked
  BY DEF MyNamesInit, Locked
<1>2. MyNamesTypeOK /\ Locked /\ [MyNamesNext]_myNamesVars => Locked'
  <2>1. ASSUME Locked, UNCHANGED myNamesVars PROVE Locked'
    BY <2>1 DEF Locked, myNamesVars, shown
  <2> QED BY <2>1, StepLocked
<1> QED BY <1>1, <1>2, MyNamesTyped, LockedIsLockedByFlow, PTL DEF MyNamesSpec

-----------------------------------------------------------------------------
(* The contracts.                                                           *)

\* The node of addr.reverse stays with the ReverseRegistrar, a reverse node is
\* its account's or nobody's, and the names resolve as they did.
ChainStands ==
    /\ RegistryTypeOK
    /\ addrs = Forward
    /\ NodeOwner(AddrReverseNode) = ReverseRegistrarId
    /\ \A a \in Claimants : NodeOwner(NodeFor(a)) \in {None, a}
    /\ \A name \in NameValues :
           Forward[NodeOfName[name]] # None =>
               NodeResolver(NodeOfName[name]) = PublicResolverId

\* What no message takes from an account that has it.
RightsKept ==
    \A a \in Users :
        /\ NodeOwner(NodeFor(a)) = a => NodeOwner(NodeFor(a))' = a
        /\ NodeResolver(NodeFor(a)) = PublicResolverId
               => NodeResolver(NodeFor(a))' = PublicResolverId

NamesKept == \A a \in Users : names'[NodeFor(a)] = names[NodeFor(a)]

\* The reverse nodes hang below addr.reverse, one for each account, beside the
\* names.
LEMMA ReverseNodes ==
    ASSUME NEW a \in Claimants
    PROVE  /\ NodeFor(a) \in Nodes /\ AddrReverseNode \in Nodes
           /\ NodeFor(a) # AddrReverseNode
           /\ \A b \in Claimants : NodeFor(a) = NodeFor(b) => a = b
           /\ \A name \in NameValues :
                  NodeOfName[name] \in Nodes /\ NodeOfName[name] # NodeFor(a)
<1>1. /\ NodeFor(a) \in Nodes /\ AddrReverseNode \in Nodes /\ LabelOf[a] \in Labels
      /\ \A name \in NameValues :
             NodeOfName[name] \in Nodes /\ NodeOfName[name] # NodeFor(a)
  BY MyNamesAssumption, ReverseAssumption
<1>2. AddrReverseNode \in Seq(Labels)
  BY <1>1, RegistryAssumption
<1>3. NodeFor(a) # AddrReverseNode
  BY <1>1, <1>2, AppendProperties DEF NodeFor, NamehashStep
<1>4. ASSUME NEW b \in Claimants, NodeFor(a) = NodeFor(b) PROVE a = b
  <2>1. LabelOf[b] \in Labels
    BY ReverseAssumption
  <2>2. LabelOf[a] = LabelOf[b]
    BY <1>1, <1>2, <1>4, <2>1, AppendInjective DEF NodeFor, NamehashStep
  <2> QED BY <2>2, ReverseAssumption
<1> QED BY <1>1, <1>3, <1>4

\* A claim makes the node the caller's, and leaves its resolver.
LEMMA ClaimEffect ==
    ASSUME RegistryTypeOK, NEW caller \in Claimants, caller # ReverseRegistrarId,
           Claim(caller)
    PROVE  /\ RegistryTypeOK'
           /\ NodeOwner(NodeFor(caller))' = caller
           /\ \A n \in Nodes \ {NodeFor(caller)} : NodeOwner(n)' = NodeOwner(n)
           /\ \A n \in Nodes : NodeResolver(n)' = NodeResolver(n)
           /\ UNCHANGED resolverVars
<1> DEFINE node == NodeFor(caller)
           r == [owner |-> caller, resolver |-> NodeResolver(node), ttl |-> 0]
<1>1. node \in Nodes /\ records' = [records EXCEPT ![node] = r] /\ UNCHANGED resolverVars
  BY DEF Claim
<1>2. NodeResolver(node) \in Accounts \cup {None}
  BY <1>1 DEF NodeResolver, NodeExists, RegistryTypeOK, Record
<1>3. r \in Record
  BY <1>2, RegistryAssumption, ReverseAssumption DEF Record
<1>4. RegistryTypeOK'
  BY <1>1, <1>3 DEF RegistryTypeOK
<1>5. r # None /\ r.owner = caller /\ r.resolver = NodeResolver(node)
  BY <1>3, NoneIsNoRecord
<1>6. records'[node] = r /\ \A n \in Nodes \ {node} : records'[n] = records[n]
  BY <1>1 DEF RegistryTypeOK
<1>7. NodeOwner(node)' = caller /\ NodeResolver(node)' = NodeResolver(node)
  <2> HIDE DEF r
  <2> QED BY <1>5, <1>6 DEF NodeOwner, NodeResolver, NodeExists
<1>8. \A n \in Nodes \ {node} :
          NodeOwner(n)' = NodeOwner(n) /\ NodeResolver(n)' = NodeResolver(n)
  BY <1>6 DEF NodeOwner, NodeResolver, NodeExists
<1> QED BY <1>1, <1>4, <1>7, <1>8

\* set_resolver writes the resolver of the node, and nothing else.
LEMMA SetResolverEffect ==
    ASSUME RegistryTypeOK, NEW caller \in Accounts, NEW node \in Nodes,
           SetResolver(caller, node, PublicResolverId)
    PROVE  /\ RegistryTypeOK'
           /\ \A n \in Nodes : NodeOwner(n)' = NodeOwner(n)
           /\ NodeResolver(node)' = PublicResolverId
           /\ \A n \in Nodes \ {node} : NodeResolver(n)' = NodeResolver(n)
<1> DEFINE r == [records[node] EXCEPT !.resolver = PublicResolverId]
<1>1. records[node] \in Record
  BY RegistryAssumption DEF SetResolver, OnlyOwner, NodeOwner, NodeExists, RegistryTypeOK
<1>2. r \in Record /\ r.owner = records[node].owner /\ r.resolver = PublicResolverId
  BY <1>1, ResolverAssumption DEF Record
<1>3. records' = [records EXCEPT ![node] = r]
  BY DEF SetResolver
<1> HIDE DEF r
<1>4. RegistryTypeOK'
  BY <1>2, <1>3 DEF RegistryTypeOK
<1>5. records'[node] = r /\ \A n \in Nodes \ {node} : records'[n] = records[n]
  BY <1>3 DEF RegistryTypeOK
<1>6. NodeOwner(node)' = NodeOwner(node) /\ NodeResolver(node)' = PublicResolverId
  BY <1>1, <1>2, <1>5, NoneIsNoRecord DEF NodeOwner, NodeResolver, NodeExists
<1>7. \A n \in Nodes \ {node} :
          NodeOwner(n)' = NodeOwner(n) /\ NodeResolver(n)' = NodeResolver(n)
  BY <1>5 DEF NodeOwner, NodeResolver, NodeExists
<1> QED BY <1>4, <1>6, <1>7

LEMMA ClaimKeeps ==
    ASSUME ChainStands, NEW caller \in Claimants, caller # ReverseRegistrarId,
           Claim(caller)
    PROVE  ChainStands' /\ RightsKept /\ NamesKept
<1>1. /\ RegistryTypeOK'
      /\ NodeOwner(NodeFor(caller))' = caller
      /\ \A n \in Nodes \ {NodeFor(caller)} : NodeOwner(n)' = NodeOwner(n)
      /\ \A n \in Nodes : NodeResolver(n)' = NodeResolver(n)
      /\ UNCHANGED resolverVars
  BY ClaimEffect DEF ChainStands
<1>2. NodeOwner(AddrReverseNode)' = ReverseRegistrarId
  BY <1>1, ReverseNodes DEF ChainStands
<1>3. \A a \in Claimants : NodeOwner(NodeFor(a))' \in {None, a}
  BY <1>1, ReverseNodes DEF ChainStands
<1>4. \A name \in NameValues : NodeResolver(NodeOfName[name])' = NodeResolver(NodeOfName[name])
  BY <1>1, ReverseNodes
<1>5. ChainStands'
  BY <1>1, <1>2, <1>3, <1>4 DEF ChainStands, resolverVars
<1>6. RightsKept
  BY <1>1, ReverseNodes, MyNamesAssumption DEF RightsKept
<1> QED BY <1>1, <1>5, <1>6 DEF NamesKept, resolverVars

LEMMA SetResolverKeeps ==
    ASSUME ChainStands, NEW u \in Users, UNCHANGED resolverVars,
           SetResolver(u, NodeFor(u), PublicResolverId)
    PROVE  /\ ChainStands' /\ RightsKept /\ NamesKept
           /\ NodeResolver(NodeFor(u))' = PublicResolverId
<1>0. u \in Claimants /\ u \in Accounts /\ NodeFor(u) \in Nodes
  BY MyNamesAssumption, ReverseAssumption
<1>1. /\ RegistryTypeOK'
      /\ \A n \in Nodes : NodeOwner(n)' = NodeOwner(n)
      /\ NodeResolver(NodeFor(u))' = PublicResolverId
      /\ \A n \in Nodes \ {NodeFor(u)} : NodeResolver(n)' = NodeResolver(n)
  BY <1>0, SetResolverEffect DEF ChainStands
<1>2. \A name \in NameValues : NodeResolver(NodeOfName[name])' = NodeResolver(NodeOfName[name])
  BY <1>0, <1>1, ReverseNodes
<1>3. /\ NodeOwner(AddrReverseNode)' = NodeOwner(AddrReverseNode)
      /\ \A a \in Claimants : NodeOwner(NodeFor(a))' = NodeOwner(NodeFor(a))
  BY <1>0, <1>1, ReverseNodes
<1>4. ChainStands'
  BY <1>1, <1>2, <1>3 DEF ChainStands, resolverVars
<1>5. RightsKept
  BY <1>1, <1>3, ReverseNodes, MyNamesAssumption DEF RightsKept
<1> QED BY <1>1, <1>4, <1>5 DEF NamesKept, resolverVars

LEMMA RecordsKeep ==
    ASSUME ChainStands, UNCHANGED <<records, addrs>>
    PROVE  ChainStands' /\ RightsKept
  BY DEF ChainStands, RightsKept, RegistryTypeOK, NodeOwner, NodeResolver, NodeExists

\* What a signer does with the ReverseRegistrar: it claims its own node, and
\* cannot name a node through it, for no node is the ReverseRegistrar's.
LEMMA ReverseNextKeeps ==
    ASSUME ChainStands, ReverseNext
    PROVE  ChainStands' /\ RightsKept /\ NamesKept
<1>1. CASE \E caller \in Signers \cap Claimants : Claim(caller)
  BY <1>1, ClaimKeeps, ReverseAssumption
<1>2. CASE UNCHANGED <<records, resolverVars>>
  BY <1>2, RecordsKeep DEF NamesKept, resolverVars
<1>3. ASSUME NEW caller \in Signers \cap Claimants, NEW name, SetPrimaryName(caller, name)
      PROVE  FALSE
  BY <1>3, ReverseAssumption, RegistryAssumption
     DEF SetPrimaryName, CanSetPrimaryName, OnlyNodeOwner, ChainStands
<1> QED BY <1>1, <1>2, <1>3 DEF ReverseNext, SetReverseAdmin, SetDefaultResolver

-----------------------------------------------------------------------------
(* The flows, and what they left behind.                                    *)

\* What a flow did before the message at hand stands, and the flow is about a name
\* of its account.
PendingOnTheirWay ==
    \A f \in Pending :
        /\ f.name \in owned[f.user]
        /\ f.at >= 2 => NodeOwner(NodeFor(f.user)) = f.user
        /\ f.at >= 3 => NodeResolver(NodeFor(f.user)) = PublicResolverId

\* What a message does, however late.  None of them is refused.
LEMMA Included ==
    ASSUME MyNamesTypeOK, ChainStands, PendingOnTheirWay, NEW f \in Pending, InBlock(f)
    PROVE  /\ ChainStands' /\ RightsKept
           /\ f.at = 1 => NodeOwner(NodeFor(f.user))' = f.user
           /\ f.at = 2 => NodeResolver(NodeFor(f.user))' = PublicResolverId
           /\ f.at # 3 => NamesKept
           /\ f.at = 3 => names' = [names EXCEPT ![NodeFor(f.user)] = f.name]
<1>0. /\ f.user \in Users /\ f.user \in Claimants /\ f.user # ReverseRegistrarId
      /\ f.at \in 1..3
  BY PendingTyped
<1>1. CASE f.at = 1
  <2>1. Accepted(f, "claim")
    BY DEF Accepted, OnlyOwner, ChainStands
  <2>2. Claim(f.user)
    BY <1>1, <2>1, PlanOfThree DEF InBlock, Perform
  <2>3. NodeOwner(NodeFor(f.user))' = f.user
    BY <1>0, <2>2, ClaimEffect DEF ChainStands
  <2> QED BY <1>0, <1>1, <2>2, <2>3, ClaimKeeps
<1>2. CASE f.at = 2
  <2>1. Accepted(f, "set_resolver")
    BY <1>2 DEF Accepted, OnlyOwner, PendingOnTheirWay
  <2>2. /\ SetResolver(f.user, NodeFor(f.user), PublicResolverId)
        /\ UNCHANGED resolverVars
    BY <1>2, <2>1, PlanOfThree DEF InBlock, Perform
  <2> QED BY <1>0, <1>2, <2>2, SetResolverKeeps
<1>3. CASE f.at = 3
  <2>1. Accepted(f, "set_name")
    BY <1>3 DEF Accepted, OnlyOwner, PendingOnTheirWay
  <2>2. SetName(f.user, NodeFor(f.user), f.name)
    BY <1>3, <2>1, PlanOfThree DEF InBlock, Perform
  <2> QED BY <1>3, <2>2, RecordsKeep DEF SetName
<1> QED BY <1>0, <1>1, <1>2, <1>3

OwnedKept == \A a \in Users : owned[a] \subseteq owned'[a]

\* A message that is where it was finds what its flow did.
LEMMA PendingGoesOn ==
    ASSUME MyNamesTypeOK, PendingOnTheirWay, RightsKept, OwnedKept, NEW g \in Pending,
           NEW f, f.user = g.user, f.name = g.name, f.at = g.at
    PROVE  /\ f.name \in owned'[f.user]
           /\ f.at >= 2 => NodeOwner(NodeFor(f.user))' = f.user
           /\ f.at >= 3 => NodeResolver(NodeFor(f.user))' = PublicResolverId
<1>1. g.user \in Users /\ g.at \in 1..3
  BY PendingTyped
<1> QED BY <1>1 DEF PendingOnTheirWay, RightsKept, OwnedKept

LEMMA AllGoOn ==
    ASSUME MyNamesTypeOK, PendingOnTheirWay, RightsKept, OwnedKept,
           \A f \in Pending' :
               \E g \in Pending : f.user = g.user /\ f.name = g.name /\ f.at = g.at
    PROVE  PendingOnTheirWay'
  BY PendingGoesOn DEF PendingOnTheirWay

\* What an account is called is what its last set_name said, and was earned.
LastStands ==
    \A a \in Users :
        /\ names[NodeFor(a)] = last[a]
        /\ last[a] # None => /\ last[a] \in owned[a]
                             /\ NodeOwner(NodeFor(a)) = a
                             /\ NodeResolver(NodeFor(a)) = PublicResolverId

LEMMA LastStays ==
    ASSUME LastStands, RightsKept, OwnedKept, NamesKept, UNCHANGED last
    PROVE  LastStands'
  BY DEF LastStands, RightsKept, OwnedKept, NamesKept

\* Some account of the browser remembers the name, and has had a set_name.
Earned(name) == \E b \in Users : name \in owned[b] /\ last[b] # None

ShownEarned ==
    /\ primary # None => Earned(primary)
    /\ \A r \in reads : r.value \notin {None, "unread", "hung"} => Earned(r.value)

\* A set_name in a block is not forgotten.
LastKept == \A a \in Users : last[a] # None => last'[a] # None

LEMMA EarnedKept ==
    ASSUME OwnedKept, LastKept, NEW name, Earned(name)
    PROVE  Earned(name)'
  BY DEF OwnedKept, LastKept, Earned

\* What reverse answers for an account was earned by it.
LEMMA ReverseEarned ==
    ASSUME LastStands, NEW a \in Users, Reverse(a) # None
    PROVE  Earned(Reverse(a))
  BY DEF LastStands, Reverse, Earned

MyNamesInv == MyNamesTypeOK /\ OneRead /\ ChainStands /\ PendingOnTheirWay /\ LastStands /\ ShownEarned

\* A step that sends no message: only what it shows and remembers is to be seen.
LEMMA QuietStep ==
    ASSUME MyNamesInv, UNCHANGED <<chain, last>>, OwnedKept,
           \A f \in Pending' :
               \/ \E g \in Pending : f.user = g.user /\ f.name = g.name /\ f.at = g.at
               \/ f.at = 1 /\ f.name \in owned'[f.user],
           primary' \in {None, primary} \cup {r.value : r \in {q \in reads : q.value \notin {"unread", "hung"}}},
           \A r \in reads' :
               \/ r \in reads \/ r.value \in {None, "unread", "hung"}
               \/ \E a \in Users : r.value = Reverse(a)
    PROVE  ChainStands' /\ PendingOnTheirWay' /\ LastStands' /\ ShownEarned'
<1>1. ChainStands' /\ RightsKept /\ NamesKept
  BY RecordsKeep DEF MyNamesInv, chain, resolverVars, NamesKept
<1>2. PendingOnTheirWay'
  <2>1. ASSUME NEW f, f.at = 1, f.name \in owned'[f.user]
        PROVE  /\ f.name \in owned'[f.user]
               /\ f.at >= 2 => NodeOwner(NodeFor(f.user))' = f.user
               /\ f.at >= 3 => NodeResolver(NodeFor(f.user))' = PublicResolverId
    BY <2>1
  <2> QED BY <1>1, <2>1, PendingGoesOn DEF PendingOnTheirWay, MyNamesInv
<1>3. LastStands'
  BY <1>1, LastStays DEF MyNamesInv
<1>4. LastKept
  BY DEF LastKept
<1>5. primary' # None => Earned(primary)'
  BY <1>4, EarnedKept DEF MyNamesInv, ShownEarned
<1>6. ASSUME NEW r \in reads', r.value \notin {None, "unread", "hung"} PROVE Earned(r.value)'
  BY <1>4, <1>6, EarnedKept, ReverseEarned DEF MyNamesInv, ShownEarned
<1> QED BY <1>1, <1>2, <1>3, <1>5, <1>6 DEF ShownEarned

\* What set_name does to what is called what, in whichever flow.
LEMMA NameWritten ==
    ASSUME MyNamesInv, NEW f \in Pending, InBlock(f), f.at = 3, UNCHANGED owned
    PROVE  /\ ChainStands' /\ RightsKept /\ OwnedKept
           /\ LastStands' /\ LastKept /\ Earned(f.name)'
<1>0. /\ f.user \in Users /\ f.user \in Claimants /\ f.name \in NameValues
      /\ f.name \in owned[f.user] /\ f.name # None /\ Len(Plan) = 3
  BY PendingTyped, PlanOfThree, ResolverAssumption DEF MyNamesInv, PendingOnTheirWay
<1>1. /\ ChainStands' /\ RightsKept /\ OwnedKept
      /\ names' = [names EXCEPT ![NodeFor(f.user)] = f.name]
  BY Included DEF MyNamesInv, OwnedKept
<1>2. NodeOwner(NodeFor(f.user)) = f.user /\ NodeResolver(NodeFor(f.user)) = PublicResolverId
  BY DEF MyNamesInv, PendingOnTheirWay
<1>3. last'[f.user] = f.name /\ \A a \in Users \ {f.user} : last'[a] = last[a]
  BY <1>0 DEF InBlock, MyNamesInv, MyNamesTypeOK
<1>4. /\ names'[NodeFor(f.user)] = f.name
      /\ \A a \in Users \ {f.user} : names'[NodeFor(a)] = names[NodeFor(a)]
  <2>1. NodeFor(f.user) \in Nodes /\ \A a \in Users \ {f.user} : NodeFor(a) # NodeFor(f.user)
    BY <1>0, ReverseNodes, MyNamesAssumption
  <2>2. names \in [Nodes -> NameValues \cup {None}]
    BY DEF MyNamesInv, MyNamesTypeOK
  <2>3. \A a \in Users : NodeFor(a) \in Nodes
    BY MyNamesAssumption
  <2> QED BY <1>1, <2>1, <2>2, <2>3
<1>5. LastStands'
  BY <1>0, <1>1, <1>2, <1>3, <1>4 DEF MyNamesInv, LastStands, RightsKept
<1>6. LastKept /\ Earned(f.name)'
  BY <1>0, <1>3 DEF LastKept, Earned
<1> QED BY <1>1, <1>5, <1>6

\* A message of a flow that is told of it.
LEMMA IncludeStep ==
    ASSUME MyNamesInv, NEW f \in flows, Include(f)
    PROVE  ChainStands' /\ PendingOnTheirWay' /\ LastStands' /\ ShownEarned'
<1>0. /\ f \in Pending /\ InBlock(f) /\ f.user \in Users /\ f.at \in 1..3
      /\ f.name \in owned[f.user] /\ Len(Plan) = 3
  BY FlowTyped, PendingTyped, PlanOfThree DEF MyNamesInv, PendingOnTheirWay, Include
<1>1. /\ ChainStands' /\ RightsKept
      /\ f.at = 1 => NodeOwner(NodeFor(f.user))' = f.user
      /\ f.at = 2 => NodeResolver(NodeFor(f.user))' = PublicResolverId
      /\ f.at # 3 => NamesKept
  BY <1>0, Included DEF MyNamesInv
<1>2. owned' = owned /\ OwnedKept /\ reads' = reads /\ strays' = strays
  BY DEF Include, OwnedKept
<1>3. CASE f.at # 3
  <2> DEFINE next == [f EXCEPT !.at = @ + 1]
  <2>1. flows' = (flows \ {f}) \cup {next} /\ last' = last /\ primary' = primary
    BY <1>0, <1>3 DEF Include, InBlock
  <2>2. next.user = f.user /\ next.name = f.name /\ next.at = f.at + 1
    BY FlowTyped DEF MyNamesInv, FlowType
  <2> HIDE DEF next
  <2>3. /\ next.name \in owned'[next.user]
        /\ next.at >= 2 => NodeOwner(NodeFor(next.user))' = next.user
        /\ next.at >= 3 => NodeResolver(NodeFor(next.user))' = PublicResolverId
    <3>1. f.at = 2 => NodeOwner(NodeFor(f.user))' = f.user
      BY <1>0, <1>1 DEF MyNamesInv, PendingOnTheirWay, RightsKept
    <3> QED BY <1>0, <1>1, <1>2, <1>3, <2>2, <3>1
  <2>4. PendingOnTheirWay'
    <3>1. \A g \in Pending' : g = next \/ g \in Pending
      BY <1>2, <2>1 DEF Pending
    <3> QED BY <1>1, <1>2, <2>3, <3>1, PendingGoesOn DEF PendingOnTheirWay, MyNamesInv
  <2>5. LastStands'
    BY <1>1, <1>2, <1>3, <2>1, LastStays DEF MyNamesInv
  <2>6. ShownEarned'
    BY <1>2, <2>1 DEF MyNamesInv, ShownEarned, Earned
  <2> QED BY <1>1, <2>4, <2>5, <2>6
<1>4. CASE f.at = 3
  <2>1. flows' = flows \ {f} /\ primary' = IF f.mounted THEN f.name ELSE primary
    BY <1>0, <1>4 DEF Include
  <2>2. LastStands' /\ LastKept /\ Earned(f.name)'
    BY <1>0, <1>2, <1>4, NameWritten
  <2>3. \A g \in Pending' : g \in Pending
    BY <1>2, <2>1 DEF Pending
  <2>4. PendingOnTheirWay'
    BY <1>1, <1>2, <2>3, AllGoOn DEF MyNamesInv
  <2>5. ShownEarned'
    BY <1>2, <2>1, <2>2, EarnedKept DEF MyNamesInv, ShownEarned
  <2> QED BY <1>1, <2>2, <2>4, <2>5
<1> QED BY <1>3, <1>4

\* A message that comes late, to the pages as to everybody.
LEMMA IncludeLateStep ==
    ASSUME MyNamesInv, NEW x \in strays, IncludeLate(x)
    PROVE  ChainStands' /\ PendingOnTheirWay' /\ LastStands' /\ ShownEarned'
<1>0. x \in Pending /\ InBlock(x) /\ x.at \in 1..3 /\ Len(Plan) = 3
  BY PendingTyped, PlanOfThree DEF MyNamesInv, IncludeLate, Pending
<1>1. /\ ChainStands' /\ RightsKept /\ OwnedKept
      /\ x.at # 3 => NamesKept
      /\ UNCHANGED <<owned, reads, primary>>
  BY <1>0, Included DEF MyNamesInv, IncludeLate, OwnedKept, shown
<1>2. \A g \in Pending' : g \in Pending
  BY DEF IncludeLate, Pending
<1>3. PendingOnTheirWay'
  BY <1>1, <1>2, AllGoOn DEF MyNamesInv
<1>4. LastStands' /\ LastKept
  <2>1. CASE x.at # 3
    <3>1. last' = last
      BY <1>0, <2>1 DEF InBlock
    <3> QED BY <1>1, <2>1, <3>1, LastStays DEF MyNamesInv, LastKept
  <2>2. CASE x.at = 3
    BY <1>0, <1>1, <2>2, NameWritten
  <2> QED BY <2>1, <2>2
<1>5. ShownEarned'
  BY <1>1, <1>4, EarnedKept DEF MyNamesInv, ShownEarned
<1> QED BY <1>1, <1>3, <1>4, <1>5

\* Flows that are unmounted, given up or hang stay where they were.
LEMMA PendingUnmounted ==
    ASSUME MyNamesTypeOK, Unmount, UNCHANGED strays
    PROVE  \A f \in Pending' :
               \E g \in Pending : f.user = g.user /\ f.name = g.name /\ f.at = g.at
<1>1. ASSUME NEW f \in flows'
      PROVE  \E g \in flows : f.user = g.user /\ f.name = g.name /\ f.at = g.at
  <2>1. PICK g \in flows : f = [g EXCEPT !.mounted = FALSE]
    BY <1>1 DEF Unmount
  <2> QED BY <2>1, FlowTyped DEF FlowType
<1> QED BY <1>1 DEF Pending

LEMMA PendingGivenUp ==
    ASSUME MyNamesTypeOK, NEW f \in flows, Abandon(f),
           flows' \subseteq flows \cup {[f EXCEPT !.hung = TRUE]}
    PROVE  \A g \in Pending' :
               \E h \in Pending : g.user = h.user /\ g.name = h.name /\ g.at = h.at
<1> DEFINE hung == [f EXCEPT !.hung = TRUE]
           stray == [user |-> f.user, name |-> f.name, at |-> f.at]
<1>1. hung.user = f.user /\ hung.name = f.name /\ hung.at = f.at
  BY FlowTyped DEF FlowType
<1>2. stray.user = f.user /\ stray.name = f.name /\ stray.at = f.at
  OBVIOUS
<1>3. flows' \subseteq flows \cup {hung} /\ strays' \subseteq strays \cup {stray}
  BY DEF Abandon
<1> HIDE DEF hung, stray
<1> QED BY <1>1, <1>2, <1>3 DEF Pending

LEMMA MyNamesInvStep ==
    ASSUME MyNamesInv, MyNamesNext
    PROVE  ChainStands' /\ PendingOnTheirWay' /\ LastStands' /\ ShownEarned'
<1>1. ASSUME NEW kind, NEW name, Mount(kind, name)
      PROVE  ChainStands' /\ PendingOnTheirWay' /\ LastStands' /\ ShownEarned'
  <2>1. \A f \in Pending' :
            \E g \in Pending : f.user = g.user /\ f.name = g.name /\ f.at = g.at
    BY <1>1, PendingUnmounted DEF Mount, MyNamesInv
  <2>2. \A r \in reads' : r.value = "unread"
    BY <1>1 DEF Mount, NewReads
  <2> QED BY <1>1, <2>1, <2>2, QuietStep DEF Mount, Unmount, storage, OwnedKept
<1>2. ASSUME NEW a \in Users \cup {None}, Become(a)
      PROVE  ChainStands' /\ PendingOnTheirWay' /\ LastStands' /\ ShownEarned'
  <2>1. \A r \in reads' : r.value = "unread"
    BY <1>2 DEF Become, NewReads, AfterCleanup
  <2>2. UNCHANGED <<chain, last, owned, strays>>
    BY <1>2 DEF Become, storage
  <2>3. CASE Unmount
    BY <2>1, <2>2, <2>3, PendingUnmounted, QuietStep DEF Unmount, OwnedKept, MyNamesInv
  <2>4. CASE UNCHANGED <<primary, busy, flows>>
    BY <2>1, <2>2, <2>4, QuietStep DEF OwnedKept, Pending
  <2> QED BY <1>2, <2>3, <2>4 DEF Become
<1>3. ASSUME NEW a \in Users, NEW name \in Mintable[a], AddOwnedName(a, name)
      PROVE  ChainStands' /\ PendingOnTheirWay' /\ LastStands' /\ ShownEarned'
  <2>1. OwnedKept
    BY <1>3 DEF AddOwnedName, OwnedKept, MyNamesInv, MyNamesTypeOK
  <2>2. \A r \in reads' : r \in reads \/ r.value = "unread"
    BY <1>3 DEF AddOwnedName, NewReads, AfterCleanup
  <2> QED BY <1>3, <2>1, <2>2, QuietStep DEF AddOwnedName, shown, Pending
<1>4. ASSUME NEW r \in reads, Answer(r)
      PROVE  ChainStands' /\ PendingOnTheirWay' /\ LastStands' /\ ShownEarned'
  <2> DEFINE v == IF r.of = None THEN None ELSE Reverse(r.of)
             answer == [r EXCEPT !.value = v]
  <2>1. r \in ReadType
    BY DEF MyNamesInv, MyNamesTypeOK, ReadType
  <2>2. v = None \/ \E a \in Users : v = Reverse(a)
    BY <2>1 DEF ReadType
  <2>3. reads' = (reads \ {r}) \cup {answer}
    BY <1>4 DEF Answer
  <2>4. answer.value = v
    <3> HIDE DEF v
    <3> QED BY <2>1 DEF ReadType
  <2>5. \A q \in reads' :
            q \in reads \/ q.value \in {None, "unread", "hung"} \/ \E a \in Users : q.value = Reverse(a)
    <3> HIDE DEF v, answer
    <3> QED BY <2>2, <2>3, <2>4
  <2>6. UNCHANGED <<chain, last, owned, flows, strays, primary>>
    BY <1>4 DEF Answer, storage, shown
  <2> HIDE DEF v, answer
  <2> QED BY <2>5, <2>6, QuietStep DEF OwnedKept, Pending
<1>5. ASSUME NEW r \in reads, Land(r) \/ ReadFails(r)
      PROVE  ChainStands' /\ PendingOnTheirWay' /\ LastStands' /\ ShownEarned'
  BY <1>5, QuietStep DEF Land, ReadFails, storage, OwnedKept, Pending
<1>6. ASSUME NEW name \in NameValues, MakePrimary(name)
      PROVE  ChainStands' /\ PendingOnTheirWay' /\ LastStands' /\ ShownEarned'
  <2> DEFINE new == [user |-> account, name |-> name, at |-> 1, mounted |-> TRUE,
                  hung |-> FALSE]
  <2>1. name \in owned[account]
    BY <1>6 DEF MakePrimary, ListChoices, PageChoices, IsOwned, Mine
  <2>2. flows' = flows \cup {new} /\ UNCHANGED <<chain, last, owned, reads, strays, primary>>
    BY <1>6 DEF MakePrimary, storage
  <2>3. new.at = 1 /\ new.name \in owned'[new.user]
    BY <2>1, <2>2
  <2> HIDE DEF new
  <2> QED BY <2>2, <2>3, QuietStep DEF OwnedKept, Pending
<1>7. ASSUME NEW f \in flows, Fail(f) \/ Hang(f)
      PROVE  ChainStands' /\ PendingOnTheirWay' /\ LastStands' /\ ShownEarned'
  <2>1. \A g \in Pending' :
            \E h \in Pending : g.user = h.user /\ g.name = h.name /\ g.at = h.at
    BY <1>7, PendingGivenUp DEF Fail, Hang, MyNamesInv
  <2> QED BY <1>7, <2>1, QuietStep DEF Fail, Hang, storage, shown, OwnedKept
<1>8. ASSUME NEW r \in reads, ReadHangs(r)
      PROVE  ChainStands' /\ PendingOnTheirWay' /\ LastStands' /\ ShownEarned'
  <2> DEFINE hung == [r EXCEPT !.value = "hung"]
  <2>1. hung.value = "hung"
    BY DEF MyNamesInv, MyNamesTypeOK
  <2>2. reads' = (reads \ {r}) \cup {hung} /\ UNCHANGED <<chain, last, owned, flows, strays, primary>>
    BY <1>8 DEF ReadHangs, storage, shown
  <2> HIDE DEF hung
  <2> QED BY <2>1, <2>2, QuietStep DEF OwnedKept, Pending
<1>9. CASE ReverseNext /\ UNCHANGED <<storage, account, shown, reads, flows, strays, logins>>
  <2>1. UNCHANGED <<last, owned, reads, primary>> /\ OwnedKept /\ Pending' = Pending
    BY <1>9 DEF storage, shown, OwnedKept, Pending
  <2>2. ChainStands' /\ RightsKept /\ NamesKept
    BY <1>9, ReverseNextKeeps DEF MyNamesInv
  <2>3. PendingOnTheirWay'
    BY <2>1, <2>2, AllGoOn DEF MyNamesInv
  <2>4. LastStands'
    BY <2>1, <2>2, LastStays DEF MyNamesInv
  <2> QED BY <2>1, <2>2, <2>3, <2>4 DEF MyNamesInv, ShownEarned, Earned
<1> QED BY <1>1, <1>2, <1>3, <1>4, <1>5, <1>6, <1>7, <1>8, <1>9, IncludeStep, IncludeLateStep
        DEF MyNamesNext, OpenHome, OpenNames, OpenManage

\* Before anything happens, no account has a name.
LEMMA MyNamesInvInit ==
    ASSUME MyNamesInit
    PROVE  ChainStands /\ PendingOnTheirWay /\ LastStands /\ ShownEarned
<1> DEFINE held(a) == [owner |-> a, resolver |-> PublicResolverId, ttl |-> 0]
           bare == [owner |-> ReverseRegistrarId, resolver |-> None, ttl |-> 0]
<1>1. bare \in Record /\ \A a \in Accounts : held(a) \in Record
  BY RegistryAssumption, ReverseAssumption, ResolverAssumption DEF Record
<1>2. \A n \in Nodes :
          records[n] = IF n = AddrReverseNode THEN bare
                       ELSE IF Forward[n] # None THEN held(Forward[n]) ELSE None
  BY DEF MyNamesInit
<1>3. \A n \in Nodes : Forward[n] # None => Forward[n] \in Accounts
  BY MyNamesAssumption
<1>4. RegistryTypeOK
  BY <1>1, <1>3 DEF MyNamesInit, RegistryTypeOK
<1>5. NodeOwner(AddrReverseNode) = ReverseRegistrarId
  <2>1. records[AddrReverseNode] = bare
    BY <1>2, ReverseAssumption
  <2> QED BY <1>1, <2>1, NoneIsNoRecord DEF NodeOwner, NodeExists
<1>6. \A a \in Claimants : NodeOwner(NodeFor(a)) = None
  BY <1>2, ReverseNodes, MyNamesAssumption DEF NodeOwner, NodeExists
<1>7. ASSUME NEW name \in NameValues, Forward[NodeOfName[name]] # None
      PROVE  NodeResolver(NodeOfName[name]) = PublicResolverId
  <2> DEFINE n == NodeOfName[name]
  <2>1. n \in Nodes /\ n # AddrReverseNode
    BY MyNamesAssumption
  <2>2. records[n] = held(Forward[n]) /\ held(Forward[n]) # None
    BY <1>1, <1>2, <1>3, <1>7, <2>1, NoneIsNoRecord
  <2> QED BY <2>2 DEF NodeResolver, NodeExists
<1>8. ChainStands
  BY <1>4, <1>5, <1>6, <1>7 DEF ChainStands, MyNamesInit
<1>9. \A a \in Users : names[NodeFor(a)] = None /\ last[a] = None
  BY ReverseNodes, MyNamesAssumption DEF MyNamesInit
<1> QED BY <1>8, <1>9 DEF MyNamesInit, Pending, PendingOnTheirWay, LastStands, ShownEarned

LEMMA MyNamesInductive == MyNamesSpec => []MyNamesInv
<1>1. MyNamesInit => ChainStands /\ PendingOnTheirWay /\ LastStands /\ ShownEarned
  BY MyNamesInvInit
<1>2. MyNamesInv /\ [MyNamesNext]_myNamesVars
        => (ChainStands /\ PendingOnTheirWay /\ LastStands /\ ShownEarned)'
  <2>1. ASSUME MyNamesInv, UNCHANGED myNamesVars
        PROVE  ChainStands' /\ PendingOnTheirWay' /\ LastStands' /\ ShownEarned'
    <3>1. UNCHANGED <<chain, last, owned, flows, strays, reads, primary>>
      BY <2>1 DEF myNamesVars, storage, shown
    <3> QED BY <2>1, <3>1, QuietStep DEF OwnedKept, Pending
  <2> QED BY <2>1, MyNamesInvStep
<1>3. MyNamesInv <=> /\ MyNamesTypeOK /\ OneRead
                     /\ ChainStands /\ PendingOnTheirWay /\ LastStands /\ ShownEarned
  BY DEF MyNamesInv
<1> QED BY <1>1, <1>2, <1>3, MyNamesTyped, PTL DEF MyNamesSpec

\* lib/reverse.ts:42: an account is called what its last set_name that got in a
\* block said, if that name resolves to it, told or late, and whoever else acts.
THEOREM MyNamesPrimary == MyNamesSpec => []PrimaryStands
<1>1. MyNamesInv => PrimaryStands
  <2> SUFFICES ASSUME MyNamesInv, NEW a \in Users, last[a] # None,
                      Forward[NodeOfName[last[a]]] = a
               PROVE  Reverse(a) = last[a]
    BY DEF PrimaryStands
  <2>1. last[a] \in NameValues /\ NodeOfName[last[a]] \in Nodes
    BY MyNamesAssumption DEF MyNamesInv, MyNamesTypeOK
  <2>2. NodeResolver(NodeFor(a)) = PublicResolverId /\ names[NodeFor(a)] = last[a]
    BY DEF MyNamesInv, LastStands
  <2>3. a \in Accounts /\ a # None
    BY MyNamesAssumption, ReverseAssumption, RegistryAssumption
  <2>4. Resolution(NodeOfName[last[a]]).addr = a
    BY <2>1, <2>3 DEF MyNamesInv, ChainStands, Resolution
  <2> QED BY <2>2, <2>4 DEF Reverse
<1> QED BY <1>1, MyNamesInductive, PTL

\* YourNames.tsx:104, 197: a name that only this account remembers is tagged as its
\* primary name only after a set_name of the account got in a block.
THEOREM MyNamesTags == MyNamesSpec => []TagsEarned
<1>1. MyNamesInv => TagsEarned
  <2> SUFFICES ASSUME MyNamesInv, NEW name \in TeaserTags \cup ListTags \cup PageTags,
                      \A b \in Users \ {account} : name \notin owned[b]
               PROVE  last[account] # None
    BY DEF TagsEarned
  <2>1. name = primary /\ name \in owned[account] /\ account # None
    BY DEF TeaserTags, ListTags, PageTags, IsOwned, Mine
  <2>2. account \in Users /\ name # None
    BY <2>1, ResolverAssumption DEF MyNamesInv, MyNamesTypeOK
  <2>3. PICK b \in Users : name \in owned[b] /\ last[b] # None
    BY <2>1, <2>2 DEF MyNamesInv, ShownEarned, Earned
  <2> QED BY <2>3
<1> QED BY <1>1, MyNamesInductive, PTL

=============================================================================
