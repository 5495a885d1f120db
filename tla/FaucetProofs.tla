---------------------------- MODULE FaucetProofs -----------------------------
(***************************************************************************)
(* The rate limit of the faucet, for every number of requests and           *)
(* addresses, every cooldown and every timeout.                             *)
(*                                                                          *)
(* DripsSpaced is not inductive: it says nothing of the stamps.  What is    *)
(* kept is that a request that came less than a cooldown ago is either      *)
(* still remembered by the stamp of its address or Excused, and that one    *)
(* of two requests that came too close is Excused.  A request that fails    *)
(* takes the stamp away from requests that came after it; if they came      *)
(* within its cooldown, then by the second fact something failed before.    *)
(***************************************************************************)
EXTENDS Faucet, TLAPS

\* The requests that failed.
Failures == {r \in Requests : requests[r].reply = 500}

\* A request for the same address has failed: p itself or one a cooldown older.
Excused(p) ==
    \E r3 \in Requests :
        /\ requests[r3].address = requests[p].address
        /\ r3 \in Failures
        /\ r3 = p \/ requests[r3].came + Cooldown <= requests[p].came

Admitted(r) == requests[r].address # None

\* The life of a request, and the order in which they come.
RequestsOrdered ==
    /\ \A r \in Requests :
          /\ requests[r].came <= now
          /\ requests[r].at = "new" => ~Admitted(r) /\ r \notin Failures
          /\ requests[r].at \notin {"new", "answered"} => Admitted(r)
          /\ r \in Failures => requests[r].at = "answered"
          /\ transfers[r] # "none" => Admitted(r)
    /\ \A p, q \in Requests : p < q =>
          /\ requests[p].at = "new" => requests[q].at = "new"
          /\ Admitted(p) /\ Admitted(q) => requests[p].came <= requests[q].came

\* The address of a request that came lately is stamped since, or p is excused.
Remembered ==
    \A p \in Requests :
        Admitted(p) /\ now < requests[p].came + Cooldown =>
            \/ /\ stamps[requests[p].address] # None
               /\ stamps[requests[p].address] >= requests[p].came
            \/ Excused(p)

\* The earlier of two requests that came too close is excused.
CloseExcused ==
    \A p, q \in Requests :
        /\ p < q /\ Admitted(p)
        /\ requests[p].address = requests[q].address
        /\ requests[q].came < requests[p].came + Cooldown
        => Excused(p)

DripInv == FaucetTypeOK /\ RequestsOrdered /\ Remembered /\ CloseExcused

InProgress(r) == requests[r].at \notin {"new", "answered"}

\* A step of requests in progress that fails none of them and leaves the stamps.
Quiet ==
    /\ UNCHANGED stamps /\ now' \in Nat /\ now' >= now
    /\ \A r \in Requests : requests'[r] # requests[r] =>
          /\ InProgress(r)
          /\ requests'[r].at # "new" /\ r \notin Failures'
          /\ requests'[r].address = requests[r].address
          /\ requests'[r].came = requests[r].came
    /\ \A r \in Requests : transfers'[r] # transfers[r] =>
          InProgress(r) \/ transfers[r] # "none"

LEMMA QuietKeeps ==
    ASSUME DripInv, FaucetTypeOK', Quiet PROVE DripInv'
<1> USE FaucetAssumption DEF DripInv, Admitted
<1>1. \A r \in Requests : /\ requests'[r].address = requests[r].address
                           /\ requests'[r].came = requests[r].came
  BY DEF Quiet
<1>2. /\ now \in Nat /\ now' \in Nat /\ now' >= now
      /\ \A r \in Requests : requests[r].came \in Nat
  BY DEF FaucetTypeOK, Quiet
<1>3. RequestsOrdered'
  <2>1. \A r \in Requests : requests'[r] = requests[r] => (r \in Failures' <=> r \in Failures)
    BY DEF Failures
  <2>2. \A r \in Requests : requests[r].at = "new" <=> requests'[r].at = "new"
    BY DEF Quiet, InProgress
  <2>3. ASSUME NEW r \in Requests
        PROVE  /\ requests'[r].came <= now'
               /\ requests'[r].at = "new" => ~Admitted(r)' /\ r \notin Failures'
               /\ InProgress(r)' => Admitted(r)'
               /\ r \in Failures' => requests'[r].at = "answered"
               /\ transfers'[r] # "none" => Admitted(r)'
    <3>1. requests'[r].came <= now'
      BY <1>1, <1>2 DEF RequestsOrdered
    <3>2. CASE requests'[r] = requests[r]
      BY <2>1, <3>1, <3>2 DEF RequestsOrdered, InProgress, Quiet
    <3>3. CASE requests'[r] # requests[r]
      BY <1>1, <3>1, <3>3 DEF RequestsOrdered, InProgress, Quiet
    <3> QED BY <3>2, <3>3
  <2>4. ASSUME NEW p \in Requests, NEW q \in Requests, p < q
        PROVE  /\ requests'[p].at = "new" => requests'[q].at = "new"
               /\ Admitted(p)' /\ Admitted(q)' => requests'[p].came <= requests'[q].came
    BY <1>1, <2>2, <2>4 DEF RequestsOrdered
  <2> QED BY <2>3, <2>4 DEF RequestsOrdered, InProgress
<1>4. \A p \in Requests : Excused(p) => Excused(p)'
  <2> SUFFICES ASSUME NEW p \in Requests, Excused(p) PROVE Excused(p)'
    OBVIOUS
  <2>1. PICK r3 \in Requests : /\ requests[r3].address = requests[p].address
                               /\ r3 \in Failures
                               /\ r3 = p \/ requests[r3].came + Cooldown <= requests[p].came
    BY DEF Excused
  <2>2. requests'[r3] = requests[r3]
    <3>1. requests[r3].at = "answered"
      BY <2>1 DEF RequestsOrdered
    <3> QED BY <3>1 DEF Quiet, InProgress
  <2> QED BY <1>1, <2>1, <2>2 DEF Excused, Failures
<1>5. Remembered'
  <2> SUFFICES ASSUME NEW p \in Requests, Admitted(p)',
                      now' < requests[p].came + Cooldown, ~Excused(p)'
               PROVE  /\ stamps[requests[p].address] # None
                      /\ stamps[requests[p].address] >= requests[p].came
    BY <1>1 DEF Remembered, Quiet
  <2>1. now < requests[p].came + Cooldown
    BY <1>2
  <2> QED BY <1>1, <1>4, <2>1 DEF Remembered
<1>6. CloseExcused'
  BY <1>1, <1>4 DEF CloseExcused
<1> QED BY <1>3, <1>5, <1>6

RequestRecords ==
    [at : {"new", "admitted", "awaiting", "loading", "opening", "sending", "answered"},
     address : Addresses \cup {None}, came : Nat, conn : Requests \cup {None},
     deadline : Nat, reply : Replies]

\* What Reply does to the requests.
LEMMA ReplyAnswers ==
    ASSUME FaucetTypeOK, NEW r \in Requests, NEW code \in Replies, Reply(r, code)
    PROVE  /\ \A q \in Requests \ {r} : requests'[q] = requests[q]
           /\ requests'[r].at = "answered" /\ requests'[r].reply = code
           /\ requests'[r].address = requests[r].address
           /\ requests'[r].came = requests[r].came
           /\ requests'[r].conn = None
           /\ requests' \in [Requests -> RequestRecords]
<1>1. requests' = [requests EXCEPT ![r] = [@ EXCEPT !.at = "answered", !.reply = code,
                                                  !.conn = None, !.deadline = 0]]
  BY DEF FaucetTypeOK, Reply
<1>2. /\ requests \in [Requests -> RequestRecords] /\ requests[r] \in RequestRecords
  BY DEF FaucetTypeOK, RequestRecords
<1>3. requests'[r] = [requests[r] EXCEPT !.at = "answered", !.reply = code,
                                         !.conn = None, !.deadline = 0]
  BY <1>1, <1>2
<1>4. /\ requests'[r] \in RequestRecords
      /\ requests'[r].at = "answered" /\ requests'[r].reply = code
      /\ requests'[r].address = requests[r].address
      /\ requests'[r].came = requests[r].came
      /\ requests'[r].conn = None
  <2>1. /\ requests'[r].at = "answered" /\ requests'[r].reply = code
        /\ requests'[r].address = requests[r].address
        /\ requests'[r].came = requests[r].came
        /\ requests'[r].conn = None
    BY <1>2, <1>3 DEF RequestRecords
  <2>2. [requests[r] EXCEPT !.at = "answered", !.reply = code,
                            !.conn = None, !.deadline = 0] \in RequestRecords
    BY <1>2 DEF RequestRecords
  <2> QED BY <1>3, <2>1, <2>2
<1>5. /\ requests' \in [Requests -> RequestRecords]
      /\ \A q \in Requests \ {r} : requests'[q] = requests[q]
  BY <1>1, <1>2, <1>4
<1> QED BY <1>4, <1>5 DEF RequestRecords

\* A request that fails takes away the stamp of requests that it excuses, or
\* that are excused already.
LEMMA FailKeeps ==
    ASSUME DripInv, NEW r \in Requests, InProgress(r), Fail(r), UNCHANGED now,
           cached' \in Requests \cup {None},
           conns' \in [Requests -> {"unused", "opening", "up", "down"}],
           transfers' \in [Requests -> {"none", "begun", "paid", "failed"}],
           \A q \in Requests : transfers'[q] # transfers[q] => transfers[q] # "none"
    PROVE  DripInv'
<1> USE FaucetAssumption DEF DripInv, Admitted
<1> DEFINE a == requests[r].address
<1>0. 500 \in Replies
  BY DEF Replies
<1>1. a \in Addresses
  BY DEF RequestsOrdered, InProgress, FaucetTypeOK
<1>2. stamps' = [stamps EXCEPT ![a] = None] /\ stamps' \in [Addresses -> Nat \cup {None}]
  BY <1>1 DEF Fail, FaucetTypeOK
<1>3. /\ \A q \in Requests \ {r} : requests'[q] = requests[q]
      /\ requests'[r].at = "answered" /\ r \in Failures'
      /\ requests'[r].conn = None
      /\ \A q \in Requests : /\ requests'[q].address = requests[q].address
                             /\ requests'[q].came = requests[q].came
  BY <1>0, ReplyAnswers DEF Fail, Failures
<1>4. FaucetTypeOK'
  BY <1>0, <1>2, <1>3, ReplyAnswers DEF Fail, FaucetTypeOK, RequestRecords
<1>5. now \in Nat /\ \A q \in Requests : requests[q].came \in Nat
  BY DEF FaucetTypeOK
<1>6. RequestsOrdered'
  <2>1. /\ \A q \in Requests \ {r} : q \in Failures' <=> q \in Failures
        /\ \A q \in Requests : requests[q].at = "new" <=> requests'[q].at = "new"
    BY <1>3 DEF Failures, InProgress
  <2>2. ASSUME NEW q \in Requests
        PROVE  /\ requests'[q].came <= now'
               /\ requests'[q].at = "new" => ~Admitted(q)' /\ q \notin Failures'
               /\ InProgress(q)' => Admitted(q)'
               /\ q \in Failures' => requests'[q].at = "answered"
               /\ transfers'[q] # "none" => Admitted(q)'
    <3>1. requests'[q].came <= now' /\ (transfers'[q] # "none" => Admitted(q)')
      BY <1>3 DEF RequestsOrdered
    <3>2. CASE q = r
      BY <1>3, <3>1, <3>2 DEF InProgress
    <3>3. CASE q # r
      BY <1>3, <2>1, <3>1, <3>3 DEF RequestsOrdered, InProgress
    <3> QED BY <3>2, <3>3
  <2>3. ASSUME NEW p \in Requests, NEW q \in Requests, p < q
        PROVE  /\ requests'[p].at = "new" => requests'[q].at = "new"
               /\ Admitted(p)' /\ Admitted(q)' => requests'[p].came <= requests'[q].came
    BY <1>3, <2>1, <2>3 DEF RequestsOrdered
  <2> QED BY <2>2, <2>3 DEF RequestsOrdered, InProgress
<1>7. r \notin Failures
  BY DEF RequestsOrdered, InProgress
<1>8. \A p \in Requests : Excused(p) => Excused(p)'
  BY <1>3, <1>7 DEF Excused, Failures
<1>9. Remembered'
  <2> SUFFICES ASSUME NEW p \in Requests, Admitted(p), now < requests[p].came + Cooldown,
                      ~Excused(p)'
               PROVE  /\ stamps'[requests[p].address] # None
                      /\ stamps'[requests[p].address] >= requests[p].came
    BY <1>3 DEF Remembered
  <2>1. /\ stamps[requests[p].address] # None
        /\ stamps[requests[p].address] >= requests[p].came
    BY <1>8 DEF Remembered
  <2>2. CASE requests[p].address # a
    <3>1. stamps'[requests[p].address] = stamps[requests[p].address]
      BY <1>2, <2>2 DEF FaucetTypeOK
    <3> QED BY <2>1, <3>1
  <2>3. CASE requests[p].address = a
    <3>1. r # p /\ ~(requests[r].came + Cooldown <= requests[p].came)
      BY <1>3, <2>3 DEF Excused
    <3>2. CASE p < r
      <4>1. requests[r].came <= now
        BY DEF RequestsOrdered
      <4>2. requests[r].came < requests[p].came + Cooldown
        BY <1>5, <4>1
      <4>3. Excused(p)
        BY <2>3, <3>2, <4>2 DEF CloseExcused
      <4> QED BY <1>8, <4>3
    <3>3. CASE r < p
      <4>1. requests[p].came < requests[r].came + Cooldown
        BY <1>5, <3>1
      <4>2. Excused(r)
        BY <2>3, <3>3, <4>1, <1>1 DEF CloseExcused
      <4>3. PICK r3 \in Requests : /\ requests[r3].address = a
                                   /\ r3 \in Failures
                                   /\ requests[r3].came + Cooldown <= requests[r].came
        BY <4>2, <1>7 DEF Excused
      <4>4. requests[r].came <= requests[p].came
        BY <3>3, <2>3, <1>1 DEF RequestsOrdered
      <4>5. requests[r3].came + Cooldown <= requests[p].came
        BY <1>5, <4>3, <4>4
      <4>6. Excused(p)
        BY <2>3, <4>3, <4>5 DEF Excused
      <4> QED BY <1>8, <4>6
    <3> QED BY <3>1, <3>2, <3>3 DEF Requests
  <2> QED BY <2>2, <2>3
<1>10. CloseExcused'
  BY <1>3, <1>8 DEF CloseExcused
<1> QED BY <1>4, <1>6, <1>9, <1>10

\* A request that is turned away, and one that is admitted: whoever came less
\* than a cooldown ago is excused, since the stamp let the newcomer pass.
LEMMA PostKeeps ==
    ASSUME DripInv, NEW r \in Requests, NEW a \in Addresses, Post(r, a)
    PROVE  DripInv'
<1> USE FaucetAssumption DEF DripInv
<1>1. /\ requests[r].at = "new" /\ r \notin Failures /\ ~Admitted(r)
      /\ \A q \in Requests : q < r => requests[q].at # "new"
      /\ \A q \in Requests : r < q => requests[q].at = "new" /\ ~Admitted(q)
  <2>1. requests[r].at = "new" /\ \A q \in 1 .. r - 1 : requests[q].at # "new"
    BY DEF Post
  <2>2. \A q \in Requests : q < r => q \in 1 .. r - 1
    BY DEF Requests
  <2> QED BY <2>1, <2>2 DEF RequestsOrdered
<1>2. now \in Nat /\ \A q \in Requests : requests[q].came \in Nat
  BY DEF FaucetTypeOK
<1>3. CASE Limited(a) /\ Reply(r, 429) /\ UNCHANGED stamps
  <2>1. 429 \in Replies
    BY DEF Replies
  <2>2. /\ \A q \in Requests \ {r} : requests'[q] = requests[q]
        /\ requests'[r].at = "answered" /\ requests'[r].reply = 429
        /\ requests'[r].address = requests[r].address
        /\ requests'[r].came = requests[r].came
        /\ requests'[r].conn = None
        /\ requests' \in [Requests -> RequestRecords]
    BY <1>3, <2>1, ReplyAnswers
  <2>3. UNCHANGED <<stamps, cached, conns, transfers, now>>
    BY <1>3 DEF Post
  <2>4. FaucetTypeOK'
    BY <2>2, <2>3 DEF FaucetTypeOK, RequestRecords
  <2>5. Failures' = Failures
    BY <1>1, <2>2 DEF Failures
  <2>6. /\ \A q \in Requests : Admitted(q)' <=> Admitted(q)
        /\ \A q \in Requests : /\ requests'[q].address = requests[q].address
                               /\ requests'[q].came = requests[q].came
    BY <2>2 DEF Admitted
  <2>7. RequestsOrdered'
    <3>1. \A q \in Requests \ {r} : /\ requests'[q].at = requests[q].at
      BY <2>2
    <3> QED BY <1>1, <2>2, <2>3, <2>5, <2>6, <3>1 DEF RequestsOrdered
  <2>8. \A p \in Requests : Excused(p) => Excused(p)'
    BY <2>5, <2>6 DEF Excused
  <2>9. Remembered' /\ CloseExcused'
    BY <2>3, <2>6, <2>8 DEF Remembered, CloseExcused
  <2> QED BY <2>4, <2>7, <2>9
<1>4. CASE /\ ~Limited(a)
           /\ requests' = [requests EXCEPT ![r].at = "admitted", ![r].address = a,
                                           ![r].came = now]
           /\ Stamp(r, a)
  <2>1. /\ requests' \in [Requests -> RequestRecords]
        /\ requests'[r].at = "admitted" /\ requests'[r].address = a
        /\ requests'[r].came = now /\ requests'[r].reply = requests[r].reply
        /\ requests'[r].conn = requests[r].conn
        /\ \A q \in Requests \ {r} : requests'[q] = requests[q]
    <3>1. /\ requests \in [Requests -> RequestRecords] /\ requests[r] \in RequestRecords
      BY DEF FaucetTypeOK, RequestRecords
    <3>2. [requests[r] EXCEPT !.at = "admitted", !.address = a, !.came = now] \in RequestRecords
      BY <1>2, <3>1 DEF RequestRecords
    <3>3. /\ requests'[r] = [requests[r] EXCEPT !.at = "admitted", !.address = a, !.came = now]
          /\ \A q \in Requests \ {r} : requests'[q] = requests[q]
      BY <1>4, <3>1
    <3>4. requests' \in [Requests -> RequestRecords]
      BY <1>4, <3>1, <3>2, <3>3
    <3>5. /\ requests'[r].at = "admitted" /\ requests'[r].address = a
          /\ requests'[r].came = now /\ requests'[r].reply = requests[r].reply
          /\ requests'[r].conn = requests[r].conn
      BY <3>1, <3>3 DEF RequestRecords
    <3> QED BY <3>3, <3>4, <3>5
  <2>2. /\ stamps' = [stamps EXCEPT ![a] = now]
        /\ UNCHANGED <<cached, conns, transfers, now>>
    BY <1>4 DEF Post, Stamp
  <2>3. FaucetTypeOK'
    BY <2>1, <2>2 DEF FaucetTypeOK, RequestRecords
  <2>4. Failures' = Failures
    BY <2>1 DEF Failures
  <2>5. a # None /\ Admitted(r)' /\ \A q \in Requests \ {r} : Admitted(q)' <=> Admitted(q)
    BY <2>1 DEF Admitted
  <2>6. RequestsOrdered'
    <3>1. ASSUME NEW q \in Requests
          PROVE  /\ requests'[q].came <= now'
                 /\ requests'[q].at = "new" => ~Admitted(q)' /\ q \notin Failures'
                 /\ requests'[q].at \notin {"new", "answered"} => Admitted(q)'
                 /\ q \in Failures' => requests'[q].at = "answered"
                 /\ transfers'[q] # "none" => Admitted(q)'
      <4>1. CASE q = r
        BY <1>1, <1>2, <2>1, <2>2, <2>4, <2>5, <4>1
      <4>2. CASE q # r
        BY <2>1, <2>2, <2>4, <2>5, <4>2 DEF RequestsOrdered
      <4> QED BY <4>1, <4>2
    <3>2. ASSUME NEW p \in Requests, NEW q \in Requests, p < q
          PROVE  /\ requests'[p].at = "new" => requests'[q].at = "new"
                 /\ Admitted(p)' /\ Admitted(q)' => requests'[p].came <= requests'[q].came
      <4>1. CASE p = r
        BY <1>1, <2>1, <2>5, <3>2, <4>1 DEF Requests
      <4>2. CASE q = r
        <5>1. p # r /\ requests[p].came <= now /\ requests[p].at # "new"
          BY <1>1, <3>2, <4>2 DEF RequestsOrdered, Requests
        <5> QED BY <2>1, <4>2, <5>1
      <4>3. CASE p # r /\ q # r
        BY <2>1, <2>5, <3>2, <4>3 DEF RequestsOrdered
      <4> QED BY <4>1, <4>2, <4>3
    <3> QED BY <3>1, <3>2 DEF RequestsOrdered
  <2>7. \A p \in Requests \ {r} : Excused(p) => Excused(p)'
    BY <1>1, <2>1, <2>4 DEF Excused
  <2>8. Remembered'
    <3> SUFFICES ASSUME NEW p \in Requests, Admitted(p)',
                        now < requests'[p].came + Cooldown, ~Excused(p)'
                 PROVE  /\ stamps'[requests'[p].address] # None
                        /\ stamps'[requests'[p].address] >= requests'[p].came
      BY <2>2 DEF Remembered
    <3>1. CASE requests'[p].address = a
      <4>1. stamps'[a] = now
        BY <2>2 DEF FaucetTypeOK
      <4>2. requests'[p].came <= now
        BY <2>2, <2>6 DEF RequestsOrdered
      <4> QED BY <1>2, <3>1, <4>1, <4>2
    <3>2. CASE requests'[p].address # a
      <4>1. p # r /\ requests'[p] = requests[p] /\ Admitted(p)
        BY <2>1, <2>5, <3>2
      <4>2. stamps'[requests[p].address] = stamps[requests[p].address]
        BY <2>2, <3>2, <4>1 DEF FaucetTypeOK, Admitted
      <4> QED BY <2>7, <4>1, <4>2 DEF Remembered
    <3> QED BY <3>1, <3>2
  <2>9. CloseExcused'
    <3> SUFFICES ASSUME NEW p \in Requests, NEW q \in Requests, p < q, Admitted(p)',
                        requests'[p].address = requests'[q].address,
                        requests'[q].came < requests'[p].came + Cooldown
                 PROVE  Excused(p)'
      BY DEF CloseExcused
    <3>1. p # r
      BY <1>1, <2>1, <2>5 DEF Requests, Admitted
    <3>2. requests'[p] = requests[p] /\ Admitted(p)
      BY <2>1, <2>5, <3>1
    <3>3. CASE q = r
      <4>1. requests[p].address = a /\ now < requests[p].came + Cooldown
        BY <2>1, <3>2, <3>3
      <4>2. stamps[a] # None => stamps[a] \in Nat /\ ~(now - stamps[a] < Cooldown)
        BY <1>4 DEF Limited, FaucetTypeOK
      <4>3. ~(stamps[a] # None /\ stamps[a] >= requests[p].came)
        BY <1>2, <4>1, <4>2
      <4>4. Excused(p)
        BY <3>2, <4>1, <4>3 DEF Remembered
      <4> QED BY <2>7, <3>1, <4>4
    <3>4. CASE q # r
      <4>1. requests'[q] = requests[q]
        BY <2>1, <3>4
      <4>2. Excused(p)
        BY <3>2, <4>1 DEF CloseExcused
      <4> QED BY <2>7, <3>1, <4>2
    <3> QED BY <3>3, <3>4
  <2> QED BY <2>3, <2>6, <2>8, <2>9
<1> QED BY <1>3, <1>4 DEF Post

\* A request in progress that goes on, without an answer.
LEMMA AdvanceKeeps ==
    ASSUME DripInv, NEW r \in Requests, InProgress(r), NEW next \in RequestRecords,
           requests' = [requests EXCEPT ![r] = next],
           next.at \in {"awaiting", "loading", "opening", "sending"},
           next.at # "loading" => next.conn # None,
           next.address = requests[r].address, next.came = requests[r].came,
           next.reply = requests[r].reply,
           transfers' \in [Requests -> {"none", "begun", "paid", "failed"}],
           \A q \in Requests \ {r} : transfers'[q] = transfers[q],
           conns' \in [Requests -> {"unused", "opening", "up", "down"}],
           cached' \in Requests \cup {None}, UNCHANGED <<stamps, now>>
    PROVE  DripInv'
<1>1. /\ requests' \in [Requests -> RequestRecords] /\ requests'[r] = next
      /\ \A q \in Requests \ {r} : requests'[q] = requests[q]
  BY DEF DripInv, FaucetTypeOK, RequestRecords
<1>2. FaucetTypeOK'
  BY <1>1 DEF DripInv, FaucetTypeOK, RequestRecords
<1>3. r \notin Failures'
  BY <1>1 DEF DripInv, RequestsOrdered, InProgress, Failures
<1>4. Quiet
  BY <1>1, <1>3 DEF Quiet, DripInv, FaucetTypeOK
<1> QED BY <1>2, <1>4, QuietKeeps

\* signAndSend begins.
LEMMA UseKeeps ==
    ASSUME DripInv, NEW r \in Requests, InProgress(r), requests[r].conn # None, Use(r),
           UNCHANGED <<stamps, cached, conns, now>>
    PROVE  DripInv'
<1> DEFINE next == [requests[r] EXCEPT !.at = "sending", !.deadline = now + Timeout]
<1>1. /\ requests \in [Requests -> RequestRecords] /\ requests[r] \in RequestRecords
  BY DEF DripInv, FaucetTypeOK, RequestRecords
<1>2. now + Timeout \in Nat
  BY FaucetAssumption DEF DripInv, FaucetTypeOK
<1>3. next \in RequestRecords
  BY <1>1, <1>2 DEF RequestRecords
<1>4. requests' = [requests EXCEPT ![r] = next]
  BY <1>1 DEF Use
<1>5. /\ next.at = "sending" /\ next.conn = requests[r].conn
      /\ next.address = requests[r].address /\ next.came = requests[r].came
      /\ next.reply = requests[r].reply
  BY <1>1 DEF RequestRecords
<1>6. /\ transfers' \in [Requests -> {"none", "begun", "paid", "failed"}]
      /\ \A q \in Requests \ {r} : transfers'[q] = transfers[q]
      /\ cached' \in Requests \cup {None}
      /\ conns' \in [Requests -> {"unused", "opening", "up", "down"}]
  BY DEF Use, DripInv, FaucetTypeOK
<1> HIDE DEF next
<1> QED BY <1>3, <1>4, <1>5, <1>6, AdvanceKeeps

\* An answer of 200.
LEMMA PaidIsQuiet ==
    ASSUME DripInv, NEW r \in Requests, InProgress(r), Reply(r, 200),
           UNCHANGED <<stamps, cached, conns, transfers, now>>
    PROVE  DripInv'
<1>1. 200 \in Replies
  BY DEF Replies
<1>2. /\ \A q \in Requests \ {r} : requests'[q] = requests[q]
      /\ requests'[r].at = "answered" /\ requests'[r].reply = 200
      /\ requests'[r].address = requests[r].address
      /\ requests'[r].came = requests[r].came
      /\ requests'[r].conn = None
      /\ requests' \in [Requests -> RequestRecords]
  BY <1>1, ReplyAnswers DEF DripInv
<1>3. FaucetTypeOK'
  BY <1>2 DEF DripInv, FaucetTypeOK, RequestRecords
<1>4. r \notin Failures'
  BY <1>2 DEF Failures
<1>5. Quiet
  BY <1>2, <1>4 DEF Quiet, DripInv, FaucetTypeOK
<1> QED BY <1>3, <1>5, QuietKeeps

\* A step that is none of a request's.
LEMMA OutsideIsQuiet ==
    ASSUME DripInv, UNCHANGED <<stamps, requests>>, now' \in Nat, now' >= now,
           cached' \in Requests \cup {None},
           conns' \in [Requests -> {"unused", "opening", "up", "down"}],
           transfers' \in [Requests -> {"none", "begun", "paid", "failed"}],
           \A r \in Requests : transfers'[r] # transfers[r] => transfers[r] # "none"
    PROVE  DripInv'
<1>1. FaucetTypeOK'
  BY DEF DripInv, FaucetTypeOK
<1>2. Quiet
  BY DEF Quiet
<1> QED BY <1>1, <1>2, QuietKeeps

\* The await of getApi, and what comes of it.
LEMMA ProceedKeeps ==
    ASSUME DripInv, NEW r \in Requests, Proceed(r) PROVE DripInv'
<1> USE DEF DripInv, InProgress
<1>1. /\ requests \in [Requests -> RequestRecords] /\ requests[r] \in RequestRecords
  BY DEF FaucetTypeOK, RequestRecords
<1>2. CASE GetApi(r)
  <2> DEFINE next == [requests[r] EXCEPT !.at = IF cached = None THEN "loading" ELSE "awaiting",
                                         !.conn = cached]
  <2>1. /\ next \in RequestRecords
        /\ next.at = (IF cached = None THEN "loading" ELSE "awaiting") /\ next.conn = cached
        /\ next.address = requests[r].address /\ next.came = requests[r].came
        /\ next.reply = requests[r].reply
    BY <1>1 DEF FaucetTypeOK, RequestRecords
  <2>2. requests' = [requests EXCEPT ![r] = next]
    BY <1>1, <1>2 DEF GetApi
  <2>3. /\ UNCHANGED <<stamps, cached, conns, transfers, now>>
        /\ requests[r].at = "admitted" /\ FaucetTypeOK
    BY <1>2 DEF GetApi
  <2>4. /\ next.at \in {"awaiting", "loading", "opening", "sending"}
        /\ next.at # "loading" => next.conn # None
    BY <2>1
  <2> HIDE DEF next
  <2> QED BY <2>1, <2>2, <2>3, <2>4, AdvanceKeeps DEF FaucetTypeOK
<1>3. CASE CachedSettled(r)
  <2>1. CASE Use(r) /\ UNCHANGED cached
    BY <1>3, <2>1, UseKeeps DEF CachedSettled, FaucetTypeOK
  <2>2. CASE /\ cached' = None
             /\ requests' = [requests EXCEPT ![r].at = "loading", ![r].conn = None]
             /\ UNCHANGED transfers
    <3> DEFINE next == [requests[r] EXCEPT !.at = "loading", !.conn = None]
    <3>1. /\ next \in RequestRecords /\ next.at = "loading"
          /\ next.address = requests[r].address /\ next.came = requests[r].came
          /\ next.reply = requests[r].reply
      BY <1>1 DEF RequestRecords
    <3>2. requests' = [requests EXCEPT ![r] = next]
      BY <1>1, <2>2
    <3> HIDE DEF next
    <3> QED BY <1>3, <2>2, <3>1, <3>2, AdvanceKeeps DEF CachedSettled, FaucetTypeOK
  <2> QED BY <1>3, <2>1, <2>2 DEF CachedSettled
<1>4. CASE Open(r)
  <2> DEFINE next == [requests[r] EXCEPT !.at = "opening", !.conn = r]
  <2>1. /\ next \in RequestRecords /\ next.at = "opening" /\ next.conn = r
        /\ next.address = requests[r].address /\ next.came = requests[r].came
        /\ next.reply = requests[r].reply
    BY <1>1 DEF RequestRecords
  <2>2. requests' = [requests EXCEPT ![r] = next]
    BY <1>1, <1>4 DEF Open
  <2>3. r # None
    BY FaucetAssumption DEF Requests
  <2>4. /\ UNCHANGED <<stamps, transfers, now>> /\ cached' = r
        /\ conns' \in [Requests -> {"unused", "opening", "up", "down"}]
        /\ requests[r].at = "loading" /\ FaucetTypeOK
    BY <1>4 DEF Open, FaucetTypeOK
  <2> HIDE DEF next
  <2> QED BY <2>1, <2>2, <2>3, <2>4, AdvanceKeeps DEF FaucetTypeOK
<1>5. CASE Opened(r)
  BY <1>5, UseKeeps DEF Opened, FaucetTypeOK
<1>6. CASE Notice(r)
  <2>1. CASE Reply(r, 200) /\ UNCHANGED stamps
    BY <1>6, <2>1, PaidIsQuiet DEF Notice
  <2>2. CASE Fail(r)
    BY <1>6, <2>2, FailKeeps DEF Notice, FaucetTypeOK
  <2> QED BY <1>6, <2>1, <2>2 DEF Notice
<1> QED BY <1>2, <1>3, <1>4, <1>5, <1>6 DEF Proceed

LEMMA StepKeeps ==
    ASSUME DripInv, FaucetNext PROVE DripInv'
<1> USE DEF DripInv
<1>1. now \in Nat /\ now + 1 \in Nat
  BY DEF FaucetTypeOK
<1>2. ASSUME NEW r \in Requests, SendFails(r) PROVE DripInv'
  BY <1>2, FailKeeps DEF SendFails, InProgress, FaucetTypeOK
<1>3. ASSUME NEW r \in Requests, GiveUp(r) PROVE DripInv'
  BY <1>3, FailKeeps DEF GiveUp, InProgress, FaucetTypeOK
<1>4. ASSUME NEW r \in Requests, Conclude(r) PROVE DripInv'
  BY <1>1, <1>4, OutsideIsQuiet DEF Conclude, FaucetTypeOK
<1>5. ASSUME NEW c \in Requests, Connect(c) \/ Drop(c) PROVE DripInv'
  BY <1>1, <1>5, OutsideIsQuiet DEF Connect, Drop, FaucetTypeOK
<1>6. CASE Elapse
  BY <1>1, <1>6, OutsideIsQuiet DEF Elapse, FaucetTypeOK
<1> QED BY <1>2, <1>3, <1>4, <1>5, <1>6, PostKeeps, ProceedKeeps DEF FaucetNext

LEMMA InitHolds == FaucetInit => DripInv
<1> SUFFICES ASSUME FaucetInit PROVE DripInv
  OBVIOUS
<1>1. None \in Replies /\ 0 \in Nat
  BY DEF Replies
<1>2. FaucetTypeOK
  BY <1>1 DEF FaucetInit, FaucetTypeOK
<1>3. \A r \in Requests : ~Admitted(r) /\ requests[r].at = "new" /\ requests[r].came = 0
  BY DEF FaucetInit, Admitted
<1>4. Failures = {} /\ now = 0 /\ \A r \in Requests : transfers[r] = "none"
  BY FaucetAssumption DEF FaucetInit, Failures
<1> QED BY <1>2, <1>3, <1>4 DEF DripInv, RequestsOrdered, Remembered, CloseExcused

LEMMA DripInvHolds == FaucetSpec => []DripInv
<1>1. DripInv /\ UNCHANGED faucetVars => DripInv'
  BY DEF faucetVars, DripInv, FaucetTypeOK, RequestsOrdered, Remembered, CloseExcused,
         Excused, Admitted, Failures
<1>2. DripInv /\ [FaucetNext]_faucetVars => DripInv'
  BY <1>1, StepKeeps
<1> QED BY <1>2, InitHolds, PTL DEF FaucetSpec

\* The route is well typed, and whoever waits for a connection has one.
THEOREM FaucetTyped == FaucetSpec => []FaucetTypeOK
<1>1. DripInv => FaucetTypeOK
  BY DEF DripInv
<1> QED BY <1>1, DripInvHolds, PTL

\* The rate limit, as far as it goes: two requests of one address that were
\* both paid came a cooldown apart, or a failed one took a stamp away.
THEOREM FaucetDripsSpaced == FaucetSpec => []DripsSpaced
<1>1. ASSUME DripInv PROVE DripsSpaced
  <2> SUFFICES ASSUME NEW r1 \in Requests, NEW r2 \in Requests, r1 # r2,
                      transfers[r1] = "paid", transfers[r2] = "paid",
                      requests[r1].address = requests[r2].address,
                      requests[r1].came <= requests[r2].came,
                      requests[r2].came < requests[r1].came + Cooldown
               PROVE  \E r3 \in Requests :
                         /\ requests[r3].address = requests[r1].address
                         /\ requests[r3].reply = 500
                         /\ r3 \in {r1, r2} \/ requests[r3].came + Cooldown <= requests[r1].came
    BY DEF DripsSpaced
  <2>1. /\ Admitted(r1) /\ Admitted(r2)
        /\ requests[r1].came \in Nat /\ requests[r2].came \in Nat
    BY <1>1 DEF DripInv, RequestsOrdered, FaucetTypeOK
  <2>2. CASE r1 < r2
    <3>1. Excused(r1)
      BY <1>1, <2>1, <2>2 DEF DripInv, CloseExcused
    <3> QED BY <3>1 DEF Excused, Failures
  <2>3. CASE r2 < r1
    <3>1. requests[r1].came = requests[r2].came
      BY <1>1, <2>1, <2>3 DEF DripInv, RequestsOrdered
    <3>2. Excused(r2)
      BY <1>1, <2>1, <2>3, <3>1 DEF DripInv, CloseExcused
    <3> QED BY <3>1, <3>2 DEF Excused, Failures
  <2> QED BY <2>2, <2>3 DEF Requests
<1> QED BY <1>1, DripInvHolds, PTL

=============================================================================
