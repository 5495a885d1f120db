------------------------------- MODULE Faucet -------------------------------
(***************************************************************************)
(* app/src/app/api/faucet/route.ts: the testnet faucet.  Requests share a   *)
(* map of stamps, one per address, and one cached promise of a connection;  *)
(* between two awaits of one request the others run.                        *)
(*                                                                          *)
(* A connection is a WebSocket provider and the api promise made of it,      *)
(* which stays pending until the node answers and is never rejected.        *)
(* The provider reconnects by itself for ever, and each of its disconnects  *)
(* and errors runs the handlers that clear the cache, also when the cache   *)
(* holds another connection by then.  A request opens at most one, which is *)
(* named after it; requests are numbered as they arrive.                    *)
(*                                                                          *)
(* A transfer that was handed to the node is out of the route's hands: it   *)
(* may be put in a block after the request that made it has given up.       *)
(***************************************************************************)
EXTENDS Naturals

CONSTANTS
    N,          \* bound on the requests
    Addresses,
    Cooldown,   \* COOLDOWN_MS
    Timeout,    \* 30_000
    MaxTime,    \* bound: no request arrives later
    None

ASSUME FaucetAssumption ==
    /\ N \in Nat /\ Cooldown \in Nat /\ Timeout \in Nat /\ MaxTime \in Nat
    /\ None \notin Addresses \cup Nat

Requests == 1 .. N

VARIABLES
    stamps,     \* lastDrip: address -> the time of its last request
    cached,     \* apiPromise
    conns,      \* request -> its connection: unused, opening, up or down (reconnecting)
    requests,   \* request -> [at: where it stands, address, came, conn, deadline, reply]
    transfers,  \* request -> none, begun, paid or failed: its transfer on the chain
    now

faucetVars == <<stamps, cached, conns, requests, transfers, now>>

-----------------------------------------------------------------------------

\* The answers the model tells apart.
Replies == {None, 200, 429, 500}

\* The answer; what the request still held is forgotten.
Reply(r, code) ==
    requests' = [requests EXCEPT ![r].at = "answered", ![r].reply = code,
                                 ![r].conn = None, ![r].deadline = 0]

\* The address asked less than a cooldown ago.
Limited(a) == stamps[a] # None /\ now - stamps[a] < Cooldown

\* Mutant: the address is stamped when it has been paid.
StampPaid(r, a) == UNCHANGED stamps

Stamp(r, a) == stamps' = [stamps EXCEPT ![a] = now]

\* The request as far as its first await after the stamp.  One whose body does
\* not parse, or whose address does not decode, is answered with 400 before it
\* reads or writes anything, and left out.
Post(r, a) ==
    /\ requests[r].at = "new"
    /\ \A q \in 1 .. r - 1 : requests[q].at # "new"
    /\ now <= MaxTime
    /\ \/ Limited(a) /\ Reply(r, 429) /\ UNCHANGED stamps
       \/ /\ ~Limited(a)
          /\ requests' = [requests EXCEPT ![r].at = "admitted", ![r].address = a, ![r].came = now]
          /\ Stamp(r, a)
    /\ UNCHANGED <<cached, conns, transfers, now>>

\* getApi awaits the cached promise, or loads the library to make one.
GetApi(r) ==
    /\ requests[r].at = "admitted"
    /\ requests' = [requests EXCEPT ![r].at = IF cached = None THEN "loading" ELSE "awaiting",
                                    ![r].conn = cached]
    /\ UNCHANGED <<stamps, cached, conns, transfers, now>>

\* Mutant: the connection is read from the cache once more.
UseCached(r) ==
    /\ requests' = [requests EXCEPT ![r].at = "sending", ![r].deadline = now + Timeout,
                                    ![r].conn = cached]
    /\ transfers' = [transfers EXCEPT ![r] = "begun"]

\* The promise in hand is settled, and signAndSend begins, with its timer.
Use(r) ==
    /\ requests' = [requests EXCEPT ![r].at = "sending", ![r].deadline = now + Timeout]
    /\ transfers' = [transfers EXCEPT ![r] = "begun"]

\* The cached promise settled: the api is used if it is connected; otherwise
\* the cache, whatever it holds by now, is cleared.
CachedSettled(r) ==
    /\ requests[r].at = "awaiting"
    /\ \/ conns[requests[r].conn] = "up" /\ Use(r) /\ UNCHANGED cached
       \/ /\ conns[requests[r].conn] = "down"
          /\ cached' = None
          /\ requests' = [requests EXCEPT ![r].at = "loading", ![r].conn = None]
          /\ UNCHANGED transfers
    /\ UNCHANGED <<stamps, conns, now>>

Open(r) ==
    /\ requests[r].at = "loading"
    /\ conns' = [conns EXCEPT ![r] = "opening"]
    /\ cached' = r
    /\ requests' = [requests EXCEPT ![r].at = "opening", ![r].conn = r]
    /\ UNCHANGED <<stamps, transfers, now>>

\* The catch of POST: the stamp of the address goes.
Fail(r) ==
    /\ stamps' = [stamps EXCEPT ![requests[r].address] = None]
    /\ Reply(r, 500)

\* The promise that the request made itself settled.
Opened(r) ==
    /\ requests[r].at = "opening"
    /\ conns[requests[r].conn] \in {"up", "down"}
    /\ Use(r)
    /\ UNCHANGED <<stamps, cached, conns, now>>

\* signAndSend rejects: the node never got the transfer, or its answer is lost.
SendFails(r) ==
    /\ requests[r].at = "sending"
    /\ transfers[r] = "begun"
    /\ transfers' \in {transfers, [transfers EXCEPT ![r] = "failed"]}
    /\ Fail(r)
    /\ UNCHANGED <<cached, conns, now>>

\* The chain takes the transfer into a block, with or without a dispatch
\* error, or it is lost: also after the request has given up.
Conclude(r) ==
    /\ transfers[r] = "begun"
    /\ \E outcome \in {"paid", "failed"} :
          transfers' = [transfers EXCEPT ![r] = outcome]
    /\ UNCHANGED <<stamps, cached, conns, requests, now>>

\* The status arrives while somebody waits for it.  A transfer that was lost
\* may also never say so.
Notice(r) ==
    /\ requests[r].at = "sending"
    /\ conns[requests[r].conn] = "up"
    /\ \/ transfers[r] = "paid" /\ Reply(r, 200) /\ UNCHANGED stamps
       \/ transfers[r] = "failed" /\ Fail(r)
    /\ UNCHANGED <<cached, conns, transfers, now>>

\* Mutant: any status clears the timer.
TimedOutBeforeStatus(r) == transfers[r] = "failed" /\ now >= requests[r].deadline

TimedOut(r) == now >= requests[r].deadline

GiveUp(r) ==
    /\ requests[r].at = "sending"
    /\ TimedOut(r)
    /\ Fail(r)
    /\ UNCHANGED <<cached, conns, transfers, now>>

-----------------------------------------------------------------------------
(* The connections.                                                         *)

Connect(c) ==
    /\ conns[c] \in {"opening", "down"}
    /\ conns' = [conns EXCEPT ![c] = "up"]
    /\ UNCHANGED <<stamps, cached, requests, transfers, now>>

\* A disconnect, or an error of an attempt to connect.
Drop(c) ==
    /\ conns[c] \in {"opening", "up", "down"}
    /\ conns' = [conns EXCEPT ![c] = IF @ = "up" THEN "down" ELSE @]
    /\ cached' = None
    /\ UNCHANGED <<stamps, requests, transfers, now>>

\* Time passes while a request may come or a timer runs.
Elapse ==
    /\ \/ now < MaxTime
       \/ \E r \in Requests : requests[r].at = "sending" /\ now < requests[r].deadline
    /\ now' = now + 1
    /\ UNCHANGED <<stamps, cached, conns, requests, transfers>>

-----------------------------------------------------------------------------

FaucetInit ==
    /\ stamps = [a \in Addresses |-> None]
    /\ cached = None
    /\ conns = [c \in Requests |-> "unused"]
    /\ requests = [r \in Requests |-> [at |-> "new", address |-> None, came |-> 0,
                                       conn |-> None, deadline |-> 0, reply |-> None]]
    /\ transfers = [r \in Requests |-> "none"]
    /\ now = 0

\* What the event loop does for a request.
Proceed(r) ==
    \/ GetApi(r) \/ CachedSettled(r) \/ Open(r) \/ Opened(r)
    \/ Notice(r)

FaucetNext ==
    \/ \E r \in Requests, a \in Addresses : Post(r, a)
    \/ \E r \in Requests : Proceed(r) \/ SendFails(r) \/ Conclude(r) \/ GiveUp(r)
    \/ \E c \in Requests : Connect(c) \/ Drop(c)
    \/ Elapse

\* Promises that are settled are run, timers go off, time passes.  No attempt to
\* connect need ever succeed.
FaucetSpec ==
    /\ FaucetInit
    /\ [][FaucetNext]_faucetVars
    /\ \A r \in Requests :
          /\ WF_faucetVars(Proceed(r))
          /\ WF_faucetVars(GiveUp(r))
    /\ WF_faucetVars(Elapse)

-----------------------------------------------------------------------------

\* Every variable of the route is well typed, and a request that waits for a
\* connection, or uses one, has it, whoever clears the cache meanwhile.
FaucetTypeOK ==
    /\ stamps \in [Addresses -> Nat \cup {None}]
    /\ cached \in Requests \cup {None}
    /\ conns \in [Requests -> {"unused", "opening", "up", "down"}]
    /\ requests \in [Requests -> [at : {"new", "admitted", "awaiting", "loading",
                                         "opening", "sending", "answered"},
                                   address : Addresses \cup {None}, came : Nat,
                                   conn : Requests \cup {None}, deadline : Nat,
                                   reply : Replies]]
    /\ \A r \in Requests : requests[r].at \in {"awaiting", "opening", "sending"} =>
                              requests[r].conn # None
    /\ transfers \in [Requests -> {"none", "begun", "paid", "failed"}]
    /\ now \in Nat

\* The rate limit (route.ts:19): an address is paid twice for requests that
\* came less than a cooldown apart only if one of the two was answered as
\* failed, or if a still earlier one failed after the whole of a cooldown, and
\* with its own, long outdated stamp took away that of the later request.
DripsSpaced ==
    \A r1, r2 \in Requests :
        /\ r1 # r2
        /\ transfers[r1] = "paid" /\ transfers[r2] = "paid"
        /\ requests[r1].address = requests[r2].address
        /\ requests[r1].came <= requests[r2].came
        /\ requests[r2].came < requests[r1].came + Cooldown
        => \E r3 \in Requests :
              /\ requests[r3].address = requests[r1].address
              /\ requests[r3].reply = 500
              /\ r3 \in {r1, r2} \/ requests[r3].came + Cooldown <= requests[r1].came

\* The request waits for a connection that has not been made.
Connecting(r) ==
    /\ requests[r].at \in {"awaiting", "opening"}
    /\ conns[requests[r].conn] = "opening"

\* route.ts:28-53, 89-96: a request that is admitted is answered, however often
\* connections drop and clear one another from the cache, and even if the chain
\* stalls, unless the node never comes up and it waits for the connection for
\* ever.  "So the route never hangs forever" (line 89) is true of the transfer
\* only: the timer starts when getApi has returned.
PostsAnswered ==
    \A r \in Requests :
        requests[r].at = "admitted" ~> (requests[r].at = "answered" \/ []Connecting(r))

=============================================================================
