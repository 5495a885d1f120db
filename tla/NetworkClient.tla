--------------------------- MODULE NetworkClient ---------------------------
(***************************************************************************)
(* app/src/lib/network-context.tsx: the network the page is on, and one     *)
(* cached promise of a client per network, that every caller of the page    *)
(* shares; PnsConnection.open of the SDK behind it, and the switch of       *)
(* SiteHeader.tsx before it.                                                *)
(*                                                                          *)
(* A promise is named by the number of clients built before it.  Its        *)
(* WebSocket opens, and from then on drops and reconnects by itself, also   *)
(* when the cache has let go of it.  Only the local storage outlives a      *)
(* reload of the page; a reload may bring a build with other contracts.     *)
(***************************************************************************)
EXTENDS Naturals, FiniteSets

CONSTANTS
    Networks,   \* NETWORK_ORDER
    Default,    \* DEFAULT_NETWORK
    Calls,      \* callers of getClient
    MaxDrops,   \* bound on the drops of connections from one reload to the next
    Nobody

ASSUME NetworkAssumption ==
    /\ Default \in Networks
    /\ IsFiniteSet(Networks)
    /\ MaxDrops \in Nat
    /\ Nobody \notin Networks \cup Nat

\* A client is built for a network without one: the first, and one for each drop.
Clients == 1 .. Cardinality(Networks) + MaxDrops

VARIABLES
    ready,      \* the networks whose contracts this build of the app has
    saved,      \* localStorage pns:network
    netKey,
    restored,   \* the effect that restores saved has run
    menu,       \* the menu of the network switch is open
    clients,    \* network -> the cached promise
    promises,   \* client -> [net, state: unused, connecting, connected, resolved or rejected]
    links,      \* client -> opening, up or down
    calls,      \* caller -> [at: idle, waiting, served or failed, on: a promise,
                \*            probing: it did not make the promise itself]
    drops

netVars == <<ready, saved, netKey, restored, menu, clients, promises, links, calls, drops>>
pageVars == <<ready, saved, netKey, restored, menu>>

Built == {c \in Clients : promises[c].state # "unused"}
Pending(c) == promises[c].state \in {"connecting", "connected"}

-----------------------------------------------------------------------------
(* clientFor.                                                               *)

\* Mutants: cached once it has connected; and under the network of the page.
CachedWhenConnected(cache, c) == cache
CachedForPage(cache, c) == [cache EXCEPT ![netKey] = c]

\* The cache once c is built.
Cached(cache, c) == [cache EXCEPT ![promises'[c].net] = c]

\* PnsConnection.open throws before it connects if a contract is missing; the
\* addresses of the app override the preset of the SDK, even the empty ones.
Build(n, c) ==
    /\ c \notin Built /\ \A d \in 1 .. c - 1 : d \in Built
    /\ promises' = [promises EXCEPT ![c] =
                       [net |-> n, state |-> IF n \in ready THEN "connecting" ELSE "rejected"]]

\* What clientFor returns to k, for a network n and with this cache: the cached
\* promise with a probe behind it, or a new one.
ClientFor(k, n, cache) ==
    \/ /\ cache[n] # Nobody
       /\ calls' = [calls EXCEPT ![k] = [at |-> "waiting", on |-> cache[n], probing |-> TRUE]]
       /\ clients' = cache
       /\ UNCHANGED promises
    \/ /\ cache[n] = Nobody
       /\ \E c \in Clients :
             /\ Build(n, c)
             /\ clients' = Cached(cache, c)
             /\ calls' = [calls EXCEPT ![k] = [at |-> "waiting", on |-> c, probing |-> FALSE]]

\* Mutants: whatever the network has is thrown away; and nothing is.
WithoutAny(c) == [clients EXCEPT ![promises[c].net] = Nobody]
WithoutNone(c) == clients

\* The cache without c, if it holds it.
Without(c) == [clients EXCEPT ![promises[c].net] = IF @ = c THEN Nobody ELSE @]

GetClient(k) ==
    /\ calls[k].at # "waiting"
    /\ ClientFor(k, netKey, clients)
    /\ UNCHANGED <<pageVars, links, drops>>

\* The probe of a cached client found it down: it asks anew.
Probe(k) ==
    /\ calls[k].at = "waiting" /\ calls[k].probing
    /\ promises[calls[k].on].state = "resolved"
    /\ links[calls[k].on] = "down"
    /\ ClientFor(k, promises[calls[k].on].net, Without(calls[k].on))
    /\ UNCHANGED <<pageVars, links, drops>>

\* The caller gets the client, or the error.  Who made the promise does not probe.
Settle(k) ==
    /\ calls[k].at = "waiting"
    /\ \/ /\ promises[calls[k].on].state = "resolved"
          /\ calls[k].probing => links[calls[k].on] # "down"
          /\ calls' = [calls EXCEPT ![k].at = "served"]
       \/ /\ promises[calls[k].on].state = "rejected"
          /\ calls' = [calls EXCEPT ![k].at = "failed"]
    /\ UNCHANGED <<pageVars, clients, promises, links, drops>>

\* The await of PnsClient.connect goes on: the handlers are registered.
Register(c) ==
    /\ promises[c].state = "connected"
    /\ promises' = [promises EXCEPT ![c].state = "resolved"]
    /\ UNCHANGED <<pageVars, clients, links, calls, drops>>

-----------------------------------------------------------------------------
(* The connections.                                                         *)

Connect(c) ==
    /\ promises[c].state = "connecting"
    /\ links' = [links EXCEPT ![c] = "up"]
    /\ promises' = [promises EXCEPT ![c].state = "connected"]
    /\ UNCHANGED <<pageVars, clients, calls, drops>>

\* The handlers, once they are registered.
DropHandler(c) ==
    IF promises[c].state = "resolved" THEN clients' = Without(c) ELSE UNCHANGED clients

\* The event of a drop that comes before the handlers is missed.
Drop(c) ==
    /\ links[c] = "up" /\ drops < MaxDrops
    /\ links' = [links EXCEPT ![c] = "down"]
    /\ drops' = drops + 1
    /\ DropHandler(c)
    /\ UNCHANGED <<pageVars, promises, calls>>

\* An attempt to reconnect: up again, or an error event.
Reconnect(c) ==
    /\ links[c] = "down"
    /\ \/ links' = [links EXCEPT ![c] = "up"] /\ UNCHANGED clients
       \/ DropHandler(c) /\ UNCHANGED links
    /\ UNCHANGED <<pageVars, promises, calls, drops>>

-----------------------------------------------------------------------------
(* The network of the page.                                                 *)

\* Mutant: a network is restored because it was chosen once.
RestoreUnready ==
    /\ ~restored
    /\ restored' = TRUE
    /\ netKey' = IF saved # Nobody THEN saved ELSE netKey
    /\ UNCHANGED <<ready, saved, menu, clients, promises, links, calls, drops>>

\* The components of the page may have asked for clients of the default
\* network by then.
Restore ==
    /\ ~restored
    /\ restored' = TRUE
    /\ netKey' = IF saved # Nobody /\ saved \in ready THEN saved ELSE netKey
    /\ UNCHANGED <<ready, saved, menu, clients, promises, links, calls, drops>>

\* The button, and a click outside the menu.
ToggleMenu ==
    /\ restored
    /\ menu' = ~menu
    /\ UNCHANGED <<ready, saved, netKey, restored, clients, promises, links, calls, drops>>

SetNetwork(n) ==
    /\ menu /\ n \in ready
    /\ netKey' = n /\ saved' = n
    /\ menu' = FALSE
    /\ UNCHANGED <<ready, restored, clients, promises, links, calls, drops>>

NoPromises == [c \in Clients |-> [net |-> Default, state |-> "unused"]]
NoLinks == [c \in Clients |-> "opening"]
NoCalls == [k \in Calls |-> [at |-> "idle", on |-> Nobody, probing |-> FALSE]]
NoClients == [n \in Networks |-> Nobody]

Reload ==
    /\ ready' \in SUBSET Networks
    /\ netKey' = Default /\ restored' = FALSE /\ menu' = FALSE
    /\ clients' = NoClients /\ promises' = NoPromises /\ links' = NoLinks
    /\ calls' = NoCalls /\ drops' = 0
    /\ UNCHANGED saved

-----------------------------------------------------------------------------

NetInit ==
    /\ ready \in SUBSET Networks /\ saved = Nobody
    /\ netKey = Default /\ restored = FALSE /\ menu = FALSE
    /\ clients = NoClients /\ promises = NoPromises /\ links = NoLinks
    /\ calls = NoCalls /\ drops = 0

NetNext ==
    \/ \E k \in Calls : GetClient(k) \/ Probe(k) \/ Settle(k)
    \/ \E c \in Clients : Connect(c) \/ Register(c) \/ Drop(c) \/ Reconnect(c)
    \/ \E n \in Networks : SetNetwork(n)
    \/ Restore \/ ToggleMenu \/ Reload

\* A node that is asked for a connection gives it in the end, and the event
\* loop runs what is settled.
NetSpec ==
    /\ NetInit
    /\ [][NetNext]_netVars
    /\ \A c \in Clients : WF_netVars(Connect(c)) /\ WF_netVars(Register(c))
    /\ \A k \in Calls : WF_netVars(Probe(k) \/ Settle(k))

-----------------------------------------------------------------------------

\* The variables are well typed, what the cache holds for a network is a
\* promise for that network, and a call is served only what has resolved.
NetTypeOK ==
    /\ ready \subseteq Networks /\ saved \in Networks \cup {Nobody} /\ netKey \in Networks
    /\ restored \in BOOLEAN /\ menu \in BOOLEAN /\ drops \in 0 .. MaxDrops
    /\ clients \in [Networks -> Clients \cup {Nobody}]
    /\ promises \in [Clients -> [net : Networks, state : {"unused", "connecting", "connected",
                                                          "resolved", "rejected"}]]
    /\ links \in [Clients -> {"opening", "up", "down"}]
    /\ calls \in [Calls -> [at : {"idle", "waiting", "served", "failed"},
                            on : Clients \cup {Nobody}, probing : BOOLEAN]]
    /\ \A n \in Networks : clients[n] # Nobody =>
          /\ clients[n] \in Built
          /\ promises[clients[n]].net = n
    /\ \A k \in Calls : calls[k].at # "idle" => calls[k].on \in Built
    /\ \A k \in Calls : calls[k].at = "served" => promises[calls[k].on].state = "resolved"

\* networks.ts: "never switch to an unconfigured network".  The page is on the
\* default network or on one whose contracts this build has, also when the
\* choice was made, and saved, with another build.
OnReadyNetwork == netKey # Default => netKey \in ready

\* network-context.tsx:19, "one cached client per network": a promise that is
\* still connecting is the cached one of its network, so callers that come
\* meanwhile wait for it and no second one is built beside it.
OneConnecting == \A c \in Clients : Pending(c) => clients[promises[c].net] = c

\* network-context.tsx:40-42: a cached promise is let go of only when its own
\* connection is down: no late event of a connection that was let go of
\* before, which goes on reconnecting and failing, throws away its successor.
LiveClientKept ==
    [][Reload \/ \A n \in Networks :
          clients[n] # Nobody /\ clients'[n] # clients[n] => links'[clients[n]] = "down"]_netVars

\* network-context.tsx:19-21, "so a stale, disconnected api can't hang the
\* next call": every call gets a client or an error, also the call whose
\* client dropped before anybody listened.
CallsSettled == \A k \in Calls : calls[k].at = "waiting" ~> calls[k].at # "waiting"

=============================================================================
