------------------------ MODULE NetworkClientProofs -------------------------
(***************************************************************************)
(* What the client cache guarantees for every number of networks, callers   *)
(* and drops: the network of the page is one the build has, a network never *)
(* has two connections in the making, and a client is let go of only when   *)
(* its own connection is down.                                              *)
(*                                                                          *)
(* NetTypeOK and OneConnecting are inductive together: a step that empties  *)
(* the cache for a network needs that what it takes out has resolved.       *)
(***************************************************************************)
EXTENDS NetworkClient, FiniteSetTheorems, TLAPS

LEMMA ClientsAreNumbers == Clients \subseteq Nat /\ Nobody \notin Clients
<1>1. Cardinality(Networks) \in Nat
  BY NetworkAssumption, FS_CardinalityType
<1> QED BY <1>1, NetworkAssumption DEF Clients

\* What a step of the cache must keep.
CacheOK == NetTypeOK /\ OneConnecting

\* A cache from which at most clients that resolved, and are down, are gone.
Emptied(cache) ==
    /\ cache \in [Networks -> Clients \cup {Nobody}]
    /\ \A m \in Networks : cache[m] # clients[m] =>
          /\ cache[m] = Nobody
          /\ promises[clients[m]].state = "resolved"
          /\ links[clients[m]] = "down"

\* Whoever is let go of is down.
LetGoWhenDown ==
    \A n \in Networks :
        clients[n] # Nobody /\ clients'[n] # clients[n] => links'[clients[n]] = "down"

LEMMA WithoutEmpties ==
    ASSUME CacheOK, NEW c \in Clients, promises[c].state = "resolved", links[c] = "down"
    PROVE  Emptied(Without(c))
  BY ClientsAreNumbers DEF CacheOK, NetTypeOK, Emptied, Without

LEMMA SameCacheIsEmptied ==
    ASSUME CacheOK PROVE Emptied(clients)
  BY DEF CacheOK, NetTypeOK, Emptied

\* A promise that is built is a promise of its network, connecting or rejected.
LEMMA BuildAddsOne ==
    ASSUME NetTypeOK, NEW n \in Networks, NEW c \in Clients, Build(n, c)
    PROVE  /\ promises[c].state = "unused"
           /\ promises'[c].net = n
           /\ promises'[c].state \in {"connecting", "rejected"}
           /\ \A d \in Clients \ {c} : promises'[d] = promises[d]
           /\ promises' \in [Clients -> [net : Networks,
                  state : {"unused", "connecting", "connected", "resolved", "rejected"}]]
  BY DEF NetTypeOK, Build, Built

LEMMA ClientForKeeps ==
    ASSUME CacheOK, NEW k \in Calls, NEW n \in Networks, NEW cache, Emptied(cache),
           ClientFor(k, n, cache), UNCHANGED <<pageVars, links, drops>>
    PROVE  CacheOK' /\ LetGoWhenDown
<1> USE ClientsAreNumbers
<1>1. CASE /\ cache[n] # Nobody
           /\ calls' = [calls EXCEPT ![k] = [at |-> "waiting", on |-> cache[n], probing |-> TRUE]]
           /\ clients' = cache
           /\ UNCHANGED promises
  <2>1. cache[n] = clients[n] /\ cache[n] \in Clients
    BY <1>1 DEF Emptied
  <2>2. NetTypeOK'
    BY <1>1, <2>1 DEF CacheOK, NetTypeOK, Emptied, Built, pageVars
  <2>3. OneConnecting'
    BY <1>1, <2>1 DEF CacheOK, NetTypeOK, OneConnecting, Emptied, Pending
  <2>4. LetGoWhenDown
    BY <1>1 DEF Emptied, LetGoWhenDown
  <2> QED BY <2>2, <2>3, <2>4 DEF CacheOK
<1>2. ASSUME cache[n] = Nobody, NEW c \in Clients, Build(n, c), clients' = Cached(cache, c),
             calls' = [calls EXCEPT ![k] = [at |-> "waiting", on |-> c, probing |-> FALSE]]
      PROVE  CacheOK' /\ LetGoWhenDown
  <2>1. /\ promises[c].state = "unused" /\ promises'[c].net = n
        /\ promises'[c].state \in {"connecting", "rejected"}
        /\ \A d \in Clients \ {c} : promises'[d] = promises[d]
        /\ promises' \in [Clients -> [net : Networks,
               state : {"unused", "connecting", "connected", "resolved", "rejected"}]]
    BY <1>2, BuildAddsOne DEF CacheOK
  <2>2. clients' = [cache EXCEPT ![n] = c]
    BY <1>2, <2>1 DEF Cached
  <2>3. c \in Built' /\ \A d \in Built : d \in Built' /\ d # c
    BY <2>1 DEF Built
  <2>4. \A m \in Networks : clients'[m] # Nobody =>
           clients'[m] \in Built' /\ promises'[clients'[m]].net = m
    <3> SUFFICES ASSUME NEW m \in Networks, clients'[m] # Nobody
                 PROVE  clients'[m] \in Built' /\ promises'[clients'[m]].net = m
      OBVIOUS
    <3>1. CASE m = n
      BY <2>1, <2>2, <2>3, <3>1 DEF Emptied
    <3>2. CASE m # n
      <4>1. clients'[m] = clients[m] /\ clients[m] \in Built /\ promises[clients[m]].net = m
        BY <2>2, <3>2 DEF CacheOK, NetTypeOK, Emptied
      <4>2. promises'[clients[m]] = promises[clients[m]]
        BY <2>1, <2>3, <4>1 DEF Built
      <4> QED BY <2>3, <4>1, <4>2
    <3> QED BY <3>1, <3>2
  <2>5. \A j \in Calls : /\ calls'[j].at # "idle" => calls'[j].on \in Built'
                         /\ calls'[j].at = "served" => promises'[calls'[j].on].state = "resolved"
    <3> SUFFICES ASSUME NEW j \in Calls
                 PROVE  /\ calls'[j].at # "idle" => calls'[j].on \in Built'
                        /\ calls'[j].at = "served" => promises'[calls'[j].on].state = "resolved"
      OBVIOUS
    <3>1. CASE j = k
      BY <1>2, <2>3, <3>1 DEF CacheOK, NetTypeOK
    <3>2. CASE j # k
      <4>1. /\ calls'[j] = calls[j]
            /\ calls[j].at # "idle" => calls[j].on \in Built
            /\ calls[j].at = "served" => promises[calls[j].on].state = "resolved"
        BY <1>2, <3>2 DEF CacheOK, NetTypeOK
      <4>2. \A d \in Built : promises'[d] = promises[d]
        BY <2>1, <2>3 DEF Built
      <4> QED BY <2>3, <4>1, <4>2
    <3> QED BY <3>1, <3>2
  <2>6. NetTypeOK'
    BY <1>2, <2>1, <2>2, <2>4, <2>5 DEF CacheOK, NetTypeOK, Emptied, pageVars
  <2>7. OneConnecting'
    <3> SUFFICES ASSUME NEW d \in Clients, Pending(d)'
                 PROVE  clients'[promises'[d].net] = d
      BY DEF OneConnecting
    <3>1. CASE d = c
      BY <2>1, <2>2, <3>1 DEF Emptied
    <3>2. CASE d # c
      <4>1. Pending(d) /\ clients[promises[d].net] = d /\ promises'[d] = promises[d]
        BY <2>1, <3>2 DEF CacheOK, OneConnecting, Pending
      <4>2. promises[d].net \in Networks /\ promises[d].state # "resolved"
        BY <4>1 DEF CacheOK, NetTypeOK, Pending
      <4>3. cache[promises[d].net] = d
        BY <4>1, <4>2 DEF Emptied
      <4>4. promises[d].net # n
        BY <1>2, <4>3
      <4> QED BY <2>2, <4>1, <4>2, <4>3, <4>4 DEF Emptied
    <3> QED BY <3>1, <3>2
  <2>8. LetGoWhenDown
    BY <1>2, <2>2 DEF Emptied, LetGoWhenDown
  <2> QED BY <2>6, <2>7, <2>8 DEF CacheOK
<1> QED BY <1>1, <1>2 DEF ClientFor

\* The handlers of a connection that is down keep everything that matters.
LEMMA DropHandlerKeeps ==
    ASSUME CacheOK, NEW c \in Clients, DropHandler(c), links'[c] = "down",
           links' \in [Clients -> {"opening", "up", "down"}],
           drops' \in 0 .. MaxDrops, UNCHANGED <<pageVars, promises, calls>>
    PROVE  CacheOK' /\ LetGoWhenDown
<1> USE ClientsAreNumbers
<1>1. clients' = clients \/ (promises[c].state = "resolved" /\ clients' = Without(c))
  BY DEF DropHandler
<1>2. /\ clients' \in [Networks -> Clients \cup {Nobody}]
      /\ \A m \in Networks : clients'[m] # clients[m] =>
            clients'[m] = Nobody /\ clients[m] = c /\ promises[c].state = "resolved"
  BY <1>1 DEF CacheOK, NetTypeOK, Without
<1>3. NetTypeOK'
  BY <1>2 DEF CacheOK, NetTypeOK, Built, pageVars
<1>4. OneConnecting'
  BY <1>2 DEF CacheOK, NetTypeOK, OneConnecting, Pending
<1>5. LetGoWhenDown
  BY <1>2 DEF LetGoWhenDown
<1> QED BY <1>3, <1>4, <1>5 DEF CacheOK

\* A promise goes one state further, and the cache stays.
LEMMA AdvanceKeeps ==
    ASSUME CacheOK, NEW c \in Clients, NEW state \in {"connected", "resolved"},
           Pending(c), promises' = [promises EXCEPT ![c].state = state],
           links' \in [Clients -> {"opening", "up", "down"}],
           UNCHANGED <<pageVars, clients, calls, drops>>
    PROVE  CacheOK' /\ LetGoWhenDown
<1>1. /\ promises' \in [Clients -> [net : Networks,
             state : {"unused", "connecting", "connected", "resolved", "rejected"}]]
      /\ \A d \in Clients : promises'[d].net = promises[d].net
      /\ \A d \in Clients \ {c} : promises'[d] = promises[d]
      /\ promises'[c].state = state
      /\ promises[c].state \in {"connecting", "connected"}
  BY DEF CacheOK, NetTypeOK, Pending
<1>2. Built' = Built /\ \A d \in Clients : Pending(d)' => Pending(d)
  BY <1>1 DEF Built, Pending
<1>3. NetTypeOK'
  BY <1>1, <1>2 DEF CacheOK, NetTypeOK, Built, pageVars
<1>4. OneConnecting'
  BY <1>1, <1>2 DEF CacheOK, OneConnecting
<1> QED BY <1>3, <1>4 DEF CacheOK, LetGoWhenDown

\* A page that was just loaded.
FreshPage ==
    /\ ready \in SUBSET Networks /\ saved \in Networks \cup {Nobody}
    /\ netKey = Default /\ restored = FALSE /\ menu = FALSE
    /\ clients = NoClients /\ promises = NoPromises /\ links = NoLinks
    /\ calls = NoCalls /\ drops = 0

LEMMA FreshPageIsOK == FreshPage => CacheOK
<1> SUFFICES ASSUME FreshPage PROVE CacheOK
  OBVIOUS
<1>1. /\ clients \in [Networks -> Clients \cup {Nobody}]
      /\ \A n \in Networks : clients[n] = Nobody
  BY DEF FreshPage, NoClients
<1>2. /\ promises \in [Clients -> [net : Networks,
             state : {"unused", "connecting", "connected", "resolved", "rejected"}]]
      /\ \A c \in Clients : promises[c].state = "unused"
  BY NetworkAssumption DEF FreshPage, NoPromises
<1>3. links \in [Clients -> {"opening", "up", "down"}]
  BY DEF FreshPage, NoLinks
<1>4. /\ calls \in [Calls -> [at : {"idle", "waiting", "served", "failed"},
                              on : Clients \cup {Nobody}, probing : BOOLEAN]]
      /\ \A k \in Calls : calls[k].at = "idle"
  BY DEF FreshPage, NoCalls
<1>5. drops \in 0 .. MaxDrops
  BY NetworkAssumption DEF FreshPage
<1>6. NetTypeOK
  BY <1>1, <1>2, <1>3, <1>4, <1>5, NetworkAssumption DEF FreshPage, NetTypeOK
<1>7. OneConnecting
  BY <1>2 DEF OneConnecting, Pending
<1> QED BY <1>6, <1>7 DEF CacheOK

LEMMA StepKeeps ==
    ASSUME CacheOK, NetNext
    PROVE  CacheOK' /\ (Reload \/ LetGoWhenDown)
<1> USE ClientsAreNumbers
<1>1. ASSUME NEW k \in Calls, GetClient(k) PROVE CacheOK' /\ LetGoWhenDown
  BY <1>1, SameCacheIsEmptied, ClientForKeeps DEF GetClient, CacheOK, NetTypeOK
<1>2. ASSUME NEW k \in Calls, Probe(k) PROVE CacheOK' /\ LetGoWhenDown
  <2>1. calls[k].on \in Clients /\ promises[calls[k].on].net \in Networks
    BY <1>2 DEF Probe, CacheOK, NetTypeOK, Built
  <2> QED BY <1>2, <2>1, WithoutEmpties, ClientForKeeps DEF Probe
<1>3. ASSUME NEW k \in Calls, Settle(k) PROVE CacheOK' /\ LetGoWhenDown
  <2>1. PICK at \in {"served", "failed"} :
           /\ calls[k].at = "waiting" /\ calls' = [calls EXCEPT ![k].at = at]
           /\ at = "served" => promises[calls[k].on].state = "resolved"
    BY <1>3 DEF Settle
  <2>2. UNCHANGED <<pageVars, clients, promises, links, drops>>
    BY <1>3 DEF Settle
  <2>3. NetTypeOK'
    BY <2>1, <2>2 DEF CacheOK, NetTypeOK, Built, pageVars
  <2> QED BY <2>2, <2>3 DEF CacheOK, OneConnecting, LetGoWhenDown, Pending
<1>4. ASSUME NEW c \in Clients, Connect(c) PROVE CacheOK' /\ LetGoWhenDown
  BY <1>4, AdvanceKeeps DEF Connect, Pending, CacheOK, NetTypeOK
<1>5. ASSUME NEW c \in Clients, Register(c) PROVE CacheOK' /\ LetGoWhenDown
  BY <1>5, AdvanceKeeps DEF Register, Pending, CacheOK, NetTypeOK
<1>6. ASSUME NEW c \in Clients, Drop(c) PROVE CacheOK' /\ LetGoWhenDown
  <2>1. drops' \in 0 .. MaxDrops
    BY <1>6, NetworkAssumption DEF Drop, CacheOK, NetTypeOK
  <2> QED BY <1>6, <2>1, DropHandlerKeeps DEF Drop, CacheOK, NetTypeOK
<1>7. ASSUME NEW c \in Clients, Reconnect(c) PROVE CacheOK' /\ LetGoWhenDown
  <2>1. CASE links' = [links EXCEPT ![c] = "up"] /\ UNCHANGED clients
    BY <1>7, <2>1 DEF Reconnect, CacheOK, NetTypeOK, OneConnecting, LetGoWhenDown,
                      Built, Pending, pageVars
  <2>2. CASE DropHandler(c) /\ UNCHANGED links
    BY <1>7, <2>2, DropHandlerKeeps DEF Reconnect, CacheOK, NetTypeOK
  <2> QED BY <1>7, <2>1, <2>2 DEF Reconnect
<1>8. ASSUME NEW n \in Networks, SetNetwork(n) PROVE CacheOK' /\ LetGoWhenDown
  BY <1>8 DEF SetNetwork, CacheOK, NetTypeOK, OneConnecting, LetGoWhenDown, Built, Pending
<1>9. CASE Restore
  BY <1>9 DEF Restore, CacheOK, NetTypeOK, OneConnecting, LetGoWhenDown, Built, Pending
<1>10. CASE ToggleMenu
  BY <1>10 DEF ToggleMenu, CacheOK, NetTypeOK, OneConnecting, LetGoWhenDown, Built, Pending
<1>11. ASSUME Reload PROVE CacheOK'
  <2>1. FreshPage'
    BY <1>11 DEF Reload, FreshPage, CacheOK, NetTypeOK
  <2> QED BY <2>1, FreshPageIsOK, PTL
<1> QED BY <1>1, <1>2, <1>3, <1>4, <1>5, <1>6, <1>7, <1>8, <1>9, <1>10, <1>11 DEF NetNext

LEMMA InitIsOK == NetInit => CacheOK
<1>1. NetInit => FreshPage
  BY DEF NetInit, FreshPage
<1> QED BY <1>1, FreshPageIsOK

LEMMA CacheStaysOK == NetSpec => []CacheOK
<1>1. CacheOK /\ [NetNext]_netVars => CacheOK'
  <2>1. ASSUME CacheOK, UNCHANGED netVars PROVE CacheOK'
    BY <2>1 DEF netVars, CacheOK, NetTypeOK, OneConnecting, Built, Pending
  <2> QED BY <2>1, StepKeeps
<1> QED BY <1>1, InitIsOK, PTL DEF NetSpec

\* The cache is well typed: what it holds for a network is a promise for that
\* network, and what a call is served with has resolved.
THEOREM NetTyped == NetSpec => []NetTypeOK
<1>1. CacheOK => NetTypeOK
  BY DEF CacheOK
<1> QED BY <1>1, CacheStaysOK, PTL

\* A promise that is still connecting is the cached one of its network.
THEOREM NetOneConnecting == NetSpec => []OneConnecting
<1>1. CacheOK => OneConnecting
  BY DEF CacheOK
<1> QED BY <1>1, CacheStaysOK, PTL

\* A cached client is let go of only when its own connection is down.
THEOREM NetLiveClientKept == NetSpec => LiveClientKept
<1>1. CacheOK /\ [NetNext]_netVars =>
        [Reload \/ \A n \in Networks :
            clients[n] # Nobody /\ clients'[n] # clients[n] => links'[clients[n]] = "down"]_netVars
  BY StepKeeps DEF LetGoWhenDown
<1> QED BY <1>1, CacheStaysOK, PTL DEF NetSpec, LiveClientKept

\* The page is on the default network or on one whose contracts the build has.
THEOREM NetOnReady == NetSpec => []OnReadyNetwork
<1>1. NetInit => OnReadyNetwork
  BY DEF NetInit, OnReadyNetwork
<1>2. OnReadyNetwork /\ [NetNext]_netVars => OnReadyNetwork'
  BY DEF NetNext, netVars, pageVars, OnReadyNetwork, GetClient, Probe, Settle, Connect,
         Register, Drop, Reconnect, SetNetwork, Restore, ToggleMenu, Reload
<1> QED BY <1>1, <1>2, PTL DEF NetSpec

=============================================================================
