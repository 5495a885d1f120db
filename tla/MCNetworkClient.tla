-------------------------- MODULE MCNetworkClient --------------------------
(***************************************************************************)
(* Two networks, two callers, and as many drops as it takes for a client to *)
(* be replaced and for the event of the first to be missed.                 *)
(***************************************************************************)
EXTENDS NetworkClient

CONSTANTS testnet, mainnet, k1, k2

MCNetworks == {testnet, mainnet}
MCCalls == {k1, k2}

=============================================================================
