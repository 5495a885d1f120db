------------------------------ MODULE MCFaucet ------------------------------
(***************************************************************************)
(* Three requests for one address.                                          *)
(***************************************************************************)
EXTENDS Faucet

CONSTANT a

MCAddresses == {a}

=============================================================================
