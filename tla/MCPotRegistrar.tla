--------------------------- MODULE MCPotRegistrar ---------------------------
(***************************************************************************)
(* The PotRegistrar over the Registry with nobody to be trusted: alice is   *)
(* the deployer, the admin and the owner of the root; alice and bob sign    *)
(* whatever they like, and either may be made admin, bob a controller.      *)
(***************************************************************************)
EXTENDS PotRegistrar

CONSTANTS alice, bob, pot, a, b, registrar

MCAccounts == {alice, bob, registrar}
MCSigners == {alice, bob}
MCLabels == {pot, a, b}
MCNodes == {<<>>, <<pot>>, <<pot, a>>, <<pot, b>>}
MCPotNode == <<pot>>
MCHeirs == {bob, registrar}
MCResolvers == {}
MCControllers == {bob}
MCTtls == {0}
MCDurations == {1, 2}
MCGraces == {0, 1}

=============================================================================
