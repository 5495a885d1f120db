------------------------------ MODULE MCNaming ------------------------------
(***************************************************************************)
(* The name service, small: one name, bob acts, carol only receives.        *)
(***************************************************************************)
EXTENDS Naming, TLC

CONSTANTS alice, bob, carol, registrar, controller, resolver, reverser,
          pot, reverse, addr, abc, hexb, hexc, k, v

MCAccounts == {alice, bob, carol, registrar, controller, resolver, reverser}
MCBob == {bob}
MCNone == {}
MCHeirs == {bob, carol, reverser}
MCResolvers == {resolver}
MCLabels == {pot, reverse, addr, abc, hexb, hexc}
MCTopNodes == {<<>>, <<pot>>, <<reverse>>, <<reverse, addr>>}
MCNodes == MCTopNodes \cup {<<pot, abc>>, <<reverse, addr, hexb>>, <<reverse, addr, hexc>>}
MCPotNode == <<pot>>
MCReverseNode == <<reverse>>
MCAddrReverseNode == <<reverse, addr>>
MCClaimants == {bob, carol}
MCLabelOf == bob :> hexb @@ carol :> hexc
MCMinters == {controller}
MCTtls == {0}
MCDurations == {2}
MCGraces == {1}
MCKeys == {k}
MCValues == {v}

=============================================================================
