---------------------------- MODULE MCDeployment ----------------------------
(***************************************************************************)
(* The deployed contracts, small: one name of three chars, one buyer, one   *)
(* other person, at most two hashes to commit to.                           *)
(***************************************************************************)
EXTENDS Deployment

CONSTANTS alice, bob, carol, registrar, controller, reverser,
          pot, reverse, addr, abc, s

MCAccounts == {alice, bob, carol, registrar, controller, reverser}
MCSigners == {bob, carol}
MCGoverned == {alice, bob}
MCHeirs == {bob, carol}
MCOneHeir == {bob}
MCNone == {}
MCLabels == {pot, reverse, addr, abc}
MCNodes == {<<>>, <<pot>>, <<reverse>>, <<reverse, addr>>, <<pot, abc>>}
MCPotNode == <<pot>>
MCTtls == {0}
MCDurations == {1, 2}
MCGraces == {1}
MCAdmin == {alice}
MCTreasuries == {controller, reverser}
MCController == {controller}
MCNameLen == [l \in MCLabels |-> IF l = addr THEN 4 ELSE IF l = reverse THEN 7 ELSE 3]
MCPrices == [premium |-> 4, high |-> 3, medium |-> 2, base |-> 1]
MCPriceTables == {MCPrices, [MCPrices EXCEPT !.high = 4]}
MCFirstWindow == <<1, 2>>
MCOpenWindow == <<0, 2>>
MCShortWindow == <<0, 1>>
MCWindows == {MCFirstWindow, MCShortWindow}
MCSecrets == {s}
MCOnePayment == {3}
MCTopPayment == {4}
MCFewFunds == [x \in MCAccounts |-> IF x = bob THEN 6 ELSE IF x = carol THEN 3 ELSE 0]

=============================================================================
