----------------------------- MODULE MCMyNames -----------------------------
(***************************************************************************)
(* Two accounts that sign in in turn, two names that resolve to the first,  *)
(* two flows in flight; alice is the admin of the ReverseRegistrar.         *)
(***************************************************************************)
EXTENDS MyNames, TLC

CONSTANTS alice, bob, carol, resolver, reverser,
          pot, reverse, addr, labelx, labely, hexb, hexc, x, y

MCAccounts == {alice, bob, carol, resolver, reverser}
MCAlice == {alice}
MCNone == {}
MCTtls == {0}
MCUsers == {bob, carol}
MCAdmins == {alice}
MCDefaultResolvers == {resolver}
MCLabels == {pot, reverse, addr, labelx, labely, hexb, hexc}
MCNodes == {<<>>, <<reverse, addr>>, <<pot, labelx>>, <<pot, labely>>,
            <<reverse, addr, hexb>>, <<reverse, addr, hexc>>}
MCAddrReverseNode == <<reverse, addr>>
MCLabelOf == bob :> hexb @@ carol :> hexc
MCNames == {x, y}
MCNodeOfName == x :> <<pot, labelx>> @@ y :> <<pot, labely>>
MCMintable == bob :> {x, y} @@ carol :> {x}
MCForward == [n \in MCNodes |-> IF n \in {<<pot, labelx>>, <<pot, labely>>} THEN bob ELSE None]

=============================================================================
