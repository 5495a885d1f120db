---------------------------- MODULE MCPnsClient -----------------------------
(***************************************************************************)
(* A client of the small name service: carol has settled, bob acts, and can *)
(* point his nodes to a contract of his own or to an account without code.  *)
(***************************************************************************)
EXTENDS PnsClient, TLC

CONSTANTS alice, bob, carol, registrar, controller, resolver, reverser, rogue,
          reverse, addr, hexb, hexc, bobElsewhere, garbage, thrown

MCAccounts == {alice, bob, carol, registrar, controller, resolver, reverser, rogue}
MCSigners == {bob}
MCAddresses == {carol}
MCResolvers == {resolver, rogue}
MCNone == {}
MCPot == <<"p">>
MCAb == <<"a", "b">>
MCSquat == <<"cyrillic a", "b">>
MCLabels == {MCPot, MCAb, MCSquat, reverse, addr, hexb, hexc}
MCNodes == {<<>>, <<MCPot>>, <<reverse>>, <<reverse, addr>>, <<MCPot, MCAb>>, <<MCPot, MCSquat>>,
            <<reverse, addr, hexb>>, <<reverse, addr, hexc>>}
MCPotNode == <<MCPot>>
MCReverseNode == <<reverse>>
MCAddrReverseNode == <<reverse, addr>>
MCClaimants == {bob, carol}
MCLabelOf == bob :> hexb @@ carol :> hexc
MCMinters == {controller}
MCTtls == {0}
MCDurations == {1}
MCGraces == {1}

\* Latin, upper and lower case, a mark and what it composes to, two Cyrillic
\* letters that look Latin, and a character without width.
MCChars == {"a", "A", "b", "p", "mark", "accented", "cyrillic a", "cyrillic er", "zwj", "."}
MCDot == "."
MCLowerCase == [c \in MCChars |-> IF c = "A" THEN "a" ELSE c]
MCComposed == <<"a", "mark">> :> "accented"
MCScript == [c \in MCChars \ {"."} |->
               CASE c \in {"cyrillic a", "cyrillic er"} -> "Cyrillic"
                 [] c = "zwj"  -> "ZeroWidth"
                 [] c = "mark" -> "Other"
                 [] OTHER      -> "Latin"]
MCLooks == [c \in MCChars |->
              CASE c = "cyrillic a" -> "a" [] c = "cyrillic er" -> "p"
                [] c = "zwj" -> None [] OTHER -> c]

MCName == <<"a", "b", ".", "p">>
MCLookalike == <<"cyrillic a", "b", ".", "p">>
MCNameValues == {MCName, MCLookalike}
MCSpellings == MCNameValues \cup
    {<<"A", "b", ".", "p">>, <<"a", "mark", "b", ".", "p">>, <<"a", "zwj", "b", ".", "p">>,
     <<"a", "b", ".", "cyrillic er">>, <<"a", "b", ".">>, <<>>}
MCAccountOf == bob :> bob @@ carol :> carol @@ bobElsewhere :> bob @@ garbage :> None
MCOtherContracts == {rogue}

\* Script, Looks and Spellings are such that the rules of normalize.ts do what
\* they are for, which the proofs about the client take as a hypothesis.
ASSUME RulesSuffice == ReadersToldApart

=============================================================================
