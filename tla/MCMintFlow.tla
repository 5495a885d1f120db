----------------------------- MODULE MCMintFlow -----------------------------
(***************************************************************************)
(* Three runs for one name, one of them typed in upper case: two of bob's,  *)
(* one of carol's.  Or one run, for a name with a dot.                      *)
(***************************************************************************)
EXTENDS MintFlow, TLC

CONSTANTS alice, bob, carol, registrar, controller, resolver,
          s, bob1, bob2, carol1

MCAccounts == {alice, bob, carol, registrar, controller, resolver}
MCNone == {}
MCHeirs == {bob, carol}

MCChars == {"a", "A", "b", "p", "."}
MCDot == "."
MCLowerCase == [c \in MCChars |-> IF c = "A" THEN "a" ELSE c]
MCComposed == <<>>
MCScript == [c \in MCChars \ {"."} |-> "Latin"]
MCPot == <<"p">>
MCName == <<"a", "b">>
MCDotted == <<"a", ".", "b">>

MCLabels == {MCPot, MCName, MCDotted, <<"a">>, <<"b">>}
MCNodes == {<<>>, <<MCPot>>, <<MCPot, MCName>>}
MCDottedNodes == {<<>>, <<MCPot>>, <<MCPot, MCDotted>>, <<MCPot, <<"b">>, <<"a">> >>}
MCPotNode == <<MCPot>>
MCTtls == {0}
MCDurations == {1}
MCGraces == {1}
MCNameLen == [l \in MCLabels |-> 3]
MCPrices == [premium |-> 4, high |-> 3, medium |-> 2, base |-> 1]
MCWindow == <<0, 4>>
MCSecrets == {s}
MCFunds == [x \in MCAccounts |-> IF x \in MCHeirs THEN 2 ELSE 0]
MCRuns == {bob1, bob2, carol1}
MCWho == [r \in MCRuns |-> IF r = carol1 THEN carol ELSE bob]
MCWanted == [r \in MCRuns |-> IF r = bob2 THEN <<"A", "b">> ELSE MCName]
MCOneRun == {bob1}
MCDottedWho == bob1 :> bob
MCDottedWanted == bob1 :> MCDotted

=============================================================================
