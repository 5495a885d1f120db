----------------------------- MODULE MCConsole -----------------------------
(***************************************************************************)
(* Two searches in flight and two runs, for two labels; the account may     *)
(* sign out and in again while they run.                                    *)
(***************************************************************************)
EXTENDS Console, TLC

CONSTANTS a, x, y, s1, s2

MCAccounts == {a}
MCLabels == {x, y}
MCSearches == {s1, s2}

MCSymmetry == Permutations(MCLabels) \cup Permutations(MCSearches)

=============================================================================
