----------------------------- MODULE Normalize ------------------------------
(***************************************************************************)
(* packages/sdk-ts/src/normalize.ts and namehash.ts: which spellings of a   *)
(* name are accepted, what they are folded to, and the node that results.   *)
(*                                                                          *)
(* A spelling is a sequence of characters.  Of Unicode the model keeps what *)
(* the code looks at: the script of a character, its lower case, and the    *)
(* pairs that NFC composes.  A hash is modelled by what is hashed.          *)
(***************************************************************************)
EXTENDS Naturals, Sequences

CONSTANTS
    Chars, Dot,
    LowerCase,      \* character -> its lower case
    Composed,       \* <<base, mark>> -> the one character NFC makes of them
    Script          \* character -> its script, or why it is refused

Scripts == {"Latin", "Cyrillic", "Greek", "Armenian", "Hebrew", "Arabic"}

ASSUME NormalizeAssumption ==
    /\ Dot \in Chars
    /\ LowerCase \in [Chars -> Chars]
    /\ LowerCase[Dot] = Dot
    /\ DOMAIN Composed \subseteq Chars \X Chars
    /\ \A pair \in DOMAIN Composed : Composed[pair] \in Chars
    /\ Script \in [Chars \ {Dot} -> Scripts \cup {"Digit", "Control", "ZeroWidth", "Other"}]

\* name.normalize("NFC")
Nfc(spelling) ==
    LET composed[i \in 0 .. Len(spelling)] ==
            IF i = 0 THEN <<>>
            ELSE LET before == composed[i - 1]
                     pair == <<before[Len(before)], spelling[i]>>
                 IN  IF before # <<>> /\ pair \in DOMAIN Composed
                     THEN [before EXCEPT ![Len(before)] = Composed[pair]]
                     ELSE Append(before, spelling[i])
    IN  composed[Len(spelling)]

Folded(spelling) ==
    LET nfc == Nfc(spelling) IN [i \in DOMAIN nfc |-> LowerCase[nfc[i]]]

\* name.split(".")
Split(name) ==
    LET labels[i \in 0 .. Len(name)] ==
            IF i = 0 THEN << <<>> >>
            ELSE LET before == labels[i - 1]
                 IN  IF name[i] = Dot
                     THEN Append(before, <<>>)
                     ELSE [before EXCEPT ![Len(before)] = Append(@, name[i])]
    IN  labels[Len(name)]

ScriptsOf(label) == {Script[label[i]] : i \in DOMAIN label}

\* Mutant: the scripts of a label may be mixed.
AnyScripts(label) ==
    /\ label # <<>>
    /\ ScriptsOf(label) \cap {"Control", "ZeroWidth", "Other"} = {}

\* checkLabel
CheckLabel(label) ==
    /\ label # <<>>
    /\ ScriptsOf(label) \cap {"Control", "ZeroWidth", "Other"} = {}
    /\ \A s, t \in ScriptsOf(label) \ {"Digit"} : s = t

\* tryNormalize does not return null.
CanNormalize(spelling) ==
    LET labels == Split(Folded(spelling))
    IN  spelling # <<>> /\ \A i \in DOMAIN labels : CheckLabel(labels[i])

\* Mutant: the spelling is hashed as it is.
HashAsIs(spelling) ==
    LET labels == Split(spelling)
    IN  [i \in DOMAIN labels |-> labels[Len(labels) + 1 - i]]

\* namehash of the normalized spelling: its labels, from the last to the first.
Namehash(spelling) ==
    LET labels == Split(Folded(spelling))
    IN  [i \in DOMAIN labels |-> labels[Len(labels) + 1 - i]]

=============================================================================
