--------------------------------- MODULE Texts ---------------------------------
(***************************************************************************)
(* The texts of names, versions, payloads and paths, as far as the hub      *)
(* looks into them: character classes, the order of texts, and the two ways *)
(* of finding one in another.                                              *)
(***************************************************************************)
EXTENDS Sequences, Integers, FiniteSets

Char(text, i) == SubSeq(text, i, i)

CharactersOf(text) == {Char(text, i) : i \in 1 .. Len(text)}

\* The characters the models use, in the order of their codes.
Characters ==
    "!%+-./0123456789=ABCDEFGHIJKLMNOPQRSTUVWXYZ\\_abcdefghijklmnopqrstuvwxyz"

Digits == CharactersOf("0123456789")

Capitals == CharactersOf("ABCDEFGHIJKLMNOPQRSTUVWXYZ")

Letters == Capitals \cup CharactersOf("abcdefghijklmnopqrstuvwxyz")

Alphanumeric == Letters \cup Digits

Code == [c \in CharactersOf(Characters) |->
            CHOOSE i \in 1 .. Len(Characters) : Char(Characters, i) = c]

From(text, i) == SubSeq(text, i, Len(text))

\* Every part of a text, the whole and the empty one among them.
Parts(text) == {SubSeq(text, i, j) : i \in 1 .. Len(text) + 1, j \in 0 .. Len(text)}

\* A text is a sequence of characters, and its parts are spelled as it is.
Spelled(text) ==
    /\ Len(text) \in Nat
    /\ \A i \in 1 .. Len(text) + 1 : \A j \in i - 1 .. Len(text) :
           /\ Len(SubSeq(text, i, j)) = j - i + 1
           /\ \A m \in 1 .. j - i + 1 : Char(SubSeq(text, i, j), m) = Char(text, i + m - 1)

SameSpelling(s, t) ==
    Len(s) = Len(t) /\ \A i \in 1 .. Len(s) : Char(s, i) = Char(t, i)

\* operator< of std::string, and SQLite's BINARY collation: the order of the
\* codes where the texts first differ, and a text before its continuations.
TextLess(s, t) ==
    \E n \in 0 .. Len(s) :
        /\ n < Len(t)
        /\ SubSeq(s, 1, n) = SubSeq(t, 1, n)
        /\ n < Len(s) => Code[Char(s, n + 1)] < Code[Char(t, n + 1)]

\* std::string::find
HasPart(text, part) ==
    \E k \in 0 .. Len(text) - Len(part) : SubSeq(text, k + 1, k + Len(part)) = part

\* The letter without its case.
Folded(c) ==
    IF c \in Capitals
    THEN Char(Characters, Code[c] + Code["a"] - Code["A"]) ELSE c

\* Mutant of Like: LIKE 'part%', for a part without wildcards.
LikeStart(text, part) ==
    /\ Len(part) <= Len(text)
    /\ \A i \in 1 .. Len(part) : Folded(Char(part, i)) = Folded(Char(text, i))

\* The places of '%' in the first i characters of a pattern.
Gaps(part, i) == {j \in 1 .. i : Char(part, j) = "%"}

\* text LIKE '%part%', for a part without a quote: '_' stands for any character,
\* '%' for any number of them, and letters have no case. `skipped' tells how much
\* of the text is passed over before the part and by each '%' in it.
Like(text, part) ==
    LET gaps(i) == Cardinality(Gaps(part, i))
        all == gaps(Len(part))
    IN  \E skipped \in [0 .. all -> 0 .. Len(text) - (Len(part) - all)] :
            /\ \A g \in 1 .. all : skipped[g - 1] <= skipped[g]
            /\ \A i \in 1 .. Len(part) :
                   \/ Char(part, i) \in {"%", "_"}
                   \/ Folded(Char(part, i))
                          = Folded(Char(text, skipped[gaps(i)] + i - gaps(i)))

===============================================================================
