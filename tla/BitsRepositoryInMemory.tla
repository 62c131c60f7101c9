------------------------ MODULE BitsRepositoryInMemory ------------------------
(***************************************************************************)
(* bits/BitsRepositoryInMemory.cpp: a std::map from names to lists of bits, *)
(* each kept sorted by the text of the version.                            *)
(***************************************************************************)
EXTENDS Texts, SequencesExt

NoBits == [name \in {} |-> <<>>]

CompareVersion(first, second) == TextLess(first.version, second.version)

BitExists(bits, name) == name \in DOMAIN bits

\* The list a name has, once add() has made sure of one.
Listed(bits, name) == IF BitExists(bits, name) THEN bits[name] ELSE <<>>

With(bits, name, list) ==
    [n \in DOMAIN bits \cup {name} |-> IF n = name THEN list ELSE bits[n]]

\* An order of the places of a list in which a bit comes before those it compares
\* less than, and bits that compare equal stay as they are.
Sorts(order, list) ==
    \A i, j \in 1 .. Len(list) : i < j =>
        LET first == list[order[i]]
            second == list[order[j]]
        IN  \/ CompareVersion(first, second)
            \/ order[i] < order[j] /\ ~CompareVersion(second, first)

\* list::sort(compareVersion), a stable sort.
Sorted(list) ==
    LET order == CHOOSE o \in Bijection(1 .. Len(list), 1 .. Len(list)) : Sorts(o, list)
    IN  [i \in 1 .. Len(list) |-> list[order[i]]]

\* Mutant of Add: the new bit stays at the end.
AddLast(bits, bit) == With(bits, bit.name, Append(Listed(bits, bit.name), bit))

\* push_back() and sort().
Add(bits, bit) == With(bits, bit.name, Sorted(Append(Listed(bits, bit.name), bit)))

\* Mutant of LatestBit: front() of the list.
FrontBit(bits, name) ==
    IF BitExists(bits, name) THEN {Head(bits[name])} ELSE {}

\* bitBy(name): back() of the list, as a set of at most one bit.
LatestBit(bits, name) ==
    IF BitExists(bits, name) THEN {Last(bits[name])} ELSE {}

\* bitBy(name, version): the loop keeps the last bit that has the version.
BitBy(bits, name, version) ==
    LET list == Listed(bits, name)
        found == {i \in 1 .. Len(list) : list[i].version = version}
    IN  {list[i] : i \in {k \in found : \A j \in found : j <= k}}

AllBits(bits) == UNION {ToSet(bits[name]) : name \in DOMAIN bits}

\* search(): the metadata of the front() of every name that holds the text.
Search(bits, text) ==
    {[name |-> name, author |-> Head(bits[name]).user_name] :
        name \in {n \in DOMAIN bits : HasPart(n, text)}}

===============================================================================
