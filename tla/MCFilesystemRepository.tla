------------------------ MODULE MCFilesystemRepository ------------------------
(***************************************************************************)
(* Small instances of FilesystemRepository: what clients publish, and what  *)
(* an older release left behind.                                           *)
(***************************************************************************)
EXTENDS FilesystemRepository

CONSTANTS alice, bob, cest, fakeit, a, b, loose_b, zip_a, zip_b

\* Two texts of one content, and the text of an empty file.
DecodedTexts ==
    [p \in Payloads |-> CASE p = a -> zip_a [] p \in {b, loose_b} -> zip_b [] OTHER -> Nothing]

EncodedContents ==
    [c \in Contents |-> CASE c = zip_a -> a [] c = zip_b -> b
                          [] OTHER -> CHOOSE p \in Payloads \ {a, b, loose_b} : TRUE]

BitOf(name, version, user, payload) ==
    [name |-> name, version |-> version, user |-> user, payload |-> payload]

\* One name is new and may get a second author; the other is that of the older
\* release.
TwoAuthors ==
    {BitOf(cest, v, alice, p) : v \in Versions, p \in {a, loose_b}}
        \cup {BitOf(cest, 2, bob, b)} \cup {BitOf(fakeit, 2, bob, p) : p \in {a, b}}

OldRelease == {BitOf(fakeit, 1, bob, a)}

===============================================================================
