------------------------ MODULE BitsRepositoryInSqlite ------------------------
(***************************************************************************)
(* The statements of bits/BitsRepositoryInSqlite.cpp and                    *)
(* templates/TemplatesRepositoryInSqlite.cpp over a table with              *)
(* PRIMARY KEY(name, version), with the texts Packages takes as ranks.      *)
(***************************************************************************)
EXTENDS Texts

\* INSERT fails on a key that is there, and the error is dropped.
Add(rows, bit) ==
    IF \E row \in rows : row.name = bit.name /\ row.version = bit.version
    THEN rows ELSE rows \cup {bit}

\* Mutant of LatestBit: front() of the rows.
FirstBit(rows, name) ==
    LET named == {row \in rows : row.name = name}
    IN  {row \in named : \A other \in named : ~TextLess(other.version, row.version)}

\* SELECT ... WHERE name = ... ORDER BY version, and back() of the rows.
LatestBit(rows, name) ==
    LET named == {row \in rows : row.name = name}
    IN  {row \in named : \A other \in named : ~TextLess(row.version, other.version)}

BitBy(rows, name, version) == {row \in rows : row.name = name /\ row.version = version}

\* SELECT name, version, user_name ... WHERE name LIKE ...: one result a row. The
\* text goes into the statement as it is, so this is for texts without a quote.
Search(rows, text) ==
    {[name |-> row.name, author |-> row.user_name] :
        row \in {r \in rows : Like(r.name, text)}}

===============================================================================
