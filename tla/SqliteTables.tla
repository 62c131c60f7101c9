----------------------------- MODULE SqliteTables -----------------------------
(***************************************************************************)
(* The tables of the database file over the releases of the hub.  A worker  *)
(* that starts creates the tables that are missing and appends the columns  *)
(* an older table lacks, first for bits, then for templates; it may die     *)
(* between any two statements.  Publications are then inserted by position  *)
(* and read by column name.  A column that was appended is NULL in the rows *)
(* that were there, and reading a NULL into a std::string kills the worker. *)
(***************************************************************************)
EXTENDS SequencesExt

CONSTANTS
    Names, Versions, Users, Payloads,
    Null,           \* SQL's NULL
    Publications,   \* what clients publish
    OldBits,        \* what was published in the layout of an older release
    MaxCrashes      \* bound on the worker's deaths by other causes

Bit == [name : Names, version : Versions, user : Users, payload : Payloads]

ASSUME SqliteTablesAssumption ==
    /\ Publications \subseteq Bit /\ OldBits \subseteq Bit
    /\ Null \notin Names \cup Versions \cup Users \cup Payloads
    /\ MaxCrashes \in Nat

Tables == {"bits", "templates"}

database_columns ==
    [bits      |-> <<"name", "version", "user_name", "payload">>,
     templates |-> <<"name", "version", "username", "payload">>]

VARIABLES
    columns,        \* of each table, in order; <<>> if there is no such table
    rows,           \* of each table; a row maps each column to its value
    worker,         \* "down", "serving", or the table that is being sanitised
    next_column,    \* next of database_columns to look for; 0 to create the table
    published,      \* history: the publications that were answered 200
    crashes

vars == <<columns, rows, worker, next_column, published, crashes>>

\* Mutant of Values: the user and the payload are swapped.
ValuesSwapped(b) == <<b.name, b.version, b.payload, b.user>>

\* The values a publication is inserted with, in the order of VALUES.
Values(b) == <<b.name, b.version, b.user, b.payload>>

\* The row that is inserted when the table has these columns.
InsertedRow(layout, b) ==
    [c \in ToSet(layout) |->
        Values(b)[CHOOSE i \in DOMAIN layout : layout[i] = c]]

\* A row as bitFromSqlRow() and templateFromSqlRow() read it.
BitOfRow(t, row) ==
    [name |-> row["name"], version |-> row["version"],
     user |-> row[database_columns[t][3]], payload |-> row["payload"]]

\* No table, or one with a key and some of the columns that followed.
Layouts(t) ==
    {<<>>, <<"name", "version">>, <<"name", "version", database_columns[t][3]>>,
     database_columns[t]}

HasNull(row) == \E c \in DOMAIN row : row[c] = Null

Cells == Names \cup Versions \cup Users \cup Payloads \cup {Null}

TypeOK ==
    /\ columns \in [bits : Layouts("bits"), templates : Layouts("templates")]
    /\ DOMAIN rows = Tables
    /\ \A t \in Tables : rows[t] \subseteq [ToSet(columns[t]) -> Cells]
    /\ worker \in Tables \cup {"down", "serving"}
    /\ next_column \in 0..4
    /\ published \subseteq Tables \X Publications
    /\ crashes \in 0..MaxCrashes

Init ==
    /\ columns \in [bits : Layouts("bits"), templates : Layouts("templates")]
    /\ rows = [t \in Tables |-> IF columns[t] = <<>> THEN {}
                                ELSE {InsertedRow(columns[t], b) : b \in OldBits}]
    /\ worker = "down"
    /\ next_column = 0
    /\ published = {}
    /\ crashes = 0

-------------------------------------------------------------------------------
(* startServiceServer(), one action for each statement.  CREATE and ALTER      *)
(* succeed here: the code drops their errors and would go on to serve tables   *)
(* that lack a column (SqlDatabaseSqlite3.cpp:38-51).                          *)

Start ==
    /\ worker = "down"
    /\ worker' = "bits"
    /\ next_column' = 0
    /\ UNCHANGED <<columns, rows, published, crashes>>

\* Mutant of CreateTable: a table that is there is created anew.
CreateTableAnew(t) ==
    /\ worker = t
    /\ next_column = 0
    /\ next_column' = 1
    /\ columns' = [columns EXCEPT ![t] = database_columns[t]]
    /\ rows' = [rows EXCEPT ![t] = {}]
    /\ UNCHANGED <<worker, published, crashes>>

\* CREATE TABLE IF NOT EXISTS.
CreateTable(t) ==
    /\ worker = t
    /\ next_column = 0
    /\ next_column' = 1
    /\ columns' = IF columns[t] = <<>>
                  THEN [columns EXCEPT ![t] = database_columns[t]] ELSE columns
    /\ UNCHANGED <<rows, worker, published, crashes>>

\* Mutant of NextColumn: the loop runs past the last column.
NextColumnPast(t) ==
    \/ /\ next_column <= 4
       /\ next_column' = next_column + 1
       /\ UNCHANGED worker
    \/ /\ next_column = 5
       /\ next_column' = 0
       /\ worker' = IF t = "bits" THEN "templates" ELSE "serving"

\* Mutant of NextColumn: the loop ends before the last column.
NextColumnShort(t) ==
    \/ /\ next_column < 3
       /\ next_column' = next_column + 1
       /\ UNCHANGED worker
    \/ /\ next_column = 3
       /\ next_column' = 0
       /\ worker' = IF t = "bits" THEN "templates" ELSE "serving"

\* The loop goes on to the next column, the next table, or the server.
NextColumn(t) ==
    \/ /\ next_column < 4
       /\ next_column' = next_column + 1
       /\ UNCHANGED worker
    \/ /\ next_column = 4
       /\ next_column' = 0
       /\ worker' = IF t = "bits" THEN "templates" ELSE "serving"

\* Mutant of SanitizeColumn: every column is found.
SanitizeColumnAssumed(t) ==
    /\ worker = t
    /\ next_column # 0
    /\ NextColumn(t)
    /\ UNCHANGED <<columns, rows, published, crashes>>

\* A row of a table that is given a column.
WithNull(row, c) == [d \in DOMAIN row \cup {c} |-> IF d = c THEN Null ELSE row[d]]

\* ALTER TABLE ... ADD COLUMN unless the table has it.
SanitizeColumn(t) ==
    /\ worker = t
    /\ next_column # 0
    /\ LET c == database_columns[t][next_column] IN
           IF c \in ToSet(columns[t]) THEN UNCHANGED <<columns, rows>>
           ELSE /\ columns' = [columns EXCEPT ![t] = Append(@, c)]
                /\ rows' = [rows EXCEPT ![t] = {WithNull(row, c) : row \in @}]
    /\ NextColumn(t)
    /\ UNCHANGED <<published, crashes>>

Crash ==
    /\ worker # "down"
    /\ crashes < MaxCrashes
    /\ crashes' = crashes + 1
    /\ worker' = "down"
    /\ UNCHANGED <<columns, rows, next_column, published>>

-------------------------------------------------------------------------------
(* Serving. *)

RowsAt(t, b) == {row \in rows[t] : row["name"] = b.name /\ row["version"] = b.version}

\* A publication finds no such version and inserts its row; SQLite refuses the
\* row when the table has another number of columns, and the error is dropped.
Publish(t, b) ==
    /\ worker = "serving"
    /\ RowsAt(t, b) = {}
    /\ rows' = IF Len(columns[t]) = Len(Values(b))
               THEN [rows EXCEPT ![t] = @ \cup {InsertedRow(columns[t], b)}] ELSE rows
    /\ published' = published \cup {<<t, b>>}
    /\ UNCHANGED <<columns, worker, next_column, crashes>>

\* A look-up comes to a row with a NULL: std::string is assigned a null pointer.
ReadNull ==
    /\ worker = "serving"
    /\ \E t \in Tables : \E row \in rows[t] : HasNull(row)
    /\ worker' = "down"
    /\ UNCHANGED <<columns, rows, next_column, published, crashes>>

Next ==
    \/ Start \/ Crash \/ ReadNull
    \/ \E t \in Tables :
           \/ CreateTable(t) \/ SanitizeColumn(t)
           \/ \E b \in Publications : Publish(t, b)

Spec == Init /\ [][Next]_vars

-------------------------------------------------------------------------------
\* Once the worker serves, whichever release left the file and wherever earlier
\* starts were cut short, INSERT's positions are the columns they are meant for.
ServedTablesAreWhole == worker = "serving" => columns = database_columns

\* What was answered 200 is read back by column name as it was published, however
\* often the worker is restarted and its tables are sanitised again.
PublishedReadsBack ==
    worker = "serving" =>
        \A e \in published :
            {BitOfRow(e[1], row) : row \in RowsAt(e[1], e[2])} = {e[2]}

\* No step, of a start or of a publication, loses a row or a cell of a row.
CellsAreKept ==
    [][ \A t \in Tables : \A row \in rows[t] : \E kept \in rows'[t] :
            \A c \in DOMAIN row : c \in DOMAIN kept /\ kept[c] = row[c] ]_vars

\* The rows of a table that was sanitised can be read.
SanitisedRowsAreReadable ==
    worker = "serving" => \A t \in Tables : \A row \in rows[t] : ~HasNull(row)

===============================================================================
