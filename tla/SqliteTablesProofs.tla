-------------------------- MODULE SqliteTablesProofs --------------------------
(***************************************************************************)
(* Proofs about SqliteTables: a worker that serves has whole tables, no     *)
(* step loses a cell, what was answered 200 reads back as published, and    *)
(* only old rows of a table without all columns cannot be read.             *)
(***************************************************************************)
EXTENDS SqliteTables, SequenceTheorems, TLAPS

-------------------------------------------------------------------------------
(* Columns. *)

LEMMA LayoutCells ==
    ASSUME NEW t \in Tables
    PROVE  /\ ToSet(<<>>) = {}
           /\ ToSet(<<"name", "version">>) = {"name", "version"}
           /\ ToSet(<<"name", "version", database_columns[t][3]>>)
                  = {"name", "version", database_columns[t][3]}
           /\ ToSet(database_columns[t])
                  = {"name", "version", database_columns[t][3], "payload"}
           /\ database_columns[t][1] = "name" /\ database_columns[t][2] = "version"
           /\ database_columns[t][4] = "payload"
           /\ database_columns[t] = <<"name", "version", database_columns[t][3], "payload">>
           /\ database_columns[t][3] \notin {"name", "version", "payload"}
BY DEF ToSet, database_columns, Tables

-------------------------------------------------------------------------------
(* A start leaves whole tables behind. *)

\* How far the start has come: the columns looked for so far are there, and the
\* tables that are done are whole.
Progress ==
    /\ columns \in [bits : Layouts("bits"), templates : Layouts("templates")]
    /\ worker \in Tables \cup {"down", "serving"}
    /\ next_column \in 0..4
    /\ worker \in Tables /\ next_column # 0 => columns[worker] # <<>>
    /\ worker \in Tables /\ next_column = 4 =>
           columns[worker] # <<"name", "version">>
    /\ worker \in {"templates", "serving"} =>
           columns["bits"] = database_columns["bits"]
    /\ worker = "serving" => columns["templates"] = database_columns["templates"]

LEMMA ProgressInit == Init => Progress
BY DEF Init, Progress, Tables

LEMMA AppendThird ==
    ASSUME NEW c1, NEW c2, NEW c3
    PROVE  Append(<<c1, c2>>, c3) = <<c1, c2, c3>>
<1> DEFINE S == {c1, c2, c3}
           s == <<c1, c2>>
           u == <<c1, c2, c3>>
<1>1. s \in Seq(S) /\ c3 \in S /\ u \in Seq(S) /\ Len(s) = 2 /\ Len(u) = 3
  OBVIOUS
<1>2. /\ Append(s, c3) \in Seq(S)
      /\ Len(Append(s, c3)) = 3
      /\ Append(s, c3)[1] = c1 /\ Append(s, c3)[2] = c2 /\ Append(s, c3)[3] = c3
  BY <1>1, AppendProperties
<1>3. u[1] = c1 /\ u[2] = c2 /\ u[3] = c3
  OBVIOUS
<1> HIDE DEF S, s, u
<1>4. \A i \in 1..Len(u) : Append(s, c3)[i] = u[i]
  BY <1>1, <1>2, <1>3
<1>5. Append(s, c3) = u
  BY <1>1, <1>2, <1>4, SeqEqual
<1> QED
  BY <1>5 DEF s, u

LEMMA AppendFourth ==
    ASSUME NEW c1, NEW c2, NEW c3, NEW c4
    PROVE  Append(<<c1, c2, c3>>, c4) = <<c1, c2, c3, c4>>
<1> DEFINE S == {c1, c2, c3, c4}
           s == <<c1, c2, c3>>
           u == <<c1, c2, c3, c4>>
<1>1. s \in Seq(S) /\ c4 \in S /\ u \in Seq(S) /\ Len(s) = 3 /\ Len(u) = 4
  OBVIOUS
<1>2. /\ Append(s, c4) \in Seq(S)
      /\ Len(Append(s, c4)) = 4
      /\ Append(s, c4)[1] = c1 /\ Append(s, c4)[2] = c2
      /\ Append(s, c4)[3] = c3 /\ Append(s, c4)[4] = c4
  BY <1>1, AppendProperties
<1>3. u[1] = c1 /\ u[2] = c2 /\ u[3] = c3 /\ u[4] = c4
  OBVIOUS
<1> HIDE DEF S, s, u
<1>4. \A i \in 1..Len(u) : Append(s, c4)[i] = u[i]
  BY <1>1, <1>2, <1>3
<1>5. Append(s, c4) = u
  BY <1>1, <1>2, <1>4, SeqEqual
<1> QED
  BY <1>5 DEF s, u

\* The layouts are told apart by their columns.
LEMMA LongLayouts ==
    ASSUME NEW t \in Tables
    PROVE  /\ database_columns[t] # <<>>
           /\ database_columns[t] # <<"name", "version">>
           /\ database_columns[t] # <<"name", "version", database_columns[t][3]>>
BY LayoutCells

\* A column the start looks for is one of the whole table's.
LEMMA ColumnKnown ==
    ASSUME NEW t \in Tables, NEW k \in 1..4
    PROVE  database_columns[t][k] \in ToSet(database_columns[t])
BY LayoutCells, k = 1 \/ k = 2 \/ k = 3 \/ k = 4

\* What one column does to the layout of a table.
LEMMA ColumnAdded ==
    ASSUME NEW t \in Tables, NEW layout \in Layouts(t), layout # <<>>,
           NEW k \in 1..4, database_columns[t][k] \notin ToSet(layout),
           k = 4 => layout # <<"name", "version">>
    PROVE  /\ Append(layout, database_columns[t][k]) \in Layouts(t) \ {<<>>}
           /\ k = 3 => Append(layout, database_columns[t][k]) # <<"name", "version">>
           /\ k = 4 => Append(layout, database_columns[t][k]) = database_columns[t]
<1>1. layout # database_columns[t]
  BY ColumnKnown
<1>2. k = 3 \/ k = 4
  <2>1. k \in {1, 2} => database_columns[t][k] \in {"name", "version"}
    BY LayoutCells
  <2>2. layout \in {<<"name", "version">>, <<"name", "version", database_columns[t][3]>>}
    BY <1>1 DEF Layouts
  <2>3. "name" \in ToSet(layout) /\ "version" \in ToSet(layout)
    BY <2>2, LayoutCells
  <2> QED
    BY <2>1, <2>3
<1>3. CASE layout = <<"name", "version">>
  <2>1. k = 3
    BY <1>2, <1>3
  <2>2. Append(layout, database_columns[t][3]) = <<"name", "version", database_columns[t][3]>>
    BY <1>3, AppendThird
  <2> QED
    BY <2>1, <2>2 DEF Layouts
<1>4. CASE layout = <<"name", "version", database_columns[t][3]>>
  <2>1. k = 4
    BY <1>2, <1>4, LayoutCells
  <2>2. Append(layout, "payload") = <<"name", "version", database_columns[t][3], "payload">>
    BY <1>4, AppendFourth
  <2>3. Append(layout, database_columns[t][k]) = database_columns[t]
    BY <2>1, <2>2, LayoutCells
  <2>4. database_columns[t] \in Layouts(t)
    BY DEF Layouts
  <2> QED
    BY <2>1, <2>3, <2>4, LongLayouts
<1> QED
  BY <1>1, <1>3, <1>4 DEF Layouts

\* What the last column leaves of a layout that has it.
LEMMA ColumnFound ==
    ASSUME NEW t \in Tables, NEW layout \in Layouts(t), layout # <<>>,
           NEW k \in 1..4, database_columns[t][k] \in ToSet(layout)
    PROVE  /\ k = 3 => layout # <<"name", "version">>
           /\ k = 4 => layout = database_columns[t]
<1>1. CASE layout = <<"name", "version">>
  BY <1>1, LayoutCells
<1>2. CASE layout = <<"name", "version", database_columns[t][3]>>
  <2>1. k # 4
    BY <1>2, LayoutCells
  <2>2. <<"name", "version", database_columns[t][3]>> # <<"name", "version">>
    OBVIOUS
  <2> QED
    BY <1>2, <2>1, <2>2
<1>3. CASE layout = database_columns[t]
  BY <1>3, LongLayouts
<1> QED
  BY <1>1, <1>2, <1>3 DEF Layouts

LEMMA ProgressNext == Progress /\ [Next]_vars => Progress'
<1> SUFFICES ASSUME Progress, [Next]_vars PROVE Progress'
  OBVIOUS
<1>1. CASE Start
  BY <1>1 DEF Start, Progress, Tables
<1>2. CASE Crash
  BY <1>2 DEF Crash, Progress, Tables
<1>3. CASE ReadNull
  BY <1>3 DEF ReadNull, Progress, Tables
<1>4. ASSUME NEW t \in Tables, CreateTable(t) PROVE Progress'
  BY <1>4 DEF CreateTable, Progress, Tables, Layouts, database_columns
<1>5. ASSUME NEW t \in Tables, SanitizeColumn(t) PROVE Progress'
  <2> DEFINE c == database_columns[t][next_column]
  <2>1. columns[t] \in Layouts(t) /\ columns[t] # <<>> /\ next_column \in 1..4
    BY <1>5 DEF SanitizeColumn, Progress, Tables
  <2>2. /\ columns'[t] \in Layouts(t) \ {<<>>}
        /\ next_column = 3 => columns'[t] # <<"name", "version">>
        /\ next_column = 4 => columns'[t] = database_columns[t]
        /\ \A u \in Tables \ {t} : columns'[u] = columns[u]
        /\ columns' \in [bits : Layouts("bits"), templates : Layouts("templates")]
    <3>1. CASE c \in ToSet(columns[t])
      BY <1>5, <2>1, <3>1, ColumnFound DEF SanitizeColumn, Progress
    <3>2. CASE c \notin ToSet(columns[t])
      <4>1. columns' = [columns EXCEPT ![t] = Append(@, c)]
        BY <1>5, <3>2 DEF SanitizeColumn
      <4>2. next_column = 4 => columns[t] # <<"name", "version">>
        BY <1>5 DEF SanitizeColumn, Progress
      <4>3. /\ Append(columns[t], c) \in Layouts(t) \ {<<>>}
            /\ next_column = 3 => Append(columns[t], c) # <<"name", "version">>
            /\ next_column = 4 => Append(columns[t], c) = database_columns[t]
        BY <2>1, <3>2, <4>2, ColumnAdded
      <4> QED
        BY <4>1, <4>3 DEF Progress, Tables
    <3> QED
      BY <3>1, <3>2
  <2>3. CASE next_column < 4
    BY <1>5, <2>1, <2>2, <2>3 DEF SanitizeColumn, NextColumn, Progress, Tables
  <2>4. CASE next_column = 4
    BY <1>5, <2>1, <2>2, <2>4 DEF SanitizeColumn, NextColumn, Progress, Tables
  <2> QED
    BY <2>1, <2>3, <2>4
<1>6. ASSUME NEW t \in Tables, NEW b \in Publications, Publish(t, b) PROVE Progress'
  BY <1>6 DEF Publish, Progress, Tables
<1>7. CASE UNCHANGED vars
  BY <1>7 DEF vars, Progress
<1> QED
  BY <1>1, <1>2, <1>3, <1>4, <1>5, <1>6, <1>7 DEF Next

LEMMA ProgressHolds == Spec => []Progress
BY ProgressInit, ProgressNext, PTL DEF Spec

\* Whichever release left the file and wherever earlier starts were cut short, a
\* worker that serves has tables with the columns INSERT's positions mean.
THEOREM TablesWhole == Spec => []ServedTablesAreWhole
<1>1. Progress => ServedTablesAreWhole
  <2> SUFFICES ASSUME Progress, worker = "serving" PROVE columns = database_columns
    BY DEF ServedTablesAreWhole
  <2> QED
    BY DEF Progress, database_columns
<1> QED
  BY <1>1, ProgressHolds, PTL

-------------------------------------------------------------------------------
(* Rows. *)

\* A row is inserted with its values under the columns of its layout.
LEMMA InsertedTyped ==
    ASSUME NEW t \in Tables, NEW layout \in Layouts(t), NEW b \in Bit
    PROVE  InsertedRow(layout, b) \in [ToSet(layout) -> Cells]
<1>1. DOMAIN layout \subseteq 1..4
  <2>1. /\ DOMAIN <<>> \subseteq 1..4
        /\ DOMAIN <<"name", "version">> \subseteq 1..4
        /\ DOMAIN <<"name", "version", database_columns[t][3]>> \subseteq 1..4
        /\ DOMAIN database_columns[t] \subseteq 1..4
    BY DEF database_columns, Tables
  <2> QED
    BY <2>1 DEF Layouts
<1>2. \A i \in 1..4 : Values(b)[i] \in Cells
  BY DEF Values, Cells, Bit
<1>3. ASSUME NEW c \in ToSet(layout)
      PROVE  (CHOOSE i \in DOMAIN layout : layout[i] = c) \in DOMAIN layout
  BY <1>3 DEF ToSet
<1> QED
  BY <1>1, <1>2, <1>3 DEF InsertedRow

\* In a whole table a row has its values under the columns they are read by.
LEMMA InsertedReadsBack ==
    ASSUME NEW t \in Tables, NEW b \in Bit
    PROVE  LET row == InsertedRow(database_columns[t], b) IN
               /\ row["name"] = b.name /\ row["version"] = b.version
               /\ BitOfRow(t, row) = b
<1> DEFINE layout == database_columns[t]
           row == InsertedRow(layout, b)
<1>1. DOMAIN layout = 1..4
  BY DEF database_columns, Tables
<1>2. \A i, j \in 1..4 : layout[i] = layout[j] => i = j
  BY DEF database_columns, Tables
<1>3. \A i \in 1..4 : layout[i] \in ToSet(layout)
  BY <1>1 DEF ToSet
<1> HIDE DEF layout
<1>4. ASSUME NEW i \in 1..4 PROVE row[layout[i]] = Values(b)[i]
  <2>1. (CHOOSE j \in DOMAIN layout : layout[j] = layout[i]) = i
    BY <1>1, <1>2
  <2> QED
    BY <1>3, <2>1 DEF InsertedRow
<1>5. /\ layout[1] = "name" /\ layout[2] = "version"
      /\ layout[3] = database_columns[t][3] /\ layout[4] = "payload"
  BY LayoutCells DEF layout
<1> HIDE DEF row
<1>6. /\ row["name"] = b.name /\ row["version"] = b.version
      /\ row[database_columns[t][3]] = b.user /\ row["payload"] = b.payload
  BY <1>4, <1>5 DEF Values
<1>7. BitOfRow(t, row) = b
  BY <1>6 DEF BitOfRow, Bit
<1> QED
  BY <1>6, <1>7 DEF row, layout

\* What is known of the rows: their columns, and that a publication answered 200
\* is the one row of its version in a whole table.
Stored(e) ==
    /\ columns[e[1]] = database_columns[e[1]]
    /\ RowsAt(e[1], e[2]) = {InsertedRow(database_columns[e[1]], e[2])}

RowsOK ==
    /\ DOMAIN rows = Tables
    /\ \A t \in Tables :
           /\ rows[t] \subseteq [ToSet(columns[t]) -> Cells]
           /\ columns[t] = <<>> => rows[t] = {}
    /\ published \subseteq Tables \X Publications
    /\ \A e \in published : Stored(e)

LEMMA RowsInit == Init => RowsOK
<1> SUFFICES ASSUME Init PROVE RowsOK
  OBVIOUS
<1>1. ASSUME NEW t \in Tables
      PROVE  /\ rows[t] \subseteq [ToSet(columns[t]) -> Cells]
             /\ columns[t] = <<>> => rows[t] = {}
  <2>1. columns[t] \in Layouts(t)
    BY DEF Init, Tables
  <2>2. ASSUME NEW b \in OldBits PROVE InsertedRow(columns[t], b) \in [ToSet(columns[t]) -> Cells]
    BY <2>1, InsertedTyped, SqliteTablesAssumption
  <2> QED
    BY <2>2 DEF Init
<1> QED
  BY <1>1 DEF Init, RowsOK

\* A step that leaves the tables and the publications alone.
LEMMA RowsUnchanged ==
    ASSUME RowsOK, UNCHANGED <<columns, rows, published>>
    PROVE  RowsOK'
BY DEF RowsOK, Stored, RowsAt

LEMMA CreateTableRows ==
    ASSUME Progress, RowsOK, NEW t \in Tables, CreateTable(t)
    PROVE  RowsOK'
<1>1. columns[t] = <<>> => rows[t] = {}
  BY DEF RowsOK
<1>2. \A u \in Tables : columns'[u] # columns[u] => rows[u] = {} /\ columns'[u] # <<>>
  BY <1>1, LongLayouts DEF CreateTable, Progress, Tables
<1>3. ASSUME NEW e \in published PROVE Stored(e)'
  <2>1. e[1] \in Tables /\ Stored(e)
    BY DEF RowsOK
  <2>2. rows[e[1]] # {}
    BY <2>1 DEF Stored, RowsAt
  <2> QED
    BY <1>2, <2>1, <2>2 DEF Stored, RowsAt, CreateTable
<1> QED
  BY <1>2, <1>3 DEF RowsOK, CreateTable

LEMMA SanitizeColumnRows ==
    ASSUME Progress, RowsOK, NEW t \in Tables, SanitizeColumn(t)
    PROVE  RowsOK'
<1> DEFINE c == database_columns[t][next_column]
<1>1. CASE c \in ToSet(columns[t])
  BY <1>1, RowsUnchanged DEF SanitizeColumn
<1>2. CASE c \notin ToSet(columns[t])
  <2>1. /\ columns' = [columns EXCEPT ![t] = Append(@, c)]
        /\ rows' = [rows EXCEPT ![t] = {WithNull(row, c) : row \in @}]
        /\ published' = published
    BY <1>2 DEF SanitizeColumn
  <2>2. columns[t] \in Layouts(t) /\ columns[t] # <<>> /\ next_column \in 1..4
    BY DEF SanitizeColumn, Progress, Tables
  <2>3. \A u \in Tables \ {t} : columns'[u] = columns[u] /\ rows'[u] = rows[u]
    BY <2>1
  <2>4. columns'[t] = Append(columns[t], c) /\ rows'[t] = {WithNull(row, c) : row \in rows[t]}
    BY <2>1 DEF RowsOK, Progress, Tables
  <2>5. ToSet(columns'[t]) = ToSet(columns[t]) \cup {c}
    <3> DEFINE D == {"name", "version", database_columns[t][3], "payload"}
    <3>1. columns[t] \in Seq(D) /\ c \in D
      <4>1. c \in D
        BY <2>2, ColumnKnown, LayoutCells
      <4>2. /\ <<"name", "version">> \in Seq(D)
            /\ <<"name", "version", database_columns[t][3]>> \in Seq(D)
            /\ <<"name", "version", database_columns[t][3], "payload">> \in Seq(D)
        OBVIOUS
      <4> QED
        BY <2>2, <4>1, <4>2, LayoutCells DEF Layouts
    <3> QED
      BY <2>4, <3>1, AppendProperties DEF ToSet
  <2>6. rows'[t] \subseteq [ToSet(columns'[t]) -> Cells]
    <3>1. ASSUME NEW row \in rows[t] PROVE WithNull(row, c) \in [ToSet(columns'[t]) -> Cells]
      <4>1. row \in [ToSet(columns[t]) -> Cells]
        BY <3>1 DEF RowsOK
      <4> QED
        BY <2>5, <4>1 DEF WithNull, Cells
    <3> QED
      BY <2>4, <3>1
  <2>7. columns'[t] # <<>>
    BY <2>5, LayoutCells
  <2>8. columns[t] # database_columns[t]
    BY <1>2, <2>2, ColumnKnown
  <2>9. ASSUME NEW e \in published PROVE Stored(e)'
    <3>1. e[1] \in Tables /\ Stored(e)
      BY DEF RowsOK
    <3>2. e[1] # t
      BY <2>8, <3>1 DEF Stored
    <3> QED
      BY <2>3, <3>1, <3>2 DEF Stored, RowsAt
  <2> QED
    BY <2>1, <2>3, <2>6, <2>7, <2>9 DEF RowsOK
<1> QED
  BY <1>1, <1>2

LEMMA PublishRows ==
    ASSUME Progress, RowsOK, NEW t \in Tables, NEW b \in Publications, Publish(t, b)
    PROVE  RowsOK'
<1> DEFINE row == InsertedRow(database_columns[t], b)
<1>1. columns = database_columns
  BY DEF Progress, Publish, database_columns
<1>2. b \in Bit
  BY SqliteTablesAssumption
<1>3. /\ rows' = [rows EXCEPT ![t] = @ \cup {row}]
      /\ published' = published \cup {<<t, b>>}
      /\ columns' = columns
  BY <1>1 DEF Publish, Values, database_columns, Tables
<1>4. row \in [ToSet(columns[t]) -> Cells] /\ columns[t] # <<>>
  BY <1>1, <1>2, InsertedTyped, LongLayouts DEF Layouts
<1>5. row["name"] = b.name /\ row["version"] = b.version
  BY <1>2, InsertedReadsBack
<1> HIDE DEF row
<1>6. rows'[t] = rows[t] \cup {row} /\ \A u \in Tables \ {t} : rows'[u] = rows[u]
  BY <1>3 DEF RowsOK
<1>7. RowsAt(t, b) = {}
  BY DEF Publish
<1>8. ASSUME NEW e \in published PROVE Stored(e)'
  <2>1. e[1] \in Tables /\ Stored(e)
    BY DEF RowsOK
  <2>2. CASE e[1] # t
    BY <1>3, <1>6, <2>1, <2>2 DEF Stored, RowsAt
  <2>3. CASE e[1] = t
    <3>1. row["name"] # e[2].name \/ row["version"] # e[2].version
      BY <1>5, <1>7, <2>1, <2>3 DEF Stored, RowsAt
    <3> QED
      BY <1>3, <1>6, <2>1, <2>3, <3>1 DEF Stored, RowsAt
  <2> QED
    BY <2>2, <2>3
<1>9. Stored(<<t, b>>)'
  BY <1>1, <1>3, <1>5, <1>6, <1>7 DEF Stored, RowsAt, row
<1> QED
  BY <1>3, <1>4, <1>6, <1>8, <1>9 DEF RowsOK

LEMMA RowsNext == Progress /\ RowsOK /\ [Next]_vars => RowsOK'
BY RowsUnchanged, CreateTableRows, SanitizeColumnRows, PublishRows
DEF Next, vars, Start, Crash, ReadNull

LEMMA RowsHold == Spec => [](Progress /\ RowsOK)
<1>1. Init => Progress /\ RowsOK
  BY ProgressInit, RowsInit
<1>2. (Progress /\ RowsOK) /\ [Next]_vars => (Progress /\ RowsOK)'
  BY ProgressNext, RowsNext
<1> QED
  BY <1>1, <1>2, PTL DEF Spec

\* The tables, the start and the publications keep their types: every row has a
\* cell for each column its table has by now.
THEOREM TypeCorrect == Spec => []TypeOK
<1> DEFINE Counted == crashes \in 0..MaxCrashes
<1>1. Init => Counted
  BY SqliteTablesAssumption DEF Init
<1>2. Counted /\ [Next]_vars => Counted'
  BY SqliteTablesAssumption
  DEF Next, vars, Start, Crash, ReadNull, CreateTable, SanitizeColumn, Publish
<1>3. Progress /\ RowsOK /\ Counted => TypeOK
  BY DEF Progress, RowsOK, TypeOK
<1> QED
  BY <1>1, <1>2, <1>3, RowsHold, PTL DEF Spec

\* What was answered 200 is read back as it was published, from a file of any
\* release and through any number of restarts.
THEOREM PublishedStays == Spec => []PublishedReadsBack
<1>1. RowsOK => PublishedReadsBack
  <2> SUFFICES ASSUME RowsOK, NEW e \in published
               PROVE  {BitOfRow(e[1], row) : row \in RowsAt(e[1], e[2])} = {e[2]}
    BY DEF PublishedReadsBack
  <2>1. e[1] \in Tables /\ e[2] \in Bit /\ Stored(e)
    BY SqliteTablesAssumption DEF RowsOK
  <2>2. BitOfRow(e[1], InsertedRow(database_columns[e[1]], e[2])) = e[2]
    BY <2>1, InsertedReadsBack
  <2> QED
    BY <2>1, <2>2 DEF Stored
<1> QED
  BY <1>1, RowsHold, PTL

\* No step loses a row or a cell of a row.
THEOREM NothingIsLost == Spec => CellsAreKept
<1> DEFINE Kept ==
        \A t \in Tables : \A row \in rows[t] : \E kept \in rows'[t] :
            \A c \in DOMAIN row : c \in DOMAIN kept /\ kept[c] = row[c]
<1>1. Progress /\ RowsOK /\ [Next]_vars => Kept
  <2> SUFFICES ASSUME RowsOK, [Next]_vars, NEW t \in Tables, NEW row \in rows[t]
               PROVE  \E kept \in rows'[t] :
                          \A c \in DOMAIN row : c \in DOMAIN kept /\ kept[c] = row[c]
    OBVIOUS
  <2>1. CASE row \in rows'[t]
    BY <2>1
  <2>2. ASSUME NEW u \in Tables, SanitizeColumn(u), row \notin rows'[t]
        PROVE  \E kept \in rows'[t] :
                   \A c \in DOMAIN row : c \in DOMAIN kept /\ kept[c] = row[c]
    <3> DEFINE d == database_columns[u][next_column]
    <3>1. /\ rows' = [rows EXCEPT ![u] = {WithNull(r, d) : r \in @}]
          /\ d \notin ToSet(columns[u])
      BY <2>2 DEF SanitizeColumn
    <3>2. u = t /\ rows'[t] = {WithNull(r, d) : r \in rows[t]}
      BY <2>2, <3>1 DEF RowsOK
    <3>3. d \notin DOMAIN row
      BY <3>1, <3>2 DEF RowsOK
    <3>4. \A c \in DOMAIN row : c \in DOMAIN WithNull(row, d) /\ WithNull(row, d)[c] = row[c]
      BY <3>3 DEF WithNull
    <3> QED
      BY <3>2, <3>4
  <2>3. ASSUME NEW u \in Tables, NEW b \in Publications, Publish(u, b) PROVE row \in rows'[t]
    BY <2>3 DEF Publish, RowsOK
  <2>4. ASSUME UNCHANGED rows PROVE row \in rows'[t]
    BY <2>4
  <2> QED
    BY <2>1, <2>2, <2>3, <2>4 DEF Next, vars, Start, Crash, ReadNull, CreateTable
<1> QED
  BY <1>1, RowsHold, PTL DEF Spec, CellsAreKept

-------------------------------------------------------------------------------
(* Reading old rows. *)

\* The file has rows in whole tables only: none that an older release left in a
\* table that lacks a column.
RowsInWholeTables ==
    \A t \in Tables : rows[t] = {} \/ columns[t] = database_columns[t]

NoNulls == \A t \in Tables : \A row \in rows[t] : ~HasNull(row)

LEMMA InsertedHasNoNull ==
    ASSUME NEW t \in Tables, NEW b \in Bit
    PROVE  ~HasNull(InsertedRow(database_columns[t], b))
<1> DEFINE layout == database_columns[t]
<1>1. DOMAIN layout = 1..4
  BY DEF database_columns, Tables
<1>2. \A i \in 1..4 : Values(b)[i] # Null
  BY SqliteTablesAssumption DEF Values, Bit
<1>3. ASSUME NEW c \in ToSet(layout)
      PROVE  (CHOOSE i \in DOMAIN layout : layout[i] = c) \in DOMAIN layout
  BY <1>3 DEF ToSet
<1> QED
  BY <1>1, <1>2, <1>3 DEF HasNull, InsertedRow

LEMMA NoNullsInit == Init /\ RowsInWholeTables => NoNulls
<1> SUFFICES ASSUME Init, RowsInWholeTables, NEW t \in Tables, NEW row \in rows[t]
             PROVE  ~HasNull(row)
  BY DEF NoNulls
<1>1. PICK b \in OldBits : row = InsertedRow(columns[t], b)
  BY DEF Init
<1>2. columns[t] = database_columns[t]
  BY DEF RowsInWholeTables
<1> QED
  BY <1>1, <1>2, InsertedHasNoNull, SqliteTablesAssumption

LEMMA NoNullsNext ==
    Progress /\ RowsOK /\ RowsInWholeTables /\ NoNulls /\ [Next]_vars
        => RowsInWholeTables' /\ NoNulls'
<1> SUFFICES ASSUME Progress, RowsOK, RowsInWholeTables, NoNulls, [Next]_vars
             PROVE  RowsInWholeTables' /\ NoNulls'
  OBVIOUS
<1>1. CASE UNCHANGED <<columns, rows>>
  BY <1>1 DEF RowsInWholeTables, NoNulls
<1>2. ASSUME NEW t \in Tables, CreateTable(t) PROVE RowsInWholeTables' /\ NoNulls'
  <2>1. \A u \in Tables : columns'[u] = columns[u] \/ columns[u] = <<>>
    BY <1>2 DEF CreateTable, Progress, Tables
  <2> QED
    BY <1>2, <2>1 DEF CreateTable, RowsOK, RowsInWholeTables, NoNulls
<1>3. ASSUME NEW t \in Tables, SanitizeColumn(t), ~UNCHANGED <<columns, rows>>
      PROVE  RowsInWholeTables' /\ NoNulls'
  <2> DEFINE c == database_columns[t][next_column]
  <2>1. /\ c \notin ToSet(columns[t])
        /\ columns' = [columns EXCEPT ![t] = Append(@, c)]
        /\ rows' = [rows EXCEPT ![t] = {WithNull(row, c) : row \in @}]
    BY <1>3 DEF SanitizeColumn
  <2>2. next_column \in 1..4
    BY <1>3 DEF SanitizeColumn, Progress
  <2>3. columns[t] # database_columns[t]
    BY <2>1, <2>2, ColumnKnown
  <2>4. rows[t] = {}
    BY <2>3 DEF RowsInWholeTables
  <2>5. \A u \in Tables : rows'[u] = rows[u] /\ (u # t => columns'[u] = columns[u])
    BY <2>1, <2>4 DEF RowsOK
  <2> QED
    BY <2>4, <2>5 DEF RowsInWholeTables, NoNulls
<1>4. ASSUME NEW t \in Tables, NEW b \in Publications, Publish(t, b)
      PROVE  RowsInWholeTables' /\ NoNulls'
  <2> DEFINE inserted == InsertedRow(database_columns[t], b)
  <2>1. columns = database_columns /\ columns' = columns
    BY <1>4 DEF Progress, Publish, database_columns
  <2>2. \A u \in Tables : rows'[u] \subseteq rows[u] \cup (IF u = t THEN {inserted} ELSE {})
    BY <1>4, <2>1 DEF Publish, RowsOK
  <2>3. ~HasNull(inserted)
    BY InsertedHasNoNull, SqliteTablesAssumption
  <2> HIDE DEF inserted
  <2> QED
    BY <2>1, <2>2, <2>3 DEF RowsInWholeTables, NoNulls
<1> QED
  BY <1>1, <1>2, <1>3, <1>4 DEF Next, vars, Start, Crash, ReadNull

\* Only the rows an older release left in a table without all columns are ever
\* unreadable: a file without such rows has none after any starts, crashes and
\* publications.
THEOREM OnlyOldRowsUnreadable == Spec /\ RowsInWholeTables => []SanitisedRowsAreReadable
<1>1. NoNulls => SanitisedRowsAreReadable
  BY DEF NoNulls, SanitisedRowsAreReadable
<1> QED
  BY <1>1, NoNullsInit, NoNullsNext, RowsHold, PTL DEF Spec

===============================================================================
