------------------------------- MODULE Packages -------------------------------
(***************************************************************************)
(* The data of the hub: the requests its clients send, the responses it     *)
(* gives and the rows of its SQLite tables.  Texts are abstracted to        *)
(* members of small sets; a version is the rank of its text in the order    *)
(* SQLite sorts it by, which is the order `latest' is taken in.             *)
(***************************************************************************)
EXTENDS HttpStatus

CONSTANTS
    Names,          \* names of bits and templates
    Versions,       \* ranks of version texts
    Users,          \* user names
    Passwords,      \* passwords
    Payloads        \* package contents

ASSUME PackagesAssumption == Versions \subseteq Nat \ {0}

Tables == {"bits", "templates"}

\* No version in the path of a GET: the hub is asked for the latest one.
Latest == 0

\* The state of the JSON body of a POST, as the handlers tell them apart.
Forms == {"ok", "unparsable", "no_credentials", "missing_field", "invalid_field"}

Row == [table : Tables, name : Names, version : Versions, user : Users, payload : Payloads]

PublishRequest ==
    [kind : {"publish"}, table : Tables, name : Names, version : Versions,
     user : Users, password : Passwords, payload : Payloads, form : Forms]

\* /templates has no route without a version.
FetchRequest ==
    [kind : {"fetch"}, table : {"bits"}, name : Names, version : Versions \cup {Latest}]
        \cup [kind : {"fetch"}, table : {"templates"}, name : Names, version : Versions]

\* What the hub tells apart in a searched text: it is absent or empty, it has a
\* quote, which ends the literal it is put into, or neither.
SearchTexts == {"empty", "quoted", "plain"}

\* GET without a name; `names' are the names that contain a plain text.
SearchRequest ==
    [kind : {"search"}, table : Tables, names : SUBSET Names, text : SearchTexts]

RegisterRequest ==
    [kind : {"register"}, user : Users, password : Passwords, form : Forms]

\* What no handler of a resource serves: a path no endpoint matches or a method
\* the matched resource leaves to HttpResource ("unhandled"), the method OPTIONS
\* on a matched path, and a method the server does not know there ("unknown").
StrayRequest == [kind : {"stray"}, method : {"unhandled", "OPTIONS", "unknown"}]

Request == PublishRequest \cup FetchRequest \cup SearchRequest \cup RegisterRequest
               \cup StrayRequest

NoRequest == [kind |-> "none"]

\* The body of a response is the set of rows it shows.
Response == [status : Nat, rows : SUBSET Row]

NoResponse == [status |-> 0, rows |-> {}]

-------------------------------------------------------------------------------
\* The row a publication asks for.
RowOf(r) == [table |-> r.table, name |-> r.name, version |-> r.version,
             user |-> r.user, payload |-> r.payload]

\* Mutant of SameKey: the version is not compared.
SameName(q, r) == q.table = r.table /\ q.name = r.name

\* Two rows with the same PRIMARY KEY(name, version) of one table.
SameKey(q, r) == q.table = r.table /\ q.name = r.name /\ q.version = r.version

\* SELECT ... WHERE name = ... AND version = ...
RowsAt(rows, r) == {q \in rows : SameKey(q, r)}

\* SELECT ... WHERE name = ... ORDER BY version
NamedRows(rows, r) == {q \in rows : q.table = r.table /\ q.name = r.name}

\* Of the rows selected, the last in the order of their versions.
LastOf(found) == {q \in found : \A p \in found : p.version <= q.version}

\* The rows a GET with a name looks for.
FetchedRows(rows, r) ==
    IF r.version = Latest THEN LastOf(NamedRows(rows, r)) ELSE RowsAt(rows, r)

\* SELECT ... WHERE name LIKE ...: one row for each version.
FoundRows(rows, r) == {q \in rows : q.table = r.table /\ q.name \in r.names}

===============================================================================
