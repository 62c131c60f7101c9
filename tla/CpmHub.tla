-------------------------------- MODULE CpmHub --------------------------------
(***************************************************************************)
(* The hub as it runs: a supervisor that forks one worker at a time, the    *)
(* worker's single-threaded server loop, the resources and services it      *)
(* dispatches to, the SQLite tables, the in-memory users, the one           *)
(* HttpClient that serves every call to the authentication service, and     *)
(* the KPI call made before a response leaves.  Clients, the authentication *)
(* service and InfluxDB are the environment.                               *)
(*                                                                         *)
(* A step of the worker ends where the code enters an event loop: the       *)
(* server's own mg_mgr_poll or the polling loop of an HttpClient.           *)
(***************************************************************************)
EXTENDS Packages, FiniteSets

CONSTANTS
    Exchanges,          \* a request and its response, on a connection of a client
    Requests,           \* the requests the clients may send
    Authenticator,      \* "null", "access_file" or "cpm_hub"
    InitialAccounts,    \* accounts the authentication service starts with
    AuthStatuses,       \* status codes the authentication service uses; a 204 in a
                        \* chunk is no different from one in a reply
    AuthHangsUp,        \* the authentication service may close unanswered
    KpiInInfluxDb,      \* KPIs go to InfluxDB rather than nowhere
    SqlFails,           \* SQL statements may fail
    MaxCrashes          \* bound on the worker's crashes

ASSUME CpmHubAssumption ==
    /\ Requests \subseteq Request
    /\ Authenticator \in {"null", "access_file", "cpm_hub"}
    /\ InitialAccounts \subseteq Users \X Passwords
    /\ OK \in AuthStatuses /\ AuthStatuses \subseteq Nat
    /\ AuthHangsUp \in BOOLEAN /\ KpiInInfluxDb \in BOOLEAN /\ SqlFails \in BOOLEAN
    /\ MaxCrashes \in Nat

VARIABLES
    database,           \* rows of the tables bits and templates, on disk
    users,              \* UsersRepositoryInMemory
    worker,             \* what the worker process is doing
    ready,              \* connections this round of mg_mgr_poll still has to serve
    phase,              \* of each exchange
    request,            \* of each exchange
    response,           \* of each exchange
    waiting,            \* exchanges whose client still waits
    auth_pending,       \* the HttpClient cpm_hub_auth_client
    auth_response,
    auth_link,
    accounts,           \* of the authentication service
    crashes             \* how often the worker died

Auth == INSTANCE HttpClient WITH
    Statuses <- AuthStatuses, PeerHangsUp <- AuthHangsUp,
    request_pending <- auth_pending, response <- auth_response, link <- auth_link

authVars == <<auth_pending, auth_response, auth_link>>
exchangeVars == <<phase, request, response, waiting>>
vars == <<database, users, worker, ready, phase, request, response, waiting,
          auth_pending, auth_response, auth_link, accounts, crashes>>

Workers == {"down", "polling", "authenticating", "registering", "recording"}
Phases == {"unused", "received", "serving", "buffered", "answered", "lost"}

TypeOK ==
    /\ database \subseteq Row
    /\ users \subseteq Users
    /\ worker \in Workers
    /\ ready \subseteq Exchanges
    /\ phase \in [Exchanges -> Phases]
    /\ request \in [Exchanges -> Requests \cup {NoRequest}]
    /\ response \in [Exchanges -> Response]
    /\ waiting \subseteq Exchanges
    /\ Auth!ClientTypeOK
    /\ accounts \subseteq Users \X Passwords
    /\ crashes \in 0..MaxCrashes

Init ==
    /\ database = {}
    /\ users = {}
    /\ worker = "down"
    /\ ready = {}
    /\ phase = [x \in Exchanges |-> "unused"]
    /\ request = [x \in Exchanges |-> NoRequest]
    /\ response = [x \in Exchanges |-> NoResponse]
    /\ waiting = {}
    /\ Auth!ClientInit
    /\ accounts = InitialAccounts
    /\ crashes = 0

-------------------------------------------------------------------------------
(* The supervisor and the worker's life. *)

\* Mutant of Fork: the tables are created anew at every start.
ForkRecreatesTables ==
    /\ worker = "down"
    /\ worker' = "polling"
    /\ users' = {} /\ database' = {}
    /\ auth_pending' = FALSE /\ auth_response' = NOT_FOUND /\ auth_link' = "none"
    /\ UNCHANGED <<ready, exchangeVars, accounts, crashes>>

\* Mutant of Fork: the client's first response has no status code.
ForkBlankClient ==
    /\ worker = "down"
    /\ worker' = "polling"
    /\ users' = {}
    /\ auth_pending' = FALSE /\ auth_response' = 0 /\ auth_link' = "none"
    /\ UNCHANGED <<database, ready, exchangeVars, accounts, crashes>>

\* startCpmHub() forks; the child inherits the parent's untouched HttpClient,
\* builds its services over the database file and starts to serve.  A start that
\* does not get that far leaves the worker down: Supervisor has those.
Fork ==
    /\ worker = "down"
    /\ worker' = "polling"
    /\ users' = {}
    /\ auth_pending' = FALSE /\ auth_response' = NOT_FOUND /\ auth_link' = "none"
    /\ UNCHANGED <<database, ready, exchangeVars, accounts, crashes>>

Outstanding == {x \in Exchanges : phase[x] \in {"received", "serving", "buffered"}}

\* The worker dies anywhere in its loop; its sockets close with it.
Crash ==
    /\ worker # "down"
    /\ crashes < MaxCrashes
    /\ crashes' = crashes + 1
    /\ worker' = "down"
    /\ ready' = {}
    /\ phase' = [x \in Exchanges |-> IF x \in Outstanding THEN "lost" ELSE phase[x]]
    /\ waiting' = waiting \ Outstanding
    /\ UNCHANGED <<database, users, request, response, authVars, accounts>>

-------------------------------------------------------------------------------
(* The clients. *)

SendRequest(x, r) ==
    /\ worker # "down"
    /\ phase[x] = "unused"
    /\ phase' = [phase EXCEPT ![x] = "received"]
    /\ request' = [request EXCEPT ![x] = r]
    /\ waiting' = waiting \cup {x}
    /\ UNCHANGED <<database, users, worker, ready, response, authVars, accounts, crashes>>

\* A client stops waiting; its request stays in the socket or in service.
GiveUp(x) ==
    /\ x \in waiting \cap Outstanding
    /\ waiting' = waiting \ {x}
    /\ UNCHANGED <<database, users, worker, ready, phase, request, response, authVars,
                   accounts, crashes>>

-------------------------------------------------------------------------------
(* Pieces of the handlers. *)

\* What a SELECT returns: SqlDatabaseSqlite3::select drops the error, and with
\* it the rows that were not delivered.
Selected(found) == IF SqlFails THEN SUBSET found ELSE {found}

\* Mutant of Insert: INSERT OR REPLACE.
InsertOrReplace(row) ==
    \/ database' = (database \ RowsAt(database, row)) \cup {row}
    \/ SqlFails /\ UNCHANGED database

\* INSERT, refused on a taken PRIMARY KEY; insert() drops any error.
Insert(row) ==
    \/ /\ RowsAt(database, row) = {}
       /\ database' = database \cup {row}
    \/ /\ RowsAt(database, row) # {} \/ SqlFails
       /\ UNCHANGED database

\* serveRequest() after the dispatch: the response is put in the connection's
\* send buffer, and the KPI call comes before the loop can flush it.
Respond(x, status, shown) ==
    /\ phase' = [phase EXCEPT ![x] = "buffered"]
    /\ response' = [response EXCEPT ![x] = [status |-> status, rows |-> shown]]
    /\ worker' = IF KpiInInfluxDb THEN "recording" ELSE "polling"
    /\ UNCHANGED <<request, waiting>>

\* A call through cpm_hub_auth_client begins and the worker waits in its loop.
CallAuth(x, purpose) ==
    /\ Auth!Call
    /\ phase' = [phase EXCEPT ![x] = "serving"]
    /\ worker' = purpose
    /\ UNCHANGED <<request, response, waiting>>

\* Mutant of StoreRow: the key is not looked up first.
StoreRowUnchecked(x) ==
    /\ Insert(RowOf(request[x]))
    /\ Respond(x, OK, {})

\* The end of both publishing handlers: look the key up, then insert the row.
StoreRow(x) ==
    \E found \in Selected(RowsAt(database, request[x])) :
        \/ /\ found # {}
           /\ Respond(x, CONFLICT, {})
           /\ UNCHANGED database
        \/ /\ found = {}
           /\ Insert(RowOf(request[x]))
           /\ Respond(x, OK, {})

\* What follows accepted credentials.  BitsHttpResource reads and validates the
\* fields of a bit only now; TemplatesHttpResource has done so before.
Authorised(x) ==
    \/ /\ request[x].form = "ok"
       /\ StoreRow(x)
    \/ /\ request[x].form = "missing_field"
       /\ Respond(x, INTERNAL_SERVER_ERROR, {})
       /\ UNCHANGED database
    \/ /\ request[x].form = "invalid_field"
       /\ Respond(x, BAD_REQUEST, {})
       /\ UNCHANGED database

\* validCredentials() of the configured Authenticator: anyone is welcome, ...
NullAuthenticator(x) ==
    /\ Authenticator = "null"
    /\ Authorised(x)
    /\ UNCHANGED authVars

\* ... or nobody is, the access file having keys and no passwords, ...
AccessFileAuthenticator(x) ==
    /\ Authenticator = "access_file"
    /\ Respond(x, UNAUTHORIZED, {})
    /\ UNCHANGED <<database, authVars>>

\* ... or the authentication service is asked.
CpmHubAuthenticator(x) ==
    /\ Authenticator = "cpm_hub"
    /\ CallAuth(x, "authenticating")
    /\ UNCHANGED database

ValidateCredentials(x) ==
    NullAuthenticator(x) \/ AccessFileAuthenticator(x) \/ CpmHubAuthenticator(x)

-------------------------------------------------------------------------------
(* The server loop. *)

\* Mutant of PollRound: the loop never asks for writable sockets.
PollRoundReadsOnly ==
    /\ worker = "polling"
    /\ ready = {}
    /\ ready' = {x \in Exchanges : phase[x] = "received"}
    /\ UNCHANGED <<database, users, worker, exchangeVars, authVars, accounts, crashes>>

\* A round of mg_mgr_poll starts with the sockets select() reports: those with
\* a request to read and those with a response to write.
PollRound ==
    /\ worker = "polling"
    /\ ready = {}
    /\ ready' = {x \in Exchanges : phase[x] \in {"received", "buffered"}}
    /\ UNCHANGED <<database, users, worker, exchangeVars, authVars, accounts, crashes>>

\* The loop comes to a connection with a request of the given kind.
Dispatch(x, kind) ==
    /\ worker = "polling"
    /\ x \in ready
    /\ phase[x] = "received"
    /\ request[x].kind = kind
    /\ ready' = ready \ {x}
    /\ UNCHANGED <<accounts, crashes>>

\* The response leaves, or is dropped with a connection the client closed.
Flush(x) ==
    /\ worker = "polling"
    /\ x \in ready
    /\ phase[x] = "buffered"
    /\ ready' = ready \ {x}
    /\ phase' = [phase EXCEPT ![x] = IF x \in waiting THEN "answered" ELSE "lost"]
    /\ waiting' = waiting \ {x}
    /\ UNCHANGED <<database, users, worker, request, response, authVars, accounts, crashes>>

\* The KPI call of logRequest() returned, with whatever outcome.
KpiRecorded ==
    /\ worker = "recording"
    /\ worker' = "polling"
    /\ UNCHANGED <<database, users, ready, exchangeVars, authVars, accounts, crashes>>

-------------------------------------------------------------------------------
(* BitsHttpResource and TemplatesHttpResource. *)

\* post() of /bits: the credentials first, the other fields after them.
PostBit(x) ==
    /\ Dispatch(x, "publish")
    /\ request[x].table = "bits"
    /\ \/ /\ request[x].form \in {"unparsable", "no_credentials"}
          /\ Respond(x, INTERNAL_SERVER_ERROR, {})
          /\ UNCHANGED <<database, authVars>>
       \/ /\ request[x].form \in {"ok", "missing_field", "invalid_field"}
          /\ ValidateCredentials(x)
    /\ UNCHANGED users

\* post() of /templates: the contract first, the credentials after it.
PostTemplate(x) ==
    /\ Dispatch(x, "publish")
    /\ request[x].table = "templates"
    /\ \/ /\ request[x].form = "unparsable"
          /\ Respond(x, INTERNAL_SERVER_ERROR, {})
          /\ UNCHANGED <<database, authVars>>
       \/ /\ request[x].form \in {"no_credentials", "missing_field", "invalid_field"}
          /\ Respond(x, BAD_REQUEST, {})
          /\ UNCHANGED <<database, authVars>>
       \/ /\ request[x].form = "ok"
          /\ ValidateCredentials(x)
    /\ UNCHANGED users

\* Mutant of CredentialsChecked: anything but 401 counts as accepted.
CredentialsAssumed(x) ==
    /\ worker = "authenticating"
    /\ phase[x] = "serving"
    /\ ~auth_pending
    /\ \/ /\ auth_response # UNAUTHORIZED
          /\ Authorised(x)
       \/ /\ auth_response = UNAUTHORIZED
          /\ Respond(x, UNAUTHORIZED, {})
          /\ UNCHANGED database
    /\ UNCHANGED <<users, ready, authVars, accounts, crashes>>

\* validCredentials() returns: the client's response, whoever it was for,
\* decides.
CredentialsChecked(x) ==
    /\ worker = "authenticating"
    /\ phase[x] = "serving"
    /\ ~auth_pending
    /\ \/ /\ auth_response = OK
          /\ Authorised(x)
       \/ /\ auth_response # OK
          /\ Respond(x, UNAUTHORIZED, {})
          /\ UNCHANGED database
    /\ UNCHANGED <<users, ready, authVars, accounts, crashes>>

ShowIfAny(x, found) == Respond(x, IF found = {} THEN NOT_FOUND ELSE OK, found)

\* get() of /bits with a name.  A SELECT that fails half-way leaves an older
\* version as the last row.
GetBit(x) ==
    /\ Dispatch(x, "fetch")
    /\ request[x].table = "bits"
    /\ \/ /\ request[x].version = Latest
          /\ \E found \in Selected(NamedRows(database, request[x])) :
                 ShowIfAny(x, LastOf(found))
       \/ /\ request[x].version # Latest
          /\ \E found \in Selected(RowsAt(database, request[x])) : ShowIfAny(x, found)
    /\ UNCHANGED <<database, users, authVars>>

\* A search whose text has a quote: what follows it is SQL, and sqlite3_exec runs
\* every statement of what it is given.
Quoted(x) == request[x].kind = "search" /\ request[x].text = "quoted"

\* get() of /bits without a name.  Neither the rows nor the answer of a quoted
\* search are the hub's choice.
SearchForBit(x) ==
    /\ Dispatch(x, "search")
    /\ request[x].table = "bits"
    /\ \/ /\ request[x].text = "empty"
          /\ Respond(x, BAD_REQUEST, {})
          /\ UNCHANGED database
       \/ /\ request[x].text = "plain"
          /\ \E found \in Selected(FoundRows(database, request[x])) : Respond(x, OK, found)
          /\ UNCHANGED database
       \/ /\ Quoted(x)
          /\ database' \in SUBSET Row
          /\ \E shown \in SUBSET Row : Respond(x, OK, shown)
    /\ UNCHANGED <<users, authVars>>

\* get() of /templates, with a name and a version or with neither.
GetTemplate(x) ==
    /\ \/ /\ Dispatch(x, "fetch")
          /\ request[x].table = "templates"
          /\ \E found \in Selected(RowsAt(database, request[x])) : ShowIfAny(x, found)
       \/ /\ Dispatch(x, "search")
          /\ request[x].table = "templates"
          /\ Respond(x, BAD_REQUEST, {})
    /\ UNCHANGED <<database, users, authVars>>

\* What dispatchRequest() and HttpResource answer without a handler's help.
AnswerStray(x) ==
    /\ Dispatch(x, "stray")
    /\ \/ request[x].method = "unhandled" /\ Respond(x, NOT_FOUND, {})
       \/ request[x].method = "OPTIONS" /\ Respond(x, NO_CONTENT, {})
       \/ request[x].method = "unknown" /\ Respond(x, BAD_REQUEST, {})
    /\ UNCHANGED <<database, users, authVars>>

-------------------------------------------------------------------------------
(* UsersHttpResource and UsersService. *)

\* Mutant of AddUser: the user is not recorded.
AddUserForgotten(x) ==
    /\ UNCHANGED users
    /\ Respond(x, OK, {})

\* addUser() has returned: UsersService records the user, whatever the
\* authentication service said.
AddUser(x) ==
    /\ users' = users \cup {request[x].user}
    /\ Respond(x, OK, {})

\* post() of /users and registerUser() up to the call of addUser().
PostUser(x) ==
    /\ Dispatch(x, "register")
    /\ \/ /\ request[x].form = "unparsable"
          /\ Respond(x, INTERNAL_SERVER_ERROR, {})
          /\ UNCHANGED <<users, authVars>>
       \/ /\ request[x].form \in {"no_credentials", "missing_field"}
          /\ Respond(x, BAD_REQUEST, {})
          /\ UNCHANGED <<users, authVars>>
       \/ /\ request[x].form \in {"ok", "invalid_field"}
          /\ \/ /\ request[x].user \in users
                /\ Respond(x, CONFLICT, {})
                /\ UNCHANGED <<users, authVars>>
             \/ /\ request[x].user \notin users
                /\ \/ /\ Authenticator = "cpm_hub"
                      /\ CallAuth(x, "registering")
                      /\ UNCHANGED users
                   \/ /\ Authenticator # "cpm_hub"
                      /\ AddUser(x)
                      /\ UNCHANGED authVars
    /\ UNCHANGED database

UserRegistered(x) ==
    /\ worker = "registering"
    /\ phase[x] = "serving"
    /\ ~auth_pending
    /\ AddUser(x)
    /\ UNCHANGED <<database, ready, authVars, accounts, crashes>>

-------------------------------------------------------------------------------
(* The authentication service, behind the HttpClient's events. *)

hubVars == <<database, users, worker, ready, exchangeVars, crashes>>

AuthConnectFails == Auth!ConnectFailed /\ UNCHANGED <<hubVars, accounts>>
AuthConnects == Auth!Connected /\ UNCHANGED <<hubVars, accounts>>

\* POST /api/auth is answered 200 for the credentials of an account only, and
\* may be refused even then.
AuthAnswers(x) ==
    /\ worker = "authenticating"
    /\ phase[x] = "serving"
    /\ \E status \in AuthStatuses :
           /\ status = OK => <<request[x].user, request[x].password>> \in accounts
           /\ Auth!Replied(status)
    /\ UNCHANGED <<hubVars, accounts>>

\* POST /api/users opens an account for a user name that has none.
OpenAccount(x) ==
    /\ worker = "registering"
    /\ phase[x] = "serving"
    /\ \A password \in Passwords : <<request[x].user, password>> \notin accounts
    /\ accounts' = accounts \cup {<<request[x].user, request[x].password>>}

\* POST /api/users is answered 200 if the account was opened, and may be refused.
AuthRegisters(x) ==
    /\ worker = "registering"
    /\ phase[x] = "serving"
    /\ \/ OpenAccount(x) /\ Auth!Replied(OK)
       \/ /\ \E status \in AuthStatuses \ {OK} : Auth!Replied(status)
          /\ UNCHANGED accounts
    /\ UNCHANGED hubVars

\* The service closes unanswered, before or after it did what it was asked.
AuthCloses ==
    /\ Auth!Closed
    /\ \/ UNCHANGED accounts
       \/ \E x \in Exchanges : OpenAccount(x)
    /\ UNCHANGED hubVars

-------------------------------------------------------------------------------
AuthStep ==
    \/ AuthConnectFails \/ AuthConnects \/ AuthCloses
    \/ \E x \in Exchanges : AuthAnswers(x) \/ AuthRegisters(x)

WorkerStep ==
    \/ PollRound
    \/ \E x \in Exchanges :
           \/ Flush(x)
           \/ PostBit(x) \/ PostTemplate(x) \/ CredentialsChecked(x)
           \/ GetBit(x) \/ SearchForBit(x) \/ GetTemplate(x) \/ AnswerStray(x)
           \/ PostUser(x) \/ UserRegistered(x)

ClientStep == \E x \in Exchanges : GiveUp(x) \/ \E r \in Requests : SendRequest(x, r)

Next == Fork \/ Crash \/ ClientStep \/ WorkerStep \/ KpiRecorded \/ AuthStep

\* The worker's loop runs on; the authentication service and InfluxDB settle every
\* call, which the code relies on: it has no timeouts.  Nothing is assumed of Fork:
\* whether a worker is replaced is Supervisor's question.
Fairness ==
    /\ WF_vars(WorkerStep)
    /\ WF_vars(AuthStep)
    /\ WF_vars(KpiRecorded)

Spec == Init /\ [][Next]_vars
FairSpec == Spec /\ Fairness

-------------------------------------------------------------------------------
(* What the hub must guarantee. *)

\* No client searches for a text with a quote.  The hub cannot answer for what
\* such a search does, and what it promises about its rows rests on this.
PlainSearches == \A r \in Requests : r.kind = "search" => r.text # "quoted"

\* The hub has told, or is about to tell, the client of x that its publication
\* succeeded.
Acked(x) == request[x].kind = "publish" /\ response[x].status = OK

\* A publication that was acknowledged is stored as it was sent, from the moment
\* the answer is decided and through any number of worker restarts.
AckedIsStored == \A x \in Exchanges : Acked(x) => RowOf(request[x]) \in database

\* Of all the publications of one version of one package, whoever sends them and
\* however often they are retried, at most one is acknowledged.
AtMostOneAck ==
    \A x, y \in Exchanges :
        /\ x # y /\ Acked(x) /\ Acked(y)
        => ~SameKey(RowOf(request[x]), RowOf(request[y]))

\* A client told 409 finds that very version of the package published: the
\* conflict is never an artefact of another name, version or table.
ConflictMeansStored ==
    \A x \in Exchanges :
        request[x].kind = "publish" /\ response[x].status = CONFLICT
        => \E q \in database :
               <<q.table, q.name, q.version>>
                   = <<request[x].table, request[x].name, request[x].version>>

\* What a client has been shown stays published: rows in an answer are rows of
\* the database, also after the worker has been restarted.
ShownIsStored == \A x \in Exchanges : response[x].rows \subseteq database

\* Every stored row was published by an exchange whose user and password belong
\* to an account, when the authentication service answers every call.
StoredIsVerified ==
    \A q \in database : \E x \in Exchanges :
        /\ request[x].kind = "publish"
        /\ RowOf(request[x]) = q
        /\ <<request[x].user, request[x].password>> \in accounts

\* Each user name registers at most once in the life of a worker.
AtMostOneRegistration ==
    crashes = 0 =>
        \A x, y \in Exchanges :
            /\ x # y
            /\ request[x].kind = "register" /\ response[x].status = OK
            /\ request[y].kind = "register" /\ response[y].status = OK
            => request[x].user # request[y].user

\* The worker answers a search whose text has a quote.
QuotedStep ==
    \E x \in Exchanges : Quoted(x) /\ phase[x] = "received" /\ phase'[x] = "buffered"

\* No other step removes, replaces or doubles a published version, whatever a
\* failing SELECT let pass: the PRIMARY KEY is the last line of defence.
WriteOnce ==
    [][ \/ QuotedStep
        \/ /\ database \subseteq database'
           /\ \A q \in database' \ database, r \in database' : SameKey(q, r) => q = r ]_vars

\* The registry's view of an exchange: it does not tell a request in a socket
\* from one whose handler waits for the authentication service.
Viewed(p) ==
    IF p \in {"received", "serving"} THEN "pending"
    ELSE IF p = "buffered" THEN "decided" ELSE p

state == [x \in Exchanges |-> Viewed(phase[x])]

Registry == INSTANCE PackageRegistry WITH rows <- database

\* The hub implements the registry: what happens to an exchange between being
\* received and having a response in its buffer is one step of the registry.
ImplementsRegistry == Registry!RegistrySpec

\* Every request is answered, or its connection is seen to be lost.
EveryRequestSettled ==
    \A x \in Exchanges : phase[x] = "received" ~> phase[x] \in {"answered", "lost"}

-------------------------------------------------------------------------------
(* What the API description says and the code does not do. *)

\* A registration answered 200 left the user with an account.
RegisteredHasAccount ==
    \A x \in Exchanges :
        request[x].kind = "register" /\ response[x].status = OK
        => \E password \in Passwords : <<request[x].user, password>> \in accounts

===============================================================================
