# Verification of cpm-hub

cpm-hub is a package hub for CPM bits and project templates: one process that
serves a small HTTP API, keeps packages in SQLite and asks another service who
may publish.  This directory holds TLA+ models of it, the TLC runs that check
them on small instances, and theorems about them that TLAPS proves for every
value of the constants.  Paths below are relative to `src/cpm-hub/` unless they
say otherwise.

Run a model with `tlc -workers 2 -config <cfg> <module>`, a proof with
`tlapm <module>.tla`; `PROJECT.json` lists all of them, the lines every
definition models, and for each property a mutant of the code that breaks it.

## 1. The system

| component | state it keeps | operations | talks to |
|---|---|---|---|
| Supervisor (`management/cpm_hub_starter.cpp`) | the worker's pid, the options | fork a worker, wait for its death, fork again | the worker, by `waitpid` and `PR_SET_PDEATHSIG`; the log |
| Program options (`management/program_options_parser.cpp`) | none | read the ini file or the environment, once | the supervisor |
| Logging (`logging/`) | the sink's lock, a thread that flushes the rotating file | write a message | supervisor and worker, which inherits the lock and not the thread |
| Endpoints and contracts (`http/Endpoint.cpp`, `http/HttpResource.h`, `bits/rest_api/field_validation.cpp`, `templates/rest_api/TemplatesContract.cpp`, `infrastructure/JsonContract.cpp`) | the routes | match a path, answer OPTIONS, add CORS headers, validate a body | server and resources |
| HTTP server (`http/HttpServer.cpp`) | connections and their buffers (in mongoose), the endpoint map | poll, dispatch, turn an exception into 500, buffer the response, record a KPI | resources (calls), KPI sink (call) |
| Bits and templates resources and services (`bits/`, `templates/`) | none | publish, fetch, search | authenticator, repositories |
| Users resource and service (`users/`) | the set of registered names, in memory | register | authenticator |
| SQLite repositories (`bits/BitsRepositoryInSqlite.cpp`, `templates/TemplatesRepositoryInSqlite.cpp`, `database/`) | the tables `bits` and `templates`, on disk | create and sanitise the tables, look up, insert, search | SQLite |
| Authenticators (`authentication/`) | none | `validCredentials`, `addUser` | the authentication service through the HttpClient |
| HttpClient (`http/HttpClient.cpp`) | `request_pending`, the member `response` | a blocking call with an event loop of its own | the peer |
| KPI recording (`kpi/`) | the sink | one blocking call per served request | InfluxDB |
| Filesystem repository and index (`bits/BitsRepositoryInFilesystem.cpp`, `bits/BitIndex.cpp`) | a directory tree, `index.json` | add, look up, search, restore | the file system; no longer wired by the starter |
| In-memory bits repository (`bits/BitsRepositoryInMemory.cpp`) | a list of bits for each name | add, look up, search | tests only |
| Encoders (`http/http_headers_encoder.cpp`, `http/http_query_parameters_encoder.cpp`) | none | format | |

The worker is single-threaded.  That makes most of the hub sequential, and the
hard part is where it is not:

- **Event loops inside handlers.**  A publication or a registration calls the
  authentication service through an `HttpClient` that polls until an event ends
  the call.  The KPI of a request is sent the same way *before* the response
  that is already in the connection's buffer can be flushed.  Neither call has a
  timeout.  Between the parts of a handler clients give up, other requests pile
  up in sockets and the worker may die.
- **One client object for every call.**  `cpm_hub_auth_client` is static, and
  an event that closes a call unanswered leaves the previous call's response in
  it.
- **Crashes.**  The supervisor starts a new worker: the tables survive, the
  registered names and the HttpClient do not, and clients see closed sockets
  whether or not their request took effect.
- **Processes.**  The supervisor may die itself, at any point of its loop; the
  worker asks for a signal in that case only after it was forked.  A fork may be
  refused, a port taken, and a lock be held by a thread `fork` does not copy.
- **Two rules for one thing.**  Which characters a name may have is said by the
  validation of fields and by the routes; what an option defaults to by two
  parsers; what a search finds by two repositories, one of which only the tests
  see.
- **Errors that are dropped.**  `SqlDatabaseSqlite3` ignores the results of its
  statements, and `addUser` the answer of the authentication service.
- **A search is a statement.**  The text of a search is put between quotes as it
  came (`bits/BitsRepositoryInSqlite.cpp:139`) and every statement in the result is
  run (`database/SqlDatabaseSqlite3.cpp:97`): a text that has a quote ends the
  literal, and what follows it is SQL.  Everything the registry promises is about
  searches without one.

What makes each part correct: the registry is write-once, its acknowledgements
are durable, unique and true, its conflicts real and its answers taken from
what is stored; a stored package has a verified author; a name registers once;
a call returns its own outcome; every request is settled; a dead worker is
replaced, and two live at once only while one is being ended or slipped its
supervisor; what can be published can be downloaded under the URL of its name.
`PROJECT.json` lists, at their lines, the hazards these properties are for.

## 2. The modules

| module | models | kind |
|---|---|---|
| `HttpStatus` | `http/http_status_codes.h` | constants |
| `HttpClient` | one `HttpClient` object: `Call`, and one action for each event of its handler | state machine, instantiated by the two below |
| `HttpCalls` | consecutive calls through such objects, with a history of what the peer did and what was returned | composition |
| `HttpCallsProofs` | | proofs |
| `Packages` | requests, rows and responses, and the SELECTs as operators on sets of rows | data |
| `PackageRegistry` | the promise: a write-once registry in which each request takes effect in one step | abstract specification |
| `CpmHub` | supervisor, server loop, resources, services, SQLite tables, users, authenticators, the shared client, KPI calls, crashes | detailed specification |
| `MCCpmHub` | the requests and accounts of the runs | model values |
| `CpmHubProofs`, `CpmHubRefinement`, `CpmHubAccounts` | | proofs |
| `SqliteTables` | the start of a worker over the database file of any release, one action for each statement, and the positional INSERT and reading by name that follow | state machine |
| `MCSqliteTables`, `SqliteTablesProofs` | | model values, proofs |
| `FilesystemRepository` | `BitsRepositoryInFilesystem` and `BitIndex`, one action for each call of the file system | state machine |
| `MCFilesystemRepository`, `FilesystemRepositoryProofs` | what clients publish and an older release left | model values, proofs |
| `ProgramOptions` | both parsers of `program_options_parser.cpp`, as functions from what is set to the options | functions |
| `Supervisor` | `startCpmHub`, the start of a worker up to its port and first message, the flushing thread, deaths of both processes | state machine over `ProgramOptions` |
| `MCSupervisor`, `SupervisorProofs` | the configurations of the run | model values, proofs |
| `Texts` | characters, `operator<` and `find` of texts, SQL's `LIKE` | operators |
| `Contracts` | the rules for fields, `JsonContract`, what the JSON library throws | operators over `Texts` |
| `Endpoints` | paths, parameters, the route table, query strings, OPTIONS, CORS | operators over `Contracts` |
| `BitsRepositoryInMemory`, `BitsRepositoryInSqlite` | the two repositories of bits, on texts | operators over `Texts` |
| `HttpRequests` | a hub as the integration tests build it, each request one step from its request line to its answer, over both repositories at once | state machine, composition of the four above |
| `MCHttpRequests`, `HttpRequestsProofs` | the requests of the run | model values, proofs |

### State of `CpmHub` and the code

| variable | code |
|---|---|
| `database` | the rows of both SQLite tables; on disk, so untouched by `Crash` and `Fork` |
| `users` | `UsersRepositoryInMemory`; emptied by `Fork` |
| `worker` | where the single thread is: `polling` in `HttpServer::serve`, `authenticating` or `registering` in the client's loop under `CpmHubAuthenticator`, `recording` in the loop under `recordKpi`, or `down` |
| `ready` | what `select()` reported at the start of the current round of `mg_mgr_poll` and the round has not come to yet |
| `phase`, `request`, `response`, `waiting` | an exchange on a client's connection: its request in the socket, in a handler that waits, its response in the send buffer, sent, or the connection lost; and whether the client still waits |
| `auth_pending`, `auth_response`, `auth_link` | the static `cpm_hub_auth_client` (an instance of `HttpClient`) |
| `accounts` | the authentication service's (external) |
| `crashes` | counts worker deaths, for the bound |

A step of the worker ends exactly where the code enters an event loop, the
server's or the client's: nothing else can run in between.  So `PostBit` is the
whole of `BitsHttpResource::post` up to `validCredentials`, and
`CredentialsChecked` everything after it, through `publishBit`, the look-up, the
INSERT, the response's text in the send buffer and the start of the KPI call.
`Respond` is the end of `serveRequest` and part of every handler's last action.

| actions | code |
|---|---|
| `Fork`, `Crash` | `startCpmHub`, `start`, `startServiceServer` |
| `PollRound`, `Dispatch`, `Flush`, `AnswerStray` | `HttpServer::serve`, `dispatchRequest`, mongoose's write of a buffer, `HttpResource`'s defaults |
| `PostBit`, `PostTemplate`, `CredentialsChecked` | the `post` of both resources, which differ in order: the templates' contract is checked before the credentials, a bit's fields after them |
| `GetBit`, `SearchForBit`, `GetTemplate` | the `get` of both resources |
| `PostUser`, `UserRegistered` | `UsersHttpResource::post`, `UsersService::registerUser` |
| `KpiRecorded` | the return from `logRequest` |
| `AuthConnectFails`, `AuthConnects`, `AuthAnswers`, `AuthRegisters`, `AuthCloses` | the events of the client, and the service behind them |
| `SendRequest`, `GiveUp` | clients (external) |

Abstractions: texts are members of small sets; a version is the rank of its text
in the order SQLite sorts it by, which is the order `latest` is taken in; the
state of a JSON body is one of five forms the handlers tell apart; the body of a
response is the set of rows it shows; HTTP headers, CORS among them, are left
out.  `SqlFails` makes every SQL statement fail at will, the way the code
experiences it: an INSERT does nothing, a SELECT delivers a subset of its rows,
and the caller is not told.  `/templates/:name` without a
version has no route, so a GET of it is a stray request.

A searched text is empty, plain or quoted (`SearchTexts`).  A plain search reads.
A quoted one runs SQL of the client's choice, so after `SearchForBit` the tables
hold any rows and the answer shows any rows; statements that change the tables'
columns or drop a table are left out.  `WriteOnce` says what holds beside such a
step (`QuotedStep`).  The other properties of `CpmHub` that are about stored rows
do not survive one, and have the hypothesis `PlainSearches`, that no request
searches for a quoted text; it is a fact of the runs that check them.

### State of `SqliteTables` and the code

`columns` and `rows` are the two tables as SQLite has them: an order of columns,
and rows that map columns to values.  `worker` names the table whose repository
is being constructed, `next_column` the turn of its `sanitize...TableColumns`
loop (0 before CREATE TABLE).  `CreateTable` and `SanitizeColumn` are one
statement each, `Crash` comes between any two, and `Start` runs the whole
sequence again.  `Publish` is the look-up and the INSERT of a publication, whose
values go to `columns` by position; SQLite refuses the row if their number
differs and nobody is told.  CREATE TABLE and ALTER TABLE succeed in the model: the
code drops their errors as well (`database/SqlDatabaseSqlite3.cpp:38-51`) and would
go on to serve tables that lack a column, of which nothing is claimed.  `ReadNull` is any look-up that comes to a row with a
NULL: `row[names[i]] = values[i]` reads through a null pointer, which ends the
process in every build we know of.  `published` is a history.  The file of an
older release has a prefix of today's columns that holds the key, as in the test
of the sanitising; a file with another order is not a state of this program.
`CpmHub` has its tables whole from the start: `ServedTablesAreWhole` is why.

### State of `FilesystemRepository` and the code

| variable | code |
|---|---|
| `tree` | the directories `user/name/version` and the `.zip` and `.json` file in each |
| `index_file` | `index.json`: missing, emptied, or a serialised index of format 0 or 1 |
| `index` | `BitIndex::bits`: the user whose directory a name leads to |
| `worker`, `bit` | which call `add()` makes next, and for which bit |
| `added`, `crashes` | history, and the bound |

`StartAdd` is the caller's look-up of the version; then `CreateDirectory`,
`OpenPayload`, `WritePayload`, `OpenMetadata`, `WriteMetadata`, `OpenIndex` and
`WriteIndex` are `add()` in its order, with `writeFile` split where the file is
empty.  A file that was opened and not written to its end counts as emptied.
`Crash` is the death of the process between any two of them, not of the
operating system: what was written stays written.  `Start` is `restore()` with
both index formats; an index file that was emptied does not parse and the
process does not start.  `SearchedDirectories` and `AllDirectories` are what
`search()` and `allBits()` read.  Either throws when one of the directories it
reads is half-made: `search()` then fails for every match, and `allBits()`
(`AllBitsThrows`) lists nothing, which `AddedIsListed` takes into account.

`savePayload()` stores what `base64_decode()` makes of a payload and `loadPayload()`
encodes it again.  `Decoded` and `Encoded` are the two; of them it is assumed that
encoding and decoding gives the content back, and not that decoding and encoding
gives the text back.  It does not: `validPayload` lets through texts base64 would
not write, `ab=` for one, which comes back as another text of the same content.
So the properties are about contents, and `Returned(b)` is the bit as it comes
back.  The index of an older release kept the
directory of one version for a name; which one, `Init` leaves open.

### State of `Supervisor` and the code

| variable | code |
|---|---|
| `configuration` | the ini file or the environment, which may be edited at any time |
| `supervisor`, `child` | where `startCpmHub`'s loop stands, and its `pid` |
| `options` | its `program_options`, read once by `main` |
| `flushing` | spdlog's flushing thread holds the lock of the log's sink |
| `worker` | every worker process: how far its start is, whether `prctl` was in time, whether SIGTERM is on its way, whether the lock it inherited is held, and its options |
| `budget` | what the bounds leave |

`Fork`, `ForkFails`, `Reap` and `LogRestart` are the loop of the supervisor;
`Guard` (`prctl`), `Bind` and `LogStarted` are the start of a worker up to the
null connection a refused bind leaves; `CrashWorker`, `KillSupervisor` and
`Terminate` are deaths.  `FlushBegins` and `FlushEnds` are spdlog's thread
(external, and only with a log file).  The worker that was forked while the lock
was held stops at `LogStarted` for good.  A supervisor that is killed in the
middle of a fork leaves a worker whose `prctl` comes too late: it is reparented
and nothing signals it.  `CpmHub` takes all this as one `Fork` and one `Crash`.

### State of `HttpRequests` and the code

`bits` is the map of `BitsRepositoryInMemory`, `rows` and `templates` are the
tables, `users` is `UsersRepositoryInMemory`, `accounts` the map of
`TrivialAuthenticator`; `acked` is a history and `exchange` the last request with
the answers of the deployed and of the tests' repository.  Every request changes
both, through the same resource: `GetBit` and `PostBit` take the repository's
look-ups as operators.  `PublishBit`, `PublishTemplate`, `RegisterUser` and `Read`
are the POST handlers and everything else; `Dispatch` is `dispatchRequest`.
`HttpParameterMap::get` of a parameter that is not there dereferences `end()`;
`GetFrom` gives `Undefined`, and `GetBit` and `GetTemplate` test for the
parameter before they use it.  `Like` is SQLite's, with both wildcards: a query is
not decoded, so the `%` of an escape is one.  Searches for a text with a quote are
not among the requests (`PlainSearches`, an assumption of the module); `CpmHub`
has them.

Where `CpmHub` interleaves requests on abstract values, `HttpRequests` looks into
the values and takes each request as one step; statements do not fail in it and
the worker does not die.

### The registry and its refinement

`PackageRegistry` knows rows, requests and responses, and nothing of workers,
sockets or services.  `CpmHub` implements it (`ImplementsRegistry`) under the
mapping `rows <- database` and `state`, which shows a request in a socket and
one in a waiting handler as *pending*, and a response in a send buffer as
*decided*.  A crash is the step that loses every pending and decided exchange at
once: a publication whose client was not told may have taken effect, but never
in part and never twice.

## 3. The runs

| run | question | instance |
|---|---|---|
| `calls` | does a client made for each call (KPI), or one for all calls (authentication), return each call's outcome, and return at all? | 3 calls, codes 200/401/500 and 204, refused and unanswered calls, both uses |
| `calls_hang_up` | is every success the call's own?  **No**, not of the shared client when the peer closes unanswered (finding) | 3 calls |
| `hub_publish` | are acknowledgements durable and unique, conflicts real, authors verified, and does what was shown stay stored? | 3 exchanges of 7 requests, 2 authors, a wrong password, 2 versions, 1 crash, clients that give up |
| `hub_sql_errors` | is a version written once when SQL statements fail and texts with a quote are searched for? | 2 exchanges of 8 requests on both tables, 1 version, 2 authors, 1 crash, no authenticator |
| `hub_serving` | does the hub implement the registry, is every request settled, and does a name register once per worker? | 2 exchanges of every kind of request, KPI calls, unanswered calls, 1 crash |
| `hub_sql_ack` | is an acknowledged publication stored when an INSERT fails?  **No** (finding) | 2 exchanges |
| `hub_refused_user` | does a 200 for a registration mean there is an account?  **No** (finding) | 2 exchanges |
| `tables_starts` | are the tables whole whenever the worker serves, do publications read back, is every cell kept? | all 16 pairs of layouts, old rows, 4 publications to each table, 2 crashes |
| `tables_old_rows` | can the rows of a sanitised table be read?  **No** (finding) | the same |
| `fs_crashes` | what survives a death within an addition, and what do look-ups find after it? | the index of an older release, 2 names of which one has two authors, 2 versions, 4 payloads of 3 contents, 3 deaths anywhere |
| `requests` | can everything that was published be downloaded, searched for, and read by a page of another origin?  Do the tests' repository and the deployed one answer alike?  Is the latest version the newest? | 55 requests: registrations, publications that break each rule, every route, CORS, malformed queries, both wildcards |
| `start_up` | does one worker live at a time, does an orphan end, does a supervisor come to have a worker that serves, do both sources of options read alike? | 2 starts, 4 configurations, a crash, a refused fork, deaths of the supervisor anywhere |

Bounds.  `MaxCalls` and `MaxCrashes` bound the two counters; the requests are
bounded by the number of exchanges, each used once.  Two publications compete
for a version and a third party reads or publishes beside them, so three
exchanges show every pairwise race of an unordered pair and what an onlooker
sees of it; a property that relates rows and exchanges (`AtMostOneAck`,
`ConflictMeansStored`) talks of two.  One crash separates a life of the worker
with history from one without; the theorems remove the bounds.  A shared client
needs two calls to leak an answer and a third to leak it again.  Exchanges are
interchangeable and no property or request names one, so `SYMMETRY` is sound;
it is not used with liveness or refinement.

`fs_crashes` allows three deaths because the interesting case needs two: an
addition cut short, its retry cut short, and a start that works.  A second
author's addition hides the first one's versions, and a third addition over them
needs both versions and two contents; a payload that is the text of no
encoding shows that contents come back where texts do not.  `hub_serving` has two exchanges: its
properties are about one exchange, its client and the worker it meets, and the
second is the other request that holds the worker up.

`start_up` has two process numbers: a supervisor is followed by a second one
only once, and each has at most one living worker, or one and an orphan of its
predecessor.  Two starts show each case of what the first leaves to the second.
Port 70000 is a bind that is always refused, 9000 and 8000 are refused while
another worker has them; `ldap` and `http` stand for a name and a number that
cannot be read, `010` and `0x50` for numbers the two sources read apart.

`requests` has versions whose texts sort unlike their numbers (`1.9`, `1.10`),
names that differ by case and by LIKE's wildcards, and one body for each way a
rule can be broken.  The requests are a fixed set and what they store is
bounded by it, so the run needs no counter.

Old rows of `tables_starts` have the key of one publication, so that publications meet them.

Deadlock is checked in the hub's runs: a hub that serves can always start a
round of polling.  The `HttpCalls` runs end at `MaxCalls` and switch it off; so do
those of `SqliteTables` and `FilesystemRepository`, whose publications run out and
whose process may be unable to start.

In `hub_sql_errors` two exchanges are enough: a quoted search may leave any rows, so
the rows it leaves are more than any history of publications would.  That what was
shown stays stored when statements fail as well is `ShownStays`, for any number of
exchanges.

Fairness.  `WorkerStep` is weakly fair because the code loops: `while (running)
mg_mgr_poll`.  `Fork` is not fair: whether a dead worker is replaced is the question
of `Supervisor`, which has what may go wrong (`ServiceReturns`).  That `AuthStep` and
`KpiRecorded` are weakly fair is an assumption on the outside which the code
makes too, since `HttpClient::method` has no timeout: the authentication service
and InfluxDB settle every call, by an answer, an error or a close.  Clients are
not fair: they may send nothing, or give up.  In `Supervisor` processes and
threads are scheduled and a flush ends (weak fairness); the supervisor is
strongly fair, because the log's lock it takes in `LogRestart` is free for
seconds between two flushes, and a fork is not refused for ever.  Nothing
obliges an administrator to start or kill the hub.  `PeerStep` in `HttpCalls` is the
same assumption.

### Findings

1. `calls_hang_up`: `connectionClosed()` ends a call without assigning
   `response`, so a call closed unanswered returns the previous call's status.
2. `hub_sql_ack`: a failed INSERT is not reported and the publication is
   answered 200.
3. `hub_refused_user`: a registration the authentication service opens no account
   for is recorded and answered 200.  In the trace TLC shows, the connection to the
   service fails; a refusal ends alike.
4. `tables_old_rows`: a column added to a table with rows leaves NULLs that no
   look-up of those rows survives.

Also in the models, and without a run of their own:

- A bit with a field missing is answered 500, where `docs/cpm-hub-api.yaml`
  says 400; a template in the same case is answered 400.
- The API description says 403 for a package of another owner.  No handler
  answers it: any author may publish a new version under any name.
- `latest` is the last version as a text (`1.9` after `1.10`), where the API
  description says the latest version; `LatestIsNewest` holds for versions whose
  numbers are equally wide, which is what it says.
- A registration takes any user name; a publication requires one of 4 to 21
  characters, so some registered users can publish nothing.
- An index file that was emptied and not written stops every later start of the
  filesystem repository.  A version directory whose files are missing becomes the
  latest version of an indexed name, and looking the name up throws.  A second
  author's bit hides the first author's, who may then publish over them: hence
  `SoleAuthor` in the properties of that module.
- A worker forked during a flush of the rotating log waits for ever, alive, so the
  supervisor waits too.  A worker that lost its supervisor before its `prctl`
  keeps the port, and the next hub's workers die at their bind.  Both are
  alternatives in `ServiceReturns`, which says that nothing else keeps a hub from
  serving.
- The environment's defaults for the database and the type of repository differ
  from the ini file's, and a number that cannot be read is 0 in the environment and
  the default in the file.  The file's reader calls `strtol` with base 0 and the
  environment's `atoi`: `010` is 8 in the one and 10 in the other, `0x50` is 80 and
  0 (`Strtol`, `Atoi`).  `ReadApart` has these exceptions of `SourcesAgree`.
- A search whose text has a quote may change the tables.
- The filesystem repository gives back the content of a payload, not always its text.

## 4. The theorems

All are proved by `tlapm` from the modules' `ASSUME`s (which TLC evaluates in
every run) and the hypotheses in their statements, with no bound on exchanges,
requests, crashes or calls.

| theorem | under | says |
|---|---|---|
| `CpmHubProofs!TypeCorrect` | | `TypeOK`, and `ServingOK` |
| `CpmHubProofs!WriteOnceHolds` | | `WriteOnce` |
| `CpmHubProofs!ShownStays` | `PlainSearches` | `ShownIsStored` |
| `CpmHubRefinement!HubImplementsRegistry` | `~SqlFails`, `PlainSearches` | `ImplementsRegistry` |
| `CpmHubRefinement!AcksAreStored`, `AcksAreUnique`, `ConflictsAreReal` | `~SqlFails`, `PlainSearches` | `AckedIsStored`, `AtMostOneAck`, `ConflictMeansStored` |
| `CpmHubAccounts!AuthorsVerified` | `Authenticator # "null"`, `~AuthHangsUp`, `PlainSearches` | `StoredIsVerified` |
| `CpmHubAccounts!RegistersOnce` | | `AtMostOneRegistration` |
| `HttpCallsProofs!TypeCorrect`, `SqliteTablesProofs!TypeCorrect` | | `TypeOK` of their modules |
| `HttpCallsProofs!CallsKeptApart` | | `EachCallReturnsItsOwnOutcome` |
| `HttpCallsProofs!SuccessIsOwn` | `fresh_client \/ ~PeerHangsUp` | `SuccessIsThisCalls` |
| `SqliteTablesProofs!TablesWhole` | | `ServedTablesAreWhole` |
| `SqliteTablesProofs!PublishedStays` | | `PublishedReadsBack` |
| `SqliteTablesProofs!NothingIsLost` | | `CellsAreKept` |
| `SqliteTablesProofs!OnlyOldRowsUnreadable` | `RowsInWholeTables` at first | `SanitisedRowsAreReadable` |
| `FilesystemRepositoryProofs!TypeCorrect` | | `TypeOK` |
| `FilesystemRepositoryProofs!AddedStaysOnDisk` | | `AddedIsOnDisk` |
| `FilesystemRepositoryProofs!AddedStaysFound` | | `AddedIsFound` |
| `FilesystemRepositoryProofs!AddedStaysListed` | | `AddedIsListed` |
| `FilesystemRepositoryProofs!IndexedIsReadable` | | `IndexedHasVersion` |
| `FilesystemRepositoryProofs!LatestNeverOlder` | | `LatestIsNoOlder` |
| `SupervisorProofs!TypeCorrect` | | `TypeOK` |
| `SupervisorProofs!WorkersAlone` | | `OneWorkerAtATime` |
| `SupervisorProofs!SourcesReadAlike` | | `SourcesAgree` |
| `HttpRequestsProofs!TypeCorrect` | | `TypeOK` |
| `HttpRequestsProofs!PasswordsStay` | | `AccountsAreKept` |
| `HttpRequestsProofs!AckedIsFetched` | | `PublishedIsFetched` |
| `HttpRequestsProofs!NewestIsLatest` | | `LatestIsNewest` |
| `HttpRequestsProofs!SearchesFind` | | `SearchFinds` |
| `HttpRequestsProofs!RepositoriesAnswerAlike` | | `RepositoriesAgree` |
| `HttpRequestsProofs!PreflightIsKept` | | `PreflightKept` |

The theorems about `HttpRequests` are for any requests the module's `PlainSearches`
admits: none searches for a text with a quote.

The arguments:

- *Types.*  `TypeOK` is not inductive: `CredentialsChecked(x)` builds a row from
  `request[x]`, which must be a publication.  `ServingOK` supplies it: at most one
  exchange is in service, only while the worker is in the call made for it, and
  its request is of the kind that call is made for.
- *Write-once.*  Every step but a quoted search leaves the tables alone or inserts
  one row under a free key (`InsertStep`, lemma `StoreNext`), whatever the look-up
  before the INSERT was told, so a new row has a key of its own (`InsertsNewKeys`);
  and every response shows rows of the tables (`ShowStep`).  Where no searched text
  has a quote there is no such search (`NoQuotedStep`).
- *Refinement.*  One lemma for each action: a handler that ends in `Respond` is
  the registry's decision on that exchange (`RespondDecides`), one that ends in
  a call is hidden (`CallAuthHidden`), a flush is an answer or a loss and a
  crash loses all outstanding exchanges.
- *Acknowledgements* follow from the registry's steps alone (`PromiseNext`): a
  second acknowledgement of a key would find the first one's row, which is the
  strengthening that makes `AtMostOneAck` inductive.
- *Verified authors.*  `VerdictOK`: once the client's loop has ended, a 200 is
  the service's verdict on the exchange in service.  `AuthCloses` is the one event
  that would break it, hence the hypothesis; without it the first finding is the
  counterexample.  The access-file authenticator, which refuses everybody, is
  within the theorem; `NullAuthenticator` asks nothing and is not.
- *What the findings need.*  Two theorems bound a finding.  A success that is not
  the call's own takes a shared client and a peer that closes unanswered: either
  hypothesis of `SuccessIsOwn` leaves `EachCallReturnsItsOwnOutcome` no exception.
  A row that cannot be read takes one an older release left in a table without
  all columns: otherwise every table that is altered is empty (`NoNullsNext`).
- *Registrations.*  The look-up of a name and its recording are separated by a
  call.  `UsersKnown` says that no name in such a call is recorded meanwhile,
  because `ServingOK` leaves one exchange in service.

- *Tables.*  `Progress` says how far a start has come: the columns looked for so
  far are there, and the tables that are done are whole.  `ColumnAdded` is the
  core: a column missing from a layout that holds all earlier ones is the next
  of the whole table, so appending it keeps the order INSERT relies on.  `RowsOK`
  adds that each publication answered 200 is the one row of its version, in a
  table that was whole when it was inserted and so is never altered again.

- *Filesystem.*  The invariant `IInv` is about what an addition in the middle may
  damage.  `AddedIsWhole` has what a sole author added on disk; `Apart` keeps the
  directory being filled away from it, which follows at `StartAdd` from the
  caller's look-up: the index leads to the sole author (`IndexLeads`), so a
  directory of that name and version would have been found.  `FileLeads` says the
  same of the index file in each format, for the start after a death, and
  `IndexSettled` keeps every directory an index may lead to readable and out of the
  addition's way.  `FillingKeeps` is the core: five of the actions change only the
  directory being filled.
- *Supervisor.*  `Alone` says that a living worker is the one its supervisor waits
  for or is leaving.  For that, a worker whose supervisor dies must have called
  `prctl` or not yet (`ChildGuarded`), so that it is either signalled or an early
  orphan.
- *Options.*  `SourcesReadAlike` is about the two parsers and needs no step of the
  processes.  A numeral that does not begin with zero is a decimal to `strtol` as
  it is to `atoi`, and a lone zero has one value in both bases (`DecimalsReadAlike`,
  `OneDigit`); then the two lists of settings and defaults are compared field by
  field (`SettingsReadAlike`).
- *Latest version on disk.*  `OnDisk` says that there are finitely many version
  directories and that each bit that was added has one of them.  The directory a
  look-up takes is the last of its name, and a finite set of versions has a last
  (`FiniteHasLast`), which is why `Legacy` is assumed finite.
- *Listing.*  `HalfMadeIsFilled`: until the first death the only half-made directory
  is the one being filled, so a repository that serves has none (`AddedStaysListed`).
- *Passwords.*  `SameNames`: the names registered and the names with an account
  are the same, so the look-up before `addUser` protects every account.
- *Preflights.*  `AnsweredIsReadable`: an answer to a GET or a POST of a path with
  a route has passed by `handleCors` unless a handler threw, and a preflight
  announces one of the two methods only for such a path (`PreflightHeaders`).
  `RequestIsWhole`, that the last request is a record of its fields, is the other
  conjunct of the invariant: the preflight differs from it in two of them.
- *Packages over HTTP.*  `IInv` of `HttpRequestsProofs` has what is stored: one row
  for a name and version (`Keyed`), each under a name and a version that came in
  a request and passed the rules for fields (`Sent`), and, in memory, for each
  name the list of its rows in the strict order of versions (`Lists`).  `SortedKeeps`
  is the core of its preservation: `push_back` and a stable sort of an ordered
  list put a new version in its place, which needs that the order of texts is
  total, transitive and irreflexive on versions (`LessIsTotal` and its neighbours).
  `SameBitBy` and `SameLatestBit` follow: the two repositories find the same.
- *Downloads.*  The rules for names and versions let through only what fits a
  path's segment (`ValidNameFits`, `ValidVersionFits`, the latter character by
  character over the digits and the suffix), a path matches at most one route
  (`MatchingRoute`, `OneRoute`), and its parameters are the segments
  (`NameParameter`, `VersionParameters`); so the look-up is for the key of the
  row, and `Keyed` has it find that row alone.
- *Newest version.*  A number is read off its digits by a recursive function,
  which exists (`ReadingExists`) and so obeys its equation (`ReadingReads`).  Of two
  readings over the same places the one with the first greater digit is greater
  (`ReadsLess`).  Where two versions first differ, numbers that begin alike and are
  equally wide have the same places (`PlacesInclude`), and a dot against a digit
  would end one of them early (`DotEnds`); so a lesser text is never the newer
  version (`LessIsNotNewer`), and a name gives its greatest text.
- *Searches.*  A part of a text is found by `find` and by `LIKE` (`PartIsFound`),
  and whatever `find` finds `LIKE` does (`FoundIsLike`), wildcards included since
  each `%` may stand for itself (`PartIsLike`); so a search in memory
  lists no more than one of the tables; every other answer is the same because
  only the path of all bits comes to a search (`PathHasName`).

Texts.  The provers know nothing of the characters of a TLA+ string.
`TextsAssumption` says what the proofs need, of the texts of the requests and their
parts only: the length of a part, its characters, that equal characters make
equal texts, and that digits have consecutive codes and a dot is none of them.  TLC evaluates it on the run's requests.  `RequestsAssumption` says
that requests are records of their fields, with paths and queries that are
sequences; that is what the parser builds.

Induction.  The theorems that prove by induction take an operator as a
parameter, which the provers cannot instantiate.  Where an induction is needed
(`FiniteHasLast`, `LeastNumber`, where two texts first differ in `LessIsTotal`, the
existence of the recursive function in `ReadingExists`, the comparison of readings
in `ReadsLess`) the proof takes a least counterexample instead, from `WFMin`, which
is about sets.

Before they were proved, TLC found `IInv`, `AnsweredIsReadable`, `RequestIsWhole`,
`SameNames` and `KnownStatus` to hold of all states of the run `requests`.

Model-checked only: liveness (`CallReturns`, `EveryRequestSettled`,
`OrphansEnd`, `ServiceReturns`), which the prover does not reach.
Every invariant and action property of a passing run has a theorem.  Of the runs
that find a violation, `RegisteredHasAccount` has none, since no hypothesis on the
constants makes it true: any call to open an account may fail to connect.  The
access-file authenticator is in `CpmHub` and its theorems, and in no run.

## 5. Not modelled

- `HttpServer::startAsync` and `stop`, with a `running` flag no lock guards: only
  tests call them, and the tests wait for them.
- CREATE TABLE and ALTER TABLE that fail, whose errors the code drops, and statements
  in a searched text that change the tables' columns.
- Writes that fail in the filesystem repository: `writeFile` drops every error, and
  then nothing that was added is promised to be there.
- The HTTP encoders, the texts of log messages and of KPI measures: formatting,
  which no state depends on.
- `authenticate(key)`, which no resource calls, and `addUserWithInvitation`, which
  no service calls.
- The management server and its address: the starter declares it and never starts
  it; its options are parsed in `ProgramOptions`.
- mongoose, SQLite, spdlog, the kernel and the JSON library, which are modelled
  from their use.

What a continuation would take up: a run of `CpmHub` with the access-file
authenticator, and writes that fail, once the code says what should hold then.
