----------------------------- MODULE HttpRequests -----------------------------
(***************************************************************************)
(* A hub as the integration tests build it, from the request line to the    *)
(* answer: parsing, routing, contracts, TrivialAuthenticator and            *)
(* UsersRepositoryInMemory, and the resources of bits twice, once over      *)
(* BitsRepositoryInMemory (the tests' repository) and once over             *)
(* BitsRepositoryInSqlite (the deployed one). CpmHub takes texts as values  *)
(* and requests as classified; this module looks into both, and takes a     *)
(* request as one step. Statements do not fail here.                       *)
(***************************************************************************)
EXTENDS Endpoints

Memory == INSTANCE BitsRepositoryInMemory

Sqlite == INSTANCE BitsRepositoryInSqlite

CONSTANT Requests     \* the requests clients send

ASSUME RequestsAssumption ==
    \A r \in Requests :
        /\ r = Request(r.method, r.path, r.query, r.headers, r.body)
        /\ r.path \in Seq(STRING)
        /\ r.query \in Seq(Seq(STRING))
        /\ r.body = [kind |-> r.body.kind, texts |-> r.body.texts, others |-> r.body.others]

\* The text a request searches for, if any, stands between quotes in the
\* statement, unescaped. A quote in it would end the literal and the rest would
\* run as SQL; such requests are CpmHub's subject, and none of them is here
\* (BitsRepositoryInSqlite.cpp:139, SqlDatabaseSqlite3.cpp:97).
ASSUME PlainSearches ==
    \A r \in Requests :
        LET query == QueryParameters(r.query)
        IN  Has(query, "name") => "'" \notin CharactersOf(query["name"])

\* The texts of bodies and queries, and their parts.
BodyTexts(body) == {body.texts[m] : m \in DOMAIN body.texts}

QueryTexts(query) ==
    UNION {{query[i][j] : j \in 1 .. Len(query[i])} : i \in 1 .. Len(query)}

SentTexts == UNION {BodyTexts(r.body) \cup QueryTexts(r.query) : r \in Requests}

KnownTexts == SentTexts \cup UNION {Parts(text) : text \in SentTexts}

\* Texts are the sequences of their characters, of which versions have only such
\* as are in the order of codes, the ten digits next to each other.
ASSUME TextsAssumption ==
    /\ Len("") = 0
    /\ Len(Characters) \in Nat
    /\ Alphanumeric \cup {"-", "."} \subseteq CharactersOf(Characters)
    /\ "0" \in Digits /\ "." \notin Digits
    /\ \A d \in Digits : Code[d] - Code["0"] \in 0 .. 9
    /\ \A text \in KnownTexts : Spelled(text)
    /\ \A s, t \in KnownTexts : SameSpelling(s, t) => s = t

VARIABLES
    bits,         \* BitsRepositoryInMemory::bits
    rows,         \* the table of bits
    templates,    \* the table of templates
    users,        \* UsersRepositoryInMemory: the names registered
    accounts,     \* TrivialAuthenticator::users
    acked,        \* the packages whose publication was answered 200
    exchange      \* the last request and its two answers

vars == <<bits, rows, templates, users, accounts, acked, exchange>>

NoExchange == [request |-> Request("", <<>>, <<>>, {}, Unparsable),
               answer |-> Answer(0, {}), memory_answer |-> Answer(0, {})]

Init ==
    /\ bits = Memory!NoBits
    /\ rows = {}
    /\ templates = {}
    /\ users = {}
    /\ accounts = NoParameters
    /\ acked = {}
    /\ exchange = NoExchange

-------------------------------------------------------------------------------
\* TrivialAuthenticator::validCredentials()
ValidCredentials(texts) ==
    Has(accounts, texts["username"]) /\ accounts[texts["username"]] = texts["password"]

\* Package a publication describes, the name being the member `name'.
Package(table, texts, name) ==
    [table |-> table, name |-> texts[name], version |-> texts["version"],
     user_name |-> texts["username"], payload |-> texts["payload"]]

BitOf(body) == Package("bits", body.texts, "bit_name")

TemplateOf(body) == Package("templates", body.texts, "template_name")

\* BitsHttpResource::post(), `found' being the bit the repository has of that name
\* and version: what at() throws is a 500.
PostBit(body, found) ==
    IF ~HasTexts(body, {"username", "password"}) THEN INTERNAL_SERVER_ERROR
    ELSE IF ~ValidCredentials(body.texts) THEN UNAUTHORIZED
    ELSE IF ~HasTexts(body, {"bit_name", "version", "payload"}) THEN INTERNAL_SERVER_ERROR
    ELSE IF ~ValidBit(body.texts) THEN BAD_REQUEST
    ELSE IF found # {} THEN CONFLICT ELSE OK

\* TemplatesHttpResource::post(): the contract comes before the credentials.
PostTemplate(body) ==
    LET parsed == ParsePost(body)
    IN  IF parsed = "exception" THEN INTERNAL_SERVER_ERROR
        ELSE IF parsed = "invalid" THEN BAD_REQUEST
        ELSE IF ~ValidCredentials(body.texts) THEN UNAUTHORIZED
        ELSE IF Sqlite!BitBy(templates, body.texts["template_name"],
                             body.texts["version"]) # {}
        THEN CONFLICT ELSE OK

\* UsersHttpResource::post()
PostUser(body) ==
    LET data == RegistrationData(body)
    IN  IF data = "exception" THEN INTERNAL_SERVER_ERROR
        ELSE IF data = "invalid" THEN BAD_REQUEST
        ELSE IF body.texts["username"] \in users THEN CONFLICT ELSE OK

Shown(found) ==
    {[name |-> p.name, version |-> p.version, payload |-> p.payload] : p \in found}

AnswerFound(found) ==
    IF found = {} THEN Answer(NOT_FOUND, {}) ELSE Answer(OK, Shown(found))

\* BitsHttpResource::get(), getBit() and searchForBit(), over what a repository
\* has under the name, under the name and version, and for the searched text.
GetBit(parameters, query, latest, versioned, found) ==
    IF Has(parameters, "bitName")
    THEN AnswerFound(IF Has(parameters, "bitVersion") THEN versioned ELSE latest)
    ELSE IF Has(query, "name") /\ GetFrom(query, "name") # "" THEN Answer(OK, found)
    ELSE Answer(BAD_REQUEST, {})

\* TemplatesHttpResource::get()
GetTemplate(parameters) ==
    LET version == IF Has(parameters, "version") THEN parameters["version"] ELSE "latest"
    IN  IF Has(parameters, "templateName")
        THEN AnswerFound(Sqlite!BitBy(templates, GetFrom(parameters, "templateName"), version))
        ELSE Answer(BAD_REQUEST, {})

-------------------------------------------------------------------------------
\* What a resource of bits answers over each repository.
GetBitFromMemory(parameters, query) ==
    LET name == GetFrom(parameters, "bitName")
    IN  GetBit(parameters, query, Memory!LatestBit(bits, name),
               Memory!BitBy(bits, name, GetFrom(parameters, "bitVersion")),
               Memory!Search(bits, GetFrom(query, "name")))

GetBitFromSqlite(parameters, query) ==
    LET name == GetFrom(parameters, "bitName")
    IN  GetBit(parameters, query, Sqlite!LatestBit(rows, name),
               Sqlite!BitBy(rows, name, GetFrom(parameters, "bitVersion")),
               Sqlite!Search(rows, GetFrom(query, "name")))

PostBitToMemory(body) ==
    PostBit(body, Memory!BitBy(bits, BitOf(body).name, BitOf(body).version))

PostBitToSqlite(body) ==
    PostBit(body, Sqlite!BitBy(rows, BitOf(body).name, BitOf(body).version))

\* What the method's handler answers, HttpResource's when the resource has none.
Handled(resource, request, parameters, get, post) ==
    CASE request.method = "GET" /\ resource = "bits" -> get
      [] request.method = "GET" /\ resource = "templates" -> GetTemplate(parameters)
      [] request.method = "POST" /\ resource = "bits" -> Answer(post, {})
      [] request.method = "POST" /\ resource = "templates" ->
             Answer(PostTemplate(request.body), {})
      [] request.method = "POST" /\ resource = "users" -> Answer(PostUser(request.body), {})
      [] request.method = "OPTIONS" -> Options(resource, request)
      [] OTHER -> Answer(NOT_FOUND, {})

\* request.parameters, of a path that matches.
Parameters(request) ==
    MatchedParameters(RouteOf(request.path).endpoint, request.path)

\* HttpServer::dispatchRequest(): no endpoint, no method, or the handler's answer,
\* with CORS headers unless the handler threw. `get' and `post' are what the
\* resource of bits would answer.
Dispatch(request, get, post) ==
    LET answer == Handled(RouteOf(request.path).resource, request, Parameters(request),
                          get, post)
    IN  IF MatchingRoutes(request.path) = {} THEN Answer(NOT_FOUND, {})
        ELSE IF request.method \notin {"GET", "POST", "PUT", "OPTIONS"}
        THEN Answer(BAD_REQUEST, {})
        ELSE IF answer.status = INTERNAL_SERVER_ERROR THEN answer
        ELSE HandleCors(request, answer)

Answered(request) ==
    Dispatch(request, GetBitFromSqlite(Parameters(request), QueryParameters(request.query)),
             PostBitToSqlite(request.body))

AnsweredFromMemory(request) ==
    Dispatch(request, GetBitFromMemory(Parameters(request), QueryParameters(request.query)),
             PostBitToMemory(request.body))

-------------------------------------------------------------------------------
Posted(request, resource) ==
    /\ request.method = "POST"
    /\ MatchingRoutes(request.path) # {}
    /\ RouteOf(request.path).resource = resource

Exchanged(request) ==
    exchange' = [request |-> request, answer |-> Answered(request),
                 memory_answer |-> AnsweredFromMemory(request)]

\* BitsService::publishBit(), when post() comes to it.
PublishBit(request) ==
    LET bit == BitOf(request.body)
        stored == PostBitToSqlite(request.body) = OK
        stored_in_memory == PostBitToMemory(request.body) = OK
    IN  /\ Posted(request, "bits")
        /\ Exchanged(request)
        /\ rows' = IF stored THEN Sqlite!Add(rows, bit) ELSE rows
        /\ bits' = IF stored_in_memory THEN Memory!Add(bits, bit) ELSE bits
        /\ acked' = IF stored THEN acked \cup {bit} ELSE acked
        /\ UNCHANGED <<templates, users, accounts>>

\* TemplatesService::publishTemplate()
PublishTemplate(request) ==
    LET stored == PostTemplate(request.body) = OK
        template == TemplateOf(request.body)
    IN  /\ Posted(request, "templates")
        /\ Exchanged(request)
        /\ templates' = IF stored THEN Sqlite!Add(templates, template) ELSE templates
        /\ acked' = IF stored THEN acked \cup {template} ELSE acked
        /\ UNCHANGED <<bits, rows, users, accounts>>

\* TrivialAuthenticator::addUser(), which writes over an account.
WithAccount(username, password) ==
    [name \in DOMAIN accounts \cup {username} |->
        IF name = username THEN password ELSE accounts[name]]

\* Mutant of RegisterUser: the authenticator is told before the name is looked up.
RegisterUserFirst(request) ==
    LET valid == RegistrationData(request.body) = "valid"
        texts == request.body.texts
    IN  /\ Posted(request, "users")
        /\ Exchanged(request)
        /\ users' = IF valid THEN users \cup {texts["username"]} ELSE users
        /\ accounts' = IF valid THEN WithAccount(texts["username"], texts["password"])
                       ELSE accounts
        /\ UNCHANGED <<bits, rows, templates, acked>>

\* UsersService::registerUser() and UsersRepositoryInMemory::add()
RegisterUser(request) ==
    LET registered == PostUser(request.body) = OK
        texts == request.body.texts
    IN  /\ Posted(request, "users")
        /\ Exchanged(request)
        /\ users' = IF registered THEN users \cup {texts["username"]} ELSE users
        /\ accounts' = IF registered THEN WithAccount(texts["username"], texts["password"])
                       ELSE accounts
        /\ UNCHANGED <<bits, rows, templates, acked>>

\* Every other request changes nothing.
Read(request) ==
    /\ \A resource \in {"bits", "templates", "users"} : ~Posted(request, resource)
    /\ Exchanged(request)
    /\ UNCHANGED <<bits, rows, templates, users, accounts, acked>>

Next == \E request \in Requests :
    PublishBit(request) \/ PublishTemplate(request) \/ RegisterUser(request) \/ Read(request)

Spec == Init /\ [][Next]_vars

-------------------------------------------------------------------------------
Get(path, query) == Request("GET", path, query, {}, Unparsable)

\* GET by name and, for `versions', by name and version.
Download(table, name) == Get(<<table, name>>, <<>>)

DownloadVersion(table, name, version) == Get(<<table, name, version>>, <<>>)

SearchFor(text) == Get(<<"bits">>, <<<<"name", text>>>>)

Bits == {p \in acked : p.table = "bits"}

\* The table of bits and the map of the other repository hold the same packages,
\* each list under its name and sorted, and a name has an account once registered.
TypeOK ==
    /\ rows = Memory!AllBits(bits)
    /\ \A name \in DOMAIN bits : \A i, j \in 1 .. Len(bits[name]) :
           /\ bits[name][i].name = name
           /\ i < j => TextLess(bits[name][i].version, bits[name][j].version)
    /\ users = DOMAIN accounts
    /\ acked = rows \cup templates
    /\ exchange.answer.status \in {0, OK, NO_CONTENT, BAD_REQUEST, UNAUTHORIZED,
                                   NOT_FOUND, CONFLICT, INTERNAL_SERVER_ERROR}

\* What was answered 200 can be downloaded as it was sent, by the path of its
\* name and version, and by the path of its name comes a version no older in the
\* order of texts: the rules for fields and the routes, written apart, agree on
\* every character (field_validation.cpp:23-25, TemplatesContract.cpp:26-27,
\* Endpoint.cpp:57).
PublishedIsFetched ==
    /\ \A p \in acked :
           Answered(DownloadVersion(p.table, p.name, p.version)) = Answer(OK, Shown({p}))
    /\ \A p \in Bits : LET latest == Answered(Download("bits", p.name))
                       IN  /\ latest.status = OK
                           /\ \A q \in latest.shown : ~TextLess(q.version, p.version)

\* Searching for any part of the name of a published bit lists it, with its
\* author at the first publication (BitsRepositoryInSqlite.cpp:139,
\* BitsRepositoryInMemory.cpp:96-100).
SearchFinds ==
    \A p \in Bits : \A i \in 1 .. Len(p.name) : \A j \in i .. Len(p.name) :
        LET search == SearchFor(SubSeq(p.name, i, j))
        IN  /\ [name |-> p.name, author |-> p.user_name] \in Answered(search).shown
            /\ \E q \in AnsweredFromMemory(search).shown : q.name = p.name

\* The repository the tests use answers as the deployed one, but for a search,
\* where it may list less: LIKE knows no case, takes '_' for any character and
\* '%' for any number of them, and has a result for every version.
RepositoriesAgree ==
    LET answer == exchange.answer
        memory_answer == exchange.memory_answer
    IN  /\ answer.status = memory_answer.status
        /\ answer.headers = memory_answer.headers
        /\ memory_answer.shown \subseteq answer.shown
        /\ exchange.request.path # <<"bits">> => memory_answer.shown = answer.shown

\* The places of the k-th number of a version.
Places(version, k) ==
    {i \in 1 .. Len(version) :
        /\ Char(version, i) \in Digits
        /\ Cardinality({j \in Dots(version) : j < i}) = k - 1}

\* What the digits at some places come to, read from the left up to the i-th.
Reading(version, places) ==
    LET read[i \in Nat] ==
            IF i = 0 THEN 0
            ELSE IF i \in places
            THEN 10 * read[i - 1] + (Code[Char(version, i)] - Code["0"])
            ELSE read[i - 1]
    IN  read

\* The k-th number, smaller than any when there is none.
Number(version, k) ==
    LET places == Places(version, k)
    IN  IF places = {} THEN -1 ELSE Reading(version, places)[Len(version)]

Newer(v, w) ==
    \E k \in 1 .. 3 :
        /\ Number(v, k) > Number(w, k)
        /\ \A j \in 1 .. k - 1 : Number(v, j) = Number(w, j)

SameWidths(v, w) ==
    /\ Dotted(v, 1 .. 3)
    /\ Dotted(w, 1 .. 3)
    /\ \A k \in 1 .. 3 : {} \in {Places(v, k), Places(w, k)}
                             \/ Cardinality(Places(v, k)) = Cardinality(Places(w, k))

\* A download by name gives the newest version by its numbers, as long as the
\* numbers of the versions are written equally wide and carry no suffix: texts
\* are ordered, not numbers (BitsRepositoryInSqlite.cpp:105,
\* BitsRepositoryInMemory.cpp:23-26).
LatestIsNewest ==
    \A p \in Bits :
        (\A q, r \in Bits : q.name = p.name /\ r.name = p.name
                                => SameWidths(q.version, r.version))
            => \A latest \in Answered(Download("bits", p.name)).shown :
                   ~Newer(p.version, latest.version)

\* A page of another origin can read the answer to a request whose method the
\* preflight of the same path announced, unless a handler threw
\* (HttpResource.h:43-61, HttpServer.cpp:124-142).
PreflightKept ==
    LET request == exchange.request
        preflight == Answered([request EXCEPT !.method = "OPTIONS",
                                  !.headers = @ \cup {"Access-Control-Request-Method"}])
        announced == Has(preflight.headers, "Access-Control-Allow-Methods")
            /\ preflight.headers["Access-Control-Allow-Methods"] = request.method
    IN  "Origin" \in request.headers /\ announced
            /\ exchange.answer.status # INTERNAL_SERVER_ERROR
        => Has(exchange.answer.headers, "Access-Control-Allow-Origin")

\* A registered name keeps its password: a second registration of the name is
\* refused before the authenticator hears of it (UsersService.cpp:37-42).
AccountsAreKept ==
    [][\A name \in DOMAIN accounts :
           Has(accounts', name) /\ accounts'[name] = accounts[name]]_vars

===============================================================================
