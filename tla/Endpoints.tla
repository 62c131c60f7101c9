------------------------------- MODULE Endpoints -------------------------------
(***************************************************************************)
(* The way of a request to the handler of a resource: http/Endpoint.cpp,    *)
(* http/HttpParameterMap.h, management/http_routes.cpp and the parsing and  *)
(* dispatching of http/HttpServer.cpp. A path is the sequence of the texts  *)
(* between its slashes, a query the sequence of its fragments, each split   *)
(* at its equals signs.                                                    *)
(***************************************************************************)
EXTENDS Contracts, HttpStatus

-------------------------------------------------------------------------------
(* HttpParameterMap: a partial function. insert() keeps what is there, and   *)
(* get() of what is not there dereferences end().                           *)

NoParameters == [parameter \in {} |-> ""]

\* No text the hub handles: what reading past the map may give.
Undefined == "undefined"

Has(map, parameter) == parameter \in DOMAIN map

Set(map, parameter, value) ==
    [p \in DOMAIN map \cup {parameter} |-> IF Has(map, p) THEN map[p] ELSE value]

GetFrom(map, parameter) == IF Has(map, parameter) THEN map[parameter] ELSE Undefined

-------------------------------------------------------------------------------
(* Endpoints: the tokens of the path they were made from.                   *)

Literal(text) == [parameter |-> FALSE, text |-> text]

Parameter(name) == [parameter |-> TRUE, text |-> name]

\* Mutant of ParameterCharacters: no dot.
WordCharacters == Alphanumeric \cup {"_", "-"}

\* [\w\-0-9\\.]
ParameterCharacters == Alphanumeric \cup {"_", "-", "\\", "."}

TokenMatches(token, segment) ==
    IF token.parameter
    THEN segment # "" /\ CharactersOf(segment) \subseteq ParameterCharacters
    ELSE segment = token.text

Matches(endpoint, path) ==
    /\ Len(endpoint) = Len(path)
    /\ \A i \in 1 .. Len(path) : TokenMatches(endpoint[i], path[i])

\* The parameters Endpoint::match() sets, the first of a name staying.
MatchedParameters(endpoint, path) ==
    LET names == {endpoint[i].text : i \in {j \in 1 .. Len(path) : endpoint[j].parameter}}
        position(name) == CHOOSE i \in 1 .. Len(path) :
            /\ endpoint[i] = Parameter(name)
            /\ \A j \in 1 .. i - 1 : endpoint[j] # Parameter(name)
    IN  [name \in names |-> path[position(name)]]

\* installServiceRoutes(), in the order of std::map<Endpoint, ...>: by the text
\* of the regular expression.
Routes ==
    <<[endpoint |-> <<Literal("bits")>>, resource |-> "bits"],
      [endpoint |-> <<Literal("bits"), Parameter("bitName")>>, resource |-> "bits"],
      [endpoint |-> <<Literal("bits"), Parameter("bitName"), Parameter("bitVersion")>>,
       resource |-> "bits"],
      [endpoint |-> <<Literal("templates")>>, resource |-> "templates"],
      [endpoint |-> <<Literal("templates"), Parameter("templateName"),
                      Parameter("version")>>, resource |-> "templates"],
      [endpoint |-> <<Literal("users")>>, resource |-> "users"]>>

MatchingRoutes(path) == {i \in 1 .. Len(Routes) : Matches(Routes[i].endpoint, path)}

\* The first endpoint that matches.
RouteOf(path) ==
    Routes[CHOOSE i \in MatchingRoutes(path) : \A j \in MatchingRoutes(path) : i <= j]

-------------------------------------------------------------------------------
(* HttpRequest and HttpResponse                                             *)

\* digestQueryString(): fragments with one equals sign, the first of a name
\* staying.
QueryParameters(query) ==
    LET named(name) == {i \in 1 .. Len(query) : Len(query[i]) = 2 /\ query[i][1] = name}
        names == {query[i][1] : i \in {j \in 1 .. Len(query) : Len(query[j]) = 2}}
    IN  [name \in names |->
            query[CHOOSE i \in named(name) : \A j \in named(name) : i <= j][2]]

\* headers are the names of the request's headers.
Request(method, path, query, headers, body) ==
    [method |-> method, path |-> path, query |-> query, headers |-> headers, body |-> body]

NoHeaders == [header \in {} |-> ""]

\* The body of a response is the set of packages it shows.
Answer(status, shown) == [status |-> status, shown |-> shown, headers |-> NoHeaders]

Allowed(resource) == IF resource = "users" THEN "POST" ELSE "GET"

\* HttpResource::options()
Options(resource, request) ==
    LET asked == "Access-Control-Request-Method" \in request.headers
        with_method ==
            IF asked
            THEN Set(Set(NoHeaders, "Access-Control-Allow-Methods", Allowed(resource)),
                     "Access-Control-Max-Age", "86400")
            ELSE NoHeaders
    IN  [Answer(NO_CONTENT, {}) EXCEPT !.headers =
            IF "Access-Control-Request-Headers" \in request.headers
            THEN Set(Set(with_method, "Access-Control-Allow-Headers", "*"),
                     "Access-Control-Max-Age", "86400")
            ELSE with_method]

\* Mutant of HandleCors: only the answers of a preflight.
HandlePreflightCors(request, answer) ==
    IF "Origin" \in request.headers /\ answer.status = NO_CONTENT
    THEN [answer EXCEPT !.headers = Set(@, "Access-Control-Allow-Origin", "*")]
    ELSE answer

\* HttpResource::handleCors(); every resource allows every origin.
HandleCors(request, answer) ==
    IF "Origin" \in request.headers
    THEN [answer EXCEPT !.headers =
             Set(Set(@, "Access-Control-Allow-Origin", "*"),
                 "Access-Control-Max-Age", "86400")]
    ELSE answer

===============================================================================
