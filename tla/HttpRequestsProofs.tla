--------------------------- MODULE HttpRequestsProofs ---------------------------
(***************************************************************************)
(* Proofs for any requests, of which none searches for a text with a quote *)
(* (PlainSearches).  A registered name keeps its password, and a preflight *)
(* is kept: the first sections.  The rest is about packages: what texts    *)
(* are and how they are ordered, which paths match which route, the        *)
(* numbers in a version, how add() keeps a list in order; the invariant of *)
(* the tables and of the repository in memory, IInv; and from it that what *)
(* was published is downloaded and searched for, that the latest version   *)
(* is the newest, that the two repositories answer alike, and type         *)
(* correctness.                                                            *)
(***************************************************************************)
EXTENDS HttpRequests, FiniteSetTheorems, TLAPS

-------------------------------------------------------------------------------
(* Passwords. *)

\* The hub's repository of users and the authenticator know the same names.
SameNames == users = DOMAIN accounts

LEMMA InitSameNames == Init => SameNames
  BY DEF Init, SameNames, NoParameters

\* A registration either fails and leaves both alone, or adds a new name to both.
LEMMA RegisterUserKeeps ==
    ASSUME NEW request, RegisterUser(request), SameNames
    PROVE  /\ SameNames'
           /\ \A name \in DOMAIN accounts :
                  Has(accounts', name) /\ accounts'[name] = accounts[name]
<1>1. CASE PostUser(request.body) # OK
  BY <1>1 DEF RegisterUser, SameNames, Has
<1>2. CASE PostUser(request.body) = OK
  <2> DEFINE username == request.body.texts["username"]
             password == request.body.texts["password"]
  <2>1. username \notin users
    BY <1>2 DEF PostUser, OK, CONFLICT, BAD_REQUEST, INTERNAL_SERVER_ERROR
  <2>2. username \notin DOMAIN accounts
    BY <2>1 DEF SameNames
  <2>3. users' = users \cup {username} /\ accounts' = WithAccount(username, password)
    BY <1>2 DEF RegisterUser
  <2> HIDE DEF username, password
  <2> QED
    BY <2>2, <2>3 DEF WithAccount, SameNames, Has
<1> QED
  BY <1>1, <1>2

LEMMA NextKeeps ==
    ASSUME SameNames, [Next]_vars
    PROVE  /\ SameNames'
           /\ \A name \in DOMAIN accounts :
                  Has(accounts', name) /\ accounts'[name] = accounts[name]
<1>1. ASSUME NEW request, RegisterUser(request)
      PROVE  /\ SameNames'
             /\ \A name \in DOMAIN accounts :
                    Has(accounts', name) /\ accounts'[name] = accounts[name]
  BY <1>1, RegisterUserKeeps
<1>2. CASE UNCHANGED <<users, accounts>>
  BY <1>2 DEF SameNames, Has
<1>3. ASSUME NEW request, PublishBit(request) PROVE UNCHANGED <<users, accounts>>
  BY <1>3 DEF PublishBit
<1>4. ASSUME NEW request, PublishTemplate(request) PROVE UNCHANGED <<users, accounts>>
  BY <1>4 DEF PublishTemplate
<1>5. ASSUME NEW request, Read(request) PROVE UNCHANGED <<users, accounts>>
  BY <1>5 DEF Read
<1>6. UNCHANGED vars => UNCHANGED <<users, accounts>>
  BY DEF vars
<1> QED
  BY <1>1, <1>2, <1>3, <1>4, <1>5, <1>6 DEF Next

LEMMA SameNamesHold == Spec => []SameNames
  BY InitSameNames, NextKeeps, PTL DEF Spec

\* Whatever clients send, a second registration of a name changes no password
\* (users/UsersService.cpp:37-42, authentication/TrivialAuthenticator.cpp:57-60).
THEOREM PasswordsStay == Spec => AccountsAreKept
<1>1. SameNames /\ [Next]_vars =>
          [\A name \in DOMAIN accounts :
               Has(accounts', name) /\ accounts'[name] = accounts[name]]_vars
  BY NextKeeps
<1> QED
  BY <1>1, SameNamesHold, PTL DEF Spec, AccountsAreKept

-------------------------------------------------------------------------------
(* Answers. Whatever handler a request comes to, it answers with a record of   *)
(* the three fields, with a status the code names.                            *)

Statuses == {0, OK, NO_CONTENT, BAD_REQUEST, UNAUTHORIZED, NOT_FOUND, CONFLICT,
             INTERNAL_SERVER_ERROR}

LEMMA PostStatuses ==
    ASSUME NEW body, NEW found
    PROVE  /\ PostBit(body, found) \in Statuses
           /\ PostTemplate(body) \in Statuses
           /\ PostUser(body) \in Statuses
  BY DEF PostBit, PostTemplate, PostUser, Statuses

LEMMA GetsAnswer ==
    ASSUME NEW parameters, NEW query
    PROVE  \E status \in Statuses : \E shown :
               GetBitFromSqlite(parameters, query) = Answer(status, shown)
<1>1. {OK, NOT_FOUND, BAD_REQUEST} \subseteq Statuses
  BY DEF Statuses
<1>2. \E status \in {OK, NOT_FOUND, BAD_REQUEST} : \E shown :
          GetBitFromSqlite(parameters, query) = Answer(status, shown)
  BY DEF GetBitFromSqlite, GetBit, AnswerFound
<1> QED
  BY <1>1, <1>2

Answers(answer) ==
    \E known \in Statuses : \E some, headers :
        answer = [status |-> known, shown |-> some, headers |-> headers]

LEMMA HandledAnswers ==
    ASSUME NEW resource, NEW request, NEW parameters,
           NEW status \in Statuses, NEW shown, NEW post \in Statuses
    PROVE  Answers(Handled(resource, request, parameters, Answer(status, shown), post))
<1> DEFINE get == Answer(status, shown)
           answer == Handled(resource, request, parameters, get, post)
<1>1. \A known, some : Answer(known, some)
                           = [status |-> known, shown |-> some, headers |-> NoHeaders]
  BY DEF Answer
<1>2. \/ answer = get
      \/ answer = GetTemplate(parameters)
      \/ answer = Answer(post, {})
      \/ answer = Answer(PostTemplate(request.body), {})
      \/ answer = Answer(PostUser(request.body), {})
      \/ answer = Options(resource, request)
      \/ answer = Answer(NOT_FOUND, {})
  <2> HIDE DEF get
  <2> QED
    BY DEF Handled
<1> SUFFICES Answers(answer)
  OBVIOUS
<1>3. CASE answer = get
  BY <1>1, <1>3 DEF Answers
<1>4. CASE answer = GetTemplate(parameters)
  <2>1. \E known \in {OK, NOT_FOUND, BAD_REQUEST} : \E some :
            GetTemplate(parameters) = Answer(known, some)
    BY DEF GetTemplate, AnswerFound
  <2>2. {OK, NOT_FOUND, BAD_REQUEST} \subseteq Statuses
    BY DEF Statuses
  <2> HIDE DEF answer
  <2> QED
    BY <1>1, <1>4, <2>1, <2>2 DEF Answers
<1>5. CASE answer = Answer(post, {})
  BY <1>1, <1>5 DEF Answers
<1>6. CASE answer = Answer(PostTemplate(request.body), {})
  BY <1>1, <1>6, PostStatuses DEF Answers
<1>7. CASE answer = Answer(PostUser(request.body), {})
  BY <1>1, <1>7, PostStatuses DEF Answers
<1>8. CASE answer = Options(resource, request)
  <2>1. \E headers : Options(resource, request)
                         = [status |-> NO_CONTENT, shown |-> {}, headers |-> headers]
    <3> DEFINE headers == Options(resource, request).headers
    <3>1. Options(resource, request)
              = [status |-> NO_CONTENT, shown |-> {}, headers |-> headers]
      BY DEF Options, Answer
    <3> QED
      BY <3>1
  <2>2. NO_CONTENT \in Statuses
    BY DEF Statuses
  <2> HIDE DEF answer
  <2> QED
    BY <1>8, <2>1, <2>2 DEF Answers
<1>9. CASE answer = Answer(NOT_FOUND, {})
  <2>1. NOT_FOUND \in Statuses
    BY DEF Statuses
  <2> QED
    BY <1>1, <1>9, <2>1 DEF Answers
<1> HIDE DEF answer
<1> QED
  BY <1>2, <1>3, <1>4, <1>5, <1>6, <1>7, <1>8, <1>9

-------------------------------------------------------------------------------
(* CORS. *)

\* What handleCors() adds, and that it leaves the other headers alone.
LEMMA CorsHeaders ==
    ASSUME NEW request, NEW status, NEW shown, NEW headers
    PROVE  LET answer == [status |-> status, shown |-> shown, headers |-> headers]
               handled == HandleCors(request, answer)
           IN  /\ handled.status = status /\ handled.shown = shown
               /\ "Origin" \in request.headers =>
                      Has(handled.headers, "Access-Control-Allow-Origin")
               /\ \A h \in DOMAIN headers :
                      Has(handled.headers, h) /\ handled.headers[h] = headers[h]
               /\ \A h \in DOMAIN handled.headers :
                      h \in DOMAIN headers
                          \cup {"Access-Control-Allow-Origin", "Access-Control-Max-Age"}
<1> DEFINE answer == [status |-> status, shown |-> shown, headers |-> headers]
           allowing == Set(headers, "Access-Control-Allow-Origin", "*")
           aged == Set(allowing, "Access-Control-Max-Age", "86400")
<1>1. CASE "Origin" \in request.headers
  <2>1. HandleCors(request, answer) = [status |-> status, shown |-> shown, headers |-> aged]
    BY <1>1 DEF HandleCors
  <2>2. DOMAIN allowing = DOMAIN headers \cup {"Access-Control-Allow-Origin"}
        /\ \A h \in DOMAIN headers : allowing[h] = headers[h]
    BY DEF Set, Has
  <2>3. DOMAIN aged = DOMAIN allowing \cup {"Access-Control-Max-Age"}
        /\ \A h \in DOMAIN allowing : aged[h] = allowing[h]
    BY DEF Set, Has
  <2> HIDE DEF allowing, aged
  <2> QED
    BY <1>1, <2>1, <2>2, <2>3 DEF Has
<1>2. CASE "Origin" \notin request.headers
  BY <1>2 DEF HandleCors, Has
<1> QED
  BY <1>1, <1>2

\* A preflight announces the one method of the resource.
LEMMA PreflightHeaders ==
    ASSUME NEW request, request.method = "OPTIONS",
           NEW get, NEW post,
           Has(Dispatch(request, get, post).headers, "Access-Control-Allow-Methods")
    PROVE  /\ MatchingRoutes(request.path) # {}
           /\ Dispatch(request, get, post).headers["Access-Control-Allow-Methods"]
                  = Allowed(RouteOf(request.path).resource)
<1> DEFINE resource == RouteOf(request.path).resource
           methods == Set(NoHeaders, "Access-Control-Allow-Methods", Allowed(resource))
           aged == Set(methods, "Access-Control-Max-Age", "86400")
           with_method == IF "Access-Control-Request-Method" \in request.headers
                          THEN aged ELSE NoHeaders
           asked == Set(with_method, "Access-Control-Allow-Headers", "*")
           headers == IF "Access-Control-Request-Headers" \in request.headers
                      THEN Set(asked, "Access-Control-Max-Age", "86400") ELSE with_method
           answer == [status |-> NO_CONTENT, shown |-> {}, headers |-> headers]
<1>1. MatchingRoutes(request.path) # {}
  BY DEF Dispatch, Answer, Has, NoHeaders
<1>2. Options(resource, request) = answer
  BY DEF Options, Answer
<1>3. Handled(resource, request, Parameters(request), get, post) = answer
  <2> HIDE DEF answer
  <2> QED
    BY <1>2 DEF Handled
<1>4. Dispatch(request, get, post) = HandleCors(request, answer)
  <2>1. answer.status # INTERNAL_SERVER_ERROR
    BY DEF NO_CONTENT, INTERNAL_SERVER_ERROR
  <2> HIDE DEF answer
  <2> QED
    BY <1>1, <1>3, <2>1 DEF Dispatch
\* Whatever was put first stays.
<1>5. "Access-Control-Allow-Methods" \in DOMAIN headers =>
          headers["Access-Control-Allow-Methods"] = Allowed(resource)
  <2>1. DOMAIN methods = {"Access-Control-Allow-Methods"}
        /\ methods["Access-Control-Allow-Methods"] = Allowed(resource)
    BY DEF Set, Has, NoHeaders
  <2> HIDE DEF methods
  <2>2. DOMAIN aged = DOMAIN methods \cup {"Access-Control-Max-Age"}
        /\ \A h \in DOMAIN methods : aged[h] = methods[h]
    BY DEF Set, Has
  <2> HIDE DEF aged
  <2>3. "Access-Control-Allow-Methods" \in DOMAIN with_method =>
            with_method["Access-Control-Allow-Methods"] = Allowed(resource)
    BY <2>1, <2>2 DEF NoHeaders
  <2> HIDE DEF with_method
  <2>4. DOMAIN asked = DOMAIN with_method \cup {"Access-Control-Allow-Headers"}
        /\ \A h \in DOMAIN with_method : asked[h] = with_method[h]
    BY DEF Set, Has
  <2> HIDE DEF asked
  <2>5. DOMAIN Set(asked, "Access-Control-Max-Age", "86400")
            = DOMAIN asked \cup {"Access-Control-Max-Age"}
        /\ \A h \in DOMAIN asked :
               Set(asked, "Access-Control-Max-Age", "86400")[h] = asked[h]
    BY DEF Set, Has
  <2> QED
    BY <2>3, <2>4, <2>5
<1> HIDE DEF headers
<1> QED
  BY <1>1, <1>4, <1>5, CorsHeaders DEF Has

\* An answer to a method the hub serves has CORS headers, unless a handler threw.
LEMMA ServedHasCors ==
    ASSUME NEW request, "Origin" \in request.headers,
           NEW status \in Statuses, NEW shown, NEW post \in Statuses,
           request.method \in {"GET", "POST"}, MatchingRoutes(request.path) # {},
           Dispatch(request, Answer(status, shown), post).status # INTERNAL_SERVER_ERROR
    PROVE  Has(Dispatch(request, Answer(status, shown), post).headers,
               "Access-Control-Allow-Origin")
<1> DEFINE get == Answer(status, shown)
           answer == Handled(RouteOf(request.path).resource, request,
                             Parameters(request), get, post)
<1>1. Answers(answer)
  BY HandledAnswers
<1> HIDE DEF get
<1>2. Dispatch(request, get, post) = IF answer.status = INTERNAL_SERVER_ERROR THEN answer
                                     ELSE HandleCors(request, answer)
  BY DEF Dispatch
<1> HIDE DEF answer
<1>3. Dispatch(request, get, post) = HandleCors(request, answer)
  BY <1>2 DEF get
<1>4. Has(HandleCors(request, answer).headers, "Access-Control-Allow-Origin")
  <2>1. PICK known, some, headers :
            answer = [status |-> known, shown |-> some, headers |-> headers]
    BY <1>1 DEF Answers
  <2> QED
    BY <2>1, CorsHeaders
<1> QED
  BY <1>3, <1>4 DEF get

AnsweredIsReadable ==
    LET request == exchange.request
    IN  /\ "Origin" \in request.headers
        /\ request.method \in {"GET", "POST"}
        /\ MatchingRoutes(request.path) # {}
        /\ exchange.answer.status # INTERNAL_SERVER_ERROR
        => Has(exchange.answer.headers, "Access-Control-Allow-Origin")

\* The last request is a record of its fields.
RequestIsWhole ==
    LET request == exchange.request
    IN  request = Request(request.method, request.path, request.query, request.headers,
                          request.body)

\* What Request() builds is a record of its fields.
LEMMA WholeRequest ==
    ASSUME NEW method, NEW path, NEW query, NEW headers, NEW body,
           NEW request, request = Request(method, path, query, headers, body)
    PROVE  /\ request.headers = headers
           /\ request = Request(request.method, request.path, request.query,
                                request.headers, request.body)
<1>1. request.method = method /\ request.path = path
  BY DEF Request
<1>2. request.query = query /\ request.headers = headers /\ request.body = body
  BY DEF Request
<1> QED
  BY <1>1, <1>2

LEMMA LastExchange ==
    Spec => [](RequestIsWhole /\ AnsweredIsReadable)
<1> DEFINE Inv == RequestIsWhole /\ AnsweredIsReadable
<1>1. Init => Inv
  <2>1. PICK initial : /\ initial = NoExchange.request
                      /\ initial = Request("", <<>>, <<>>, {}, Unparsable)
    BY DEF NoExchange
  <2>2. /\ initial.headers = {}
        /\ initial = Request(initial.method, initial.path, initial.query,
                             initial.headers, initial.body)
    <3>1. PICK method, path, query, headers, body :
              /\ headers = {}
              /\ initial = Request(method, path, query, headers, body)
      BY <2>1
    <3>2. initial = Request(method, path, query, headers, body)
      BY <3>1
    <3>3. initial.headers = headers
      BY <3>2, WholeRequest
    <3>4. initial = Request(initial.method, initial.path, initial.query,
                            initial.headers, initial.body)
      BY <3>2, WholeRequest
    <3> QED
      BY <3>1, <3>3, <3>4
  <2>3. Init => exchange = NoExchange
    BY DEF Init
  <2> QED
    BY <2>1, <2>2, <2>3 DEF AnsweredIsReadable, RequestIsWhole
<1>2. Inv /\ [Next]_vars => Inv'
  <2> SUFFICES ASSUME Inv, [Next]_vars PROVE Inv'
    OBVIOUS
  <2>1. ASSUME NEW request \in Requests, Exchanged(request) PROVE Inv'
    <3> DEFINE get == GetBitFromSqlite(Parameters(request), QueryParameters(request.query))
               post == PostBitToSqlite(request.body)
    <3>1. PICK status \in Statuses : \E shown : get = Answer(status, shown)
      BY GetsAnswer
    <3>2. PICK shown : get = Answer(status, shown)
      BY <3>1
    <3>3. post \in Statuses
      BY PostStatuses DEF PostBitToSqlite
    <3>4. exchange'.request = request /\ exchange'.answer = Dispatch(request, get, post)
      BY <2>1 DEF Exchanged, Answered
    <3> HIDE DEF get, post
    <3>5. AnsweredIsReadable'
      BY <3>2, <3>3, <3>4, ServedHasCors DEF AnsweredIsReadable
    <3>6. request = Request(request.method, request.path, request.query, request.headers,
                            request.body)
      BY RequestsAssumption
    <3>7. RequestIsWhole'
      BY <3>4, <3>6 DEF RequestIsWhole
    <3> QED
      BY <3>5, <3>7
  <2>2. CASE UNCHANGED vars
    BY <2>2 DEF AnsweredIsReadable, RequestIsWhole, vars
  <2>3. CASE Next
    <3>1. PICK request \in Requests : Exchanged(request)
      BY <2>3 DEF Next, PublishBit, PublishTemplate, RegisterUser, Read
    <3> QED
      BY <2>1, <3>1
  <2> QED
    BY <2>2, <2>3
<1> QED
  BY <1>1, <1>2, PTL DEF Spec

\* Whatever clients ask, a page of another origin can read the answer to a request
\* whose method the preflight of its path announces, unless a handler threw
\* (http/HttpResource.h:43-61, http/HttpServer.cpp:124-142).
THEOREM PreflightIsKept == Spec => []PreflightKept
<1>1. RequestIsWhole /\ AnsweredIsReadable => PreflightKept
  <2> DEFINE request == exchange.request
             preflight == [request EXCEPT !.method = "OPTIONS",
                               !.headers = @ \cup {"Access-Control-Request-Method"}]
             get == GetBitFromSqlite(Parameters(preflight), QueryParameters(preflight.query))
             post == PostBitToSqlite(preflight.body)
             allowed == Answered(preflight).headers
  <2> SUFFICES ASSUME RequestIsWhole, AnsweredIsReadable,
                      "Origin" \in request.headers,
                      Has(allowed, "Access-Control-Allow-Methods"),
                      allowed["Access-Control-Allow-Methods"] = request.method,
                      exchange.answer.status # INTERNAL_SERVER_ERROR
               PROVE  Has(exchange.answer.headers, "Access-Control-Allow-Origin")
    BY DEF PreflightKept
  <2>1. preflight = Request("OPTIONS", request.path, request.query,
                            request.headers \cup {"Access-Control-Request-Method"},
                            request.body)
    <3>1. request = [method |-> request.method, path |-> request.path,
                     query |-> request.query, headers |-> request.headers,
                     body |-> request.body]
      BY DEF RequestIsWhole, Request
    <3>2. preflight = [[method |-> request.method, path |-> request.path,
                        query |-> request.query, headers |-> request.headers,
                        body |-> request.body]
                          EXCEPT !.method = "OPTIONS",
                                 !.headers = request.headers
                                     \cup {"Access-Control-Request-Method"}]
      BY <3>1, Zenon
    <3> HIDE DEF preflight
    <3> QED
      BY <3>2 DEF Request
  <2>2. Answered(preflight) = Dispatch(preflight, get, post)
    BY DEF Answered
  <2>3. /\ MatchingRoutes(preflight.path) # {}
        /\ request.method = Allowed(RouteOf(preflight.path).resource)
    <3>1. preflight.method = "OPTIONS"
      BY <2>1 DEF Request
    <3> HIDE DEF preflight, get, post
    <3> QED
      BY <2>2, <3>1, PreflightHeaders
  <2>4. preflight.path = request.path
    BY <2>1 DEF Request
  <2> QED
    BY <2>3, <2>4 DEF Allowed, AnsweredIsReadable
<1> QED
  BY <1>1, LastExchange, PTL

-------------------------------------------------------------------------------
(* Texts. TextLess is a strict order of the versions clients send, in which    *)
(* any two are ordered.                                                       *)

LEMMA KnownParts ==
    ASSUME NEW text \in SentTexts, NEW i \in 1 .. Len(text) + 1, NEW j \in 0 .. Len(text)
    PROVE  SubSeq(text, i, j) \in KnownTexts
  BY DEF KnownTexts, Parts

LEMMA SpelledText ==
    ASSUME NEW text \in KnownTexts
    PROVE  /\ Len(text) \in Nat
           /\ \A i \in 1 .. Len(text) + 1 : \A j \in i - 1 .. Len(text) :
                  /\ Len(SubSeq(text, i, j)) = j - i + 1
                  /\ \A m \in 1 .. j - i + 1 :
                         Char(SubSeq(text, i, j), m) = Char(text, i + m - 1)
  BY TextsAssumption DEF Spelled

\* Two texts begin alike when the characters of their beginnings are the same.
LEMMA SameBeginning ==
    ASSUME NEW s \in SentTexts, NEW t \in SentTexts,
           NEW n \in Nat, n <= Len(s), n <= Len(t)
    PROVE  SubSeq(s, 1, n) = SubSeq(t, 1, n) <=> \A i \in 1 .. n : Char(s, i) = Char(t, i)
<1>1. s \in KnownTexts /\ t \in KnownTexts /\ Len(s) \in Nat /\ Len(t) \in Nat
  BY SpelledText DEF KnownTexts
<1>2. SubSeq(s, 1, n) \in KnownTexts /\ SubSeq(t, 1, n) \in KnownTexts
  BY <1>1, KnownParts
<1>3. /\ Len(SubSeq(s, 1, n)) = n /\ Len(SubSeq(t, 1, n)) = n
      /\ \A i \in 1 .. n : Char(SubSeq(s, 1, n), i) = Char(s, i)
      /\ \A i \in 1 .. n : Char(SubSeq(t, 1, n), i) = Char(t, i)
  BY <1>1, SpelledText
<1> QED
  BY <1>2, <1>3, TextsAssumption DEF SameSpelling

\* The texts that have only characters with a code.
Coded == {text \in SentTexts : CharactersOf(text) \subseteq CharactersOf(Characters)}

LEMMA CodedCharacter ==
    ASSUME NEW text \in Coded, NEW i \in 1 .. Len(text)
    PROVE  Char(text, i) \in CharactersOf(Characters)
  BY DEF Coded, CharactersOf

LEMMA CodesDiffer ==
    ASSUME NEW c \in CharactersOf(Characters), NEW d \in CharactersOf(Characters)
    PROVE  /\ Code[c] \in Nat
           /\ Code[c] = Code[d] => c = d
<1>1. Code[c] = CHOOSE i \in 1 .. Len(Characters) : Char(Characters, i) = c
  BY DEF Code
<1>2. Code[d] = CHOOSE i \in 1 .. Len(Characters) : Char(Characters, i) = d
  BY DEF Code
<1>3. \E i \in 1 .. Len(Characters) : Char(Characters, i) = c
  BY DEF CharactersOf
<1>4. \E i \in 1 .. Len(Characters) : Char(Characters, i) = d
  BY DEF CharactersOf
<1>5. Code[c] \in 1 .. Len(Characters) /\ Char(Characters, Code[c]) = c
  BY <1>1, <1>3
<1>6. Char(Characters, Code[d]) = d
  BY <1>2, <1>4
<1>7. Code[c] \in Nat
  <2>1. Len(Characters) \in Nat
    BY TextsAssumption
  <2> QED
    BY <1>5, <2>1
<1> QED
  BY <1>5, <1>6, <1>7

\* TextLess by characters.
LEMMA LessByCharacters ==
    ASSUME NEW s \in Coded, NEW t \in Coded
    PROVE  TextLess(s, t) <=>
               \E n \in 0 .. Len(s) :
                   /\ n < Len(t)
                   /\ \A i \in 1 .. n : Char(s, i) = Char(t, i)
                   /\ n < Len(s) => Code[Char(s, n + 1)] < Code[Char(t, n + 1)]
<1>1. Len(s) \in Nat /\ Len(t) \in Nat /\ s \in SentTexts /\ t \in SentTexts
  BY SpelledText DEF KnownTexts, Coded
<1>2. ASSUME NEW n \in 0 .. Len(s), n < Len(t)
      PROVE  SubSeq(s, 1, n) = SubSeq(t, 1, n) <=> \A i \in 1 .. n : Char(s, i) = Char(t, i)
  BY <1>1, <1>2, SameBeginning
<1> QED
  BY <1>2 DEF TextLess

LEMMA LessIsIrreflexive == ASSUME NEW s \in Coded PROVE ~TextLess(s, s)
<1>1. Len(s) \in Nat
  BY SpelledText DEF KnownTexts, Coded
<1>2. \A i \in 1 .. Len(s) : Code[Char(s, i)] \in Nat
  BY CodedCharacter, CodesDiffer
<1> QED
  BY <1>1, <1>2, LessByCharacters

LEMMA LessIsTransitive ==
    ASSUME NEW s \in Coded, NEW t \in Coded, NEW u \in Coded,
           TextLess(s, t), TextLess(t, u)
    PROVE  TextLess(s, u)
<1>1. Len(s) \in Nat /\ Len(t) \in Nat /\ Len(u) \in Nat
  BY SpelledText DEF KnownTexts, Coded
<1>2. /\ \A i \in 1 .. Len(s) : Code[Char(s, i)] \in Nat
      /\ \A i \in 1 .. Len(t) : Code[Char(t, i)] \in Nat
      /\ \A i \in 1 .. Len(u) : Code[Char(u, i)] \in Nat
  BY CodedCharacter, CodesDiffer
<1>3. PICK m \in 0 .. Len(s) :
          /\ m < Len(t)
          /\ \A i \in 1 .. m : Char(s, i) = Char(t, i)
          /\ m < Len(s) => Code[Char(s, m + 1)] < Code[Char(t, m + 1)]
  BY LessByCharacters
<1>4. PICK n \in 0 .. Len(t) :
          /\ n < Len(u)
          /\ \A i \in 1 .. n : Char(t, i) = Char(u, i)
          /\ n < Len(t) => Code[Char(t, n + 1)] < Code[Char(u, n + 1)]
  BY LessByCharacters
<1> DEFINE k == IF m <= n THEN m ELSE n
<1>5. k \in 0 .. Len(s) /\ k < Len(u) /\ \A i \in 1 .. k : Char(s, i) = Char(u, i)
  BY <1>1, <1>3, <1>4
<1>6. k < Len(s) => Code[Char(s, k + 1)] < Code[Char(u, k + 1)]
  <2>1. CASE m < n
    BY <1>1, <1>3, <1>4, <2>1
  <2>2. CASE n < m
    BY <1>1, <1>3, <1>4, <2>2
  <2>3. CASE m = n
    BY <1>1, <1>2, <1>3, <1>4, <2>3
  <2> QED
    BY <1>1, <2>1, <2>2, <2>3
<1> QED
  BY <1>5, <1>6, LessByCharacters

\* Where two texts first differ.
LEMMA LessIsTotal ==
    ASSUME NEW s \in Coded, NEW t \in Coded, s # t
    PROVE  TextLess(s, t) \/ TextLess(t, s)
<1>1. /\ Len(s) \in Nat /\ Len(t) \in Nat
      /\ s \in KnownTexts /\ t \in KnownTexts
  BY SpelledText DEF KnownTexts, Coded
<1> DEFINE Differ(n) == n = Len(s) \/ n = Len(t) \/ Char(s, n + 1) # Char(t, n + 1)
           differing == {n \in Nat : Differ(n)}
<1>2. PICK n \in differing : \A m \in differing : ~(m < n)
  <2>1. Len(s) \in differing
    BY <1>1
  <2> HIDE DEF differing
  <2>2. differing \subseteq Nat
    BY DEF differing
  <2>3. PICK n \in differing : \A m \in differing : <<m, n>> \notin OpToRel(<, Nat)
    BY <2>1, <2>2, NatLessThanWellFounded, WFMin
  <2> QED
    BY <2>2, <2>3 DEF OpToRel
<1>3. n <= Len(s) /\ n <= Len(t)
  BY <1>1, <1>2
<1>4. \A i \in 1 .. n : Char(s, i) = Char(t, i)
  <2> SUFFICES ASSUME NEW i \in 1 .. n PROVE Char(s, i) = Char(t, i)
    OBVIOUS
  <2>1. i - 1 \in Nat /\ i - 1 < n /\ (i - 1) + 1 = i
    OBVIOUS
  <2>2. ~Differ(i - 1)
    BY <1>2, <2>1
  <2> QED
    BY <2>1, <2>2
<1>5. CASE n = Len(s) /\ n = Len(t)
  BY <1>1, <1>4, <1>5, TextsAssumption DEF SameSpelling
<1>6. CASE n = Len(s) /\ n < Len(t)
  BY <1>1, <1>4, <1>6, LessByCharacters
<1>7. CASE n = Len(t) /\ n < Len(s)
  BY <1>1, <1>4, <1>7, LessByCharacters
<1>8. CASE n < Len(s) /\ n < Len(t)
  <2>1. Char(s, n + 1) # Char(t, n + 1)
    BY <1>2, <1>8
  <2>2. n + 1 \in 1 .. Len(s) /\ n + 1 \in 1 .. Len(t) /\ n \in 0 .. Len(s) /\ n \in 0 .. Len(t)
    BY <1>1, <1>8
  <2>3. Code[Char(s, n + 1)] \in Nat /\ Code[Char(t, n + 1)] \in Nat
        /\ Code[Char(s, n + 1)] # Code[Char(t, n + 1)]
    BY <2>1, <2>2, CodedCharacter, CodesDiffer
  <2>4. CASE Code[Char(s, n + 1)] < Code[Char(t, n + 1)]
    BY <1>4, <1>8, <2>2, <2>4, LessByCharacters
  <2>5. CASE Code[Char(t, n + 1)] < Code[Char(s, n + 1)]
    <3>1. \A i \in 1 .. n : Char(t, i) = Char(s, i)
      BY <1>4
    <3> QED
      BY <1>8, <2>2, <2>5, <3>1, LessByCharacters
  <2> QED
    BY <2>3, <2>4, <2>5
<1> QED
  BY <1>1, <1>3, <1>5, <1>6, <1>7, <1>8

\* The repositories look into texts as this module does.
LEMMA SameTexts ==
    /\ \A s, t : Memory!TextLess(s, t) <=> TextLess(s, t)
    /\ \A s, t : Sqlite!TextLess(s, t) <=> TextLess(s, t)
    /\ \A s, t : Memory!HasPart(s, t) <=> HasPart(s, t)
    /\ \A s, t : Sqlite!Like(s, t) <=> Like(s, t)
<1>1. Memory!Code = Code /\ Sqlite!Code = Code
  BY DEF Memory!Code, Sqlite!Code, Code, Memory!Characters, Sqlite!Characters, Characters,
         Memory!CharactersOf, Sqlite!CharactersOf, CharactersOf,
         Memory!Char, Sqlite!Char, Char
<1>2. /\ \A s, t : Memory!TextLess(s, t) <=> TextLess(s, t)
      /\ \A s, t : Sqlite!TextLess(s, t) <=> TextLess(s, t)
  BY <1>1 DEF Memory!TextLess, Sqlite!TextLess, TextLess, Memory!Char, Sqlite!Char, Char
<1>3. \A s, t : Memory!HasPart(s, t) <=> HasPart(s, t)
  BY DEF Memory!HasPart, HasPart
<1>4. \A c : Sqlite!Folded(c) = Folded(c)
  <2>1. Sqlite!Capitals = Capitals
    BY DEF Sqlite!Capitals, Capitals, Sqlite!CharactersOf, CharactersOf, Sqlite!Char, Char
  <2> QED
    BY <1>1, <2>1 DEF Sqlite!Folded, Folded, Sqlite!Characters, Characters, Sqlite!Char, Char
<1>5. \A S : Sqlite!Cardinality(S) = Cardinality(S)
  BY Zenon DEF Sqlite!Cardinality, Cardinality
<1>6. \A s, i : Sqlite!Gaps(s, i) = Gaps(s, i)
  BY DEF Sqlite!Gaps, Gaps, Sqlite!Char, Char
<1>7. \A s, t : Sqlite!Like(s, t) <=> Like(s, t)
  <2> SUFFICES ASSUME NEW s, NEW t PROVE Sqlite!Like(s, t) <=> Like(s, t)
    OBVIOUS
  <2> DEFINE gaps(i) == Cardinality(Gaps(t, i))
             its_gaps(i) == Sqlite!Cardinality(Sqlite!Gaps(t, i))
             all == gaps(Len(t))
             Fits(skipped) ==
                 \A i \in 1 .. Len(t) :
                     \/ Char(t, i) \in {"%", "_"}
                     \/ Folded(Char(t, i)) = Folded(Char(s, skipped[gaps(i)] + i - gaps(i)))
             ItFits(skipped) ==
                 \A i \in 1 .. Len(t) :
                     \/ Sqlite!Char(t, i) \in {"%", "_"}
                     \/ Sqlite!Folded(Sqlite!Char(t, i))
                            = Sqlite!Folded(Sqlite!Char(s, skipped[its_gaps(i)] + i - its_gaps(i)))
  <2>1. \A i : its_gaps(i) = gaps(i)
    BY <1>5, <1>6
  <2>2. \A x, i : Sqlite!Char(x, i) = Char(x, i)
    BY DEF Sqlite!Char, Char
  <2>3. its_gaps(Len(t)) = all
    BY <2>1
  <2>4. Like(s, t)
            <=> \E skipped \in [0 .. all -> 0 .. Len(s) - (Len(t) - all)] :
                    /\ \A g \in 1 .. all : skipped[g - 1] <= skipped[g]
                    /\ Fits(skipped)
    BY Zenon DEF Like
  <2>5. Sqlite!Like(s, t)
            <=> \E skipped \in [0 .. its_gaps(Len(t)) ->
                                   0 .. Len(s) - (Len(t) - its_gaps(Len(t)))] :
                    /\ \A g \in 1 .. its_gaps(Len(t)) : skipped[g - 1] <= skipped[g]
                    /\ ItFits(skipped)
    BY Zenon DEF Sqlite!Like
  <2> HIDE DEF gaps, its_gaps
  <2>6. \A skipped : ItFits(skipped) <=> Fits(skipped)
    BY <1>4, <2>1, <2>2
  <2> HIDE DEF all, Fits, ItFits
  <2> QED
    BY <2>3, <2>4, <2>5, <2>6
<1> QED
  BY <1>2, <1>3, <1>7

-------------------------------------------------------------------------------
(* Fields. What the rules for names and versions let through fits the segments *)
(* of a path, and a version has only characters with a code.                  *)

LEMMA ValidNameFits ==
    ASSUME NEW text, ValidName(text)
    PROVE  text # "" /\ CharactersOf(text) \subseteq ParameterCharacters
<1>1. text # ""
  <2>1. Len(text) # 0
    BY DEF ValidName
  <2> QED
    BY <2>1, TextsAssumption
<1> QED
  BY <1>1 DEF ValidName, NameCharacters, ParameterCharacters

\* The characters of a text are those of its two parts.
LEMMA SplitCharacters ==
    ASSUME NEW text \in KnownTexts, NEW n \in 0 .. Len(text)
    PROVE  CharactersOf(text)
               = CharactersOf(SubSeq(text, 1, n)) \cup CharactersOf(From(text, n + 1))
<1> DEFINE first == SubSeq(text, 1, n)
           second == SubSeq(text, n + 1, Len(text))
<1>1. Len(text) \in Nat
  BY SpelledText
<1>2. Len(first) = n /\ \A m \in 1 .. n : Char(first, m) = Char(text, m)
  BY <1>1, SpelledText
<1>3. /\ Len(second) = Len(text) - n
      /\ \A m \in 1 .. Len(text) - n : Char(second, m) = Char(text, n + m)
  <2>1. n + 1 \in 1 .. Len(text) + 1 /\ Len(text) \in n .. Len(text)
    BY <1>1
  <2> QED
    BY <1>1, <2>1, SpelledText
<1> HIDE DEF first, second
<1>4. CharactersOf(first) = {Char(text, i) : i \in 1 .. n}
  BY <1>2 DEF CharactersOf
<1>5. CharactersOf(second) = {Char(text, i) : i \in n + 1 .. Len(text)}
  <2>1. \A m \in 1 .. Len(text) - n : n + m \in n + 1 .. Len(text)
    BY <1>1
  <2>2. \A i \in n + 1 .. Len(text) : i - n \in 1 .. Len(text) - n /\ n + (i - n) = i
    BY <1>1
  <2>3. CharactersOf(second) = {Char(text, n + m) : m \in 1 .. Len(text) - n}
    BY <1>3 DEF CharactersOf
  <2>4. \A m \in 1 .. Len(text) - n :
            Char(text, n + m) \in {Char(text, i) : i \in n + 1 .. Len(text)}
    BY <2>1
  <2>5. \A i \in n + 1 .. Len(text) :
            Char(text, i) \in {Char(text, n + m) : m \in 1 .. Len(text) - n}
    BY <2>2
  <2> QED
    BY <2>3, <2>4, <2>5
<1>6. \A i : i \in 1 .. Len(text) <=> i \in 1 .. n \/ i \in n + 1 .. Len(text)
  BY <1>1
<1>7. CharactersOf(text) = CharactersOf(first) \cup CharactersOf(second)
  BY <1>4, <1>5, <1>6 DEF CharactersOf
<1> QED
  BY <1>7 DEF first, second, From

LEMMA SuffixCharacters ==
    ASSUME NEW text \in KnownTexts, VersionSuffix(text)
    PROVE  CharactersOf(text) \subseteq Alphanumeric \cup {"-"}
<1>1. CASE text # "" /\ Char(text, 1) = "-"
  <2>1. Len(text) \in Nat
    BY SpelledText
  <2>2. CASE Len(text) = 0
    BY <2>2 DEF CharactersOf
  <2>3. CASE Len(text) # 0
    <3>1. 1 \in 0 .. Len(text)
      BY <2>1, <2>3
    <3>2. CharactersOf(text) = CharactersOf(SubSeq(text, 1, 1)) \cup CharactersOf(From(text, 2))
      BY <3>1, SplitCharacters
    <3>3. CharactersOf(SubSeq(text, 1, 1)) = {"-"}
      <4>1. /\ Len(SubSeq(text, 1, 1)) = 1
            /\ Char(SubSeq(text, 1, 1), 1) = Char(text, 1)
        BY <2>1, <3>1, SpelledText
      <4>2. CharactersOf(SubSeq(text, 1, 1)) = {Char(SubSeq(text, 1, 1), i) : i \in 1 .. 1}
        BY <4>1 DEF CharactersOf
      <4>3. 1 .. 1 = {1}
        OBVIOUS
      <4> QED
        BY <1>1, <4>1, <4>2, <4>3
    <3>4. CharactersOf(From(text, 2)) \subseteq Alphanumeric
      BY <1>1 DEF VersionSuffix
    <3> QED
      BY <3>2, <3>3, <3>4
  <2> QED
    BY <2>2, <2>3
<1>2. CASE ~(text # "" /\ Char(text, 1) = "-")
  BY <1>2 DEF VersionSuffix
<1> QED
  BY <1>1, <1>2

LEMMA ValidVersionFits ==
    ASSUME NEW text \in SentTexts, NEW counts, ValidVersion(text, counts)
    PROVE  /\ text # "" /\ CharactersOf(text) \subseteq ParameterCharacters
           /\ text \in Coded
<1>1. text \in KnownTexts /\ Len(text) \in Nat
  BY SpelledText DEF KnownTexts
<1>2. PICK n \in 1 .. Len(text) :
          Dotted(SubSeq(text, 1, n), counts) /\ VersionSuffix(From(text, n + 1))
  BY DEF ValidVersion
<1>3. n \in 0 .. Len(text) /\ n + 1 \in 1 .. Len(text) + 1 /\ Len(text) \in 0 .. Len(text)
  BY <1>1, <1>2
<1>4. CharactersOf(text)
          = CharactersOf(SubSeq(text, 1, n)) \cup CharactersOf(From(text, n + 1))
  BY <1>1, <1>3, SplitCharacters
<1>5. CharactersOf(SubSeq(text, 1, n)) \subseteq Digits \cup {"."}
  BY <1>2 DEF Dotted
<1>6. CharactersOf(From(text, n + 1)) \subseteq Alphanumeric \cup {"-"}
  <2>1. From(text, n + 1) \in KnownTexts
    BY <1>3, KnownParts DEF From
  <2> QED
    BY <1>2, <2>1, SuffixCharacters
<1>7. CharactersOf(text) \subseteq Alphanumeric \cup {"-", "."}
  BY <1>4, <1>5, <1>6 DEF Alphanumeric
<1>8. text # ""
  <2>1. Len(text) # 0
    BY <1>1, <1>2
  <2> QED
    BY <2>1, TextsAssumption
<1>9. CharactersOf(text) \subseteq ParameterCharacters
  BY <1>7 DEF ParameterCharacters
<1>10. text \in Coded
  BY <1>7, TextsAssumption DEF Coded
<1> QED
  BY <1>8, <1>9, <1>10

-------------------------------------------------------------------------------
(* Routes. A path matches at most one of them.                                *)

Fits(segment) == segment # "" /\ CharactersOf(segment) \subseteq ParameterCharacters

LEMMA RouteList ==
    /\ Len(Routes) = 6
    /\ Routes[1] = [endpoint |-> <<Literal("bits")>>, resource |-> "bits"]
    /\ Routes[2] = [endpoint |-> <<Literal("bits"), Parameter("bitName")>>,
                    resource |-> "bits"]
    /\ Routes[3] = [endpoint |-> <<Literal("bits"), Parameter("bitName"),
                                   Parameter("bitVersion")>>, resource |-> "bits"]
    /\ Routes[4] = [endpoint |-> <<Literal("templates")>>, resource |-> "templates"]
    /\ Routes[5] = [endpoint |-> <<Literal("templates"), Parameter("templateName"),
                                   Parameter("version")>>, resource |-> "templates"]
    /\ Routes[6] = [endpoint |-> <<Literal("users")>>, resource |-> "users"]
  BY DEF Routes

LEMMA MatchesTokens ==
    ASSUME NEW endpoint, NEW path
    PROVE  /\ Len(endpoint) = 1 =>
                  (Matches(endpoint, path) <=>
                       Len(path) = 1 /\ TokenMatches(endpoint[1], path[1]))
           /\ Len(endpoint) = 2 =>
                  (Matches(endpoint, path) <=>
                       /\ Len(path) = 2
                       /\ TokenMatches(endpoint[1], path[1])
                       /\ TokenMatches(endpoint[2], path[2]))
           /\ Len(endpoint) = 3 =>
                  (Matches(endpoint, path) <=>
                       /\ Len(path) = 3
                       /\ TokenMatches(endpoint[1], path[1])
                       /\ TokenMatches(endpoint[2], path[2])
                       /\ TokenMatches(endpoint[3], path[3]))
<1>1. /\ \A i : i \in 1 .. 1 <=> i = 1
      /\ \A i : i \in 1 .. 2 <=> i = 1 \/ i = 2
      /\ \A i : i \in 1 .. 3 <=> i = 1 \/ i = 2 \/ i = 3
  OBVIOUS
<1>2. CASE Len(path) = Len(endpoint)
  <2>1. Matches(endpoint, path) <=>
            \A i \in 1 .. Len(endpoint) : TokenMatches(endpoint[i], path[i])
    BY <1>2 DEF Matches
  <2>2. CASE Len(endpoint) = 1
    BY <1>1, <1>2, <2>1, <2>2
  <2>3. CASE Len(endpoint) = 2
    BY <1>1, <1>2, <2>1, <2>3
  <2>4. CASE Len(endpoint) = 3
    BY <1>1, <1>2, <2>1, <2>4
  <2> QED
    BY <2>2, <2>3, <2>4
<1>3. CASE Len(path) # Len(endpoint)
  BY <1>3 DEF Matches
<1> QED
  BY <1>2, <1>3

LEMMA MatchesLiteral ==
    ASSUME NEW first, NEW path
    PROVE  Matches(<<Literal(first)>>, path) <=> Len(path) = 1 /\ path[1] = first
<1> DEFINE endpoint == <<Literal(first)>>
<1>1. Len(endpoint) = 1 /\ endpoint[1] = [parameter |-> FALSE, text |-> first]
  BY DEF Literal
<1> HIDE DEF endpoint
<1>3. TokenMatches(endpoint[1], path[1]) <=> path[1] = first
  BY <1>1 DEF TokenMatches
<1>4. Matches(endpoint, path) <=> Len(path) = 1 /\ path[1] = first
  BY <1>1, <1>3, MatchesTokens
<1> QED
  BY <1>4 DEF endpoint

LEMMA MatchesName ==
    ASSUME NEW first, NEW second, NEW path
    PROVE  Matches(<<Literal(first), Parameter(second)>>, path)
               <=> Len(path) = 2 /\ path[1] = first /\ Fits(path[2])
<1> DEFINE endpoint == <<Literal(first), Parameter(second)>>
<1>1. /\ Len(endpoint) = 2
      /\ endpoint[1] = [parameter |-> FALSE, text |-> first]
      /\ endpoint[2] = [parameter |-> TRUE, text |-> second]
  BY DEF Literal, Parameter
<1> HIDE DEF endpoint
<1>2. TokenMatches(endpoint[1], path[1]) <=> path[1] = first
  BY <1>1 DEF TokenMatches
<1>3. TokenMatches(endpoint[2], path[2]) <=> Fits(path[2])
  BY <1>1 DEF TokenMatches, Fits
<1>4. Matches(endpoint, path) <=> Len(path) = 2 /\ path[1] = first /\ Fits(path[2])
  BY <1>1, <1>2, <1>3, MatchesTokens
<1> QED
  BY <1>4 DEF endpoint

LEMMA MatchesVersion ==
    ASSUME NEW first, NEW second, NEW third, NEW path
    PROVE  Matches(<<Literal(first), Parameter(second), Parameter(third)>>, path)
               <=> Len(path) = 3 /\ path[1] = first /\ Fits(path[2]) /\ Fits(path[3])
<1> DEFINE endpoint == <<Literal(first), Parameter(second), Parameter(third)>>
<1>1. /\ Len(endpoint) = 3
      /\ endpoint[1] = [parameter |-> FALSE, text |-> first]
      /\ endpoint[2] = [parameter |-> TRUE, text |-> second]
      /\ endpoint[3] = [parameter |-> TRUE, text |-> third]
  BY DEF Literal, Parameter
<1> HIDE DEF endpoint
<1>2. TokenMatches(endpoint[1], path[1]) <=> path[1] = first
  BY <1>1 DEF TokenMatches
<1>3. /\ TokenMatches(endpoint[2], path[2]) <=> Fits(path[2])
      /\ TokenMatches(endpoint[3], path[3]) <=> Fits(path[3])
  BY <1>1 DEF TokenMatches, Fits
<1>4. Matches(endpoint, path)
          <=> Len(path) = 3 /\ path[1] = first /\ Fits(path[2]) /\ Fits(path[3])
  BY <1>1, <1>2, <1>3, MatchesTokens
<1> QED
  BY <1>4 DEF endpoint

LEMMA MatchingRoute ==
    ASSUME NEW path, NEW i
    PROVE  i \in MatchingRoutes(path) <=>
               \/ i = 1 /\ Len(path) = 1 /\ path[1] = "bits"
               \/ i = 2 /\ Len(path) = 2 /\ path[1] = "bits" /\ Fits(path[2])
               \/ i = 3 /\ Len(path) = 3 /\ path[1] = "bits"
                        /\ Fits(path[2]) /\ Fits(path[3])
               \/ i = 4 /\ Len(path) = 1 /\ path[1] = "templates"
               \/ i = 5 /\ Len(path) = 3 /\ path[1] = "templates"
                        /\ Fits(path[2]) /\ Fits(path[3])
               \/ i = 6 /\ Len(path) = 1 /\ path[1] = "users"
<1>1. i \in MatchingRoutes(path) <=> i \in 1 .. 6 /\ Matches(Routes[i].endpoint, path)
  BY RouteList DEF MatchingRoutes
<1>2. i \in 1 .. 6 <=> i = 1 \/ i = 2 \/ i = 3 \/ i = 4 \/ i = 5 \/ i = 6
  OBVIOUS
<1>3. Matches(Routes[1].endpoint, path) <=> Len(path) = 1 /\ path[1] = "bits"
  BY RouteList, MatchesLiteral
<1>4. Matches(Routes[2].endpoint, path)
          <=> Len(path) = 2 /\ path[1] = "bits" /\ Fits(path[2])
  BY RouteList, MatchesName
<1>5. Matches(Routes[3].endpoint, path)
          <=> Len(path) = 3 /\ path[1] = "bits" /\ Fits(path[2]) /\ Fits(path[3])
  BY RouteList, MatchesVersion
<1>6. Matches(Routes[4].endpoint, path) <=> Len(path) = 1 /\ path[1] = "templates"
  BY RouteList, MatchesLiteral
<1>7. Matches(Routes[5].endpoint, path)
          <=> Len(path) = 3 /\ path[1] = "templates" /\ Fits(path[2]) /\ Fits(path[3])
  BY RouteList, MatchesVersion
<1>8. Matches(Routes[6].endpoint, path) <=> Len(path) = 1 /\ path[1] = "users"
  BY RouteList, MatchesLiteral
<1> QED
  BY <1>1, <1>2, <1>3, <1>4, <1>5, <1>6, <1>7, <1>8

LEMMA OneRoute ==
    ASSUME NEW path, NEW i, i \in MatchingRoutes(path)
    PROVE  MatchingRoutes(path) = {i} /\ RouteOf(path) = Routes[i]
<1>1. \A j \in MatchingRoutes(path) : j = i
  BY MatchingRoute
<1>2. i \in 1 .. 6
  BY MatchingRoute
<1>3. MatchingRoutes(path) = {i}
  BY <1>1
<1>4. (CHOOSE k \in {i} : \A j \in {i} : k <= j) = i
  <2>1. i <= i
    BY <1>2
  <2> QED
    BY <2>1
<1> QED
  BY <1>3, <1>4 DEF RouteOf

-------------------------------------------------------------------------------
(* Parameters of paths and queries.                                           *)

LEMMA NoPathParameters ==
    ASSUME NEW first, NEW path, Len(path) = 1
    PROVE  DOMAIN MatchedParameters(<<Literal(first)>>, path) = {}
<1> DEFINE endpoint == <<Literal(first)>>
<1>1. endpoint[1] = [parameter |-> FALSE, text |-> first]
  BY DEF Literal
<1> HIDE DEF endpoint
<1>2. \A i : i \in 1 .. 1 <=> i = 1
  OBVIOUS
<1>3. {j \in 1 .. Len(path) : endpoint[j].parameter} = {}
  BY <1>1, <1>2
<1>4. DOMAIN MatchedParameters(endpoint, path) = {}
  BY <1>3 DEF MatchedParameters
<1> QED
  BY <1>4 DEF endpoint

Maps(map, parameter, value) == DOMAIN map = {parameter} /\ map[parameter] = value

LEMMA NameParameter ==
    ASSUME NEW first, NEW second, NEW endpoint,
           endpoint = <<Literal(first), Parameter(second)>>, NEW path, Len(path) = 2
    PROVE  Maps(MatchedParameters(endpoint, path), second, path[2])
<1> DEFINE position == CHOOSE i \in 1 .. Len(path) :
                           /\ endpoint[i] = Parameter(second)
                           /\ \A j \in 1 .. i - 1 : endpoint[j] # Parameter(second)
<1>1. /\ endpoint[1] = [parameter |-> FALSE, text |-> first]
      /\ endpoint[2] = [parameter |-> TRUE, text |-> second]
  BY DEF Literal, Parameter
<1>2. \A i : i \in 1 .. Len(path) <=> i = 1 \/ i = 2
  OBVIOUS
<1>3. {endpoint[i].text : i \in {j \in 1 .. Len(path) : endpoint[j].parameter}} = {second}
  BY <1>1, <1>2
<1>4. position = 2
  <2>1. endpoint[1] # Parameter(second) /\ endpoint[2] = Parameter(second)
    BY <1>1 DEF Parameter
  <2>2. \A j : j \in 1 .. 2 - 1 <=> j = 1
    OBVIOUS
  <2>3. \A j \in 1 .. 2 - 1 : endpoint[j] # Parameter(second)
    BY <2>1, <2>2
  <2> QED
    BY <1>2, <2>1, <2>3
<1> DEFINE matched == [name \in {second} |-> path[CHOOSE i \in 1 .. Len(path) :
                           /\ endpoint[i] = Parameter(name)
                           /\ \A j \in 1 .. i - 1 : endpoint[j] # Parameter(name)]]
<1>5. MatchedParameters(endpoint, path) = matched
  BY <1>3 DEF MatchedParameters
<1>6. matched = [name \in {second} |-> path[2]]
  <2>1. \A name \in {second} : name = second
    OBVIOUS
  <2> DEFINE value(name) == path[CHOOSE i \in 1 .. Len(path) :
                           /\ endpoint[i] = Parameter(name)
                           /\ \A j \in 1 .. i - 1 : endpoint[j] # Parameter(name)]
  <2>2. value(second) = path[2]
    BY <1>4
  <2>3. matched = [name \in {second} |-> value(name)]
    OBVIOUS
  <2> HIDE DEF value, matched
  <2>4. [name \in {second} |-> value(name)] = [name \in {second} |-> path[2]]
    BY <2>2
  <2> QED
    BY <2>3, <2>4
<1> QED
  BY <1>5, <1>6 DEF Maps

MapsBoth(map, first, value, second, other) ==
    DOMAIN map = {first, second} /\ map[first] = value /\ map[second] = other

LEMMA VersionParameters ==
    ASSUME NEW first, NEW second, NEW third, second # third, NEW endpoint,
           endpoint = <<Literal(first), Parameter(second), Parameter(third)>>,
           NEW path, Len(path) = 3
    PROVE  MapsBoth(MatchedParameters(endpoint, path), second, path[2], third, path[3])
<1> DEFINE position(name) == CHOOSE i \in 1 .. Len(path) :
                           /\ endpoint[i] = Parameter(name)
                           /\ \A j \in 1 .. i - 1 : endpoint[j] # Parameter(name)
<1>1. /\ endpoint[1] = [parameter |-> FALSE, text |-> first]
      /\ endpoint[2] = [parameter |-> TRUE, text |-> second]
      /\ endpoint[3] = [parameter |-> TRUE, text |-> third]
  BY DEF Literal, Parameter
<1>2. \A i : i \in 1 .. Len(path) <=> i = 1 \/ i = 2 \/ i = 3
  OBVIOUS
<1>3. {endpoint[i].text : i \in {j \in 1 .. Len(path) : endpoint[j].parameter}}
          = {second, third}
  BY <1>1, <1>2
<1>4. /\ endpoint[1] # Parameter(second) /\ endpoint[2] = Parameter(second)
      /\ endpoint[3] # Parameter(second)
      /\ endpoint[1] # Parameter(third) /\ endpoint[2] # Parameter(third)
      /\ endpoint[3] = Parameter(third)
  BY <1>1 DEF Parameter
<1>5. (\A j : j \in 1 .. 2 - 1 <=> j = 1) /\ (\A j : j \in 1 .. 3 - 1 <=> j = 1 \/ j = 2)
  OBVIOUS
<1>6. position(second) = 2
  <2>1. \A j \in 1 .. 2 - 1 : endpoint[j] # Parameter(second)
    BY <1>4, <1>5
  <2> QED
    BY <1>2, <1>4, <2>1
<1>7. position(third) = 3
  <2>1. \A j \in 1 .. 3 - 1 : endpoint[j] # Parameter(third)
    BY <1>4, <1>5
  <2> QED
    BY <1>2, <1>4, <2>1
<1>8. MatchedParameters(endpoint, path)
          = [name \in {second, third} |-> path[position(name)]]
  BY <1>3 DEF MatchedParameters
<1> HIDE DEF position
<1>9. path[position(second)] = path[2] /\ path[position(third)] = path[3]
  BY <1>6, <1>7
<1> QED
  BY <1>8, <1>9 DEF MapsBoth

\* A set of natural numbers has a least one.
LEMMA LeastNumber ==
    ASSUME NEW numbers \in SUBSET Nat, numbers # {}
    PROVE  \E n \in numbers : \A m \in numbers : n <= m
<1>1. PICK n \in numbers : \A m \in numbers : <<m, n>> \notin OpToRel(<, Nat)
  BY NatLessThanWellFounded, WFMin
<1>2. \A m \in numbers : ~(m < n)
  BY <1>1 DEF OpToRel
<1>3. n \in Nat /\ \A m \in numbers : m \in Nat
  OBVIOUS
<1>4. \A m \in numbers : n <= m
  BY <1>2, <1>3
<1> QED
  BY <1>4

\* The value of a parameter is one of the request's texts.
LEMMA QueryValue ==
    ASSUME NEW request \in Requests, NEW name, Has(QueryParameters(request.query), name)
    PROVE  GetFrom(QueryParameters(request.query), name) \in SentTexts
<1> DEFINE query == request.query
           named == {i \in 1 .. Len(query) : Len(query[i]) = 2 /\ query[i][1] = name}
           first == CHOOSE i \in named : \A j \in named : i <= j
<1>1. Len(query) \in Nat
  <2>1. query \in Seq(Seq(STRING))
    BY RequestsAssumption, Zenon
  <2> HIDE DEF query
  <2> QED
    BY <2>1
<1>2. named # {} /\ GetFrom(QueryParameters(query), name) = query[first][2]
  BY DEF QueryParameters, GetFrom, Has
<1>3. first \in named
  <2>1. named \in SUBSET Nat
    BY <1>1
  <2> HIDE DEF named
  <2>2. \E i \in named : \A j \in named : i <= j
    BY <1>2, <2>1, LeastNumber
  <2> QED
    BY <2>2
<1> HIDE DEF first
<1>4. first \in 1 .. Len(query) /\ Len(query[first]) = 2
  BY <1>3
<1>5. 2 \in 1 .. Len(query[first])
  BY <1>4
<1>6. query[first][2] \in {query[first][j] : j \in 1 .. Len(query[first])}
  BY <1>5
<1>7. {query[first][j] : j \in 1 .. Len(query[first])}
          \in {{query[i][j] : j \in 1 .. Len(query[i])} : i \in 1 .. Len(query)}
  BY <1>4
<1>8. query[first][2] \in QueryTexts(query)
  BY <1>6, <1>7 DEF QueryTexts
<1> QED
  BY <1>2, <1>8 DEF SentTexts

\* A search has the one parameter it was asked with.
LEMMA SearchParameter ==
    ASSUME NEW part
    PROVE  /\ DOMAIN QueryParameters(<<<<"name", part>>>>) = {"name"}
           /\ QueryParameters(<<<<"name", part>>>>)["name"] = part
<1> DEFINE query == <<<<"name", part>>>>
           named(name) == {i \in 1 .. Len(query) : Len(query[i]) = 2 /\ query[i][1] = name}
<1>1. Len(query) = 1 /\ Len(query[1]) = 2 /\ query[1][1] = "name" /\ query[1][2] = part
  OBVIOUS
<1> HIDE DEF query
<1>2. \A i : i \in 1 .. Len(query) <=> i = 1
  BY <1>1
<1>3. {query[i][1] : i \in {j \in 1 .. Len(query) : Len(query[j]) = 2}} = {"name"}
  BY <1>1, <1>2
<1>4. named("name") = {1}
  BY <1>1, <1>2
<1>5. (CHOOSE i \in named("name") : \A j \in named("name") : i <= j) = 1
  BY <1>4
<1>6. DOMAIN QueryParameters(query) = {"name"} /\ QueryParameters(query)["name"] = part
  BY <1>1, <1>3, <1>5 DEF QueryParameters
<1> QED
  BY <1>6 DEF query

-------------------------------------------------------------------------------
(* Numbers. A recursive function is a CHOOSE, which says nothing of a function *)
(* that does not exist: Reading() is one that does, and compares as its digits *)
(* do. TextLess orders versions of equally wide numbers as the numbers are.    *)

\* What reading from the left says of a function of places.
Reads(f, places, digit) ==
    /\ f \in [Nat -> Nat]
    /\ f[0] = 0
    /\ \A i \in Nat : f[i + 1] = IF i + 1 \in places THEN 10 * f[i] + digit[i + 1] ELSE f[i]

\* Reading up to any place, and so past the last one.
LEMMA ReadingExists ==
    ASSUME NEW last \in Nat, NEW places \in SUBSET (1 .. last), NEW digit \in [places -> 0 .. 9]
    PROVE  \E f : Reads(f, places, digit)
<1> DEFINE Step(f, i) == IF i + 1 \in places THEN 10 * f[i] + digit[i + 1] ELSE f[i]
           UpTo(f, n) == /\ f \in [Nat -> Nat]
                         /\ f[0] = 0
                         /\ \A i \in Nat : i < n => f[i + 1] = Step(f, i)
           unread == {n \in Nat : ~\E f : UpTo(f, n)}
<1>1. ASSUME NEW f \in [Nat -> Nat], NEW i \in Nat PROVE Step(f, i) \in Nat
  OBVIOUS
<1>2. UpTo([i \in Nat |-> 0], 0)
  OBVIOUS
<1>3. ASSUME NEW n \in Nat, NEW f, UpTo(f, n) PROVE \E g : UpTo(g, n + 1)
  <2> DEFINE g == [i \in Nat |-> IF i = n + 1 THEN Step(f, n) ELSE f[i]]
  <2>1. g \in [Nat -> Nat] /\ g[0] = 0
    <3>1. f \in [Nat -> Nat] /\ f[0] = 0
      BY <1>3
    <3>2. Step(f, n) \in Nat
      BY <1>1, <3>1
    <3> HIDE DEF Step
    <3> QED
      BY <3>1, <3>2
  <2>2. ASSUME NEW i \in Nat, i < n + 1 PROVE g[i + 1] = Step(g, i)
    <3>1. g[i] = f[i]
      BY <2>2
    <3>2. g[i + 1] = IF i = n THEN Step(f, n) ELSE f[i + 1]
      OBVIOUS
    <3>3. i # n => f[i + 1] = Step(f, i)
      BY <1>3, <2>2
    <3> QED
      BY <3>1, <3>2, <3>3
  <2> HIDE DEF g
  <2> QED
    BY <2>1, <2>2
<1>4. unread = {}
  <2> SUFFICES ASSUME unread # {} PROVE FALSE
    OBVIOUS
  <2>1. PICK n \in unread : \A m \in unread : n <= m
    <3>1. unread \in SUBSET Nat
      OBVIOUS
    <3> HIDE DEF unread
    <3> QED
      BY <3>1, LeastNumber
  <2>2. n \in Nat /\ n # 0
    BY <1>2, <2>1
  <2>3. n - 1 \in Nat /\ ~(n <= n - 1)
    BY <2>2
  <2>6. n - 1 \notin unread
    <3> HIDE DEF unread
    <3> QED
      BY <2>1, <2>3
  <2>4. PICK f : UpTo(f, n - 1)
    BY <2>3, <2>6
  <2>5. \E g : UpTo(g, (n - 1) + 1)
    <3> HIDE DEF UpTo
    <3> QED
      BY <1>3, <2>3, <2>4
  <2> QED
    BY <2>1, <2>2, <2>5
<1>5. PICK f : UpTo(f, last)
  BY <1>4
<1> DEFINE g == [i \in Nat |-> IF i <= last THEN f[i] ELSE f[last]]
<1>6. g \in [Nat -> Nat] /\ g[0] = 0
  BY <1>5
<1>7. ASSUME NEW i \in Nat PROVE g[i + 1] = Step(g, i)
  <2>1. CASE i < last
    BY <1>5, <2>1
  <2>2. CASE ~(i < last)
    <3>1. i + 1 \notin places
      BY <2>2
    <3>2. g[i] = f[last] /\ g[i + 1] = f[last]
      BY <2>2
    <3> QED
      BY <3>1, <3>2
  <2> QED
    BY <2>1, <2>2
<1> HIDE DEF g
<1> QED
  BY <1>6, <1>7 DEF Reads

\* The digits of a text at some places.
Digit(text, places) == [i \in places |-> Code[Char(text, i)] - Code["0"]]

LEMMA ReadingReads ==
    ASSUME NEW text, NEW last \in Nat, NEW places \in SUBSET (1 .. last),
           \A i \in places : Char(text, i) \in Digits
    PROVE  Reads(Reading(text, places), places, Digit(text, places))
<1> DEFINE Good(f) == f = [i \in Nat |-> IF i = 0 THEN 0
                             ELSE IF i \in places
                             THEN 10 * f[i - 1] + (Code[Char(text, i)] - Code["0"])
                             ELSE f[i - 1]]
           digit == Digit(text, places)
<1>1. Reading(text, places) = CHOOSE f : Good(f)
  BY DEF Reading
<1>2. digit \in [places -> 0 .. 9]
  BY TextsAssumption DEF Digit
<1>3. PICK f : Reads(f, places, digit)
  BY <1>2, ReadingExists
<1>4. Good(f)
  <2> DEFINE g == [i \in Nat |-> IF i = 0 THEN 0
                      ELSE IF i \in places
                      THEN 10 * f[i - 1] + (Code[Char(text, i)] - Code["0"])
                      ELSE f[i - 1]]
  <2>1. ASSUME NEW i \in Nat PROVE f[i] = g[i]
    <3>1. CASE i = 0
      BY <1>3, <3>1 DEF Reads
    <3>2. CASE i # 0
      <4>1. i - 1 \in Nat /\ (i - 1) + 1 = i
        BY <3>2
      <4>2. f[i] = IF i \in places THEN 10 * f[i - 1] + digit[i] ELSE f[i - 1]
        BY <1>3, <4>1 DEF Reads
      <4> QED
        BY <3>2, <4>2 DEF Digit
    <3> QED
      BY <3>1, <3>2
  <2>2. f \in [Nat -> Nat]
    BY <1>3 DEF Reads
  <2> QED
    BY <2>1, <2>2
<1> DEFINE read == Reading(text, places)
<1>5. Good(read)
  <2> HIDE DEF Good
  <2> QED
    BY <1>1, <1>4
<1>6. /\ read = [i \in Nat |-> read[i]]
      /\ read[0] = 0
      /\ \A i \in Nat :
             read[i + 1] = IF i + 1 \in places THEN 10 * read[i] + digit[i + 1] ELSE read[i]
  <2> HIDE DEF read
  <2>1. read = [i \in Nat |-> read[i]] /\ read[0] = 0
    BY <1>5
  <2>2. ASSUME NEW i \in Nat
        PROVE  read[i + 1] = IF i + 1 \in places THEN 10 * read[i] + digit[i + 1] ELSE read[i]
    <3>1. i + 1 \in Nat /\ i + 1 # 0 /\ (i + 1) - 1 = i
      OBVIOUS
    <3>2. read[i + 1] = IF i + 1 \in places
                        THEN 10 * read[i] + (Code[Char(text, i + 1)] - Code["0"])
                        ELSE read[i]
      BY <1>5, <3>1
    <3> QED
      BY <3>2 DEF Digit
  <2> QED
    BY <2>1, <2>2
<1> HIDE DEF read, Good, digit
<1> DEFINE other == {i \in Nat : read[i] # f[i]}
<1>7. other = {}
  <2> SUFFICES ASSUME other # {} PROVE FALSE
    OBVIOUS
  <2>1. PICK n \in other : \A m \in other : n <= m
    <3>1. other \in SUBSET Nat
      OBVIOUS
    <3> HIDE DEF other
    <3> QED
      BY <3>1, LeastNumber
  <2>2. n \in Nat /\ n # 0
    BY <1>3, <1>6, <2>1 DEF Reads
  <2>3. n - 1 \in Nat /\ n - 1 \notin other /\ (n - 1) + 1 = n
    BY <2>1, <2>2
  <2>4. read[n - 1] = f[n - 1]
    BY <2>3
  <2>5. read[n] = f[n]
    BY <1>3, <1>6, <2>3, <2>4 DEF Reads
  <2> QED
    BY <2>1, <2>5
<1>8. \A i \in Nat : read[i] = f[i]
  BY <1>7
<1>9. read \in [Nat -> Nat]
  BY <1>3, <1>6, <1>8 DEF Reads
<1> QED
  BY <1>6, <1>9 DEF Reads, read, digit

\* Readings of the same digits up to the n-th place are the same there.
LEMMA ReadsAlike ==
    ASSUME NEW places, NEW digit, NEW other_digit,
           NEW f, Reads(f, places, digit), NEW g, Reads(g, places, other_digit),
           NEW n \in Nat, \A i \in 1 .. n : i \in places => digit[i] = other_digit[i]
    PROVE  f[n] = g[n]
<1> DEFINE unlike == {i \in 0 .. n : f[i] # g[i]}
<1>1. ASSUME unlike # {} PROVE FALSE
  <2>1. PICK i \in unlike : \A j \in unlike : i <= j
    <3>1. unlike \in SUBSET Nat
      OBVIOUS
    <3> HIDE DEF unlike
    <3> QED
      BY <1>1, <3>1, LeastNumber
  <2>2. i \in Nat /\ i <= n /\ i # 0
    BY <2>1 DEF Reads
  <2>3. i - 1 \in 0 .. n /\ ~(i <= i - 1) /\ (i - 1) + 1 = i /\ i \in 1 .. n
    BY <2>2
  <2>4. i - 1 \notin unlike
    <3> HIDE DEF unlike
    <3> QED
      BY <2>1, <2>3
  <2>5. f[i - 1] = g[i - 1]
    BY <2>3, <2>4
  <2>6. PICK h \in Nat : h = i - 1
    BY <2>3
  <2>7. h + 1 = i /\ f[h] = g[h] /\ (i \in places => digit[i] = other_digit[i])
    BY <2>3, <2>5, <2>6
  <2>8. /\ f[h + 1] = IF h + 1 \in places THEN 10 * f[h] + digit[h + 1] ELSE f[h]
        /\ g[h + 1] = IF h + 1 \in places THEN 10 * g[h] + other_digit[h + 1] ELSE g[h]
    BY DEF Reads
  <2>9. f[i] = g[i]
    BY <2>7, <2>8
  <2> QED
    BY <2>1, <2>9
<1> QED
  BY <1>1

\* Past the last place nothing is read.
LEMMA ReadsOn ==
    ASSUME NEW places \in SUBSET Nat, NEW digit, NEW f, Reads(f, places, digit),
           NEW n \in Nat, places \subseteq 1 .. n, NEW m \in Nat, n <= m
    PROVE  f[m] = f[n]
<1> DEFINE later == {i \in Nat : n <= i /\ f[i] # f[n]}
<1>1. ASSUME later # {} PROVE FALSE
  <2>1. PICK i \in later : \A j \in later : i <= j
    <3>1. later \in SUBSET Nat
      OBVIOUS
    <3> HIDE DEF later
    <3> QED
      BY <1>1, <3>1, LeastNumber
  <2>2. i \in Nat /\ n < i /\ f[i] # f[n]
    BY <2>1
  <2>3. i - 1 \in Nat /\ n <= i - 1 /\ ~(i <= i - 1) /\ (i - 1) + 1 = i
    BY <2>2
  <2>4. i - 1 \notin later
    <3> HIDE DEF later
    <3> QED
      BY <2>1, <2>3
  <2>5. f[i - 1] = f[n]
    BY <2>3, <2>4
  <2>6. i \notin places
    BY <2>2
  <2>7. f[i] = f[i - 1]
    BY <2>3, <2>6 DEF Reads
  <2> QED
    BY <2>2, <2>5, <2>7
<1> QED
  BY <1>1

\* Once a digit is less, so is all that is read.
LEMMA ReadsLess ==
    ASSUME NEW places \in SUBSET Nat,
           NEW digit \in [places -> 0 .. 9], NEW other_digit \in [places -> 0 .. 9],
           NEW f, Reads(f, places, digit), NEW g, Reads(g, places, other_digit),
           NEW n \in Nat, n + 1 \in places, digit[n + 1] < other_digit[n + 1],
           \A i \in 1 .. n : i \in places => digit[i] = other_digit[i],
           NEW m \in Nat, n < m
    PROVE  f[m] < g[m]
<1> DEFINE unless == {i \in Nat : n < i /\ ~(f[i] < g[i])}
<1>1. f[n] = g[n]
  BY ReadsAlike
<1>2. f \in [Nat -> Nat] /\ g \in [Nat -> Nat]
  BY DEF Reads
<1>3. f[n + 1] < g[n + 1]
  <2>1. f[n + 1] = 10 * f[n] + digit[n + 1] /\ g[n + 1] = 10 * g[n] + other_digit[n + 1]
    BY DEF Reads
  <2>2. f[n] \in Nat /\ digit[n + 1] \in Nat /\ other_digit[n + 1] \in Nat
    BY <1>2
  <2> QED
    BY <1>1, <2>1, <2>2
<1>4. ASSUME NEW i \in Nat, f[i] < g[i] PROVE f[i + 1] < g[i + 1]
  <2>1. f[i] \in Nat /\ g[i] \in Nat
    BY <1>2
  <2>2. CASE i + 1 \in places
    <3>1. f[i + 1] = 10 * f[i] + digit[i + 1] /\ g[i + 1] = 10 * g[i] + other_digit[i + 1]
      BY <2>2 DEF Reads
    <3>2. digit[i + 1] \in 0 .. 9 /\ other_digit[i + 1] \in 0 .. 9
      BY <2>2
    <3>3. \A x, y \in Nat : \A d, e \in 0 .. 9 : x < y => 10 * x + d < 10 * y + e
      OBVIOUS
    <3> QED
      BY <1>4, <2>1, <3>1, <3>2, <3>3
  <2>3. CASE i + 1 \notin places
    <3>1. f[i + 1] = f[i] /\ g[i + 1] = g[i]
      BY <2>3 DEF Reads
    <3> QED
      BY <1>4, <3>1
  <2> QED
    BY <2>2, <2>3
<1>5. ASSUME unless # {} PROVE FALSE
  <2>1. PICK i \in unless : \A j \in unless : i <= j
    <3>1. unless \in SUBSET Nat
      OBVIOUS
    <3> HIDE DEF unless
    <3> QED
      BY <1>5, <3>1, LeastNumber
  <2>2. i \in Nat /\ n < i /\ ~(f[i] < g[i]) /\ i # n + 1
    BY <1>3, <2>1
  <2>3. i - 1 \in Nat /\ n < i - 1 /\ ~(i <= i - 1) /\ (i - 1) + 1 = i
    BY <2>2
  <2>4. i - 1 \notin unless
    <3> HIDE DEF unless
    <3> QED
      BY <2>1, <2>3
  <2>5. f[i - 1] < g[i - 1]
    BY <2>3, <2>4
  <2>6. f[(i - 1) + 1] < g[(i - 1) + 1]
    BY <1>4, <2>3, <2>5
  <2> QED
    BY <2>2, <2>3, <2>6
<1> QED
  BY <1>5

\* The dots before the i-th character.
DotsBefore(text, i) == {j \in Dots(text) : j < i}

Before(text, i) == Cardinality(DotsBefore(text, i))

LEMMA DotsAreCounted ==
    ASSUME NEW text, Len(text) \in Nat, NEW i \in Int
    PROVE  /\ IsFiniteSet(DotsBefore(text, i)) /\ Before(text, i) \in Nat
           /\ \A j \in Int : j <= i => Before(text, j) <= Before(text, i)
           /\ \A j \in Dots(text) : j < i => Before(text, j) < Before(text, i)
<1>1. ASSUME NEW j \in Int PROVE IsFiniteSet(DotsBefore(text, j))
  <2>1. IsFiniteSet(1 .. Len(text))
    BY FS_Interval
  <2>2. DotsBefore(text, j) \in SUBSET (1 .. Len(text))
    BY DEF DotsBefore, Dots
  <2> QED
    BY <2>1, <2>2, FS_Subset
<1>2. ASSUME NEW j \in Int PROVE Before(text, j) \in Nat
  BY <1>1, FS_CardinalityType DEF Before
<1>3. ASSUME NEW j \in Int, j <= i PROVE Before(text, j) <= Before(text, i)
  <2>1. DotsBefore(text, j) \in SUBSET DotsBefore(text, i)
    BY <1>3 DEF DotsBefore, Dots
  <2> QED
    BY <1>1, <2>1, FS_Subset DEF Before
<1>4. ASSUME NEW j \in Dots(text), j < i PROVE Before(text, j) < Before(text, i)
  <2>1. j \in Int
    BY DEF Dots
  <2>2. DotsBefore(text, j) \in SUBSET DotsBefore(text, i)
    BY <1>4, <2>1 DEF DotsBefore, Dots
  <2>3. j \in DotsBefore(text, i) /\ j \notin DotsBefore(text, j)
    BY <1>4, <2>1 DEF DotsBefore
  <2>4. Before(text, j) <= Before(text, i) /\ Before(text, j) # Before(text, i)
    BY <1>1, <2>2, <2>3, FS_Subset DEF Before
  <2> QED
    BY <1>2, <2>1, <2>4
<1> QED
  BY <1>1, <1>2, <1>3, <1>4

LEMMA PlacesByDots ==
    ASSUME NEW text, NEW k, NEW i
    PROVE  i \in Places(text, k) <=>
               i \in 1 .. Len(text) /\ Char(text, i) \in Digits /\ Before(text, i) = k - 1
  BY DEF Places, Before, DotsBefore

\* Texts that begin with the same n characters.
BeginAlike(v, w, n) ==
    /\ Len(v) \in Nat /\ Len(w) \in Nat
    /\ n \in Nat /\ n <= Len(v) /\ n <= Len(w)
    /\ \A i \in 1 .. n : Char(v, i) = Char(w, i)

\* They have the same dots and places there.
LEMMA SamePlaces ==
    ASSUME NEW v, NEW w, NEW n, BeginAlike(v, w, n)
    PROVE  /\ Before(v, n + 1) = Before(w, n + 1)
           /\ \A k : \A i \in 1 .. n : i \in Places(v, k) <=> i \in Places(w, k)
<1>1. ASSUME NEW i \in 1 .. n + 1 PROVE Before(v, i) = Before(w, i)
  <2>1. ASSUME NEW j \in Nat, j < i PROVE j \in Dots(v) <=> j \in Dots(w)
    BY <2>1 DEF BeginAlike, Dots
  <2>2. DotsBefore(v, i) = DotsBefore(w, i)
    BY <2>1 DEF DotsBefore, Dots
  <2> QED
    BY <2>2 DEF Before
<1>2. ASSUME NEW k, NEW i \in 1 .. n PROVE i \in Places(v, k) <=> i \in Places(w, k)
  <2>1. i \in 1 .. n + 1 /\ i \in 1 .. Len(v) /\ i \in 1 .. Len(w) /\ Char(v, i) = Char(w, i)
    BY DEF BeginAlike
  <2>2. Before(v, i) = Before(w, i)
    BY <1>1, <2>1
  <2> QED
    BY <2>1, <2>2, PlacesByDots
<1>3. n + 1 \in 1 .. n + 1
  BY DEF BeginAlike
<1> QED
  BY <1>1, <1>2, <1>3

\* The numbers that end before a place.
LEMMA PlacesEnd ==
    ASSUME NEW text, Len(text) \in Nat, NEW n \in Nat, NEW k \in Nat, k <= Before(text, n + 1)
    PROVE  Places(text, k) \subseteq 1 .. n
<1> SUFFICES ASSUME NEW i \in Places(text, k), i > n PROVE FALSE
  BY DEF Places
<1>1. i \in Nat /\ Before(text, i) = k - 1
  BY PlacesByDots
<1>2. Before(text, n + 1) <= Before(text, i)
  BY <1>1, DotsAreCounted
<1>3. Before(text, n + 1) \in Nat
  BY DotsAreCounted
<1> QED
  BY <1>1, <1>2, <1>3

OnlyNumbers(text) == Len(text) \in Nat /\ CharactersOf(text) \subseteq Digits \cup {"."}

LEMMA PlacesAdjoin ==
    ASSUME NEW text, OnlyNumbers(text), NEW k \in Nat,
           NEW i \in Places(text, k), NEW l \in Places(text, k),
           NEW j \in Int, i < j, j < l
    PROVE  j \in Places(text, k)
<1>1. /\ i \in 1 .. Len(text) /\ Before(text, i) = k - 1
      /\ l \in 1 .. Len(text) /\ Before(text, l) = k - 1
  BY PlacesByDots
<1>2. Len(text) \in Nat /\ i \in Int /\ l \in Int /\ j \in 1 .. Len(text)
  BY <1>1 DEF OnlyNumbers
<1>3. Before(text, i) <= Before(text, j) /\ Before(text, j) <= Before(text, l)
  BY <1>2, DotsAreCounted
<1>4. Before(text, j) \in Nat
  BY <1>2, DotsAreCounted
<1>5. Before(text, j) = k - 1
  BY <1>1, <1>3, <1>4
<1>6. j \notin Dots(text)
  <2>1. j \in Dots(text) => Before(text, j) < Before(text, l)
    BY <1>2, DotsAreCounted
  <2> QED
    BY <1>1, <1>4, <1>5, <2>1
<1>7. Char(text, j) \in Digits
  BY <1>2, <1>6 DEF OnlyNumbers, Dots, CharactersOf
<1> QED
  BY <1>2, <1>5, <1>7, PlacesByDots

\* Numbers equally wide that begin alike and go on have the same places.
LEMMA PlacesInclude ==
    ASSUME NEW v, NEW w, OnlyNumbers(v), OnlyNumbers(w), NEW n, BeginAlike(v, w, n),
           NEW k \in Nat, n + 1 \in Places(v, k), n + 1 \in Places(w, k),
           Cardinality(Places(v, k)) = Cardinality(Places(w, k))
    PROVE  Places(v, k) \subseteq Places(w, k)
<1> SUFFICES ASSUME NEW i \in Places(v, k), i \notin Places(w, k) PROVE FALSE
  OBVIOUS
<1>1. i \in Nat /\ n \in Nat /\ i > n + 1
  <2>1. i \in Nat /\ i >= 1 /\ n \in Nat
    BY DEF BeginAlike, Places
  <2>2. i \notin 1 .. n
    BY SamePlaces
  <2> QED
    BY <2>1, <2>2
<1>2. Places(w, k) \subseteq Places(v, k)
  <2> SUFFICES ASSUME NEW j \in Places(w, k) PROVE j \in Places(v, k)
    OBVIOUS
  <2>1. j \in Nat /\ j >= 1
    BY DEF Places
  <2>2. CASE j <= n
    BY <1>1, <2>1, <2>2, SamePlaces
  <2>3. CASE n + 1 < j /\ j < i
    <3>1. j \in Int
      BY <2>1
    <3> QED
      BY <2>3, <3>1, PlacesAdjoin
  <2>4. CASE i < j
    BY <1>1, <2>4, PlacesAdjoin
  <2> QED
    BY <1>1, <2>1, <2>2, <2>3, <2>4
<1>3. IsFiniteSet(Places(v, k))
  <2>1. IsFiniteSet(1 .. Len(v)) /\ Places(v, k) \in SUBSET (1 .. Len(v))
    BY FS_Interval DEF OnlyNumbers, Places
  <2> QED
    BY <2>1, FS_Subset
<1> QED
  BY <1>2, <1>3, FS_Subset

\* The number of a version is what is read at its places.
LEMMA NumberReads ==
    ASSUME NEW text, Len(text) \in Nat, NEW k
    PROVE  LET places == Places(text, k)
               read == Reading(text, places)
           IN  /\ Reads(read, places, Digit(text, places))
               /\ Digit(text, places) \in [places -> 0 .. 9]
               /\ places = {} => Number(text, k) = -1
               /\ places # {} => Number(text, k) = read[Len(text)] /\ Number(text, k) \in Nat
<1> DEFINE places == Places(text, k)
           read == Reading(text, places)
<1>1. places \in SUBSET (1 .. Len(text)) /\ \A i \in places : Char(text, i) \in Digits
  BY DEF Places
<1> HIDE DEF places
<1>2. Reads(read, places, Digit(text, places))
  BY <1>1, ReadingReads
<1>3. Digit(text, places) \in [places -> 0 .. 9]
  BY <1>1, TextsAssumption DEF Digit
<1> HIDE DEF read
<1>4. read[Len(text)] \in Nat
  BY <1>2 DEF Reads
<1>5. Number(text, k) = IF places = {} THEN -1 ELSE read[Len(text)]
  BY DEF Number, places, read
<1> QED
  BY <1>2, <1>3, <1>4, <1>5 DEF places, read

LEMMA SameReading ==
    ASSUME NEW places \in SUBSET Nat, NEW digit,
           NEW f, Reads(f, places, digit), NEW g, Reads(g, places, digit),
           NEW n \in Nat, places \subseteq 1 .. n,
           NEW last \in Nat, n <= last, NEW other_last \in Nat, n <= other_last
    PROVE  f[last] = g[other_last]
<1>1. f[n] = g[n]
  BY ReadsAlike
<1>2. f[last] = f[n]
  BY ReadsOn
<1>3. g[other_last] = g[n]
  BY ReadsOn
<1> QED
  BY <1>1, <1>2, <1>3

LEMMA SameNumber ==
    ASSUME NEW v, NEW w, NEW n, BeginAlike(v, w, n), NEW k,
           Places(v, k) \subseteq 1 .. n, Places(w, k) \subseteq 1 .. n
    PROVE  Number(v, k) = Number(w, k)
<1> DEFINE places == Places(v, k)
           f == Reading(v, places)
           g == Reading(w, places)
<1>1. places = Places(w, k) /\ places \subseteq 1 .. n
  BY SamePlaces
<1>2. Digit(v, places) = Digit(w, places)
  BY <1>1 DEF BeginAlike, Digit
<1>3. /\ Len(v) \in Nat /\ Len(w) \in Nat
      /\ n \in Nat /\ n <= Len(v) /\ n <= Len(w)
  BY DEF BeginAlike
<1>4. Reads(f, places, Digit(v, places)) /\ Reads(g, places, Digit(v, places))
  BY <1>1, <1>2, <1>3, NumberReads
<1>5. CASE places = {}
  BY <1>1, <1>3, <1>5, NumberReads
<1>6. places # {} => Number(v, k) = f[Len(v)] /\ Number(w, k) = g[Len(w)]
  BY <1>1, <1>3, NumberReads
<1> DEFINE digit == Digit(v, places)
           last == Len(v)
           other_last == Len(w)
<1>7. /\ Reads(f, places, digit) /\ Reads(g, places, digit)
      /\ places \in SUBSET Nat /\ places \subseteq 1 .. n
      /\ n \in Nat /\ last \in Nat /\ n <= last /\ other_last \in Nat /\ n <= other_last
  BY <1>1, <1>3, <1>4
<1> HIDE DEF places, f, g, digit, last, other_last
<1>8. f[last] = g[other_last]
  BY <1>7, SameReading
<1> QED
  BY <1>5, <1>6, <1>8 DEF last, other_last

LEMMA LessNumber ==
    ASSUME NEW v, NEW w, OnlyNumbers(v), OnlyNumbers(w), NEW n, BeginAlike(v, w, n),
           NEW k \in Nat, n + 1 \in Places(v, k), n + 1 \in Places(w, k),
           Cardinality(Places(v, k)) = Cardinality(Places(w, k)),
           Code[Char(v, n + 1)] < Code[Char(w, n + 1)]
    PROVE  Number(v, k) < Number(w, k)
<1> DEFINE places == Places(v, k)
           f == Reading(v, places)
           g == Reading(w, places)
<1>1. places = Places(w, k)
  <2>1. BeginAlike(w, v, n)
    BY DEF BeginAlike
  <2> QED
    BY <2>1, PlacesInclude
<1>2. /\ Len(v) \in Nat /\ Len(w) \in Nat /\ n \in Nat
      /\ places \subseteq 1 .. Len(v) /\ places \subseteq 1 .. Len(w)
      /\ n + 1 \in places /\ n < Len(v) /\ n < Len(w)
  <2>1. Len(v) \in Nat /\ Len(w) \in Nat /\ n \in Nat
    BY DEF BeginAlike
  <2>2. places \subseteq 1 .. Len(v)
    BY DEF Places
  <2>3. places \subseteq 1 .. Len(w)
    BY <1>1 DEF Places
  <2>4. n + 1 \in places
    OBVIOUS
  <2> QED
    BY <2>1, <2>2, <2>3, <2>4
<1>3. \A i \in 1 .. n : i \in places => Digit(v, places)[i] = Digit(w, places)[i]
  BY DEF BeginAlike, Digit
<1>4. Digit(v, places)[n + 1] < Digit(w, places)[n + 1]
  <2>1. Char(v, n + 1) \in Digits /\ Char(w, n + 1) \in Digits
    BY <1>1, <1>2 DEF Places
  <2>2. \A d \in Digits : Code[d] \in Nat
    BY TextsAssumption, CodesDiffer DEF Alphanumeric
  <2>3. Code["0"] \in Nat /\ Code[Char(v, n + 1)] \in Nat /\ Code[Char(w, n + 1)] \in Nat
    BY <2>1, <2>2, TextsAssumption
  <2> QED
    BY <1>2, <2>3 DEF Digit
<1>5. /\ Reads(f, places, Digit(v, places)) /\ Reads(g, places, Digit(w, places))
      /\ Digit(v, places) \in [places -> 0 .. 9] /\ Digit(w, places) \in [places -> 0 .. 9]
      /\ Number(v, k) = f[Len(v)] /\ Number(w, k) = g[Len(w)]
  BY <1>1, <1>2, NumberReads
<1> DEFINE digit == Digit(v, places)
           other_digit == Digit(w, places)
           last == Len(v)
           other_last == Len(w)
           m == last + other_last
<1>6. /\ Reads(f, places, digit) /\ Reads(g, places, other_digit)
      /\ digit \in [places -> 0 .. 9] /\ other_digit \in [places -> 0 .. 9]
      /\ places \in SUBSET Nat /\ places \subseteq 1 .. last /\ places \subseteq 1 .. other_last
      /\ n \in Nat /\ n + 1 \in places /\ digit[n + 1] < other_digit[n + 1]
      /\ \A i \in 1 .. n : i \in places => digit[i] = other_digit[i]
      /\ last \in Nat /\ other_last \in Nat
  BY <1>2, <1>3, <1>4, <1>5
<1> HIDE DEF places, f, g, digit, other_digit, last, other_last
<1>7. m \in Nat /\ n < m /\ last <= m /\ other_last <= m
  BY <1>6
<1> HIDE DEF m
<1>8. f[m] < g[m]
  BY <1>6, <1>7, ReadsLess
<1>9. f[m] = f[last]
  BY <1>6, <1>7, ReadsOn
<1>10. g[m] = g[other_last]
  BY <1>6, <1>7, ReadsOn
<1> QED
  BY <1>5, <1>8, <1>9, <1>10 DEF last, other_last

\* A version of numbers and dots: what Dotted() says of it.
LEMMA DottedText ==
    ASSUME NEW text \in Coded, Dotted(text, 1 .. 3)
    PROVE  /\ OnlyNumbers(text)
           /\ 1 \notin Dots(text)
           /\ \A i \in Dots(text) : i + 1 \notin Dots(text)
           /\ \A i \in Nat : Before(text, i) <= 2
<1>1. Len(text) \in Nat
  BY SpelledText DEF KnownTexts, Coded
<1>2. ASSUME NEW i \in Nat PROVE Before(text, i) <= 2
  <2>1. IsFiniteSet(Dots(text))
    <3>1. IsFiniteSet(1 .. Len(text)) /\ Dots(text) \in SUBSET (1 .. Len(text))
      BY <1>1, FS_Interval DEF Dots
    <3> QED
      BY <3>1, FS_Subset
  <2>2. DotsBefore(text, i) \in SUBSET Dots(text)
    BY DEF DotsBefore
  <2>3. Before(text, i) <= Cardinality(Dots(text))
    BY <2>1, <2>2, FS_Subset DEF Before
  <2>4. Cardinality(Dots(text)) \in Nat /\ Before(text, i) \in Nat
    <3>1. i \in Int
      OBVIOUS
    <3>2. Before(text, i) \in Nat
      BY <1>1, <3>1, DotsAreCounted
    <3> QED
      BY <2>1, <3>2, FS_CardinalityType
  <2>5. Cardinality(Dots(text)) + 1 \in 1 .. 3
    BY DEF Dotted
  <2> QED
    BY <2>3, <2>4, <2>5
<1> QED
  BY <1>1, <1>2 DEF Dotted, OnlyNumbers

\* A number that is over where two versions differ is no larger, unless it is wider.
LEMMA EndedNumber ==
    ASSUME NEW v, NEW w, NEW n, BeginAlike(v, w, n), NEW k,
           Places(v, k) \subseteq 1 .. n,
           {} \in {Places(v, k), Places(w, k)}
               \/ Cardinality(Places(v, k)) = Cardinality(Places(w, k))
    PROVE  ~(Number(v, k) > Number(w, k))
<1>1. Len(v) \in Nat /\ Len(w) \in Nat
  BY DEF BeginAlike
<1>2. Places(v, k) \in SUBSET Places(w, k)
  BY SamePlaces
<1>3. CASE Places(v, k) = {}
  <2>1. Number(v, k) = -1
    BY <1>1, <1>3, NumberReads
  <2>2. Number(w, k) = -1 \/ Number(w, k) \in Nat
    BY <1>1, NumberReads
  <2> QED
    BY <2>1, <2>2
<1>4. CASE Places(v, k) # {}
  <2>1. Cardinality(Places(v, k)) = Cardinality(Places(w, k))
    BY <1>2, <1>4
  <2>2. IsFiniteSet(Places(w, k))
    <3>1. IsFiniteSet(1 .. Len(w)) /\ Places(w, k) \in SUBSET (1 .. Len(w))
      BY <1>1, FS_Interval DEF Places
    <3> QED
      BY <3>1, FS_Subset
  <2>3. Places(v, k) = Places(w, k)
    BY <1>2, <2>1, <2>2, FS_Subset
  <2>4. Number(v, k) = Number(w, k)
    BY <2>3, SameNumber
  <2>5. Number(v, k) \in Nat
    BY <1>1, <1>4, NumberReads
  <2> QED
    BY <2>4, <2>5
<1> QED
  BY <1>3, <1>4

\* A dot where another version's number goes on ends a number that is less wide.
LEMMA DotEnds ==
    ASSUME NEW v, NEW w, OnlyNumbers(v), OnlyNumbers(w), NEW n, BeginAlike(v, w, n),
           1 \notin Dots(v), \A i \in Dots(v) : i + 1 \notin Dots(v),
           n + 1 \in Dots(v), n + 1 \in 1 .. Len(w), n + 1 \notin Dots(w),
           NEW k \in Nat, k = Before(v, n + 1) + 1
    PROVE  /\ Places(v, k) # {} /\ Places(w, k) # {}
           /\ Cardinality(Places(v, k)) # Cardinality(Places(w, k))
<1>1. /\ n \in Nat /\ n # 0 /\ n \in 1 .. Len(v) /\ n + 1 \in 1 .. Len(v)
      /\ Len(v) \in Nat /\ Len(w) \in Nat
  BY DEF BeginAlike, Dots
<1>2. n \notin Dots(v)
  BY <1>1
<1>3. Before(v, n) = Before(v, n + 1)
  <2>1. ASSUME NEW j \in Dots(v) PROVE j < n <=> j < n + 1
    BY <1>1, <1>2 DEF Dots
  <2>2. DotsBefore(v, n) = DotsBefore(v, n + 1)
    BY <2>1 DEF DotsBefore
  <2> QED
    BY <2>2 DEF Before
<1>4. Before(v, n + 1) \in Nat
  BY <1>1, DotsAreCounted
<1>5. n \in Places(v, k)
  <2>1. Char(v, n) \in Digits
    BY <1>1, <1>2 DEF OnlyNumbers, Dots, CharactersOf
  <2> QED
    BY <1>1, <1>3, <1>4, <2>1, PlacesByDots
<1>6. n + 1 \in Places(w, k)
  <2>1. Char(w, n + 1) \in Digits
    BY <1>1 DEF OnlyNumbers, Dots, CharactersOf
  <2>2. Before(w, n + 1) = k - 1
    BY <1>4, SamePlaces
  <2> QED
    BY <2>1, <2>2, PlacesByDots
<1>7. Places(v, k) \subseteq 1 .. n
  <2> SUFFICES ASSUME NEW i \in Places(v, k), i > n PROVE FALSE
    BY <1>1 DEF Places
  <2>1. i \in Nat /\ Char(v, i) \in Digits /\ Before(v, i) = k - 1
    BY PlacesByDots
  <2>2. i # n + 1
    BY <2>1, TextsAssumption DEF Dots
  <2>3. i \in Int /\ n + 1 < i
    BY <1>1, <2>1, <2>2
  <2>4. Before(v, n + 1) < Before(v, i)
    BY <1>1, <2>3, DotsAreCounted
  <2> QED
    BY <1>4, <2>1, <2>4
<1>8. Places(v, k) \in SUBSET Places(w, k) /\ n + 1 \notin Places(v, k)
  BY <1>1, <1>7, SamePlaces
<1>9. IsFiniteSet(Places(w, k))
  <2>1. IsFiniteSet(1 .. Len(w)) /\ Places(w, k) \in SUBSET (1 .. Len(w))
    BY <1>1, FS_Interval DEF Places
  <2> QED
    BY <2>1, FS_Subset
<1>10. Cardinality(Places(w, k)) = Cardinality(Places(v, k)) => Places(w, k) = Places(v, k)
  BY <1>8, <1>9, FS_Subset
<1> QED
  BY <1>5, <1>6, <1>8, <1>10

\* The order of texts is the order of numbers that are written equally wide.
LEMMA LessIsNotNewer ==
    ASSUME NEW v \in Coded, NEW w \in Coded, SameWidths(v, w), TextLess(v, w)
    PROVE  ~Newer(v, w)
<1>1. /\ OnlyNumbers(v) /\ 1 \notin Dots(v) /\ \A i \in Dots(v) : i + 1 \notin Dots(v)
      /\ OnlyNumbers(w) /\ 1 \notin Dots(w) /\ \A i \in Dots(w) : i + 1 \notin Dots(w)
      /\ \A i \in Nat : Before(v, i) <= 2
  BY DottedText DEF SameWidths
<1>2. \A k \in 1 .. 3 : {} \in {Places(v, k), Places(w, k)}
                            \/ Cardinality(Places(v, k)) = Cardinality(Places(w, k))
  BY DEF SameWidths
<1>3. Len(v) \in Nat /\ Len(w) \in Nat
  BY <1>1 DEF OnlyNumbers
<1>4. PICK n \in 0 .. Len(v) :
          /\ n < Len(w)
          /\ \A i \in 1 .. n : Char(v, i) = Char(w, i)
          /\ n < Len(v) => Code[Char(v, n + 1)] < Code[Char(w, n + 1)]
  BY LessByCharacters
<1>5. n \in Nat /\ n <= Len(v) /\ n < Len(w)
  BY <1>3, <1>4
<1>6. BeginAlike(v, w, n) /\ BeginAlike(w, v, n)
  BY <1>3, <1>4, <1>5 DEF BeginAlike
<1>7. CASE n = Len(v)
  <2>1. ASSUME NEW k \in 1 .. 3 PROVE ~(Number(v, k) > Number(w, k))
    <3>1. Places(v, k) \subseteq 1 .. n
      BY <1>7 DEF Places
    <3> QED
      BY <1>2, <1>6, <3>1, EndedNumber
  <2> QED
    BY <2>1 DEF Newer
<1>8. CASE n < Len(v)
  <2> DEFINE k == Before(v, n + 1) + 1
  <2>1. /\ Before(v, n + 1) \in Nat /\ Before(w, n + 1) = Before(v, n + 1)
        /\ k \in 1 .. 3 /\ k \in Nat
        /\ k = Before(v, n + 1) + 1 /\ k = Before(w, n + 1) + 1
    <3>1. n + 1 \in Nat /\ n + 1 \in Int
      BY <1>5
    <3>2. Before(v, n + 1) \in Nat /\ Before(v, n + 1) <= 2
      BY <1>1, <1>3, <3>1, DotsAreCounted
    <3>3. Before(w, n + 1) = Before(v, n + 1)
      BY <1>6, SamePlaces
    <3> QED
      BY <3>2, <3>3
  <2>2. n + 1 \in 1 .. Len(v) /\ n + 1 \in 1 .. Len(w)
    BY <1>3, <1>5, <1>8
  <2> HIDE DEF k
  <2>3. ASSUME NEW j \in 1 .. k - 1 PROVE Number(v, j) = Number(w, j)
    <3>1. j \in Nat /\ j <= Before(v, n + 1) /\ j <= Before(w, n + 1)
      BY <2>1
    <3>2. Places(v, j) \subseteq 1 .. n /\ Places(w, j) \subseteq 1 .. n
      BY <1>3, <1>5, <3>1, PlacesEnd
    <3> QED
      BY <1>6, <3>2, SameNumber
  <2>4. Number(v, k) < Number(w, k)
    <3>1. CASE n + 1 \in Dots(v) /\ n + 1 \in Dots(w)
      <4>1. Char(v, n + 1) = Char(w, n + 1)
        BY <3>1 DEF Dots
      <4>2. Code[Char(v, n + 1)] \in Nat
        BY <2>2, CodedCharacter, CodesDiffer
      <4> QED
        BY <1>4, <1>8, <4>1, <4>2
    <3>2. CASE n + 1 \in Dots(v) /\ n + 1 \notin Dots(w)
      <4>1. /\ Places(v, k) # {} /\ Places(w, k) # {}
            /\ Cardinality(Places(v, k)) # Cardinality(Places(w, k))
        BY <1>1, <1>6, <2>1, <2>2, <3>2, DotEnds
      <4> QED
        BY <1>2, <2>1, <4>1
    <3>3. CASE n + 1 \notin Dots(v) /\ n + 1 \in Dots(w)
      <4>1. /\ Places(w, k) # {} /\ Places(v, k) # {}
            /\ Cardinality(Places(w, k)) # Cardinality(Places(v, k))
        BY <1>1, <1>6, <2>1, <2>2, <3>3, DotEnds
      <4> QED
        BY <1>2, <2>1, <4>1
    <3>4. CASE n + 1 \notin Dots(v) /\ n + 1 \notin Dots(w)
      <4>1. Char(v, n + 1) \in Digits /\ Char(w, n + 1) \in Digits
        BY <1>1, <2>2, <3>4 DEF OnlyNumbers, Dots, CharactersOf
      <4>2. n + 1 \in Places(v, k) /\ n + 1 \in Places(w, k)
        BY <2>1, <2>2, <4>1, PlacesByDots
      <4>3. Cardinality(Places(v, k)) = Cardinality(Places(w, k))
        BY <1>2, <2>1, <4>2
      <4> QED
        BY <1>1, <1>4, <1>6, <1>8, <2>1, <4>2, <4>3, LessNumber
    <3> QED
      BY <3>1, <3>2, <3>3, <3>4
  <2>5. (Number(v, k) = -1 \/ Number(v, k) \in Nat) /\ (Number(w, k) = -1 \/ Number(w, k) \in Nat)
    BY <1>3, NumberReads
  <2> SUFFICES ASSUME NEW l \in 1 .. 3, Number(v, l) > Number(w, l),
                      \A j \in 1 .. l - 1 : Number(v, j) = Number(w, j)
               PROVE  FALSE
    BY DEF Newer
  <2>6. (Number(v, l) = -1 \/ Number(v, l) \in Nat) /\ (Number(w, l) = -1 \/ Number(w, l) \in Nat)
    BY <1>3, NumberReads
  <2>7. CASE l < k
    <3>1. l \in 1 .. k - 1
      BY <2>1, <2>7
    <3> QED
      BY <2>3, <2>6, <3>1
  <2>8. CASE l = k
    BY <2>4, <2>5, <2>8
  <2>9. CASE k < l
    <3>1. k \in 1 .. l - 1
      BY <2>1, <2>9
    <3> QED
      BY <2>4, <2>5, <3>1
  <2> QED
    BY <2>1, <2>7, <2>8, <2>9
<1> QED
  BY <1>5, <1>7, <1>8

-------------------------------------------------------------------------------
(* Lists of the repository in memory: add() keeps a list in the strict order of *)
(* its versions, when the version it adds is a new one.                       *)

Ordered(list) ==
    \A i, j \in 1 .. Len(list) : i < j => TextLess(list[i].version, list[j].version)

\* Where the new bit goes: before the first that it compares less than.
LEMMA SortingOrder ==
    ASSUME NEW Kept, \A p \in Kept : p.version \in Coded,
           NEW list \in Seq(Kept), NEW bit \in Kept,
           Ordered(list),
           \A i \in 1 .. Len(list) : list[i].version # bit.version
    PROVE  \E o \in Memory!Bijection(1 .. Len(list) + 1, 1 .. Len(list) + 1) :
               Memory!Sorts(o, Append(list, bit))
<1> DEFINE n == Len(list) + 1
           all == Append(list, bit)
           After(i) == i = n \/ TextLess(bit.version, list[i].version)
           places == {i \in 1 .. n : After(i)}
<1>1. n \in Nat /\ n >= 1 /\ n - 1 = Len(list)
  OBVIOUS
<1>2. /\ all \in Seq(Kept) /\ Len(all) = n /\ all[n] = bit
      /\ \A i \in 1 .. n - 1 : all[i] = list[i] /\ list[i] \in Kept
  OBVIOUS
<1>3. PICK k \in places : \A i \in places : k <= i
  <2>1. places \in SUBSET Nat /\ n \in places
    BY <1>1
  <2> HIDE DEF places
  <2> QED
    BY <2>1, LeastNumber
<1>4. k \in 1 .. n /\ \A i \in 1 .. k - 1 : ~After(i)
  BY <1>1, <1>3
<1>5. \A i \in k .. n - 1 : TextLess(bit.version, list[i].version)
  <2> SUFFICES ASSUME NEW i \in k .. n - 1 PROVE TextLess(bit.version, list[i].version)
    OBVIOUS
  <2>1. k # n /\ TextLess(bit.version, list[k].version)
    BY <1>1, <1>3, <1>4
  <2>2. k \in 1 .. n - 1 /\ i \in 1 .. n - 1
    BY <1>1, <1>4
  <2>3. CASE i = k
    BY <2>1, <2>3
  <2>4. CASE k < i
    <3>1. TextLess(list[k].version, list[i].version)
      BY <1>1, <2>2, <2>4 DEF Ordered
    <3> QED
      BY <1>2, <2>1, <2>2, <3>1, LessIsTransitive
  <2> QED
    BY <1>1, <1>4, <2>3, <2>4
<1>6. \A i \in 1 .. k - 1 : TextLess(list[i].version, bit.version)
  <2> SUFFICES ASSUME NEW i \in 1 .. k - 1 PROVE TextLess(list[i].version, bit.version)
    OBVIOUS
  <2>1. i \in 1 .. n - 1 /\ ~After(i)
    BY <1>1, <1>4
  <2> QED
    BY <1>2, <2>1, LessIsTotal
<1> DEFINE o == [i \in 1 .. n |-> IF i < k THEN i ELSE IF i = k THEN n ELSE i - 1]
<1>7. o \in Memory!Bijection(1 .. n, 1 .. n)
  <2>1. o \in [1 .. n -> 1 .. n]
    BY <1>1, <1>4
  <2>2. \A i, j \in 1 .. n : o[i] = o[j] => i = j
    BY <1>1, <1>4
  <2>3. \A j \in 1 .. n : \E i \in 1 .. n : o[i] = j
    <3> SUFFICES ASSUME NEW j \in 1 .. n PROVE \E i \in 1 .. n : o[i] = j
      OBVIOUS
    <3>1. CASE j < k
      BY <1>1, <1>4, <3>1
    <3>2. CASE j = n
      BY <1>1, <1>4, <3>2
    <3>3. CASE k <= j /\ j < n
      <4>1. j + 1 \in 1 .. n /\ ~(j + 1 < k) /\ j + 1 # k
        BY <1>1, <1>4, <3>3
      <4>2. o[j + 1] = j
        BY <1>1, <4>1
      <4> QED
        BY <4>1, <4>2
    <3> QED
      BY <1>1, <1>4, <3>1, <3>2, <3>3
  <2> QED
    BY <2>1, <2>2, <2>3
       DEF Memory!Bijection, Memory!Injection, Memory!Surjection, Memory!IsInjective
<1>8. \A i, j \in 1 .. n : i < j => TextLess(all[o[i]].version, all[o[j]].version)
  <2> SUFFICES ASSUME NEW i \in 1 .. n, NEW j \in 1 .. n, i < j
               PROVE  TextLess(all[o[i]].version, all[o[j]].version)
    OBVIOUS
  <2>1. CASE j < k
    <3>1. o[i] = i /\ o[j] = j /\ i \in 1 .. n - 1 /\ j \in 1 .. n - 1
      BY <1>1, <1>4, <2>1
    <3> QED
      BY <1>1, <1>2, <3>1 DEF Ordered
  <2>2. CASE j = k
    <3>1. o[i] = i /\ o[j] = n /\ i \in 1 .. n - 1 /\ i \in 1 .. k - 1
      BY <1>1, <1>4, <2>2
    <3> QED
      BY <1>2, <1>6, <3>1
  <2>3. CASE k < j /\ i < k
    <3>1. o[i] = i /\ o[j] = j - 1 /\ i < j - 1 /\ i \in 1 .. n - 1 /\ j - 1 \in 1 .. n - 1
      BY <1>1, <1>4, <2>3
    <3> QED
      BY <1>1, <1>2, <3>1 DEF Ordered
  <2>4. CASE k < j /\ i = k
    <3>1. o[i] = n /\ o[j] = j - 1 /\ j - 1 \in 1 .. n - 1 /\ j - 1 \in k .. n - 1
      BY <1>1, <1>4, <2>4
    <3> QED
      BY <1>2, <1>5, <3>1
  <2>5. CASE k < j /\ k < i
    <3>1. /\ o[i] = i - 1 /\ o[j] = j - 1 /\ i - 1 < j - 1
          /\ i - 1 \in 1 .. n - 1 /\ j - 1 \in 1 .. n - 1
      BY <1>1, <1>4, <2>5
    <3> QED
      BY <1>1, <1>2, <3>1 DEF Ordered
  <2> QED
    BY <1>1, <1>4, <2>1, <2>2, <2>3, <2>4, <2>5
<1>9. Memory!Sorts(o, all)
  <2> HIDE DEF o, all
  <2>1. \A i, j \in 1 .. n : i < j => Memory!CompareVersion(all[o[i]], all[o[j]])
    BY <1>8, SameTexts DEF Memory!CompareVersion
  <2> QED
    BY <1>2, <2>1 DEF Memory!Sorts
<1> QED
  BY <1>7, <1>9

Holds(list, p) == \E i \in 1 .. Len(list) : list[i] = p

\* What push_back() and sort() leave: the old bits and the new one, in order.
LEMMA SortedKeeps ==
    ASSUME NEW Kept, \A p \in Kept : p.version \in Coded,
           NEW list \in Seq(Kept), NEW bit \in Kept,
           Ordered(list),
           \A i \in 1 .. Len(list) : list[i].version # bit.version
    PROVE  LET sorted == Memory!Sorted(Append(list, bit))
           IN  /\ sorted \in Seq(Kept)
               /\ Len(sorted) = Len(list) + 1
               /\ Ordered(sorted)
               /\ \A p : Holds(sorted, p) <=> p = bit \/ Holds(list, p)
<1> DEFINE n == Len(list) + 1
           all == Append(list, bit)
           order == CHOOSE o \in Memory!Bijection(1 .. Len(all), 1 .. Len(all)) :
                        Memory!Sorts(o, all)
           sorted == Memory!Sorted(all)
<1>1. n \in Nat /\ n >= 1 /\ n - 1 = Len(list)
  OBVIOUS
<1>2. /\ all \in Seq(Kept) /\ Len(all) = n /\ all[n] = bit
      /\ \A i \in 1 .. n - 1 : all[i] = list[i] /\ list[i] \in Kept
      /\ \A i \in 1 .. n : all[i] \in Kept
  OBVIOUS
<1>3. order \in Memory!Bijection(1 .. n, 1 .. n) /\ Memory!Sorts(order, all)
  <2>1. \E o \in Memory!Bijection(1 .. n, 1 .. n) : Memory!Sorts(o, all)
    BY SortingOrder
  <2> HIDE DEF all, n
  <2> QED
    BY <1>2, <2>1
<1>4. sorted = [i \in 1 .. n |-> all[order[i]]]
  <2> HIDE DEF all
  <2> QED
    BY <1>2 DEF Memory!Sorted
<1> HIDE DEF all, order, sorted
<1>5. /\ order \in [1 .. n -> 1 .. n]
      /\ \A i, j \in 1 .. n : order[i] = order[j] => i = j
      /\ \A j \in 1 .. n : \E i \in 1 .. n : order[i] = j
  BY <1>3 DEF Memory!Bijection, Memory!Injection, Memory!Surjection, Memory!IsInjective
<1> HIDE DEF n
<1>6. sorted \in Seq(Kept) /\ Len(sorted) = n /\ \A i \in 1 .. n : sorted[i] = all[order[i]]
  <2>1. sorted \in [1 .. n -> Kept]
    BY <1>2, <1>4, <1>5
  <2>2. sorted \in Seq(Kept) /\ Len(sorted) = n
    BY <1>1, <2>1
  <2> QED
    BY <1>4, <2>2
<1>7. \A i, j \in 1 .. n : i # j => all[i].version # all[j].version
  <2>1. \A i \in 1 .. n : i \in 1 .. n - 1 \/ i = n
    BY <1>1
  <2>2. \A i, j \in 1 .. n - 1 : i < j => TextLess(list[i].version, list[j].version)
    BY <1>1 DEF Ordered
  <2>3. \A i, j \in 1 .. n - 1 : i # j => list[i].version # list[j].version
    BY <1>1, <1>2, <2>2, LessIsIrreflexive
  <2> QED
    BY <1>1, <1>2, <2>1, <2>3
<1>8. Ordered(sorted)
  <2> SUFFICES ASSUME NEW i \in 1 .. n, NEW j \in 1 .. n, i < j
               PROVE  TextLess(sorted[i].version, sorted[j].version)
    BY <1>6 DEF Ordered
  <2> DEFINE first == all[order[i]]
             second == all[order[j]]
  <2>1. \/ Memory!CompareVersion(first, second)
        \/ order[i] < order[j] /\ ~Memory!CompareVersion(second, first)
    BY <1>2, <1>3 DEF Memory!Sorts
  <2>2. \/ TextLess(first.version, second.version)
        \/ ~TextLess(second.version, first.version)
    BY <2>1, SameTexts DEF Memory!CompareVersion
  <2>3. order[i] \in 1 .. n /\ order[j] \in 1 .. n /\ order[i] # order[j]
    <3>1. i # j
      BY <1>1
    <3> QED
      BY <1>5, <3>1
  <2>4. first \in Kept /\ second \in Kept /\ first.version # second.version
    BY <1>2, <1>7, <2>3
  <2>5. TextLess(first.version, second.version)
    BY <2>2, <2>4, LessIsTotal
  <2> QED
    BY <1>6, <2>5
<1>9. \A p : (\E i \in 1 .. n : sorted[i] = p) <=> (\E i \in 1 .. n : all[i] = p)
  <2>1. \A i \in 1 .. n : order[i] \in 1 .. n /\ sorted[i] = all[order[i]]
    BY <1>5, <1>6
  <2>2. ASSUME NEW j \in 1 .. n PROVE \E i \in 1 .. n : sorted[i] = all[j]
    <3>1. PICK i \in 1 .. n : order[i] = j
      BY <1>5
    <3> QED
      BY <2>1, <3>1
  <2>3. ASSUME NEW p, NEW i \in 1 .. n, sorted[i] = p PROVE \E j \in 1 .. n : all[j] = p
    BY <2>1, <2>3
  <2>4. ASSUME NEW p, NEW j \in 1 .. n, all[j] = p PROVE \E i \in 1 .. n : sorted[i] = p
    BY <2>2, <2>4
  <2> QED
    BY <2>3, <2>4
<1>10. \A p : (\E i \in 1 .. n : all[i] = p)
                  <=> p = bit \/ \E i \in 1 .. n - 1 : list[i] = p
  <2>1. \A i : i \in 1 .. n <=> i \in 1 .. n - 1 \/ i = n
    BY <1>1
  <2> QED
    BY <1>2, <2>1
<1> QED
  BY <1>1, <1>6, <1>8, <1>9, <1>10 DEF n, all, sorted, Holds

-------------------------------------------------------------------------------
(* The invariant of the tables and of the repository in memory.               *)

\* PRIMARY KEY(name, version)
Keyed(table) ==
    \A p, q \in table : p.name = q.name /\ p.version = q.version => p = q

\* What is stored came in requests, under names and versions that are valid.
Sent(table, text, counts) ==
    \A p \in table :
        /\ p.table = text
        /\ p.name \in SentTexts /\ ValidName(p.name)
        /\ p.version \in SentTexts /\ ValidVersion(p.version, counts)

\* Each name has the list of its rows.
Lists ==
    /\ DOMAIN bits = {p.name : p \in rows}
    /\ \A name \in DOMAIN bits :
           /\ bits[name] \in Seq(rows)
           /\ Ordered(bits[name])
           /\ {bits[name][i] : i \in 1 .. Len(bits[name])} = {p \in rows : p.name = name}

IInv ==
    /\ acked = rows \cup templates
    /\ Keyed(rows) /\ Keyed(templates)
    /\ Sent(rows, "bits", 1 .. 3)
    /\ Sent(templates, "templates", {3})
    /\ Lists

LEMMA CodedVersions == ASSUME IInv PROVE \A p \in rows : p.version \in Coded
  BY ValidVersionFits DEF IInv, Sent

\* The two repositories hold the same bits and find the same ones.
LEMMA ListedRows ==
    ASSUME IInv, NEW name
    PROVE  LET list == Memory!Listed(bits, name)
           IN  /\ list \in Seq(rows) /\ Ordered(list)
               /\ \A p : (\E i \in 1 .. Len(list) : list[i] = p) <=> p \in rows /\ p.name = name
               /\ name \in DOMAIN bits => Len(list) >= 1 /\ list = bits[name]
<1>1. CASE name \in DOMAIN bits
  <2>1. Memory!Listed(bits, name) = bits[name]
    BY <1>1 DEF Memory!Listed, Memory!BitExists
  <2>2. PICK row \in rows : row.name = name
    BY <1>1 DEF IInv, Lists
  <2>3. Len(bits[name]) >= 1
    <3>1. bits[name] \in Seq(rows)
      BY <1>1 DEF IInv, Lists
    <3>2. PICK i \in 1 .. Len(bits[name]) : bits[name][i] = row
      BY <1>1, <2>2 DEF IInv, Lists
    <3> QED
      BY <3>1, <3>2
  <2>4. \A p : (\E i \in 1 .. Len(bits[name]) : bits[name][i] = p)
                    <=> p \in rows /\ p.name = name
    <3>1. {bits[name][i] : i \in 1 .. Len(bits[name])} = {p \in rows : p.name = name}
      BY <1>1 DEF IInv, Lists
    <3> QED
      BY <3>1
  <2> QED
    BY <1>1, <2>1, <2>3, <2>4 DEF IInv, Lists
<1>2. CASE name \notin DOMAIN bits
  <2>1. Memory!Listed(bits, name) = <<>>
    BY <1>2 DEF Memory!Listed, Memory!BitExists
  <2>2. \A p \in rows : p.name # name
    BY <1>2 DEF IInv, Lists
  <2> QED
    BY <1>2, <2>1, <2>2 DEF Ordered
<1> QED
  BY <1>1, <1>2

LEMMA SameBitBy ==
    ASSUME IInv, NEW name, NEW version
    PROVE  Memory!BitBy(bits, name, version) = Sqlite!BitBy(rows, name, version)
<1> DEFINE list == Memory!Listed(bits, name)
           found == {i \in 1 .. Len(list) : list[i].version = version}
           loop == {list[i] : i \in {k \in found : \A j \in found : j <= k}}
<1>1. /\ list \in Seq(rows) /\ Ordered(list)
      /\ \A p : (\E i \in 1 .. Len(list) : list[i] = p) <=> p \in rows /\ p.name = name
  BY ListedRows
<1>2. Memory!BitBy(bits, name, version) = loop
  BY DEF Memory!BitBy
<1>3. Sqlite!BitBy(rows, name, version)
          = {row \in rows : row.name = name /\ row.version = version}
  BY DEF Sqlite!BitBy
<1> HIDE DEF list
\* A list has a version once.
<1>4. \A i, j \in found : i = j
  <2>1. \A i \in 1 .. Len(list) : list[i] \in rows /\ list[i].version \in Coded
    BY <1>1, CodedVersions
  <2>2. \A i, j \in 1 .. Len(list) : i < j => list[i].version # list[j].version
    BY <2>1, <1>1, LessIsIrreflexive DEF Ordered
  <2>3. \A i, j \in 1 .. Len(list) : i # j => i < j \/ j < i
    BY <1>1
  <2> QED
    BY <2>2, <2>3
<1>5. \A i \in found : \A j \in found : j <= i
  <2>1. \A i \in found : i <= i
    BY <1>1
  <2> QED
    BY <1>4, <2>1
<1>6. loop = {list[i] : i \in found}
  BY <1>5
<1>7. \A p : p \in loop <=> p \in rows /\ p.name = name /\ p.version = version
  BY <1>1, <1>6
<1> QED
  BY <1>2, <1>3, <1>7

LEMMA SameLatestBit ==
    ASSUME IInv, NEW name
    PROVE  /\ Memory!LatestBit(bits, name) = Sqlite!LatestBit(rows, name)
           /\ name \in DOMAIN bits => Sqlite!LatestBit(rows, name) # {}
<1> DEFINE named == {row \in rows : row.name = name}
           latest == {row \in named : \A other \in named : ~TextLess(row.version, other.version)}
<1>1. Sqlite!LatestBit(rows, name) = latest
  BY SameTexts DEF Sqlite!LatestBit
<1>2. CASE name \notin DOMAIN bits
  <2>1. named = {}
    BY <1>2 DEF IInv, Lists
  <2> QED
    BY <1>1, <1>2, <2>1 DEF Memory!LatestBit, Memory!BitExists
<1>3. CASE name \in DOMAIN bits
  <2> DEFINE list == bits[name]
             last == list[Len(list)]
  <2>1. /\ list \in Seq(rows) /\ Ordered(list) /\ Len(list) >= 1
        /\ \A p : (\E i \in 1 .. Len(list) : list[i] = p) <=> p \in rows /\ p.name = name
    BY <1>3, ListedRows
  <2>2. Memory!LatestBit(bits, name) = {last}
    BY <1>3 DEF Memory!LatestBit, Memory!BitExists, Memory!Last
  <2> HIDE DEF list
  <2>3. Len(list) \in 1 .. Len(list) /\ last \in named
    BY <2>1
  <2>4. \A i \in 1 .. Len(list) : i < Len(list) => TextLess(list[i].version, last.version)
    BY <2>1, <2>3 DEF Ordered
  <2>5. \A p \in named : p = last \/ TextLess(p.version, last.version)
    <3>1. \A i \in 1 .. Len(list) : i < Len(list) \/ i = Len(list)
      BY <2>1
    <3> QED
      BY <2>1, <2>4, <3>1
  <2>6. \A p \in named : p.version \in Coded
    BY CodedVersions
  <2>7. \A p \in named : ~TextLess(last.version, p.version)
    BY <2>3, <2>5, <2>6, LessIsIrreflexive, LessIsTransitive
  <2>8. latest = {last}
    BY <2>3, <2>5, <2>7
  <2> QED
    BY <1>1, <2>2, <2>8
<1> QED
  BY <1>2, <1>3

LEMMA SamePostBit == ASSUME IInv, NEW body PROVE PostBitToMemory(body) = PostBitToSqlite(body)
  BY SameBitBy DEF PostBitToMemory, PostBitToSqlite

-------------------------------------------------------------------------------
(* The steps.                                                                 *)

LEMMA InitInvariant == Init => IInv
<1> SUFFICES ASSUME Init PROVE IInv
  OBVIOUS
<1>1. acked = {} /\ rows = {} /\ templates = {} /\ DOMAIN bits = {}
  BY DEF Init, Memory!NoBits
<1> QED
  BY <1>1 DEF IInv, Keyed, Sent, Lists

\* What a bit that is published is.
LEMMA PublishedBit ==
    ASSUME NEW request \in Requests, PostBitToSqlite(request.body) = OK
    PROVE  LET bit == BitOf(request.body)
           IN  /\ bit.table = "bits"
               /\ bit.name \in SentTexts /\ ValidName(bit.name)
               /\ bit.version \in SentTexts /\ ValidVersion(bit.version, 1 .. 3)
               /\ \A p \in rows : ~(p.name = bit.name /\ p.version = bit.version)
<1> DEFINE texts == request.body.texts
           bit == BitOf(request.body)
<1>1. /\ HasTexts(request.body, {"bit_name", "version", "payload"})
      /\ ValidBit(texts)
      /\ Sqlite!BitBy(rows, bit.name, bit.version) = {}
  BY DEF PostBitToSqlite, PostBit, OK, CONFLICT, BAD_REQUEST, UNAUTHORIZED,
         INTERNAL_SERVER_ERROR
<1>2. bit.table = "bits" /\ bit.name = texts["bit_name"] /\ bit.version = texts["version"]
  BY DEF BitOf, Package
<1>3. "bit_name" \in DOMAIN texts /\ "version" \in DOMAIN texts
  BY <1>1 DEF HasTexts
<1>4. texts["bit_name"] \in SentTexts /\ texts["version"] \in SentTexts
  BY <1>3 DEF SentTexts, BodyTexts
<1>5. ValidName(texts["bit_name"]) /\ ValidVersion(texts["version"], 1 .. 3)
  BY <1>1 DEF ValidBit, ValidBitVersion
<1>6. \A p \in rows : ~(p.name = bit.name /\ p.version = bit.version)
  BY <1>1 DEF Sqlite!BitBy
<1> HIDE DEF bit, texts
<1> QED
  BY <1>2, <1>4, <1>5, <1>6 DEF bit

LEMMA PublishedTemplate ==
    ASSUME NEW request \in Requests, PostTemplate(request.body) = OK
    PROVE  LET template == TemplateOf(request.body)
           IN  /\ template.table = "templates"
               /\ template.name \in SentTexts /\ ValidName(template.name)
               /\ template.version \in SentTexts /\ ValidVersion(template.version, {3})
               /\ \A p \in templates :
                      ~(p.name = template.name /\ p.version = template.version)
<1> DEFINE texts == request.body.texts
           template == TemplateOf(request.body)
<1>1. /\ ParsePost(request.body) = "valid"
      /\ Sqlite!BitBy(templates, texts["template_name"], texts["version"]) = {}
  <2>1. ParsePost(request.body) \in {"exception", "invalid", "valid"}
    BY DEF ParsePost, Validate
  <2> QED
    BY <2>1 DEF PostTemplate, OK, CONFLICT, BAD_REQUEST, UNAUTHORIZED, INTERNAL_SERVER_ERROR
<1>2. TemplateFields \subseteq DOMAIN texts /\ ValidTemplate(texts)
  BY <1>1 DEF ParsePost, Validate
<1>3. /\ template.table = "templates" /\ template.name = texts["template_name"]
      /\ template.version = texts["version"]
  BY DEF TemplateOf, Package
<1>4. "template_name" \in DOMAIN texts /\ "version" \in DOMAIN texts
  BY <1>2 DEF TemplateFields
<1>5. texts["template_name"] \in SentTexts /\ texts["version"] \in SentTexts
  BY <1>4 DEF SentTexts, BodyTexts
<1>6. ValidName(texts["template_name"]) /\ ValidVersion(texts["version"], {3})
  BY <1>2 DEF ValidTemplate, ValidTemplateVersion
<1>7. \A p \in templates : ~(p.name = template.name /\ p.version = template.version)
  BY <1>1, <1>3 DEF Sqlite!BitBy
<1> HIDE DEF template, texts
<1> QED
  BY <1>3, <1>5, <1>6, <1>7 DEF template

LEMMA UnchangedKeeps ==
    ASSUME IInv, rows' = rows, templates' = templates, bits' = bits, acked' = acked
    PROVE  IInv'
<1>1. acked' = rows' \cup templates'
  BY DEF IInv
<1>2. Keyed(rows)' /\ Keyed(templates)'
  BY DEF IInv, Keyed
<1>3. Sent(rows, "bits", 1 .. 3)'
  BY DEF IInv, Sent
<1>4. Sent(templates, "templates", {3})'
  BY DEF IInv, Sent
<1>5. Lists'
  <2>1. Lists
    BY DEF IInv
  <2> QED
    BY <2>1 DEF Lists, Ordered
<1> QED
  BY <1>1, <1>2, <1>3, <1>4, <1>5 DEF IInv

\* The list of the bit's name takes it up in its order.
LEMMA AddKeepsLists ==
    ASSUME IInv, NEW bit, bit.version \in Coded,
           \A p \in rows : ~(p.name = bit.name /\ p.version = bit.version),
           rows' = rows \cup {bit}, bits' = Memory!Add(bits, bit)
    PROVE  Lists'
<1> DEFINE list == Memory!Listed(bits, bit.name)
           sorted == Memory!Sorted(Append(list, bit))
<1>1. /\ list \in Seq(rows) /\ Ordered(list)
      /\ \A p : (\E i \in 1 .. Len(list) : list[i] = p) <=> p \in rows /\ p.name = bit.name
  BY ListedRows
<1>2. bits' = [n \in DOMAIN bits \cup {bit.name} |-> IF n = bit.name THEN sorted ELSE bits[n]]
  BY DEF Memory!Add, Memory!With
<1> HIDE DEF list, sorted
<1>3. /\ sorted \in Seq(rows') /\ Ordered(sorted)
      /\ \A p : (\E i \in 1 .. Len(sorted) : sorted[i] = p)
                    <=> p = bit \/ \E i \in 1 .. Len(list) : list[i] = p
  <2>1. \A p \in rows' : p.version \in Coded
    BY CodedVersions
  <2>2. list \in Seq(rows') /\ bit \in rows'
    BY <1>1
  <2>3. \A i \in 1 .. Len(list) : list[i].version # bit.version
    BY <1>1
  <2> DEFINE kept == rows'
  <2>4. \A p \in kept : p.version \in Coded
    BY <2>1
  <2>5. list \in Seq(kept)
    BY <2>2
  <2>6. bit \in kept
    BY <2>2
  <2> HIDE DEF kept
  <2>7. Memory!Sorted(Append(list, bit)) \in Seq(kept)
    BY <1>1, <2>3, <2>4, <2>5, <2>6, SortedKeeps
  <2>8. Ordered(Memory!Sorted(Append(list, bit)))
    BY <1>1, <2>3, <2>4, <2>5, <2>6, SortedKeeps
  <2>9. \A p : Holds(Memory!Sorted(Append(list, bit)), p) <=> p = bit \/ Holds(list, p)
    BY <1>1, <2>3, <2>4, <2>5, <2>6, SortedKeeps
  <2> QED
    BY <2>7, <2>8, <2>9 DEF sorted, kept, Holds
<1>4. DOMAIN bits' = {p.name : p \in rows'}
  BY <1>2 DEF IInv, Lists
<1>5. ASSUME NEW name \in DOMAIN bits'
      PROVE  /\ bits'[name] \in Seq(rows')
             /\ Ordered(bits'[name])
             /\ {bits'[name][i] : i \in 1 .. Len(bits'[name])}
                    = {p \in rows' : p.name = name}
  <2>1. CASE name = bit.name
    <3>1. bits'[name] = sorted
      BY <1>2, <2>1
    <3>2. \A p : (\E i \in 1 .. Len(sorted) : sorted[i] = p) <=> p \in rows' /\ p.name = name
      BY <1>1, <1>3, <2>1
    <3>3. {sorted[i] : i \in 1 .. Len(sorted)} = {p \in rows' : p.name = name}
      BY <3>2
    <3> QED
      BY <1>3, <3>1, <3>3
  <2>2. CASE name # bit.name
    <3>1. name \in DOMAIN bits /\ bits'[name] = bits[name]
      BY <1>2, <2>2
    <3>2. /\ bits[name] \in Seq(rows) /\ Ordered(bits[name])
          /\ {bits[name][i] : i \in 1 .. Len(bits[name])} = {p \in rows : p.name = name}
      BY <3>1 DEF IInv, Lists
    <3>3. bits[name] \in Seq(rows')
      BY <3>2
    <3>4. {p \in rows' : p.name = name} = {p \in rows : p.name = name}
      BY <2>2
    <3> QED
      BY <3>1, <3>2, <3>3, <3>4
  <2> QED
    BY <2>1, <2>2
<1>6. \A list_ : Ordered(list_)' <=> Ordered(list_)
  OBVIOUS
<1> QED
  BY <1>4, <1>5 DEF Lists, Ordered

LEMMA PublishBitKeeps ==
    ASSUME IInv, NEW request \in Requests, PublishBit(request) PROVE IInv'
<1> DEFINE bit == BitOf(request.body)
<1>1. PostBitToMemory(request.body) = PostBitToSqlite(request.body) /\ templates' = templates
  BY SamePostBit DEF PublishBit
<1>2. CASE PostBitToSqlite(request.body) # OK
  <2>1. rows' = rows /\ bits' = bits /\ acked' = acked /\ templates' = templates
    BY <1>1, <1>2 DEF PublishBit
  <2> QED
    BY <2>1, UnchangedKeeps
<1>3. CASE PostBitToSqlite(request.body) = OK
  <2>1. /\ bit.table = "bits"
        /\ bit.name \in SentTexts /\ ValidName(bit.name)
        /\ bit.version \in SentTexts /\ ValidVersion(bit.version, 1 .. 3)
        /\ \A p \in rows : ~(p.name = bit.name /\ p.version = bit.version)
    BY <1>3, PublishedBit
  <2>2. /\ rows' = Sqlite!Add(rows, bit) /\ bits' = Memory!Add(bits, bit)
        /\ acked' = acked \cup {bit}
    BY <1>1, <1>3 DEF PublishBit
  <2> HIDE DEF bit
  <2>3. rows' = rows \cup {bit}
    BY <2>1, <2>2 DEF Sqlite!Add
  <2>4. Lists'
    BY <2>1, <2>2, <2>3, ValidVersionFits, AddKeepsLists
  <2>5. Keyed(rows)'
    BY <2>1, <2>3 DEF IInv, Keyed
  <2>6. Sent(rows, "bits", 1 .. 3)'
    BY <2>1, <2>3 DEF IInv, Sent
  <2>7. Keyed(templates)' /\ Sent(templates, "templates", {3})'
    BY <1>1 DEF IInv, Keyed, Sent
  <2>8. acked' = rows' \cup templates'
    BY <1>1, <2>2, <2>3 DEF IInv
  <2> QED
    BY <2>4, <2>5, <2>6, <2>7, <2>8 DEF IInv
<1> QED
  BY <1>2, <1>3

LEMMA PublishTemplateKeeps ==
    ASSUME IInv, NEW request \in Requests, PublishTemplate(request) PROVE IInv'
<1> DEFINE template == TemplateOf(request.body)
<1>1. rows' = rows /\ bits' = bits
  BY DEF PublishTemplate
<1>2. CASE PostTemplate(request.body) # OK
  <2>1. acked' = acked /\ templates' = templates
    BY <1>2 DEF PublishTemplate
  <2> QED
    BY <1>1, <2>1, UnchangedKeeps
<1>3. CASE PostTemplate(request.body) = OK
  <2>1. /\ template.table = "templates"
        /\ template.name \in SentTexts /\ ValidName(template.name)
        /\ template.version \in SentTexts /\ ValidVersion(template.version, {3})
        /\ \A p \in templates : ~(p.name = template.name /\ p.version = template.version)
    BY <1>3, PublishedTemplate
  <2>2. templates' = Sqlite!Add(templates, template) /\ acked' = acked \cup {template}
    BY <1>3 DEF PublishTemplate
  <2> HIDE DEF template
  <2>3. templates' = templates \cup {template}
    BY <2>1, <2>2 DEF Sqlite!Add
  <2>4. Keyed(templates)'
    BY <2>1, <2>3 DEF IInv, Keyed
  <2>5. Sent(templates, "templates", {3})'
    BY <2>1, <2>3 DEF IInv, Sent
  <2>6. Keyed(rows)' /\ Sent(rows, "bits", 1 .. 3)'
    BY <1>1 DEF IInv, Keyed, Sent
  <2>7. Lists'
    <3>1. Lists
      BY DEF IInv
    <3> QED
      BY <1>1, <3>1 DEF Lists, Ordered
  <2>8. acked' = rows' \cup templates'
    BY <1>1, <2>2, <2>3 DEF IInv
  <2> QED
    BY <2>4, <2>5, <2>6, <2>7, <2>8 DEF IInv
<1> QED
  BY <1>2, <1>3

LEMMA NextInvariant == IInv /\ [Next]_vars => IInv'
<1> SUFFICES ASSUME IInv, [Next]_vars PROVE IInv'
  OBVIOUS
<1>1. CASE rows' = rows /\ templates' = templates /\ bits' = bits /\ acked' = acked
  BY <1>1, UnchangedKeeps
<1>2. ASSUME NEW request \in Requests, PublishBit(request) PROVE IInv'
  BY <1>2, PublishBitKeeps
<1>3. ASSUME NEW request \in Requests, PublishTemplate(request) PROVE IInv'
  BY <1>3, PublishTemplateKeeps
<1> QED
  BY <1>1, <1>2, <1>3 DEF Next, RegisterUser, Read, vars

LEMMA Invariance == Spec => []IInv
  BY InitInvariant, NextInvariant, PTL DEF Spec

-------------------------------------------------------------------------------
(* Downloads and searches.                                                    *)

\* A download that matches a route and is answered without CORS headers.
LEMMA AnsweredGet ==
    ASSUME NEW path, NEW query, MatchingRoutes(path) # {},
           RouteOf(path).resource \in {"bits", "templates"}, NEW get, NEW post
    PROVE  LET request == Get(path, query)
               answer == IF RouteOf(path).resource = "bits" THEN get
                         ELSE GetTemplate(Parameters(request))
           IN  Dispatch(request, get, post) = answer
<1> DEFINE request == Get(path, query)
           answer == IF RouteOf(path).resource = "bits" THEN get
                     ELSE GetTemplate(Parameters(request))
<1>1. request.method = "GET" /\ request.path = path /\ request.headers = {}
  BY DEF Get, Request
<1> HIDE DEF request
<1>2. Handled(RouteOf(path).resource, request, Parameters(request), get, post) = answer
  BY <1>1 DEF Handled
<1> HIDE DEF answer
<1>3. Dispatch(request, get, post) = IF answer.status = INTERNAL_SERVER_ERROR THEN answer
                                     ELSE HandleCors(request, answer)
  BY <1>1, <1>2 DEF Dispatch
<1>4. HandleCors(request, answer) = answer
  BY <1>1 DEF HandleCors
<1> QED
  BY <1>3, <1>4 DEF request, answer

\* GET of a bit by name and version.
LEMMA DownloadedVersion ==
    ASSUME NEW name, NEW version, Fits(name), Fits(version)
    PROVE  Answered(DownloadVersion("bits", name, version))
               = AnswerFound(Sqlite!BitBy(rows, name, version))
<1> DEFINE path == <<"bits", name, version>>
           request == Get(path, <<>>)
           parameters == Parameters(request)
<1>1. Len(path) = 3 /\ path[1] = "bits" /\ path[2] = name /\ path[3] = version
  OBVIOUS
<1> HIDE DEF path
<1>2. MatchingRoutes(path) # {} /\ RouteOf(path) = Routes[3]
  BY <1>1, MatchingRoute, OneRoute
<1>3. RouteOf(path).resource = "bits"
  BY <1>2, RouteList
<1>4. request.path = path
  BY DEF Get, Request
<1>5. parameters = MatchedParameters(<<Literal("bits"), Parameter("bitName"),
                                       Parameter("bitVersion")>>, path)
  BY <1>2, <1>4, RouteList DEF Parameters
<1>6. /\ DOMAIN parameters = {"bitName", "bitVersion"}
      /\ parameters["bitName"] = name /\ parameters["bitVersion"] = version
  <2> DEFINE first == "bits"
             second == "bitName"
             third == "bitVersion"
             endpoint == <<Literal(first), Parameter(second), Parameter(third)>>
  <2>1. second # third
    OBVIOUS
  <2>2. parameters = MatchedParameters(endpoint, path)
    BY <1>5
  <2>3. endpoint = <<Literal(first), Parameter(second), Parameter(third)>> /\ Len(path) = 3
    BY <1>1
  <2> HIDE DEF parameters, first, second, third, endpoint
  <2>4. MapsBoth(MatchedParameters(endpoint, path), second, path[2], third, path[3])
    BY <2>1, <2>3, VersionParameters
  <2> QED
    BY <1>1, <2>2, <2>4 DEF MapsBoth, second, third
<1> HIDE DEF parameters
<1>7. Has(parameters, "bitName") /\ Has(parameters, "bitVersion")
      /\ GetFrom(parameters, "bitName") = name /\ GetFrom(parameters, "bitVersion") = version
  BY <1>6 DEF Has, GetFrom
<1>8. GetBitFromSqlite(parameters, QueryParameters(request.query))
          = AnswerFound(Sqlite!BitBy(rows, name, version))
  BY <1>7 DEF GetBitFromSqlite, GetBit
<1>9. Answered(request) = GetBitFromSqlite(parameters, QueryParameters(request.query))
  <2>1. Answered(request)
            = Dispatch(request, GetBitFromSqlite(parameters, QueryParameters(request.query)),
                       PostBitToSqlite(request.body))
    BY DEF Answered, parameters
  <2> QED
    BY <1>2, <1>3, <2>1, AnsweredGet
<1> QED
  BY <1>8, <1>9 DEF DownloadVersion, path

\* GET of a template by name and version.
LEMMA DownloadedTemplate ==
    ASSUME NEW name, NEW version, Fits(name), Fits(version)
    PROVE  Answered(DownloadVersion("templates", name, version))
               = AnswerFound(Sqlite!BitBy(templates, name, version))
<1> DEFINE path == <<"templates", name, version>>
           request == Get(path, <<>>)
           parameters == Parameters(request)
<1>1. Len(path) = 3 /\ path[1] = "templates" /\ path[2] = name /\ path[3] = version
  OBVIOUS
<1> HIDE DEF path
<1>2. MatchingRoutes(path) # {} /\ RouteOf(path) = Routes[5]
  BY <1>1, MatchingRoute, OneRoute
<1>3. RouteOf(path).resource = "templates"
  BY <1>2, RouteList
<1>4. request.path = path
  BY DEF Get, Request
<1>5. parameters = MatchedParameters(<<Literal("templates"), Parameter("templateName"),
                                       Parameter("version")>>, path)
  BY <1>2, <1>4, RouteList DEF Parameters
<1>6. /\ DOMAIN parameters = {"templateName", "version"}
      /\ parameters["templateName"] = name /\ parameters["version"] = version
  <2> DEFINE first == "templates"
             second == "templateName"
             third == "version"
             endpoint == <<Literal(first), Parameter(second), Parameter(third)>>
  <2>1. second # third
    OBVIOUS
  <2>2. parameters = MatchedParameters(endpoint, path)
    BY <1>5
  <2>3. endpoint = <<Literal(first), Parameter(second), Parameter(third)>> /\ Len(path) = 3
    BY <1>1
  <2> HIDE DEF parameters, first, second, third, endpoint
  <2>4. MapsBoth(MatchedParameters(endpoint, path), second, path[2], third, path[3])
    BY <2>1, <2>3, VersionParameters
  <2> QED
    BY <1>1, <2>2, <2>4 DEF MapsBoth, second, third
<1> HIDE DEF parameters
<1>7. GetTemplate(parameters) = AnswerFound(Sqlite!BitBy(templates, name, version))
  BY <1>6 DEF GetTemplate, Has, GetFrom
<1>8. Answered(request) = GetTemplate(parameters)
  <2>1. Answered(request)
            = Dispatch(request, GetBitFromSqlite(parameters, QueryParameters(request.query)),
                       PostBitToSqlite(request.body))
    BY DEF Answered, parameters
  <2> QED
    BY <1>2, <1>3, <2>1, AnsweredGet DEF parameters
<1> QED
  BY <1>7, <1>8 DEF DownloadVersion, path

\* GET of a bit by name.
LEMMA DownloadedLatest ==
    ASSUME NEW name, Fits(name)
    PROVE  Answered(Download("bits", name)) = AnswerFound(Sqlite!LatestBit(rows, name))
<1> DEFINE path == <<"bits", name>>
           request == Get(path, <<>>)
           parameters == Parameters(request)
<1>1. Len(path) = 2 /\ path[1] = "bits" /\ path[2] = name
  OBVIOUS
<1> HIDE DEF path
<1>2. MatchingRoutes(path) # {} /\ RouteOf(path) = Routes[2]
  BY <1>1, MatchingRoute, OneRoute
<1>3. RouteOf(path).resource = "bits"
  BY <1>2, RouteList
<1>4. request.path = path
  BY DEF Get, Request
<1>5. parameters = MatchedParameters(<<Literal("bits"), Parameter("bitName")>>, path)
  BY <1>2, <1>4, RouteList DEF Parameters
<1>6. DOMAIN parameters = {"bitName"} /\ parameters["bitName"] = name
  <2> DEFINE first == "bits"
             second == "bitName"
  <2>1. parameters = MatchedParameters(<<Literal(first), Parameter(second)>>, path)
    BY <1>5
  <2> HIDE DEF parameters, first, second
  <2>2. Maps(parameters, second, path[2])
    <3> DEFINE endpoint == <<Literal(first), Parameter(second)>>
    <3>1. Len(path) = 2 /\ endpoint = <<Literal(first), Parameter(second)>>
      BY <1>1
    <3> HIDE DEF endpoint
    <3>2. Maps(MatchedParameters(endpoint, path), second, path[2])
      BY <3>1, NameParameter
    <3> QED
      BY <2>1, <3>2 DEF endpoint
  <2>3. DOMAIN parameters = {second} /\ parameters[second] = name
    BY <1>1, <2>2 DEF Maps
  <2> QED
    BY <2>3 DEF second
<1> HIDE DEF parameters
<1>7. Has(parameters, "bitName") /\ ~Has(parameters, "bitVersion")
      /\ GetFrom(parameters, "bitName") = name
  BY <1>6 DEF Has, GetFrom
<1>8. GetBitFromSqlite(parameters, QueryParameters(request.query))
          = AnswerFound(Sqlite!LatestBit(rows, name))
  BY <1>7 DEF GetBitFromSqlite, GetBit
<1>9. Answered(request) = GetBitFromSqlite(parameters, QueryParameters(request.query))
  <2>1. Answered(request)
            = Dispatch(request, GetBitFromSqlite(parameters, QueryParameters(request.query)),
                       PostBitToSqlite(request.body))
    BY DEF Answered, parameters
  <2> QED
    BY <1>2, <1>3, <2>1, AnsweredGet
<1> QED
  BY <1>8, <1>9 DEF Download, path

\* What is found under the key of a row is the row.
LEMMA FoundByKey ==
    ASSUME NEW table, Keyed(table), NEW p \in table
    PROVE  Sqlite!BitBy(table, p.name, p.version) = {p}
  BY DEF Keyed, Sqlite!BitBy

LEMMA FetchedVersion ==
    ASSUME IInv, NEW p \in acked
    PROVE  Answered(DownloadVersion(p.table, p.name, p.version)) = Answer(OK, Shown({p}))
<1>1. AnswerFound({p}) = Answer(OK, Shown({p}))
  BY DEF AnswerFound
<1>2. CASE p \in rows
  <2>1. p.table = "bits" /\ Fits(p.name) /\ Fits(p.version)
    BY <1>2, ValidNameFits, ValidVersionFits DEF IInv, Sent, Fits
  <2>2. Sqlite!BitBy(rows, p.name, p.version) = {p}
    BY <1>2, FoundByKey DEF IInv
  <2> QED
    BY <1>1, <2>1, <2>2, DownloadedVersion
<1>3. CASE p \in templates
  <2>1. p.table = "templates" /\ Fits(p.name) /\ Fits(p.version)
    BY <1>3, ValidNameFits, ValidVersionFits DEF IInv, Sent, Fits
  <2>2. Sqlite!BitBy(templates, p.name, p.version) = {p}
    BY <1>3, FoundByKey DEF IInv
  <2> QED
    BY <1>1, <2>1, <2>2, DownloadedTemplate
<1> QED
  BY <1>2, <1>3 DEF IInv

LEMMA AckedBits == ASSUME IInv PROVE Bits = rows
  BY DEF IInv, Sent, Bits

LEMMA FetchedLatest ==
    ASSUME IInv, NEW p \in rows
    PROVE  LET latest == Answered(Download("bits", p.name))
           IN  /\ latest.status = OK
               /\ \A q \in latest.shown : ~TextLess(q.version, p.version)
<1> DEFINE found == Sqlite!LatestBit(rows, p.name)
           latest == Answered(Download("bits", p.name))
<1>1. Fits(p.name)
  BY ValidNameFits DEF IInv, Sent, Fits
<1>2. latest = AnswerFound(found)
  BY <1>1, DownloadedLatest
<1>3. found # {}
  <2>1. p.name \in DOMAIN bits
    BY DEF IInv, Lists
  <2> QED
    BY <2>1, SameLatestBit
<1>4. \A q \in found : ~TextLess(q.version, p.version)
  BY SameTexts DEF Sqlite!LatestBit
<1> HIDE DEF found, latest
<1>5. latest = [status |-> OK, shown |-> Shown(found), headers |-> NoHeaders]
  BY <1>2, <1>3 DEF AnswerFound, Answer
<1>6. \A q \in Shown(found) : \E r \in found : q.version = r.version
  BY DEF Shown
<1> QED
  BY <1>4, <1>5, <1>6 DEF latest

\* Whatever clients send, searches for texts with a quote apart (PlainSearches),
\* what was answered 200 can be downloaded as it was sent, by the path of its name
\* and version, and by the path of its name comes a version no older in the order
\* of texts (field_validation.cpp:23-25,
\* TemplatesContract.cpp:26-27, Endpoint.cpp:57).
THEOREM AckedIsFetched == Spec => []PublishedIsFetched
<1>1. IInv => PublishedIsFetched
  BY AckedBits, FetchedVersion, FetchedLatest DEF PublishedIsFetched
<1> QED
  BY <1>1, Invariance, PTL

\* A download by name shows a row of the name.
LEMMA LatestIsRow ==
    ASSUME IInv, NEW p \in rows, NEW latest \in Answered(Download("bits", p.name)).shown
    PROVE  \E q \in rows : q.name = p.name /\ q.version = latest.version
<1> DEFINE found == Sqlite!LatestBit(rows, p.name)
<1>1. Answered(Download("bits", p.name)) = AnswerFound(found)
  <2>1. Fits(p.name)
    BY ValidNameFits DEF IInv, Sent, Fits
  <2> QED
    BY <2>1, DownloadedLatest
<1>2. \A q \in found : q \in rows /\ q.name = p.name
  BY DEF Sqlite!LatestBit
<1> HIDE DEF found
<1>3. AnswerFound(found).shown \subseteq Shown(found)
  BY DEF AnswerFound, Answer
<1>4. latest \in Shown(found)
  BY <1>1, <1>3
<1>5. PICK q \in found : q.version = latest.version
  BY <1>4 DEF Shown
<1> QED
  BY <1>2, <1>5

\* Whatever clients send, searches for texts with a quote apart (PlainSearches), a
\* download by name gives the newest version by its numbers, as long as they are
\* written equally wide and carry no suffix (BitsRepositoryInSqlite.cpp:105, BitsRepositoryInMemory.cpp:23-26).
THEOREM NewestIsLatest == Spec => []LatestIsNewest
<1>1. IInv => LatestIsNewest
  <2> SUFFICES ASSUME IInv, NEW p \in rows,
                      \A q, r \in rows : q.name = p.name /\ r.name = p.name
                                             => SameWidths(q.version, r.version),
                      NEW latest \in Answered(Download("bits", p.name)).shown
               PROVE  ~Newer(p.version, latest.version)
    BY AckedBits DEF LatestIsNewest
  <2>1. PICK q \in rows : q.name = p.name /\ q.version = latest.version
    BY LatestIsRow
  <2>2. ~TextLess(q.version, p.version)
    BY <2>1, FetchedLatest
  <2>3. p.version \in Coded /\ q.version \in Coded /\ SameWidths(p.version, q.version)
    BY <2>1, CodedVersions
  <2>4. CASE p.version = q.version
    <3>1. \A k \in 1 .. 3 : ~(Number(p.version, k) > Number(p.version, k))
      <4>1. Len(p.version) \in Nat
        BY <2>3, SpelledText DEF KnownTexts, Coded
      <4>2. \A k \in 1 .. 3 : Number(p.version, k) = -1 \/ Number(p.version, k) \in Nat
        BY <4>1, NumberReads
      <4> QED
        BY <4>2
    <3> QED
      BY <2>1, <2>4, <3>1 DEF Newer
  <2>5. CASE TextLess(p.version, q.version)
    BY <2>1, <2>3, <2>5, LessIsNotNewer
  <2> QED
    BY <2>2, <2>3, <2>4, <2>5, LessIsTotal
<1> QED
  BY <1>1, Invariance, PTL

\* A search for a text that is not empty lists what a repository finds.
LEMMA Searched ==
    ASSUME NEW part, part # ""
    PROVE  /\ Answered(SearchFor(part)).shown = Sqlite!Search(rows, part)
           /\ AnsweredFromMemory(SearchFor(part)).shown = Memory!Search(bits, part)
<1> DEFINE path == <<"bits">>
           asked == <<<<"name", part>>>>
           request == Get(path, asked)
           parameters == Parameters(request)
           query == QueryParameters(asked)
<1>1. Len(path) = 1 /\ path[1] = "bits"
  OBVIOUS
<1>2. Has(query, "name") /\ GetFrom(query, "name") = part
  BY SearchParameter DEF Has, GetFrom
<1> HIDE DEF path, asked
<1>3. MatchingRoutes(path) # {} /\ RouteOf(path) = Routes[1]
  BY <1>1, MatchingRoute, OneRoute
<1>4. /\ RouteOf(path).resource = "bits"
      /\ RouteOf(path).endpoint = <<Literal("bits")>>
  <2>1. Routes[1].resource = "bits" /\ Routes[1].endpoint = <<Literal("bits")>>
    BY DEF Routes
  <2> QED
    BY <1>3, <2>1
<1>5. request.path = path /\ request.query = asked
  BY DEF Get, Request
<1>6. DOMAIN parameters = {}
  <2>1. parameters = MatchedParameters(<<Literal("bits")>>, path)
    BY <1>4, <1>5 DEF Parameters
  <2> QED
    BY <1>1, <2>1, NoPathParameters
<1> HIDE DEF parameters, query
<1>7. GetBitFromSqlite(parameters, query) = Answer(OK, Sqlite!Search(rows, part))
  BY <1>2, <1>6 DEF GetBitFromSqlite, GetBit, Has
<1>8. GetBitFromMemory(parameters, query) = Answer(OK, Memory!Search(bits, part))
  BY <1>2, <1>6 DEF GetBitFromMemory, GetBit, Has
<1>9. Answered(request) = GetBitFromSqlite(parameters, query)
  <2>1. Answered(request) = Dispatch(request, GetBitFromSqlite(parameters, query),
                                     PostBitToSqlite(request.body))
    BY <1>5 DEF Answered, parameters, query
  <2> QED
    BY <1>3, <1>4, <2>1, AnsweredGet
<1>10. AnsweredFromMemory(request) = GetBitFromMemory(parameters, query)
  <2>1. AnsweredFromMemory(request) = Dispatch(request, GetBitFromMemory(parameters, query),
                                               PostBitToMemory(request.body))
    BY <1>5 DEF AnsweredFromMemory, parameters, query
  <2> QED
    BY <1>3, <1>4, <2>1, AnsweredGet
<1>11. \A found : Answer(OK, found).shown = found
  BY DEF Answer
<1> QED
  BY <1>7, <1>8, <1>9, <1>10, <1>11 DEF SearchFor, path, asked

\* A text that holds a part is like it, whatever wildcards are in both: each '%'
\* stands for itself.
LEMMA PartIsLike ==
    ASSUME NEW text, NEW part, Len(text) \in Nat, Len(part) \in Nat,
           NEW k \in 0 .. Len(text) - Len(part),
           \A m \in 1 .. Len(part) : Char(part, m) = Char(text, k + m)
    PROVE  Like(text, part)
<1> DEFINE gaps(i) == Cardinality(Gaps(part, i))
           all == gaps(Len(part))
           skipped == [g \in 0 .. all |-> k + g]
<1>1. ASSUME NEW i \in 0 .. Len(part)
      PROVE  gaps(i) \in 0 .. i /\ gaps(i) <= all
  <2>1. IsFiniteSet(1 .. i) /\ Cardinality(1 .. i) = i
    BY FS_Interval
  <2>2. Gaps(part, i) \subseteq 1 .. i /\ Gaps(part, i) \subseteq Gaps(part, Len(part))
    BY DEF Gaps
  <2>3. IsFiniteSet(1 .. Len(part)) /\ Gaps(part, Len(part)) \subseteq 1 .. Len(part)
    BY FS_Interval DEF Gaps
  <2>4. IsFiniteSet(Gaps(part, i)) /\ IsFiniteSet(Gaps(part, Len(part)))
    BY <2>1, <2>2, <2>3, FS_Subset
  <2>5. gaps(i) \in Nat /\ gaps(i) <= i /\ gaps(i) <= all
    BY <2>1, <2>2, <2>4, FS_CardinalityType, FS_Subset
  <2> QED
    BY <2>5
<1>2. all \in 0 .. Len(part)
  BY <1>1
<1> HIDE DEF gaps
<1>3. skipped \in [0 .. all -> 0 .. Len(text) - (Len(part) - all)]
  BY <1>2
<1>4. \A g \in 1 .. all : skipped[g - 1] <= skipped[g]
  BY <1>2
<1>5. ASSUME NEW i \in 1 .. Len(part)
      PROVE  Char(text, skipped[gaps(i)] + i - gaps(i)) = Char(part, i)
  <2>1. gaps(i) \in 0 .. all /\ gaps(i) \in Nat
    BY <1>1, <1>2
  <2>2. skipped[gaps(i)] + i - gaps(i) = k + i
    BY <2>1
  <2> QED
    BY <2>2
<1> HIDE DEF all, skipped
<1> QED
  BY <1>3, <1>4, <1>5 DEF Like, all, gaps

\* A text holds each of its parts, for both ways of looking.
LEMMA PartIsFound ==
    ASSUME NEW text \in SentTexts, NEW i \in 1 .. Len(text), NEW j \in i .. Len(text)
    PROVE  LET part == SubSeq(text, i, j)
           IN  part # "" /\ HasPart(text, part) /\ Like(text, part)
<1> DEFINE part == SubSeq(text, i, j)
           k == i - 1
<1>1. text \in KnownTexts /\ Len(text) \in Nat
  BY SpelledText DEF KnownTexts
<1>2. /\ Len(part) = j - i + 1
      /\ \A m \in 1 .. j - i + 1 : Char(part, m) = Char(text, i + m - 1)
  <2>1. i \in 1 .. Len(text) + 1 /\ j \in i - 1 .. Len(text)
    BY <1>1
  <2> QED
    BY <1>1, <2>1, SpelledText
<1>3. k \in 0 .. Len(text) - Len(part) /\ k + 1 = i /\ k + Len(part) = j
  BY <1>1, <1>2
<1>4. part # ""
  <2>1. Len(part) # 0
    BY <1>1, <1>2
  <2> QED
    BY <2>1, TextsAssumption
<1>5. HasPart(text, part)
  BY <1>3 DEF HasPart
<1>6. Like(text, part)
  <2>1. \A m \in 1 .. Len(part) : Char(part, m) = Char(text, k + m)
    BY <1>1, <1>2
  <2>2. Len(part) \in Nat
    BY <1>2
  <2> HIDE DEF part, k
  <2> QED
    BY <1>1, <1>3, <2>1, <2>2, PartIsLike
<1> QED
  BY <1>4, <1>5, <1>6

LEMMA SearchFindsPart ==
    ASSUME IInv, NEW p \in rows, NEW part, part # "",
           HasPart(p.name, part), Like(p.name, part)
    PROVE  /\ [name |-> p.name, author |-> p.user_name] \in Answered(SearchFor(part)).shown
           /\ \E q \in AnsweredFromMemory(SearchFor(part)).shown : q.name = p.name
<1>1. [name |-> p.name, author |-> p.user_name] \in Sqlite!Search(rows, part)
  BY SameTexts DEF Sqlite!Search
<1>2. \E q \in Memory!Search(bits, part) : q.name = p.name
  <2>1. p.name \in {n \in DOMAIN bits : Memory!HasPart(n, part)}
    BY SameTexts DEF IInv, Lists
  <2>2. [name |-> p.name, author |-> Memory!Head(bits[p.name]).user_name]
            \in Memory!Search(bits, part)
    BY <2>1 DEF Memory!Search
  <2> QED
    BY <2>2
<1> QED
  BY <1>1, <1>2, Searched

\* Whatever clients send, searches for texts with a quote apart (PlainSearches),
\* searching for any part of the name of a published bit lists it, over either repository (BitsRepositoryInSqlite.cpp:139,
\* BitsRepositoryInMemory.cpp:96-100).
THEOREM SearchesFind == Spec => []SearchFinds
<1>1. IInv => SearchFinds
  <2> SUFFICES ASSUME IInv, NEW p \in Bits, NEW i \in 1 .. Len(p.name),
                      NEW j \in i .. Len(p.name)
               PROVE  LET search == SearchFor(SubSeq(p.name, i, j))
                      IN  /\ [name |-> p.name, author |-> p.user_name]
                                 \in Answered(search).shown
                          /\ \E q \in AnsweredFromMemory(search).shown : q.name = p.name
    BY DEF SearchFinds
  <2>1. p \in rows
    BY AckedBits
  <2>2. p.name \in SentTexts
    BY <2>1 DEF IInv, Sent
  <2> QED
    BY <2>1, <2>2, PartIsFound, SearchFindsPart
<1> QED
  BY <1>1, Invariance, PTL

-------------------------------------------------------------------------------
(* The answers over the two repositories.                                     *)

LEMMA FoundIsLike ==
    ASSUME NEW text \in SentTexts, NEW part \in SentTexts, HasPart(text, part)
    PROVE  Like(text, part)
<1>1. text \in KnownTexts /\ Len(text) \in Nat /\ Len(part) \in Nat
  BY SpelledText DEF KnownTexts
<1>2. PICK k \in 0 .. Len(text) - Len(part) : SubSeq(text, k + 1, k + Len(part)) = part
  BY DEF HasPart
<1>3. k + 1 \in 1 .. Len(text) + 1 /\ k + Len(part) \in (k + 1) - 1 .. Len(text)
  BY <1>1, <1>2
<1>4. \A m \in 1 .. Len(part) : Char(part, m) = Char(text, k + m)
  <2>1. \A m \in 1 .. (k + Len(part)) - (k + 1) + 1 :
            Char(SubSeq(text, k + 1, k + Len(part)), m) = Char(text, (k + 1) + m - 1)
    BY <1>1, <1>3, SpelledText
  <2>2. \A m \in 1 .. Len(part) :
            /\ m \in 1 .. (k + Len(part)) - (k + 1) + 1
            /\ (k + 1) + m - 1 = k + m
    BY <1>1, <1>2
  <2> QED
    BY <1>2, <2>1, <2>2
<1> QED
  BY <1>1, <1>4, PartIsLike

\* What the repository in memory lists, the tables list too.
LEMMA SearchListsLess ==
    ASSUME IInv, NEW part \in SentTexts
    PROVE  Memory!Search(bits, part) \subseteq Sqlite!Search(rows, part)
<1> SUFFICES ASSUME NEW name \in DOMAIN bits, HasPart(name, part)
             PROVE  [name |-> name, author |-> Head(bits[name]).user_name]
                        \in Sqlite!Search(rows, part)
  BY SameTexts DEF Memory!Search
<1> DEFINE first == Head(bits[name])
<1>1. first \in rows /\ first.name = name
  <2> DEFINE list == bits[name]
  <2>1. list \in Seq(rows) /\ Len(list) >= 1
        /\ \A p : (\E i \in 1 .. Len(list) : list[i] = p) <=> p \in rows /\ p.name = name
    BY ListedRows
  <2> HIDE DEF list
  <2>2. Head(list) = list[1] /\ 1 \in 1 .. Len(list)
    BY <2>1
  <2> QED
    BY <2>1, <2>2 DEF list
<1> HIDE DEF first
<1>2. name \in SentTexts
  BY <1>1 DEF IInv, Sent
<1>3. Like(first.name, part)
  BY <1>1, <1>2, FoundIsLike
<1>4. [name |-> first.name, author |-> first.user_name] \in Sqlite!Search(rows, part)
  BY <1>1, <1>3, SameTexts DEF Sqlite!Search
<1> QED
  BY <1>1, <1>4 DEF first

\* Two answers that differ at most in what they show.
Agree(answer, memory_answer, same) ==
    /\ answer.status = memory_answer.status
    /\ answer.headers = memory_answer.headers
    /\ memory_answer.shown \subseteq answer.shown
    /\ same => memory_answer.shown = answer.shown

LEMMA SameAgree == ASSUME NEW answer, NEW same PROVE Agree(answer, answer, same)
  BY DEF Agree

LEMMA CorsAgree ==
    ASSUME NEW request, NEW status, NEW shown, NEW less, less \subseteq shown,
           NEW same, same => less = shown
    PROVE  Agree(HandleCors(request, Answer(status, shown)),
                 HandleCors(request, Answer(status, less)), same)
<1> DEFINE headers == Set(Set(NoHeaders, "Access-Control-Allow-Origin", "*"),
                          "Access-Control-Max-Age", "86400")
<1>1. CASE "Origin" \in request.headers
  <2>1. \A any : HandleCors(request, Answer(status, any))
                     = [status |-> status, shown |-> any, headers |-> headers]
    BY <1>1 DEF HandleCors, Answer
  <2> HIDE DEF headers
  <2> QED
    BY <2>1 DEF Agree
<1>2. CASE "Origin" \notin request.headers
  BY <1>2 DEF HandleCors, Answer, Agree
<1> QED
  BY <1>1, <1>2

\* What the two repositories give the resource of bits for a request.
LEMMA GetsAgree ==
    ASSUME IInv, NEW request \in Requests, NEW parameters
    PROVE  LET query == QueryParameters(request.query)
           IN  \E status \in {OK, NOT_FOUND, BAD_REQUEST} : \E shown, less :
                   /\ GetBitFromSqlite(parameters, query) = Answer(status, shown)
                   /\ GetBitFromMemory(parameters, query) = Answer(status, less)
                   /\ less \subseteq shown
                   /\ Has(parameters, "bitName") => less = shown
<1> DEFINE query == QueryParameters(request.query)
           name == GetFrom(parameters, "bitName")
           version == GetFrom(parameters, "bitVersion")
           part == GetFrom(query, "name")
<1>1. CASE Has(parameters, "bitName")
  <2> DEFINE found == IF Has(parameters, "bitVersion") THEN Sqlite!BitBy(rows, name, version)
                      ELSE Sqlite!LatestBit(rows, name)
  <2>1. GetBitFromSqlite(parameters, query) = AnswerFound(found)
    BY <1>1 DEF GetBitFromSqlite, GetBit
  <2>2. GetBitFromMemory(parameters, query) = AnswerFound(found)
    BY <1>1, SameBitBy, SameLatestBit DEF GetBitFromMemory, GetBit
  <2> HIDE DEF found, query
  <2> QED
    BY <2>1, <2>2 DEF AnswerFound, query
<1>2. CASE ~Has(parameters, "bitName") /\ Has(query, "name") /\ part # ""
  <2>1. GetBitFromSqlite(parameters, query) = Answer(OK, Sqlite!Search(rows, part))
    BY <1>2 DEF GetBitFromSqlite, GetBit
  <2>2. GetBitFromMemory(parameters, query) = Answer(OK, Memory!Search(bits, part))
    BY <1>2 DEF GetBitFromMemory, GetBit
  <2>3. part \in SentTexts
    BY <1>2, QueryValue
  <2>4. Memory!Search(bits, part) \subseteq Sqlite!Search(rows, part)
    BY <2>3, SearchListsLess
  <2> HIDE DEF query, part
  <2> QED
    BY <1>2, <2>1, <2>2, <2>4 DEF query
<1>3. CASE ~Has(parameters, "bitName") /\ ~(Has(query, "name") /\ part # "")
  <2>1. GetBitFromSqlite(parameters, query) = Answer(BAD_REQUEST, {})
    BY <1>3 DEF GetBitFromSqlite, GetBit
  <2>2. GetBitFromMemory(parameters, query) = Answer(BAD_REQUEST, {})
    BY <1>3 DEF GetBitFromMemory, GetBit
  <2> HIDE DEF query
  <2> QED
    BY <1>3, <2>1, <2>2 DEF query
<1> QED
  BY <1>1, <1>2, <1>3

\* Only the path of all bits has no name.
LEMMA PathHasName ==
    ASSUME NEW request \in Requests, MatchingRoutes(request.path) # {},
           RouteOf(request.path).resource = "bits", request.path # <<"bits">>
    PROVE  Has(Parameters(request), "bitName")
<1> DEFINE path == request.path
<1>1. path \in Seq(STRING)
  BY RequestsAssumption, Zenon
<1>2. PICK i \in MatchingRoutes(path) : RouteOf(path) = Routes[i]
  BY OneRoute
<1> HIDE DEF path
<1>3. i \in {2, 3}
  <2>1. CASE i = 1
    <3>1. Len(path) = 1 /\ path[1] = "bits"
      BY <1>2, <2>1, MatchingRoute
    <3>2. path = <<"bits">>
      BY <1>1, <3>1
    <3> QED
      BY <3>2 DEF path
  <2>2. i \notin {4, 5, 6}
    <3>1. Routes[4].resource = "templates" /\ Routes[5].resource = "templates"
          /\ Routes[6].resource = "users"
      BY DEF Routes
    <3>2. Routes[i].resource = "bits"
      BY <1>2 DEF path
    <3> QED
      BY <3>1, <3>2
  <2> QED
    BY <1>2, <2>1, <2>2, MatchingRoute
<1>4. CASE i = 2
  <2> DEFINE first == "bits"
             second == "bitName"
             endpoint == <<Literal(first), Parameter(second)>>
  <2>1. Routes[i].endpoint = endpoint
    BY <1>4 DEF Routes
  <2>2. Parameters(request) = MatchedParameters(endpoint, path)
    BY <1>2, <2>1 DEF Parameters, path
  <2>3. Len(path) = 2 /\ endpoint = <<Literal(first), Parameter(second)>>
    BY <1>2, <1>4, MatchingRoute
  <2> HIDE DEF first, second, endpoint
  <2>4. Maps(MatchedParameters(endpoint, path), second, path[2])
    BY <2>3, NameParameter
  <2> QED
    BY <2>2, <2>4 DEF Maps, Has, second
<1>5. CASE i = 3
  <2> DEFINE first == "bits"
             second == "bitName"
             third == "bitVersion"
             endpoint == <<Literal(first), Parameter(second), Parameter(third)>>
  <2>1. Routes[i].endpoint = endpoint
    BY <1>5 DEF Routes
  <2>2. Parameters(request) = MatchedParameters(endpoint, path)
    BY <1>2, <2>1 DEF Parameters, path
  <2>3. /\ Len(path) = 3 /\ second # third
        /\ endpoint = <<Literal(first), Parameter(second), Parameter(third)>>
    BY <1>2, <1>5, MatchingRoute
  <2> HIDE DEF first, second, third, endpoint
  <2>4. MapsBoth(MatchedParameters(endpoint, path), second, path[2], third, path[3])
    BY <2>3, VersionParameters
  <2> QED
    BY <2>2, <2>4 DEF MapsBoth, Has, second
<1> QED
  BY <1>3, <1>4, <1>5

LEMMA AnswersAgree ==
    ASSUME IInv, NEW request \in Requests
    PROVE  Agree(Answered(request), AnsweredFromMemory(request), request.path # <<"bits">>)
<1> DEFINE parameters == Parameters(request)
           query == QueryParameters(request.query)
           resource == RouteOf(request.path).resource
           get == GetBitFromSqlite(parameters, query)
           less == GetBitFromMemory(parameters, query)
           post == PostBitToSqlite(request.body)
           same == request.path # <<"bits">>
<1>1. Answered(request) = Dispatch(request, get, post)
  BY DEF Answered
<1>2. AnsweredFromMemory(request) = Dispatch(request, less, post)
  BY SamePostBit DEF AnsweredFromMemory
<1>3. PICK status \in {OK, NOT_FOUND, BAD_REQUEST} : \E shown, part :
          /\ get = Answer(status, shown)
          /\ less = Answer(status, part)
          /\ part \subseteq shown
          /\ Has(parameters, "bitName") => part = shown
  BY GetsAgree
<1>4. PICK shown, part :
          /\ get = Answer(status, shown)
          /\ less = Answer(status, part)
          /\ part \subseteq shown
          /\ Has(parameters, "bitName") => part = shown
  BY <1>3
<1>5. CASE MatchingRoutes(request.path) # {} /\ request.method = "GET" /\ resource = "bits"
  <2> HIDE DEF get, less, post
  <2>1. \A any : Handled(resource, request, parameters, any, post) = any
    BY <1>5 DEF Handled
  <2>2. \A any : Dispatch(request, any, post)
                     = IF any.status = INTERNAL_SERVER_ERROR THEN any
                       ELSE HandleCors(request, any)
    BY <1>5, <2>1 DEF Dispatch
  <2>3. get.status # INTERNAL_SERVER_ERROR /\ less.status # INTERNAL_SERVER_ERROR
    BY <1>4 DEF Answer, OK, NOT_FOUND, BAD_REQUEST, INTERNAL_SERVER_ERROR
  <2>4. same => part = shown
    BY <1>4, <1>5, PathHasName
  <2> HIDE DEF same
  <2>5. Agree(HandleCors(request, Answer(status, shown)),
              HandleCors(request, Answer(status, part)), same)
    BY <1>4, <2>4, CorsAgree
  <2> QED
    BY <1>1, <1>2, <1>4, <2>2, <2>3, <2>5 DEF same
<1>6. CASE ~(request.method = "GET" /\ resource = "bits")
  <2> HIDE DEF get, less, post
  <2>1. Handled(resource, request, parameters, get, post)
            = Handled(resource, request, parameters, less, post)
    BY <1>6 DEF Handled
  <2>2. Dispatch(request, get, post) = Dispatch(request, less, post)
    BY <2>1 DEF Dispatch
  <2> QED
    BY <1>1, <1>2, <2>2, SameAgree
<1>7. CASE MatchingRoutes(request.path) = {}
  BY <1>1, <1>2, <1>7, SameAgree DEF Dispatch
<1> QED
  BY <1>5, <1>6, <1>7

\* Whatever clients send, searches for texts with a quote apart (PlainSearches),
\* the repository the tests use answers as the deployed one, but for a search,
\* where it may list less: '%' and '_' in the searched text are wildcards to one
\* of them (BitsRepositoryInSqlite.cpp:139, BitsRepositoryInMemory.cpp:96-100).
THEOREM RepositoriesAnswerAlike == Spec => []RepositoriesAgree
<1>1. RepositoriesAgree
          <=> Agree(exchange.answer, exchange.memory_answer, exchange.request.path # <<"bits">>)
  BY DEF RepositoriesAgree, Agree
<1>2. Init => RepositoriesAgree
  <2>1. NoExchange.answer = NoExchange.memory_answer
    BY DEF NoExchange
  <2> QED
    BY <2>1 DEF Init, RepositoriesAgree
<1>3. IInv /\ RepositoriesAgree /\ [Next]_vars => RepositoriesAgree'
  <2> SUFFICES ASSUME IInv, RepositoriesAgree, [Next]_vars PROVE RepositoriesAgree'
    OBVIOUS
  <2>1. ASSUME NEW request \in Requests, Exchanged(request) PROVE RepositoriesAgree'
    <3>1. /\ exchange'.answer = Answered(request) /\ exchange'.request = request
          /\ exchange'.memory_answer = AnsweredFromMemory(request)
      BY <2>1 DEF Exchanged
    <3>2. Agree(Answered(request), AnsweredFromMemory(request), request.path # <<"bits">>)
      BY AnswersAgree
    <3> QED
      BY <3>1, <3>2 DEF Agree, RepositoriesAgree
  <2>2. CASE UNCHANGED vars
    BY <2>2 DEF RepositoriesAgree, vars
  <2>3. CASE Next
    <3>1. PICK request \in Requests : Exchanged(request)
      BY <2>3 DEF Next, PublishBit, PublishTemplate, RegisterUser, Read
    <3> QED
      BY <2>1, <3>1
  <2> QED
    BY <2>2, <2>3
<1> QED
  BY <1>2, <1>3, Invariance, PTL DEF Spec

-------------------------------------------------------------------------------
(* Type correctness.                                                          *)

\* handleCors() changes no status.
LEMMA CorsStatus ==
    ASSUME NEW request, NEW status, NEW shown, NEW headers
    PROVE  HandleCors(request, [status |-> status, shown |-> shown,
                                headers |-> headers]).status = status
  BY DEF HandleCors

\* What comes back from a handler has a status the code names.
LEMMA DispatchedStatus ==
    ASSUME NEW request, NEW status \in Statuses, NEW shown, NEW post \in Statuses
    PROVE  Dispatch(request, Answer(status, shown), post).status \in Statuses
<1> DEFINE get == Answer(status, shown)
           answer == Handled(RouteOf(request.path).resource, request, Parameters(request),
                             get, post)
<1>1. Answers(answer)
  BY HandledAnswers
<1>2. answer.status \in Statuses /\ HandleCors(request, answer).status \in Statuses
  <2> HIDE DEF answer
  <2> QED
    BY <1>1, CorsStatus DEF Answers
<1> HIDE DEF answer
<1>3. Dispatch(request, get, post) \in {Answer(NOT_FOUND, {}), Answer(BAD_REQUEST, {}),
                                        answer, HandleCors(request, answer)}
  BY DEF Dispatch, answer
<1>4. Answer(NOT_FOUND, {}).status \in Statuses /\ Answer(BAD_REQUEST, {}).status \in Statuses
  BY DEF Answer, Statuses
<1> HIDE DEF get
<1>5. Dispatch(request, get, post).status \in Statuses
  BY <1>2, <1>3, <1>4
<1> QED
  BY <1>5 DEF get

KnownStatus == exchange.answer.status \in Statuses

LEMMA KnownStatusHolds == Spec => []KnownStatus
<1>1. Init => KnownStatus
  <2>1. NoExchange.answer.status = 0
    BY DEF NoExchange, Answer
  <2> QED
    BY <2>1 DEF Init, KnownStatus, Statuses
<1>2. IInv /\ KnownStatus /\ [Next]_vars => KnownStatus'
  <2> SUFFICES ASSUME IInv, KnownStatus, [Next]_vars PROVE KnownStatus'
    OBVIOUS
  <2>1. ASSUME NEW request \in Requests, Exchanged(request) PROVE KnownStatus'
    <3> DEFINE get == GetBitFromSqlite(Parameters(request), QueryParameters(request.query))
               post == PostBitToSqlite(request.body)
    <3>1. PICK status \in {OK, NOT_FOUND, BAD_REQUEST} : \E shown : get = Answer(status, shown)
      BY GetsAgree
    <3>2. PICK shown : get = Answer(status, shown)
      BY <3>1
    <3>3. status \in Statuses
      BY DEF Statuses
    <3>4. post \in Statuses
      BY PostStatuses DEF PostBitToSqlite
    <3>5. exchange'.answer = Dispatch(request, get, post)
      BY <2>1 DEF Exchanged, Answered
    <3> HIDE DEF get, post
    <3> QED
      BY <3>2, <3>3, <3>4, <3>5, DispatchedStatus DEF KnownStatus
  <2>2. CASE UNCHANGED vars
    BY <2>2 DEF KnownStatus, vars
  <2>3. CASE Next
    <3>1. PICK request \in Requests : Exchanged(request)
      BY <2>3 DEF Next, PublishBit, PublishTemplate, RegisterUser, Read
    <3> QED
      BY <2>1, <3>1
  <2> QED
    BY <2>2, <2>3
<1> QED
  BY <1>1, <1>2, Invariance, PTL DEF Spec

\* The bits of the lists are the rows.
LEMMA AllBitsAreRows == ASSUME IInv PROVE rows = Memory!AllBits(bits)
<1>1. \A name \in DOMAIN bits : \A p : p \in Memory!ToSet(bits[name])
                                           <=> p \in rows /\ p.name = name
  <2> SUFFICES ASSUME NEW name \in DOMAIN bits, NEW p
               PROVE  p \in Memory!ToSet(bits[name]) <=> p \in rows /\ p.name = name
    OBVIOUS
  <2>1. bits[name] \in Seq(rows)
        /\ ((\E i \in 1 .. Len(bits[name]) : bits[name][i] = p) <=> p \in rows /\ p.name = name)
    BY ListedRows
  <2>2. DOMAIN bits[name] = 1 .. Len(bits[name])
    BY <2>1
  <2> QED
    BY <2>1, <2>2 DEF Memory!ToSet
<1>2. \A p \in rows : p.name \in DOMAIN bits
  BY DEF IInv, Lists
<1>3. \A p : p \in Memory!AllBits(bits) <=> p \in rows
  BY <1>1, <1>2 DEF Memory!AllBits
<1> QED
  BY <1>3

\* Whatever clients send, searches for texts with a quote apart (PlainSearches),
\* the two repositories hold the same bits, each list under its name and sorted, and users and accounts are the same names
\* (bits/BitsRepositoryInMemory.cpp:29-37, users/UsersService.cpp:37-42).
THEOREM TypeCorrect == Spec => []TypeOK
<1>1. IInv /\ SameNames /\ KnownStatus => TypeOK
  <2> SUFFICES ASSUME IInv, SameNames, KnownStatus PROVE TypeOK
    OBVIOUS
  <2>1. \A name \in DOMAIN bits : \A i, j \in 1 .. Len(bits[name]) :
            /\ bits[name][i].name = name
            /\ i < j => TextLess(bits[name][i].version, bits[name][j].version)
    <3> SUFFICES ASSUME NEW name \in DOMAIN bits, NEW i \in 1 .. Len(bits[name]),
                        NEW j \in 1 .. Len(bits[name])
                 PROVE  /\ bits[name][i].name = name
                        /\ i < j => TextLess(bits[name][i].version, bits[name][j].version)
      OBVIOUS
    <3>1. Ordered(bits[name])
          /\ \A p : (\E k \in 1 .. Len(bits[name]) : bits[name][k] = p)
                        <=> p \in rows /\ p.name = name
      BY ListedRows
    <3> QED
      BY <3>1 DEF Ordered
  <2> QED
    BY <2>1, AllBitsAreRows DEF TypeOK, IInv, SameNames, KnownStatus, Statuses
<1> QED
  BY <1>1, Invariance, SameNamesHold, KnownStatusHolds, PTL

===============================================================================
