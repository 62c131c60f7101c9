----------------------------- MODULE CpmHubProofs -----------------------------
(***************************************************************************)
(* Proofs about CpmHub for every value of its constants.                   *)
(***************************************************************************)
EXTENDS CpmHub, TLAPS

\* A request of a given kind has that kind's fields.
LEMMA RequestFields ==
    ASSUME NEW r \in Requests \cup {NoRequest}
    PROVE  /\ r.kind = "publish" => r \in PublishRequest /\ r \in Requests
           /\ r.kind = "fetch" => r \in FetchRequest
           /\ r.kind = "search" => r \in SearchRequest
           /\ r.kind = "register" => r \in RegisterRequest
BY CpmHubAssumption DEF Request, PublishRequest, FetchRequest, SearchRequest,
   RegisterRequest, StrayRequest, NoRequest

\* The row of a publication is a row of the database's type.
LEMMA RowOfTyped ==
    ASSUME NEW r \in PublishRequest
    PROVE  RowOf(r) \in Row
BY DEF RowOf, Row, PublishRequest

\* Respond() keeps the types of what it changes.
LEMMA RespondTyped ==
    ASSUME TypeOK, NEW x \in Exchanges, NEW status \in Nat, NEW shown \in SUBSET Row,
           Respond(x, status, shown)
    PROVE  /\ phase' \in [Exchanges -> Phases]
           /\ response' \in [Exchanges -> Response]
           /\ worker' \in Workers
           /\ request' = request /\ waiting' = waiting
BY DEF TypeOK, Respond, Phases, Workers, Response

\* So does StoreRow().
LEMMA StoreRowTyped ==
    ASSUME TypeOK, NEW x \in Exchanges, request[x].kind = "publish", StoreRow(x)
    PROVE  /\ phase' \in [Exchanges -> Phases]
           /\ response' \in [Exchanges -> Response]
           /\ worker' \in Workers
           /\ request' = request /\ waiting' = waiting
           /\ database' \subseteq Row
<1>1. request[x] \in PublishRequest
  BY RequestFields DEF TypeOK
<1>2. RowOf(request[x]) \in Row
  BY <1>1, RowOfTyped
<1>3. OK \in Nat /\ CONFLICT \in Nat
  BY DEF OK, CONFLICT
<1>4. database' \subseteq Row
  BY <1>2 DEF StoreRow, Insert, TypeOK
<1>5. Respond(x, CONFLICT, {}) \/ Respond(x, OK, {})
  BY DEF StoreRow
<1> QED
  BY <1>3, <1>4, <1>5, RespondTyped

\* And Authorised(), whichever field is wrong.
LEMMA AuthorisedTyped ==
    ASSUME TypeOK, NEW x \in Exchanges, request[x].kind = "publish", Authorised(x)
    PROVE  /\ phase' \in [Exchanges -> Phases]
           /\ response' \in [Exchanges -> Response]
           /\ worker' \in Workers
           /\ request' = request /\ waiting' = waiting
           /\ database' \subseteq Row
<1>1. CASE StoreRow(x)
  BY <1>1, StoreRowTyped
<1>2. CASE Respond(x, INTERNAL_SERVER_ERROR, {}) /\ UNCHANGED database
  BY <1>2, RespondTyped DEF INTERNAL_SERVER_ERROR, TypeOK
<1>3. CASE Respond(x, BAD_REQUEST, {}) /\ UNCHANGED database
  BY <1>3, RespondTyped DEF BAD_REQUEST, TypeOK
<1> QED
  BY <1>1, <1>2, <1>3 DEF Authorised

\* A call through the client starts with everything in its type.
LEMMA CallAuthTyped ==
    ASSUME TypeOK, NEW x \in Exchanges, NEW purpose \in Workers, CallAuth(x, purpose)
    PROVE  /\ phase' \in [Exchanges -> Phases]
           /\ worker' \in Workers
           /\ request' = request /\ response' = response /\ waiting' = waiting
           /\ Auth!ClientTypeOK'
BY DEF TypeOK, CallAuth, Auth!Call, Auth!ClientTypeOK, Phases

\* The three authenticators keep the types, whether or not a call begins.
LEMMA ValidateCredentialsTyped ==
    ASSUME TypeOK, NEW x \in Exchanges, request[x].kind = "publish", ValidateCredentials(x)
    PROVE  /\ phase' \in [Exchanges -> Phases]
           /\ response' \in [Exchanges -> Response]
           /\ worker' \in Workers
           /\ request' = request /\ waiting' = waiting
           /\ database' \subseteq Row
           /\ Auth!ClientTypeOK'
<1>1. CASE Authorised(x) /\ UNCHANGED authVars
  BY <1>1, AuthorisedTyped DEF authVars, TypeOK, Auth!ClientTypeOK
<1>2. CASE Respond(x, UNAUTHORIZED, {}) /\ UNCHANGED <<database, authVars>>
  BY <1>2, RespondTyped DEF authVars, TypeOK, Auth!ClientTypeOK, UNAUTHORIZED
<1>3. CASE CallAuth(x, "authenticating") /\ UNCHANGED database
  BY <1>3, CallAuthTyped DEF TypeOK, Workers
<1> QED
  BY <1>1, <1>2, <1>3
  DEF ValidateCredentials, NullAuthenticator, AccessFileAuthenticator, CpmHubAuthenticator

\* A read answers with stored rows and stores none, unless it is a search whose
\* text has a quote.
Reads(x) == GetBit(x) \/ SearchForBit(x) \/ GetTemplate(x)

LEMMA ReadResponds ==
    ASSUME TypeOK, NEW x \in Exchanges, Reads(x)
    PROVE  /\ \E status \in {OK, NOT_FOUND, BAD_REQUEST} : \E shown \in SUBSET Row :
                  Respond(x, status, shown) /\ (Quoted(x) \/ shown \subseteq database)
           /\ Quoted(x) \/ database' = database
           /\ database' \subseteq Row
           /\ request[x].kind \in {"fetch", "search"}
           /\ phase[x] = "received" /\ worker = "polling"
           /\ ready' = ready \ {x}
           /\ UNCHANGED <<users, authVars, accounts, crashes>>
<1> USE DEF TypeOK
<1>1. CASE GetBit(x)
  <2>1. \E shown \in SUBSET database : ShowIfAny(x, shown)
    BY <1>1 DEF GetBit, Selected, NamedRows, RowsAt, LastOf
  <2> QED
    BY <1>1, <2>1 DEF GetBit, Dispatch, ShowIfAny
<1>2. CASE SearchForBit(x)
  <2>1. \A found \in Selected(FoundRows(database, request[x])) : found \in SUBSET database
    BY DEF Selected, FoundRows
  <2>2. CASE ~Quoted(x)
    BY <1>2, <2>1, <2>2 DEF SearchForBit, Dispatch
  <2>3. CASE Quoted(x)
    BY <1>2, <2>3 DEF SearchForBit, Dispatch, Quoted
  <2> QED
    BY <2>2, <2>3
<1>3. CASE GetTemplate(x)
  <2>1. \A found \in Selected(RowsAt(database, request[x])) : found \in SUBSET database
    BY DEF Selected, RowsAt
  <2> QED
    BY <1>3, <2>1 DEF GetTemplate, Dispatch, ShowIfAny
<1> QED
  BY <1>1, <1>2, <1>3 DEF Reads

-------------------------------------------------------------------------------
\* At most one exchange is in service, and only while the worker is in the
\* polling loop of the call made for it.
ServingOK ==
    /\ \A x \in Exchanges : phase[x] = "serving" =>
           \/ worker = "authenticating" /\ request[x].kind = "publish"
           \/ worker = "registering" /\ request[x].kind = "register"
    /\ \A x, y \in Exchanges : phase[x] = "serving" /\ phase[y] = "serving" => x = y

LEMMA TypeInit == Init => TypeOK
<1> SUFFICES ASSUME Init PROVE TypeOK
  OBVIOUS
<1>1. NoResponse \in Response
  BY DEF NoResponse, Response
<1>2. Auth!ClientTypeOK
  BY DEF Init, Auth!ClientInit, Auth!ClientTypeOK, Auth!ResponseCodes
<1>3. crashes \in 0..MaxCrashes
  BY CpmHubAssumption DEF Init
<1> QED
  BY <1>1, <1>2, <1>3, CpmHubAssumption DEF Init, TypeOK, Workers, Phases

LEMMA TypeNext == TypeOK /\ ServingOK /\ [Next]_vars => TypeOK'
<1> SUFFICES ASSUME TypeOK, ServingOK, [Next]_vars PROVE TypeOK'
  OBVIOUS
<1> USE DEF TypeOK
<1>1. CASE Fork
  BY <1>1 DEF Fork, Workers, exchangeVars, Auth!ClientTypeOK, Auth!ResponseCodes,
     NOT_FOUND, Auth!NOT_FOUND
<1>2. CASE Crash
  BY <1>2, CpmHubAssumption DEF Crash, Workers, Phases, authVars, Auth!ClientTypeOK
<1>3. ASSUME NEW x \in Exchanges, NEW r \in Requests, SendRequest(x, r) PROVE TypeOK'
  BY <1>3 DEF SendRequest, Phases, authVars, Auth!ClientTypeOK
<1>4. ASSUME NEW x \in Exchanges, GiveUp(x) PROVE TypeOK'
  BY <1>4 DEF GiveUp, authVars, Auth!ClientTypeOK
<1>5. CASE PollRound
  BY <1>5 DEF PollRound, exchangeVars, authVars, Auth!ClientTypeOK
<1>6. ASSUME NEW x \in Exchanges, Flush(x) PROVE TypeOK'
  BY <1>6 DEF Flush, Phases, authVars, Auth!ClientTypeOK
<1>7. CASE KpiRecorded
  BY <1>7 DEF KpiRecorded, Workers, exchangeVars, authVars, Auth!ClientTypeOK
<1>8. ASSUME NEW x \in Exchanges, PostBit(x) PROVE TypeOK'
  <2>1. CASE Respond(x, INTERNAL_SERVER_ERROR, {}) /\ UNCHANGED <<database, authVars>>
    BY <1>8, <2>1, RespondTyped DEF PostBit, Dispatch, authVars, Auth!ClientTypeOK,
       INTERNAL_SERVER_ERROR
  <2>2. CASE ValidateCredentials(x)
    BY <1>8, <2>2, ValidateCredentialsTyped DEF PostBit, Dispatch
  <2> QED
    BY <1>8, <2>1, <2>2 DEF PostBit
<1>9. ASSUME NEW x \in Exchanges, PostTemplate(x) PROVE TypeOK'
  <2>1. CASE /\ Respond(x, INTERNAL_SERVER_ERROR, {}) \/ Respond(x, BAD_REQUEST, {})
             /\ UNCHANGED <<database, authVars>>
    BY <1>9, <2>1, RespondTyped DEF PostTemplate, Dispatch, authVars, Auth!ClientTypeOK,
       INTERNAL_SERVER_ERROR, BAD_REQUEST
  <2>2. CASE ValidateCredentials(x)
    BY <1>9, <2>2, ValidateCredentialsTyped DEF PostTemplate, Dispatch
  <2> QED
    BY <1>9, <2>1, <2>2 DEF PostTemplate
<1>10. ASSUME NEW x \in Exchanges, CredentialsChecked(x) PROVE TypeOK'
  <2> request[x].kind = "publish"
    BY <1>10 DEF CredentialsChecked, ServingOK
  <2>1. CASE Authorised(x)
    BY <1>10, <2>1, AuthorisedTyped DEF CredentialsChecked, authVars, Auth!ClientTypeOK
  <2>2. CASE Respond(x, UNAUTHORIZED, {}) /\ UNCHANGED database
    BY <1>10, <2>2, RespondTyped DEF CredentialsChecked, authVars, Auth!ClientTypeOK,
       UNAUTHORIZED
  <2> QED
    BY <1>10, <2>1, <2>2 DEF CredentialsChecked
<1>11. ASSUME NEW x \in Exchanges, Reads(x) PROVE TypeOK'
  <2>1. PICK status \in {OK, NOT_FOUND, BAD_REQUEST}, shown \in SUBSET Row :
            Respond(x, status, shown)
    BY <1>11, ReadResponds
  <2>2. status \in Nat /\ shown \in SUBSET Row
    BY <2>1 DEF OK, NOT_FOUND, BAD_REQUEST
  <2> QED
    BY <1>11, <2>1, <2>2, ReadResponds, RespondTyped DEF authVars, Auth!ClientTypeOK
<1>13. ASSUME NEW x \in Exchanges, AnswerStray(x) PROVE TypeOK'
  BY <1>13, RespondTyped DEF AnswerStray, Dispatch, authVars, Auth!ClientTypeOK, NOT_FOUND,
     NO_CONTENT, BAD_REQUEST
<1>14. ASSUME NEW x \in Exchanges, AddUser(x), request[x].kind = "register",
              UNCHANGED <<database, authVars, accounts, crashes>>, ready' \subseteq Exchanges
       PROVE  TypeOK'
  <2>1. users' \subseteq Users
    BY <1>14, RequestFields DEF AddUser, RegisterRequest
  <2> QED
    BY <1>14, <2>1, RespondTyped DEF AddUser, authVars, Auth!ClientTypeOK, OK
<1>15. ASSUME NEW x \in Exchanges, PostUser(x) PROVE TypeOK'
  <2>1. CASE /\ \/ Respond(x, INTERNAL_SERVER_ERROR, {}) \/ Respond(x, BAD_REQUEST, {})
                \/ Respond(x, CONFLICT, {})
             /\ UNCHANGED <<users, authVars>>
    BY <1>15, <2>1, RespondTyped DEF PostUser, Dispatch, authVars, Auth!ClientTypeOK,
       INTERNAL_SERVER_ERROR, BAD_REQUEST, CONFLICT
  <2>2. CASE CallAuth(x, "registering") /\ UNCHANGED users
    BY <1>15, <2>2, CallAuthTyped DEF PostUser, Dispatch, Workers
  <2>3. CASE AddUser(x) /\ UNCHANGED authVars
    BY <1>15, <2>3, <1>14 DEF PostUser, Dispatch
  <2> QED
    BY <1>15, <2>1, <2>2, <2>3 DEF PostUser
<1>16. ASSUME NEW x \in Exchanges, UserRegistered(x) PROVE TypeOK'
  BY <1>16, <1>14 DEF UserRegistered, ServingOK
<1>17. CASE AuthConnectFails
  BY <1>17 DEF AuthConnectFails, hubVars, exchangeVars, Auth!ConnectFailed,
     Auth!ResponseArrived, Auth!ClientTypeOK, Auth!ResponseCodes
<1>18. CASE AuthConnects
  BY <1>18 DEF AuthConnects, hubVars, exchangeVars, Auth!Connected, Auth!ClientTypeOK
<1>19. ASSUME NEW x \in Exchanges, AuthAnswers(x) PROVE TypeOK'
  BY <1>19 DEF AuthAnswers, hubVars, exchangeVars, Auth!Replied, Auth!ResponseArrived,
     Auth!ClientTypeOK, Auth!ResponseCodes
<1>20. ASSUME NEW x \in Exchanges, OpenAccount(x) PROVE accounts' \subseteq Users \X Passwords
  <2>1. request[x].kind = "register"
    BY <1>20 DEF OpenAccount, ServingOK
  <2> QED
    BY <1>20, <2>1, RequestFields DEF OpenAccount, RegisterRequest
<1>21. ASSUME NEW x \in Exchanges, AuthRegisters(x) PROVE TypeOK'
  BY <1>20, <1>21, CpmHubAssumption DEF AuthRegisters, hubVars, exchangeVars, Auth!Replied,
     Auth!ResponseArrived, Auth!ClientTypeOK, Auth!ResponseCodes
<1>22. CASE AuthCloses
  BY <1>20, <1>22 DEF AuthCloses, hubVars, exchangeVars, Auth!Closed, Auth!ClientTypeOK
<1>23. CASE UNCHANGED vars
  BY <1>23 DEF vars, Auth!ClientTypeOK
<1> QED
  BY <1>1, <1>2, <1>3, <1>4, <1>5, <1>6, <1>7, <1>8, <1>9, <1>10, <1>11, <1>13,
     <1>15, <1>16, <1>17, <1>18, <1>19, <1>21, <1>22, <1>23
  DEF Next, ClientStep, WorkerStep, AuthStep, Reads

-------------------------------------------------------------------------------
\* A response to the only exchange in service leaves none in service.
LEMMA RespondServing ==
    ASSUME TypeOK, NEW x \in Exchanges, NEW status, NEW shown, Respond(x, status, shown),
           \A y \in Exchanges : phase[y] = "serving" => y = x
    PROVE  ServingOK'
BY DEF TypeOK, Respond, ServingOK

\* Whatever follows accepted credentials is a response.
LEMMA AuthorisedResponds ==
    ASSUME NEW x \in Exchanges, Authorised(x)
    PROVE  \E status \in {OK, CONFLICT, BAD_REQUEST, INTERNAL_SERVER_ERROR} : Respond(x, status, {})
BY DEF Authorised, StoreRow

\* A handler run from the server loop finds no exchange in service and leaves
\* at most its own.
LEMMA ValidateServing ==
    ASSUME TypeOK, ServingOK, NEW x \in Exchanges, worker = "polling",
           request[x].kind = "publish", ValidateCredentials(x)
    PROVE  ServingOK'
<1>1. \A y \in Exchanges : phase[y] # "serving"
  BY DEF ServingOK
<1>2. CASE Authorised(x) \/ Respond(x, UNAUTHORIZED, {})
  BY <1>1, <1>2, AuthorisedResponds, RespondServing
<1>3. CASE CallAuth(x, "authenticating")
  BY <1>1, <1>3 DEF CallAuth, ServingOK, TypeOK
<1> QED
  BY <1>2, <1>3
  DEF ValidateCredentials, NullAuthenticator, AccessFileAuthenticator, CpmHubAuthenticator

LEMMA ServingInit == Init => ServingOK
BY DEF Init, ServingOK

LEMMA ServingNext == TypeOK /\ ServingOK /\ [Next]_vars => ServingOK'
<1> SUFFICES ASSUME TypeOK, ServingOK, [Next]_vars PROVE ServingOK'
  OBVIOUS
<1>a. worker = "polling" => \A y \in Exchanges : phase[y] # "serving"
  BY DEF ServingOK
<1>1. CASE Fork
  BY <1>1 DEF Fork, exchangeVars, ServingOK
<1>2. CASE Crash
  BY <1>2 DEF Crash, Outstanding, ServingOK, TypeOK
<1>3. ASSUME NEW x \in Exchanges, NEW r \in Requests, SendRequest(x, r) PROVE ServingOK'
  BY <1>3 DEF SendRequest, ServingOK, TypeOK
<1>4. ASSUME NEW x \in Exchanges, GiveUp(x) PROVE ServingOK'
  BY <1>4 DEF GiveUp, ServingOK
<1>5. CASE PollRound
  BY <1>5 DEF PollRound, exchangeVars, ServingOK
<1>6. ASSUME NEW x \in Exchanges, Flush(x) PROVE ServingOK'
  BY <1>6 DEF Flush, ServingOK, TypeOK
<1>7. CASE KpiRecorded
  BY <1>7 DEF KpiRecorded, exchangeVars, ServingOK
<1>8. ASSUME NEW x \in Exchanges, PostBit(x) PROVE ServingOK'
  BY <1>a, <1>8, RespondServing, ValidateServing DEF PostBit, Dispatch
<1>9. ASSUME NEW x \in Exchanges, PostTemplate(x) PROVE ServingOK'
  BY <1>a, <1>9, RespondServing, ValidateServing DEF PostTemplate, Dispatch
<1>10. ASSUME NEW x \in Exchanges, CredentialsChecked(x) PROVE ServingOK'
  BY <1>10, AuthorisedResponds, RespondServing DEF CredentialsChecked, ServingOK
<1>11. ASSUME NEW x \in Exchanges, Reads(x) PROVE ServingOK'
  BY <1>a, <1>11, ReadResponds, RespondServing
<1>13. ASSUME NEW x \in Exchanges, AnswerStray(x) PROVE ServingOK'
  BY <1>a, <1>13, RespondServing DEF AnswerStray, Dispatch
<1>14. ASSUME NEW x \in Exchanges, PostUser(x) PROVE ServingOK'
  <2>1. CASE CallAuth(x, "registering")
    BY <1>a, <1>14, <2>1 DEF PostUser, Dispatch, CallAuth, ServingOK, TypeOK
  <2>2. CASE \E status : Respond(x, status, {})
    BY <1>a, <1>14, <2>2, RespondServing DEF PostUser, Dispatch
  <2> QED
    BY <1>14, <2>1, <2>2 DEF PostUser, AddUser
<1>15. ASSUME NEW x \in Exchanges, UserRegistered(x) PROVE ServingOK'
  BY <1>15, RespondServing DEF UserRegistered, AddUser, ServingOK
<1>16. CASE AuthStep
  BY <1>16 DEF AuthStep, AuthConnectFails, AuthConnects, AuthAnswers, AuthRegisters,
     AuthCloses, hubVars, exchangeVars, ServingOK
<1>17. CASE UNCHANGED vars
  BY <1>17 DEF vars, ServingOK
<1> QED
  BY <1>1, <1>2, <1>3, <1>4, <1>5, <1>6, <1>7, <1>8, <1>9, <1>10, <1>11, <1>13,
     <1>14, <1>15, <1>16, <1>17
  DEF Next, ClientStep, WorkerStep, Reads

\* Every variable of the hub keeps its type in every reachable state.
THEOREM TypeCorrect == Spec => [](TypeOK /\ ServingOK)
<1>1. Init => TypeOK /\ ServingOK
  BY TypeInit, ServingInit
<1>2. TypeOK /\ ServingOK /\ [Next]_vars => (TypeOK /\ ServingOK)'
  BY TypeNext, ServingNext
<1> QED
  BY <1>1, <1>2, PTL DEF Spec

-------------------------------------------------------------------------------
(* The database is write-once but for searches whose text has a quote, and     *)
(* without those what was shown stays, with or without failing SQL statements. *)

\* What a step may do to the database: nothing, or insert one row under a free
\* primary key.
InsertStep ==
    \/ database' = database
    \/ \E row : RowsAt(database, row) = {} /\ database' = database \cup {row}

\* What it may do to the responses: nothing, or decide one that shows stored rows.
ShowStep ==
    \/ response' = response
    \/ \E x \in Exchanges : \E status : \E shown \in SUBSET database :
           response' = [response EXCEPT ![x] = [status |-> status, rows |-> shown]]

LEMMA RespondShows ==
    ASSUME NEW x \in Exchanges, NEW status, NEW shown \in SUBSET database,
           Respond(x, status, shown)
    PROVE  ShowStep
BY DEF Respond, ShowStep

LEMMA AuthorisedStores ==
    ASSUME NEW x \in Exchanges, Authorised(x)
    PROVE  InsertStep /\ ShowStep
<1>1. InsertStep
  BY DEF Authorised, StoreRow, Insert, InsertStep
<1>2. ShowStep
  BY AuthorisedResponds, RespondShows
<1> QED
  BY <1>1, <1>2

LEMMA ValidateStores ==
    ASSUME NEW x \in Exchanges, ValidateCredentials(x)
    PROVE  InsertStep /\ ShowStep
BY AuthorisedStores, RespondShows
DEF ValidateCredentials, NullAuthenticator, AccessFileAuthenticator, CpmHubAuthenticator,
    CallAuth, InsertStep, ShowStep

LEMMA StoreNext == TypeOK /\ [Next]_vars => QuotedStep \/ (InsertStep /\ ShowStep)
<1> SUFFICES ASSUME TypeOK, [Next]_vars PROVE QuotedStep \/ (InsertStep /\ ShowStep)
  OBVIOUS
<1>1. CASE Fork \/ Crash \/ ClientStep \/ KpiRecorded \/ AuthStep \/ UNCHANGED vars
  BY <1>1 DEF Fork, Crash, ClientStep, SendRequest, GiveUp, KpiRecorded, AuthStep,
     AuthConnectFails, AuthConnects, AuthAnswers, AuthRegisters, AuthCloses,
     hubVars, exchangeVars, vars, InsertStep, ShowStep
<1>2. CASE PollRound \/ \E x \in Exchanges : Flush(x)
  BY <1>2 DEF PollRound, Flush, exchangeVars, InsertStep, ShowStep
<1>3. ASSUME NEW x \in Exchanges, PostBit(x) \/ PostTemplate(x)
      PROVE  InsertStep /\ ShowStep
  <2>1. CASE (\E status : Respond(x, status, {})) /\ UNCHANGED database
    BY <2>1, RespondShows DEF InsertStep
  <2>2. CASE ValidateCredentials(x)
    BY <2>2, ValidateStores
  <2> QED
    BY <1>3, <2>1, <2>2 DEF PostBit, PostTemplate
<1>4. ASSUME NEW x \in Exchanges, CredentialsChecked(x) PROVE InsertStep /\ ShowStep
  BY <1>4, AuthorisedStores, RespondShows DEF CredentialsChecked, InsertStep
<1>5. ASSUME NEW x \in Exchanges, Reads(x) PROVE QuotedStep \/ (InsertStep /\ ShowStep)
  <2>1. PICK status, shown :
            Respond(x, status, shown) /\ (Quoted(x) \/ shown \in SUBSET database)
    BY <1>5, ReadResponds
  <2>2. /\ Quoted(x) \/ database' = database
        /\ phase[x] = "received"
    BY <1>5, ReadResponds
  <2>3. CASE Quoted(x)
    BY <2>1, <2>2, <2>3 DEF QuotedStep, Respond, TypeOK
  <2>4. CASE ~Quoted(x)
    BY <2>1, <2>2, <2>4, RespondShows DEF InsertStep
  <2> QED
    BY <2>3, <2>4
<1>7. ASSUME NEW x \in Exchanges, AnswerStray(x) PROVE InsertStep /\ ShowStep
  BY <1>7, RespondShows DEF AnswerStray, InsertStep
<1>8. ASSUME NEW x \in Exchanges, PostUser(x) \/ UserRegistered(x)
      PROVE  InsertStep /\ ShowStep
  <2>1. database' = database
    BY <1>8 DEF PostUser, UserRegistered
  <2>2. response' = response \/ \E status : Respond(x, status, {})
    BY <1>8 DEF PostUser, UserRegistered, AddUser, CallAuth
  <2> QED
    BY <2>1, <2>2, RespondShows DEF InsertStep, ShowStep
<1> QED
  BY <1>1, <1>2, <1>3, <1>4, <1>5, <1>7, <1>8 DEF Next, WorkerStep, Reads

LEMMA InsertsNewKeys ==
    ASSUME InsertStep
    PROVE  /\ database \subseteq database'
           /\ \A q \in database' \ database, r \in database' : SameKey(q, r) => q = r
BY DEF InsertStep, RowsAt, SameKey

\* The PRIMARY KEY keeps the store write-once: no step but the answer to a search
\* whose text has a quote removes or replaces a published version, even when a
\* failing SELECT hides it from the look-up.  Any clients are allowed.
THEOREM WriteOnceHolds == Spec => WriteOnce
<1>1. TypeOK /\ [Next]_vars =>
          [\/ QuotedStep
           \/ /\ database \subseteq database'
              /\ \A q \in database' \ database, r \in database' : SameKey(q, r) => q = r]_vars
  BY StoreNext, InsertsNewKeys
<1> QED
  BY <1>1, TypeCorrect, PTL DEF Spec, WriteOnce

\* Without searches whose text has a quote the exception is empty.
LEMMA NoQuotedStep == PlainSearches /\ TypeOK => ~QuotedStep
BY DEF PlainSearches, TypeOK, QuotedStep, Quoted, NoRequest

LEMMA ShownNext == TypeOK /\ ShownIsStored /\ InsertStep /\ ShowStep => ShownIsStored'
<1> SUFFICES ASSUME TypeOK, ShownIsStored, InsertStep, ShowStep,
                    NEW x \in Exchanges, NEW q \in response'[x].rows
             PROVE  q \in database'
  BY DEF ShownIsStored
<1>1. database \subseteq database'
  BY DEF InsertStep
<1>2. response[x].rows \subseteq database
  BY DEF ShownIsStored
<1>3. q \in database
  BY <1>2 DEF ShowStep, TypeOK
<1> QED
  BY <1>1, <1>3

\* If no search's text has a quote, what a client has been shown is in the database
\* for good, with or without failing SQL statements and across restarts.
THEOREM ShownStays ==
    ASSUME PlainSearches
    PROVE  Spec => []ShownIsStored
<1>1. Init => ShownIsStored
  BY DEF Init, ShownIsStored, NoResponse
<1>2. TypeOK /\ ShownIsStored /\ [Next]_vars => ShownIsStored'
  BY StoreNext, NoQuotedStep, ShownNext
<1> QED
  BY <1>1, <1>2, TypeCorrect, PTL DEF Spec

===============================================================================
