--------------------------- MODULE CpmHubRefinement ---------------------------
(***************************************************************************)
(* The hub implements PackageRegistry when no SQL statement fails and no     *)
(* search's text has a quote, and what the registry promises about           *)
(* acknowledgements and conflicts follows.                                   *)
(***************************************************************************)
EXTENDS CpmHubProofs

\* The registry's operators on rows are the hub's.
LEMMA SameOperators ==
    ASSUME NEW S, NEW r
    PROVE  /\ Registry!RowsAt(S, r) = RowsAt(S, r)
           /\ Registry!FetchedRows(S, r) = FetchedRows(S, r)
           /\ Registry!FoundRows(S, r) = FoundRows(S, r)
           /\ Registry!RowOf(r) = RowOf(r)
<1>1. Registry!RowsAt(S, r) = RowsAt(S, r)
  BY DEF RowsAt, SameKey, Registry!RowsAt, Registry!SameKey
<1>2. Registry!LastOf(Registry!NamedRows(S, r)) = LastOf(NamedRows(S, r))
  BY DEF LastOf, NamedRows, Registry!LastOf, Registry!NamedRows
<1>3. Registry!FetchedRows(S, r) = FetchedRows(S, r)
  BY <1>1, <1>2 DEF FetchedRows, Registry!FetchedRows, Latest, Registry!Latest
<1>4. Registry!FoundRows(S, r) = FoundRows(S, r)
  BY DEF FoundRows, Registry!FoundRows
<1>5. Registry!RowOf(r) = RowOf(r)
  BY DEF RowOf, Registry!RowOf
<1> QED
  BY <1>1, <1>3, <1>4, <1>5

\* And so are its status codes.
LEMMA SameCodes ==
    /\ Registry!OK = OK /\ Registry!NO_CONTENT = NO_CONTENT
    /\ Registry!BAD_REQUEST = BAD_REQUEST /\ Registry!UNAUTHORIZED = UNAUTHORIZED
    /\ Registry!NOT_FOUND = NOT_FOUND /\ Registry!CONFLICT = CONFLICT
    /\ Registry!INTERNAL_SERVER_ERROR = INTERNAL_SERVER_ERROR
BY DEF OK, NO_CONTENT, BAD_REQUEST, UNAUTHORIZED, NOT_FOUND, CONFLICT,
   INTERNAL_SERVER_ERROR, Registry!OK, Registry!NO_CONTENT, Registry!BAD_REQUEST,
   Registry!UNAUTHORIZED, Registry!NOT_FOUND, Registry!CONFLICT,
   Registry!INTERNAL_SERVER_ERROR

\* An exchange whose phase moves from one the registry calls pending to the
\* response buffer is decided, in the registry's sense.
LEMMA RespondDecides ==
    ASSUME TypeOK, NEW x \in Exchanges, NEW status, NEW shown,
           phase[x] \in {"received", "serving"}, Respond(x, status, shown)
    PROVE  Registry!Decide(x, status, shown)
<1>1. state[x] = "pending"
  BY DEF state, Viewed
<1>2. state' = [state EXCEPT ![x] = "decided"]
  BY DEF state, Viewed, Respond, TypeOK
<1> QED
  BY <1>1, <1>2 DEF Respond, Registry!Decide

\* A handler that starts a call and waits changes nothing the registry sees.
LEMMA CallAuthHidden ==
    ASSUME TypeOK, NEW x \in Exchanges, NEW purpose, phase[x] = "received",
           CallAuth(x, purpose), UNCHANGED database
    PROVE  UNCHANGED Registry!registryVars
<1>1. state' = state
  BY DEF state, Viewed, CallAuth, TypeOK
<1> QED
  BY <1>1 DEF CallAuth, Registry!registryVars

\* A publication's last step is a step of the registry.
LEMMA StoreRowRefines ==
    ASSUME TypeOK, ~SqlFails, NEW x \in Exchanges, phase[x] \in {"received", "serving"},
           request[x].kind = "publish", request[x].form = "ok", StoreRow(x)
    PROVE  Registry!Publish(x) \/ Registry!Conflict(x)
<1>1. PICK found \in Selected(RowsAt(database, request[x])) :
          \/ found # {} /\ Respond(x, CONFLICT, {}) /\ UNCHANGED database
          \/ found = {} /\ Insert(RowOf(request[x])) /\ Respond(x, OK, {})
  BY DEF StoreRow
<1>2. found = RowsAt(database, request[x])
  BY <1>1 DEF Selected
<1>3. RowsAt(database, RowOf(request[x])) = RowsAt(database, request[x])
  BY DEF RowsAt, SameKey, RowOf
<1>4. CASE found # {} /\ Respond(x, CONFLICT, {}) /\ UNCHANGED database
  BY <1>2, <1>4, RespondDecides, SameOperators, SameCodes DEF Registry!Conflict
<1>5. CASE found = {} /\ Insert(RowOf(request[x])) /\ Respond(x, OK, {})
  <2>1. database' = database \cup {RowOf(request[x])}
    BY <1>2, <1>3, <1>5 DEF Insert
  <2>2. Registry!RowOf(request[x]) = RowOf(request[x])
    BY SameOperators
  <2>3. Registry!RowsAt(database, request[x]) = {}
    BY <1>2, <1>5, SameOperators
  <2>4. Registry!Decide(x, Registry!OK, {})
    BY <1>5, RespondDecides, SameCodes
  <2> QED
    BY <2>1, <2>2, <2>3, <2>4 DEF Registry!Publish
<1> QED
  BY <1>1, <1>4, <1>5

LEMMA AuthorisedRefines ==
    ASSUME TypeOK, ~SqlFails, NEW x \in Exchanges, phase[x] \in {"received", "serving"},
           request[x].kind = "publish", Authorised(x)
    PROVE  Registry!Publish(x) \/ Registry!Conflict(x) \/ Registry!Refuse(x)
BY StoreRowRefines, RespondDecides, SameCodes DEF Authorised, Registry!Refuse

LEMMA ValidateRefines ==
    ASSUME TypeOK, ~SqlFails, NEW x \in Exchanges, phase[x] = "received",
           request[x].kind = "publish", ValidateCredentials(x)
    PROVE  \/ Registry!Publish(x) \/ Registry!Conflict(x) \/ Registry!Refuse(x)
           \/ UNCHANGED Registry!registryVars
<1>1. CASE Authorised(x)
  BY <1>1, AuthorisedRefines
<1>2. CASE Respond(x, UNAUTHORIZED, {}) /\ UNCHANGED <<database, authVars>>
  BY <1>2, RespondDecides, SameCodes DEF Registry!Refuse
<1>3. CASE CallAuth(x, "authenticating") /\ UNCHANGED database
  BY <1>3, CallAuthHidden
<1> QED
  BY <1>1, <1>2, <1>3
  DEF ValidateCredentials, NullAuthenticator, AccessFileAuthenticator, CpmHubAuthenticator

-------------------------------------------------------------------------------
LEMMA RegistryInitial == Init => Registry!RegistryInit
<1> SUFFICES ASSUME Init PROVE Registry!RegistryInit
  OBVIOUS
<1>1. state = [x \in Exchanges |-> "unused"]
  BY DEF Init, state, Viewed
<1> QED
  BY <1>1 DEF Init, Registry!RegistryInit, NoRequest, Registry!NoRequest, NoResponse,
     Registry!NoResponse

\* Every step of the hub is a step of the registry or hidden from it.
LEMMA RegistryStep ==
    ASSUME ~SqlFails, PlainSearches
    PROVE  TypeOK /\ ServingOK /\ [Next]_vars
           => [Registry!RegistryNext]_(Registry!registryVars)
<1> SUFFICES ASSUME TypeOK, ServingOK, [Next]_vars
             PROVE  Registry!RegistryNext \/ UNCHANGED Registry!registryVars
  OBVIOUS
<1> USE DEF Registry!registryVars
<1>1. CASE Fork \/ PollRound \/ KpiRecorded \/ AuthStep \/ UNCHANGED vars
  BY <1>1 DEF Fork, PollRound, KpiRecorded, AuthStep, AuthConnectFails, AuthConnects,
     AuthAnswers, AuthRegisters, AuthCloses, hubVars, exchangeVars, vars, state
<1>2. CASE Crash
  <2>1. \A x \in Outstanding : state[x] \in {"pending", "decided"}
    BY DEF Outstanding, state, Viewed
  <2>2. state' = [x \in Exchanges |-> IF x \in Outstanding THEN "lost" ELSE state[x]]
    BY <1>2 DEF Crash, state, Viewed
  <2>3. Outstanding \in SUBSET Exchanges
    BY DEF Outstanding
  <2> QED
    BY <1>2, <2>1, <2>2, <2>3 DEF Crash, Registry!Lose, Registry!RegistryNext
<1>3. ASSUME NEW x \in Exchanges, NEW r \in Requests, SendRequest(x, r)
      PROVE  Registry!RegistryNext
  <2>1. state[x] = "unused" /\ state' = [state EXCEPT ![x] = "pending"]
    BY <1>3 DEF SendRequest, state, Viewed, TypeOK
  <2> QED
    BY <1>3, <2>1 DEF SendRequest, Registry!Invoke, Registry!RegistryNext
<1>4. ASSUME NEW x \in Exchanges, GiveUp(x) PROVE UNCHANGED Registry!registryVars
  BY <1>4 DEF GiveUp, state
<1>5. ASSUME NEW x \in Exchanges, Flush(x) PROVE Registry!RegistryNext
  <2>1. state[x] = "decided"
    BY <1>5 DEF Flush, state, Viewed
  <2>2. CASE x \in waiting
    <3>1. state' = [state EXCEPT ![x] = "answered"]
      BY <1>5, <2>2 DEF Flush, state, Viewed, TypeOK
    <3> QED
      BY <1>5, <2>1, <3>1 DEF Flush, Registry!Answer, Registry!RegistryNext
  <2>3. CASE x \notin waiting
    <3>1. state' = [y \in Exchanges |-> IF y \in {x} THEN "lost" ELSE state[y]]
      BY <1>5, <2>3 DEF Flush, state, Viewed, TypeOK
    <3>2. Registry!Lose({x})
      BY <1>5, <2>1, <3>1 DEF Flush, Registry!Lose
    <3> QED
      BY <3>2 DEF Registry!RegistryNext
  <2> QED
    BY <2>2, <2>3
<1>6. ASSUME NEW x \in Exchanges, PostBit(x) \/ PostTemplate(x)
      PROVE  Registry!RegistryNext \/ UNCHANGED Registry!registryVars
  <2>1. phase[x] = "received" /\ request[x].kind = "publish"
    BY <1>6 DEF PostBit, PostTemplate, Dispatch
  <2>2. CASE /\ \E status \in {INTERNAL_SERVER_ERROR, BAD_REQUEST} : Respond(x, status, {})
             /\ UNCHANGED database
    <3>1. Registry!Refuse(x)
      BY <2>1, <2>2, RespondDecides, SameCodes DEF Registry!Refuse
    <3> QED
      BY <3>1 DEF Registry!RegistryNext
  <2>3. CASE ValidateCredentials(x)
    BY <2>1, <2>3, ValidateRefines DEF Registry!RegistryNext
  <2> QED
    BY <1>6, <2>2, <2>3 DEF PostBit, PostTemplate
<1>7. ASSUME NEW x \in Exchanges, CredentialsChecked(x) PROVE Registry!RegistryNext
  <2>1. phase[x] = "serving" /\ request[x].kind = "publish"
    BY <1>7 DEF CredentialsChecked, ServingOK
  <2>2. CASE Authorised(x)
    BY <2>1, <2>2, AuthorisedRefines DEF Registry!RegistryNext
  <2>3. CASE Respond(x, UNAUTHORIZED, {}) /\ UNCHANGED database
    <3>1. Registry!Refuse(x)
      BY <2>1, <2>3, RespondDecides, SameCodes DEF Registry!Refuse
    <3> QED
      BY <3>1 DEF Registry!RegistryNext
  <2> QED
    BY <1>7, <2>2, <2>3 DEF CredentialsChecked
<1>8. ASSUME NEW x \in Exchanges, request[x].kind = "fetch", GetBit(x) \/ GetTemplate(x)
      PROVE  Registry!RegistryNext
  <2> DEFINE shown == FetchedRows(database, request[x])
  <2>1. ShowIfAny(x, shown)
    <3>1. CASE GetBit(x)
      BY <3>1 DEF GetBit, Selected, FetchedRows
    <3>2. CASE GetTemplate(x)
      <4>1. request[x].version # Latest
        BY <1>8, <3>2, RequestFields, PackagesAssumption
        DEF GetTemplate, TypeOK, FetchRequest, Latest
      <4> QED
        BY <1>8, <3>2, <4>1 DEF GetTemplate, Dispatch, Selected, FetchedRows
    <3> QED
      BY <1>8, <3>1, <3>2
  <2>2. phase[x] = "received" /\ database' = database
    BY <1>8 DEF GetBit, GetTemplate, Dispatch
  <2>3. Registry!Fetch(x)
    BY <1>8, <2>1, <2>2, RespondDecides, SameOperators, SameCodes
    DEF ShowIfAny, Registry!Fetch
  <2> QED
    BY <2>3 DEF Registry!RegistryNext
<1>9. ASSUME NEW x \in Exchanges, request[x].kind = "search",
             SearchForBit(x) \/ GetTemplate(x)
      PROVE  Registry!RegistryNext
  <2> ~Quoted(x)
    BY <1>9 DEF PlainSearches, Quoted, TypeOK, NoRequest
  <2>1. Respond(x, BAD_REQUEST, {}) \/ Respond(x, OK, FoundRows(database, request[x]))
    BY <1>9 DEF SearchForBit, GetTemplate, Dispatch, Selected
  <2>2. phase[x] = "received" /\ database' = database
    BY <1>9 DEF SearchForBit, GetTemplate, Dispatch
  <2>3. Registry!Search(x)
    BY <1>9, <2>1, <2>2, RespondDecides, SameOperators, SameCodes DEF Registry!Search
  <2> QED
    BY <2>3 DEF Registry!RegistryNext
<1>10. ASSUME NEW x \in Exchanges, AnswerStray(x) PROVE Registry!RegistryNext
  <2>1. Registry!Elsewhere(x)
    BY <1>10, RespondDecides, SameCodes DEF AnswerStray, Dispatch, Registry!Elsewhere
  <2> QED
    BY <2>1 DEF Registry!RegistryNext
<1>11. ASSUME NEW x \in Exchanges, PostUser(x) \/ UserRegistered(x)
       PROVE  Registry!RegistryNext \/ UNCHANGED Registry!registryVars
  <2>1. /\ phase[x] \in {"received", "serving"} /\ request[x].kind = "register"
        /\ PostUser(x) => phase[x] = "received"
        /\ database' = database
    BY <1>11 DEF PostUser, UserRegistered, Dispatch, ServingOK
  <2>2. CASE \E status \in {OK, BAD_REQUEST, CONFLICT, INTERNAL_SERVER_ERROR} :
                 Respond(x, status, {})
    <3>1. Registry!Elsewhere(x)
      BY <2>1, <2>2, RespondDecides, SameCodes DEF Registry!Elsewhere
    <3> QED
      BY <3>1 DEF Registry!RegistryNext
  <2>3. CASE PostUser(x) /\ CallAuth(x, "registering")
    BY <2>1, <2>3, CallAuthHidden
  <2> QED
    BY <1>11, <2>2, <2>3 DEF PostUser, UserRegistered, AddUser
<1> QED
  BY <1>1, <1>2, <1>3, <1>4, <1>5, <1>6, <1>7, <1>8, <1>9, <1>10, <1>11,
     ReadResponds
  DEF Next, ClientStep, WorkerStep, Reads, GetBit, SearchForBit, Dispatch

\* The hub implements the write-once registry, for any clients whose searches have
\* no quote, any number of crashes and whatever the authentication service does,
\* if SQL statements do not fail.
THEOREM HubImplementsRegistry ==
    ASSUME ~SqlFails, PlainSearches
    PROVE  Spec => ImplementsRegistry
<1>1. Init => Registry!RegistryInit
  BY RegistryInitial
<1>2. TypeOK /\ ServingOK /\ [Next]_vars => [Registry!RegistryNext]_(Registry!registryVars)
  BY RegistryStep
<1> QED
  BY <1>1, <1>2, TypeCorrect, PTL DEF Spec, ImplementsRegistry, Registry!RegistrySpec

-------------------------------------------------------------------------------
(* What the registry promises, by induction over its steps.                  *)

\* An exchange that is not decided has no response, one not begun no request.
UndecidedIsBlank ==
    \A x \in Exchanges :
        /\ state[x] \in {"unused", "pending"} => response[x] = NoResponse
        /\ state[x] = "unused" => request[x] = NoRequest

Promise == UndecidedIsBlank /\ AckedIsStored /\ AtMostOneAck /\ ConflictMeansStored

\* A decision that acknowledges nothing and changes no row keeps the promise if
\* a conflict it reports is real.
LEMMA DecideKeepsPromise ==
    ASSUME TypeOK, Promise, NEW x \in Exchanges, NEW status, NEW shown,
           Registry!Decide(x, status, shown), database' = database,
           request[x].kind = "publish" => status # OK,
           request[x].kind = "publish" /\ status = CONFLICT
               => RowsAt(database, request[x]) # {}
    PROVE  Promise'
<1> DEFINE answer == [status |-> status, rows |-> shown]
<1>1. /\ request' = request
      /\ response'[x] = answer
      /\ \A y \in Exchanges \ {x} : response'[y] = response[y]
      /\ state' = [state EXCEPT ![x] = "decided"]
  BY DEF Registry!Decide, TypeOK
<1>2. UndecidedIsBlank'
  BY <1>1 DEF Promise, UndecidedIsBlank, state
<1>3. \A y \in Exchanges : Acked(y)' => y # x /\ Acked(y)
  BY <1>1 DEF Acked
<1>4. AckedIsStored' /\ AtMostOneAck'
  BY <1>1, <1>3 DEF Promise, AckedIsStored, AtMostOneAck
<1>5. ConflictMeansStored'
  BY <1>1 DEF Promise, ConflictMeansStored, RowsAt, SameKey
<1> QED
  BY <1>2, <1>4, <1>5 DEF Promise

\* A stored publication is the first to be acknowledged for its key, because the
\* row of an earlier one would be in the database.
LEMMA PublishKeepsPromise ==
    ASSUME TypeOK, Promise, NEW x \in Exchanges, Registry!Publish(x)
    PROVE  Promise'
<1>1. /\ request' = request
      /\ response'[x].status = OK
      /\ \A y \in Exchanges \ {x} : response'[y] = response[y]
      /\ state' = [state EXCEPT ![x] = "decided"]
  BY SameCodes DEF Registry!Publish, Registry!Decide, TypeOK
<1>2. /\ RowsAt(database, request[x]) = {}
      /\ database' = database \cup {RowOf(request[x])}
  <2>1. Registry!RowOf(request[x]) = RowOf(request[x])
    BY SameOperators
  <2>2. Registry!RowsAt(database, request[x]) = RowsAt(database, request[x])
    BY SameOperators
  <2> QED
    BY <2>1, <2>2 DEF Registry!Publish
<1>3. UndecidedIsBlank'
  BY <1>1 DEF Promise, UndecidedIsBlank, state
<1>4. \A y \in Exchanges : Acked(y)' => y = x \/ Acked(y)
  BY <1>1 DEF Acked
<1>5. AckedIsStored'
  BY <1>1, <1>2, <1>4 DEF Promise, AckedIsStored
<1>6. \A y \in Exchanges : Acked(y) => ~SameKey(RowOf(request[y]), RowOf(request[x]))
  BY <1>2 DEF Promise, AckedIsStored, RowsAt, SameKey, RowOf
<1>7. AtMostOneAck'
  BY <1>1, <1>4, <1>6 DEF Promise, AtMostOneAck, SameKey
<1>8. ConflictMeansStored'
  BY <1>1, <1>2 DEF Promise, ConflictMeansStored, OK, CONFLICT
<1> QED
  BY <1>3, <1>5, <1>7, <1>8 DEF Promise

LEMMA PromiseInit == Init => Promise
BY DEF Init, Promise, UndecidedIsBlank, state, Viewed, AckedIsStored, AtMostOneAck,
   ConflictMeansStored, Acked, NoRequest, NoResponse, OK, CONFLICT

LEMMA PromiseNext ==
    TypeOK /\ Promise /\ [Registry!RegistryNext]_(Registry!registryVars) => Promise'
<1> SUFFICES ASSUME TypeOK, Promise, [Registry!RegistryNext]_(Registry!registryVars)
             PROVE  Promise'
  OBVIOUS
<1> USE DEF Promise
<1>1. ASSUME NEW x \in Exchanges, NEW r \in Requests, Registry!Invoke(x, r) PROVE Promise'
  <2>1. response[x].status \notin {OK, CONFLICT}
    BY <1>1 DEF Registry!Invoke, UndecidedIsBlank, NoResponse, OK, CONFLICT
  <2>2. /\ \A y \in Exchanges \ {x} : request'[y] = request[y]
        /\ response' = response /\ database' = database
        /\ state' = [state EXCEPT ![x] = "pending"]
        /\ state[x] = "unused"
    BY <1>1 DEF Registry!Invoke, TypeOK
  <2>3. UndecidedIsBlank'
    BY <2>2 DEF UndecidedIsBlank, state
  <2>4. \A y \in Exchanges : Acked(y)' => y # x /\ Acked(y)
    BY <2>1, <2>2 DEF Acked
  <2>5. AckedIsStored' /\ AtMostOneAck'
    BY <2>2, <2>4 DEF AckedIsStored, AtMostOneAck
  <2>6. ConflictMeansStored'
    BY <2>1, <2>2 DEF ConflictMeansStored
  <2> QED
    BY <2>3, <2>5, <2>6
<1>2. ASSUME NEW x \in Exchanges, Registry!Publish(x) PROVE Promise'
  BY <1>2, PublishKeepsPromise
<1>3. ASSUME NEW x \in Exchanges, Registry!Conflict(x) PROVE Promise'
  <2>1. Registry!RowsAt(database, request[x]) = RowsAt(database, request[x])
    BY SameOperators
  <2> QED
    BY <1>3, <2>1, DecideKeepsPromise, SameCodes DEF Registry!Conflict, OK, CONFLICT
<1>4. ASSUME NEW x \in Exchanges, Registry!Refuse(x) PROVE Promise'
  BY <1>4, DecideKeepsPromise, SameCodes
  DEF Registry!Refuse, OK, CONFLICT, BAD_REQUEST, UNAUTHORIZED, INTERNAL_SERVER_ERROR
<1>5. ASSUME NEW x \in Exchanges,
             Registry!Fetch(x) \/ Registry!Search(x) \/ Registry!Elsewhere(x)
      PROVE  Promise'
  <2>1. request[x].kind # "publish" /\ database' = database
    BY <1>5 DEF Registry!Fetch, Registry!Search, Registry!Elsewhere
  <2>2. PICK status, shown : Registry!Decide(x, status, shown)
    BY <1>5 DEF Registry!Fetch, Registry!Search, Registry!Elsewhere
  <2> QED
    BY <2>1, <2>2, DecideKeepsPromise
<1>6. ASSUME UNCHANGED <<database, request, response>>,
             \A x \in Exchanges : state'[x] = state[x] \/ state'[x] \in {"answered", "lost"}
      PROVE  Promise'
  <2>1. UndecidedIsBlank'
    BY <1>6 DEF UndecidedIsBlank
  <2>2. AckedIsStored' /\ AtMostOneAck' /\ ConflictMeansStored'
    BY <1>6 DEF AckedIsStored, AtMostOneAck, ConflictMeansStored, Acked
  <2> QED
    BY <2>1, <2>2
<1>7. ASSUME NEW x \in Exchanges, Registry!Answer(x) PROVE Promise'
  BY <1>6, <1>7 DEF Registry!Answer, state
<1>8. ASSUME NEW X \in SUBSET Exchanges, Registry!Lose(X) PROVE Promise'
  BY <1>6, <1>8 DEF Registry!Lose
<1>9. CASE UNCHANGED Registry!registryVars
  BY <1>6, <1>9 DEF Registry!registryVars
<1> QED
  BY <1>1, <1>2, <1>3, <1>4, <1>5, <1>7, <1>8, <1>9 DEF Registry!RegistryNext

LEMMA PromiseKept ==
    ASSUME ~SqlFails, PlainSearches
    PROVE  Spec => []Promise
<1>1. Init => Promise
  BY PromiseInit
<1>2. TypeOK /\ ServingOK /\ Promise /\ [Next]_vars => Promise'
  BY RegistryStep, PromiseNext
<1> QED
  BY <1>1, <1>2, TypeCorrect, PTL DEF Spec

\* If SQL statements do not fail and no search has a quote, an acknowledged
\* publication is stored as it was sent and for good, across crashes.
THEOREM AcksAreStored ==
    ASSUME ~SqlFails, PlainSearches
    PROVE  Spec => []AckedIsStored
<1>1. Spec => []Promise
  BY PromiseKept
<1> QED
  BY <1>1, PTL DEF Promise

\* Under the same conditions at most one publication of a version is ever
\* acknowledged, whoever competes for it and however often it is retried: the row
\* of the first is still there.
THEOREM AcksAreUnique ==
    ASSUME ~SqlFails, PlainSearches
    PROVE  Spec => []AtMostOneAck
<1>1. Spec => []Promise
  BY PromiseKept
<1> QED
  BY <1>1, PTL DEF Promise

\* And a conflict is reported against a stored row.
THEOREM ConflictsAreReal ==
    ASSUME ~SqlFails, PlainSearches
    PROVE  Spec => []ConflictMeansStored
<1>1. Spec => []Promise
  BY PromiseKept
<1> QED
  BY <1>1, PTL DEF Promise

===============================================================================
