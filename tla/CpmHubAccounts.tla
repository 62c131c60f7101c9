---------------------------- MODULE CpmHubAccounts ----------------------------
(***************************************************************************)
(* Who may publish and who may register: every stored row has a verified    *)
(* author when the authentication service answers every call and no search  *)
(* has a quote, and a user name registers once in the life of a worker.     *)
(* Neither needs SQL statements to succeed.                                 *)
(***************************************************************************)
EXTENDS CpmHubProofs

\* Nothing is known of an exchange before its request is sent.
UnusedIsBlank ==
    \A x \in Exchanges :
        phase[x] = "unused" => request[x] = NoRequest /\ response[x] = NoResponse

LEMMA UnusedInit == Init => UnusedIsBlank
BY DEF Init, UnusedIsBlank

\* A handler's step ends in a response or in a call, and changes one exchange.
HandlerStep(x) ==
    /\ phase[x] \in {"received", "serving"}
    /\ request' = request
    /\ \E p \in {"serving", "buffered"} : phase' = [phase EXCEPT ![x] = p]
    /\ \E answer : response' = [response EXCEPT ![x] = answer] \/ response' = response

LEMMA RespondHandles ==
    ASSUME NEW x \in Exchanges, phase[x] \in {"received", "serving"},
           NEW status, NEW shown, Respond(x, status, shown)
    PROVE  HandlerStep(x)
BY DEF Respond, HandlerStep

LEMMA CallHandles ==
    ASSUME NEW x \in Exchanges, phase[x] \in {"received", "serving"},
           NEW purpose, CallAuth(x, purpose)
    PROVE  HandlerStep(x)
BY DEF CallAuth, HandlerStep

LEMMA Handlers ==
    ASSUME NEW x \in Exchanges,
           \/ PostBit(x) \/ PostTemplate(x) \/ CredentialsChecked(x)
           \/ GetBit(x) \/ SearchForBit(x) \/ GetTemplate(x) \/ AnswerStray(x)
           \/ PostUser(x) \/ UserRegistered(x)
    PROVE  HandlerStep(x)
<1>1. phase[x] \in {"received", "serving"}
  BY DEF PostBit, PostTemplate, CredentialsChecked, GetBit, SearchForBit, GetTemplate,
     AnswerStray, PostUser, UserRegistered, Dispatch
<1>2. \/ \E status, shown : Respond(x, status, shown)
      \/ \E purpose : CallAuth(x, purpose)
  BY AuthorisedResponds
  DEF PostBit, PostTemplate, CredentialsChecked, GetBit, SearchForBit, GetTemplate,
     AnswerStray, PostUser, UserRegistered, ValidateCredentials, NullAuthenticator,
     AccessFileAuthenticator, CpmHubAuthenticator, AddUser, ShowIfAny
<1> QED
  BY <1>1, <1>2, RespondHandles, CallHandles

LEMMA UnusedNext == TypeOK /\ UnusedIsBlank /\ [Next]_vars => UnusedIsBlank'
<1> SUFFICES ASSUME TypeOK, UnusedIsBlank, [Next]_vars PROVE UnusedIsBlank'
  OBVIOUS
<1>1. ASSUME NEW x \in Exchanges, HandlerStep(x) PROVE UnusedIsBlank'
  BY <1>1 DEF HandlerStep, UnusedIsBlank, TypeOK
<1>2. CASE Fork \/ PollRound \/ KpiRecorded \/ AuthStep \/ UNCHANGED vars
  BY <1>2 DEF Fork, PollRound, KpiRecorded, AuthStep, AuthConnectFails, AuthConnects,
     AuthAnswers, AuthRegisters, AuthCloses, hubVars, exchangeVars, vars, UnusedIsBlank
<1>3. CASE Crash
  BY <1>3 DEF Crash, UnusedIsBlank, TypeOK
<1>4. CASE ClientStep
  BY <1>4 DEF ClientStep, SendRequest, GiveUp, UnusedIsBlank, TypeOK
<1>5. ASSUME NEW x \in Exchanges, Flush(x) PROVE UnusedIsBlank'
  BY <1>5 DEF Flush, UnusedIsBlank, TypeOK
<1> QED
  BY <1>1, <1>2, <1>3, <1>4, <1>5, Handlers DEF Next, WorkerStep

-------------------------------------------------------------------------------
(* Verified authors.                                                         *)

\* While the worker checks credentials and its client's loop has ended, success
\* is the service's verdict on the exchange in service.
VerdictOK ==
    worker = "authenticating" /\ ~auth_pending /\ auth_response = OK =>
        \A x \in Exchanges : phase[x] = "serving" =>
            <<request[x].user, request[x].password>> \in accounts

LEMMA AccountsGrow == [Next]_vars => accounts \subseteq accounts'
BY DEF Next, vars, Fork, Crash, ClientStep, SendRequest, GiveUp, WorkerStep, PollRound,
   Flush, PostBit, PostTemplate, CredentialsChecked, GetBit, SearchForBit, GetTemplate,
   AnswerStray, PostUser, UserRegistered, Dispatch, KpiRecorded, AuthStep,
   AuthConnectFails, AuthConnects, AuthAnswers, AuthRegisters, AuthCloses, OpenAccount

LEMMA VerdictNext ==
    ASSUME ~AuthHangsUp
    PROVE  TypeOK /\ ServingOK /\ VerdictOK /\ [Next]_vars => VerdictOK'
<1> SUFFICES ASSUME TypeOK, ServingOK, VerdictOK, [Next]_vars PROVE VerdictOK'
  OBVIOUS
<1>1. CASE UNCHANGED <<worker, phase, request, auth_pending, auth_response, accounts>>
  BY <1>1 DEF VerdictOK
<1>2. CASE worker' # "authenticating"
  BY <1>2 DEF VerdictOK
<1>3. CASE auth_pending' = TRUE
  BY <1>3 DEF VerdictOK
<1>4. ASSUME NEW x \in Exchanges, NEW r \in Requests, SendRequest(x, r) PROVE VerdictOK'
  BY <1>4 DEF SendRequest, VerdictOK, TypeOK, authVars
<1>5. ASSUME NEW x \in Exchanges, NEW status, NEW shown, Respond(x, status, shown)
      PROVE  VerdictOK'
  BY <1>2, <1>5 DEF Respond
<1>6. CASE AuthConnectFails
  BY <1>6 DEF AuthConnectFails, Auth!ConnectFailed, Auth!ResponseArrived, VerdictOK,
     OK, Auth!BAD_REQUEST
<1>7. ASSUME NEW x \in Exchanges, AuthAnswers(x) PROVE VerdictOK'
  BY <1>7 DEF AuthAnswers, Auth!Replied, Auth!ResponseArrived, hubVars, exchangeVars,
     VerdictOK, ServingOK
<1>8. ASSUME NEW x \in Exchanges, AuthRegisters(x) PROVE VerdictOK'
  BY <1>2, <1>8 DEF AuthRegisters, hubVars
<1>9. CASE AuthCloses
  BY <1>9 DEF AuthCloses, Auth!Closed
<1>10. CASE Fork \/ Crash
  BY <1>2, <1>10 DEF Fork, Crash
<1>11. ASSUME NEW x \in Exchanges, Flush(x) \/ GiveUp(x) PROVE VerdictOK'
  <2>1. CASE Flush(x)
    BY <1>2, <2>1 DEF Flush
  <2>2. CASE GiveUp(x)
    BY <1>1, <2>2 DEF GiveUp, authVars
  <2> QED
    BY <1>11, <2>1, <2>2
<1>12. CASE PollRound \/ KpiRecorded \/ AuthConnects \/ UNCHANGED vars
  BY <1>1, <1>2, <1>12 DEF PollRound, KpiRecorded, AuthConnects, Auth!Connected, authVars,
     hubVars, exchangeVars, vars
<1>13. ASSUME NEW x \in Exchanges, NEW purpose, CallAuth(x, purpose) PROVE VerdictOK'
  BY <1>3, <1>13 DEF CallAuth, Auth!Call
<1>14. ASSUME NEW x \in Exchanges,
              \/ PostBit(x) \/ PostTemplate(x) \/ CredentialsChecked(x)
              \/ GetBit(x) \/ SearchForBit(x) \/ GetTemplate(x) \/ AnswerStray(x)
              \/ PostUser(x) \/ UserRegistered(x)
       PROVE  VerdictOK'
  <2>1. \/ \E status, shown : Respond(x, status, shown)
        \/ \E purpose : CallAuth(x, purpose)
    BY <1>14, AuthorisedResponds
    DEF PostBit, PostTemplate, CredentialsChecked, GetBit, SearchForBit, GetTemplate,
       AnswerStray, PostUser, UserRegistered, ValidateCredentials, NullAuthenticator,
       AccessFileAuthenticator, CpmHubAuthenticator, AddUser, ShowIfAny
  <2> QED
    BY <1>5, <1>13, <2>1
<1> QED
  BY <1>4, <1>6, <1>7, <1>8, <1>9, <1>10, <1>11, <1>12, <1>14
  DEF Next, ClientStep, WorkerStep, AuthStep

\* Unless anyone is welcome, a row is inserted only on the service's word.
LEMMA InsertedIsVerified ==
    ASSUME Authenticator # "null", PlainSearches, TypeOK, ServingOK, VerdictOK, [Next]_vars,
           database' # database
    PROVE  \E x \in Exchanges :
               /\ request[x].kind = "publish" /\ phase[x] = "serving"
               /\ <<request[x].user, request[x].password>> \in accounts
               /\ database' = database \cup {RowOf(request[x])}
<1>0. \A x \in Exchanges : ~Quoted(x)
  BY DEF PlainSearches, Quoted, TypeOK, NoRequest
<1>1. \E x \in Exchanges : CredentialsChecked(x)
  BY <1>0 DEF Next, vars, Fork, Crash, ClientStep, SendRequest, GiveUp, WorkerStep, PollRound,
     Flush, PostBit, PostTemplate, GetBit, SearchForBit, GetTemplate, AnswerStray, PostUser,
     UserRegistered, ValidateCredentials, NullAuthenticator,
     AccessFileAuthenticator, CpmHubAuthenticator, KpiRecorded, AuthStep, AuthConnectFails,
     AuthConnects, AuthAnswers, AuthRegisters, AuthCloses, hubVars
<1>2. PICK x \in Exchanges : CredentialsChecked(x)
  BY <1>1
<1>3. auth_response = OK /\ Authorised(x)
  BY <1>2 DEF CredentialsChecked
<1>4. database' = database \cup {RowOf(request[x])}
  BY <1>3 DEF Authorised, StoreRow, Insert
<1> QED
  BY <1>2, <1>3, <1>4 DEF CredentialsChecked, ServingOK, VerdictOK

LEMMA RequestsStay ==
    ASSUME TypeOK, [Next]_vars, NEW x \in Exchanges, phase[x] # "unused"
    PROVE  request'[x] = request[x]
<1>1. ASSUME NEW y \in Exchanges, HandlerStep(y) PROVE request'[x] = request[x]
  BY <1>1 DEF HandlerStep
<1>2. CASE Fork \/ Crash \/ ClientStep \/ PollRound \/ KpiRecorded \/ AuthStep \/ UNCHANGED vars
  BY <1>2 DEF Fork, Crash, ClientStep, SendRequest, GiveUp, PollRound, KpiRecorded,
     AuthStep, AuthConnectFails, AuthConnects, AuthAnswers, AuthRegisters, AuthCloses,
     hubVars, exchangeVars, vars, TypeOK
<1>3. CASE \E y \in Exchanges : Flush(y)
  BY <1>3 DEF Flush
<1> QED
  BY <1>1, <1>2, <1>3, Handlers DEF Next, WorkerStep

LEMMA VerifiedNext ==
    ASSUME Authenticator # "null", PlainSearches
    PROVE  TypeOK /\ ServingOK /\ UnusedIsBlank /\ VerdictOK /\ StoredIsVerified /\ [Next]_vars
           => StoredIsVerified'
<1> SUFFICES ASSUME TypeOK, ServingOK, UnusedIsBlank, VerdictOK, StoredIsVerified,
                    [Next]_vars, NEW q \in database'
             PROVE  \E x \in Exchanges :
                        /\ request'[x].kind = "publish"
                        /\ RowOf(request'[x]) = q
                        /\ <<request'[x].user, request'[x].password>> \in accounts'
  BY DEF StoredIsVerified
<1>1. \E x \in Exchanges :
          /\ request[x].kind = "publish" /\ RowOf(request[x]) = q
          /\ <<request[x].user, request[x].password>> \in accounts
  <2>1. CASE q \in database
    BY <2>1 DEF StoredIsVerified
  <2>2. CASE q \notin database
    BY <2>2, InsertedIsVerified
  <2> QED
    BY <2>1, <2>2
<1>2. PICK x \in Exchanges :
          /\ request[x].kind = "publish" /\ RowOf(request[x]) = q
          /\ <<request[x].user, request[x].password>> \in accounts
  BY <1>1
<1>3. phase[x] # "unused"
  BY <1>2 DEF UnusedIsBlank, NoRequest
<1>4. request'[x] = request[x]
  BY <1>3, RequestsStay
<1> QED
  BY <1>2, <1>4, AccountsGrow

\* With an authenticator that asks for credentials, a service that never closes a
\* call unanswered and no search with a quote, every stored row was published with
\* the credentials of an account.
THEOREM AuthorsVerified ==
    ASSUME Authenticator # "null", ~AuthHangsUp, PlainSearches
    PROVE  Spec => []StoredIsVerified
<1>1. Init => UnusedIsBlank /\ VerdictOK /\ StoredIsVerified
  BY UnusedInit DEF Init, VerdictOK, StoredIsVerified
<1>2. /\ TypeOK /\ ServingOK /\ UnusedIsBlank /\ VerdictOK /\ StoredIsVerified
      /\ [Next]_vars
      => UnusedIsBlank' /\ VerdictOK' /\ StoredIsVerified'
  BY UnusedNext, VerdictNext, VerifiedNext
<1> QED
  BY <1>1, <1>2, TypeCorrect, PTL DEF Spec

-------------------------------------------------------------------------------
(* Registrations.                                                            *)

Registered(x) == request[x].kind = "register" /\ response[x].status = OK

\* Before the first crash: the hub has done nothing until its worker starts, it
\* knows every name it has registered, and a call to open an account is never
\* under way for one of them.
UsersKnown ==
    crashes = 0 =>
        /\ worker = "down" => \A x \in Exchanges : phase[x] = "unused"
        /\ \A x \in Exchanges : Registered(x) => request[x].user \in users
        /\ worker = "registering" =>
               \A x \in Exchanges : phase[x] = "serving" => request[x].user \notin users

RegistrationInv == UnusedIsBlank /\ UsersKnown /\ AtMostOneRegistration

LEMMA RegistrationInit == Init => RegistrationInv
<1> SUFFICES ASSUME Init PROVE RegistrationInv
  OBVIOUS
<1>1. \A x \in Exchanges : response[x].status # OK
  BY DEF Init, NoResponse, OK
<1>2. UsersKnown /\ AtMostOneRegistration
  BY <1>1 DEF Init, UsersKnown, AtMostOneRegistration, Registered
<1> QED
  BY <1>2, UnusedInit DEF RegistrationInv

\* A response that does not report a new registration.
LEMMA RespondKeepsUsers ==
    ASSUME TypeOK, RegistrationInv, NEW x \in Exchanges, NEW status, NEW shown,
           Respond(x, status, shown), phase[x] # "unused",
           request[x].kind = "register" => status # OK,
           UNCHANGED <<users, crashes>>
    PROVE  UsersKnown' /\ AtMostOneRegistration'
<1>1. /\ request' = request /\ worker' \notin {"down", "registering"}
      /\ response'[x].status = status
      /\ \A y \in Exchanges \ {x} : response'[y] = response[y]
  BY DEF Respond, TypeOK
<1>2. \A y \in Exchanges : Registered(y)' => y # x /\ Registered(y)
  BY <1>1 DEF Registered
<1>3. UsersKnown'
  BY <1>1, <1>2 DEF RegistrationInv, UsersKnown
<1>4. AtMostOneRegistration'
  BY <1>1, <1>2 DEF RegistrationInv, AtMostOneRegistration, Registered
<1> QED
  BY <1>3, <1>4

\* A registration of a name the hub does not know.
LEMMA AddUserKeepsUsers ==
    ASSUME TypeOK, RegistrationInv, NEW x \in Exchanges, AddUser(x),
           request[x].kind = "register",
           crashes = 0 => request[x].user \notin users,
           UNCHANGED crashes
    PROVE  UsersKnown' /\ AtMostOneRegistration'
<1>1. /\ request' = request /\ worker' \notin {"down", "registering"}
      /\ users' = users \cup {request[x].user}
      /\ \A y \in Exchanges \ {x} : response'[y] = response[y]
  BY DEF AddUser, Respond, TypeOK
<1>2. \A y \in Exchanges : Registered(y)' => y = x \/ Registered(y)
  BY <1>1 DEF Registered
<1>3. UsersKnown'
  BY <1>1, <1>2 DEF RegistrationInv, UsersKnown
<1>4. AtMostOneRegistration'
  <2> SUFFICES ASSUME crashes = 0, NEW y \in Exchanges, NEW z \in Exchanges, y # z,
                      Registered(y)', Registered(z)'
               PROVE  request[y].user # request[z].user
    BY <1>1 DEF AtMostOneRegistration, Registered
  <2>1. Registered(y) /\ Registered(z) => request[y].user # request[z].user
    BY DEF RegistrationInv, AtMostOneRegistration, Registered
  <2>2. \A w \in Exchanges : Registered(w) => request[w].user # request[x].user
    BY DEF RegistrationInv, UsersKnown
  <2> QED
    BY <1>2, <2>1, <2>2
<1> QED
  BY <1>3, <1>4

LEMMA RegistrationNext ==
    TypeOK /\ ServingOK /\ RegistrationInv /\ [Next]_vars => RegistrationInv'
<1> SUFFICES ASSUME TypeOK, ServingOK, RegistrationInv, [Next]_vars PROVE RegistrationInv'
  OBVIOUS
<1>1. UnusedIsBlank'
  BY UnusedNext DEF RegistrationInv
<1> SUFFICES UsersKnown' /\ AtMostOneRegistration'
  BY <1>1 DEF RegistrationInv
<1>2. CASE Fork
  <2>1. crashes = 0 => \A x \in Exchanges : response[x].status # OK
    BY <1>2 DEF Fork, RegistrationInv, UsersKnown, UnusedIsBlank, NoResponse, OK
  <2> QED
    BY <1>2, <2>1 DEF Fork, exchangeVars, UsersKnown, AtMostOneRegistration, Registered
<1>3. CASE Crash
  BY <1>3, CpmHubAssumption DEF Crash, TypeOK, UsersKnown, AtMostOneRegistration
<1>4. ASSUME NEW x \in Exchanges, NEW r \in Requests, SendRequest(x, r)
      PROVE  UsersKnown' /\ AtMostOneRegistration'
  <2>1. /\ response[x].status # OK
        /\ \A y \in Exchanges \ {x} : request'[y] = request[y]
    BY <1>4 DEF SendRequest, RegistrationInv, UnusedIsBlank, NoResponse, OK, TypeOK
  <2>2. \A y \in Exchanges : Registered(y)' => y # x /\ Registered(y)
    BY <1>4, <2>1 DEF SendRequest, Registered
  <2>3. UsersKnown'
    BY <1>4, <2>1, <2>2 DEF SendRequest, RegistrationInv, UsersKnown, TypeOK
  <2>4. AtMostOneRegistration'
    BY <1>4, <2>1, <2>2 DEF SendRequest, RegistrationInv, AtMostOneRegistration, Registered
  <2> QED
    BY <2>3, <2>4
<1>5. ASSUME UNCHANGED <<users, request, response, crashes>>,
             \/ worker' \notin {"down", "registering"}
             \/ UNCHANGED <<worker, phase>>
      PROVE  UsersKnown' /\ AtMostOneRegistration'
  BY <1>5 DEF RegistrationInv, UsersKnown, AtMostOneRegistration, Registered
<1>6. CASE PollRound \/ KpiRecorded \/ AuthStep \/ UNCHANGED vars
  BY <1>5, <1>6 DEF PollRound, KpiRecorded, AuthStep, AuthConnectFails, AuthConnects,
     AuthAnswers, AuthRegisters, AuthCloses, hubVars, exchangeVars, vars
<1>7. ASSUME NEW x \in Exchanges, Flush(x) \/ GiveUp(x)
      PROVE  UsersKnown' /\ AtMostOneRegistration'
  BY <1>5, <1>7 DEF Flush, GiveUp
<1>8. ASSUME NEW x \in Exchanges,
             \/ PostBit(x) \/ PostTemplate(x) \/ CredentialsChecked(x)
             \/ GetBit(x) \/ SearchForBit(x) \/ GetTemplate(x) \/ AnswerStray(x)
      PROVE  UsersKnown' /\ AtMostOneRegistration'
  <2>1. /\ UNCHANGED <<users, crashes>> /\ phase[x] # "unused"
        /\ request[x].kind = "register" => \E status : status # OK /\ Respond(x, status, {})
    BY <1>8 DEF PostBit, PostTemplate, CredentialsChecked, GetBit, SearchForBit, GetTemplate,
       AnswerStray, Dispatch, ServingOK
  <2>2. \/ \E status, shown : Respond(x, status, shown)
        \/ CallAuth(x, "authenticating")
    BY <1>8, AuthorisedResponds
    DEF PostBit, PostTemplate, CredentialsChecked, GetBit, SearchForBit, GetTemplate,
       AnswerStray, ValidateCredentials, NullAuthenticator,
       AccessFileAuthenticator, CpmHubAuthenticator, ShowIfAny
  <2>3. CASE CallAuth(x, "authenticating")
    BY <1>5, <2>1, <2>3 DEF CallAuth
  <2> QED
    BY <2>1, <2>2, <2>3, RespondKeepsUsers
<1>9. ASSUME NEW x \in Exchanges, PostUser(x) PROVE UsersKnown' /\ AtMostOneRegistration'
  <2>1. /\ worker = "polling" /\ phase[x] = "received" /\ request[x].kind = "register"
        /\ UNCHANGED crashes
    BY <1>9 DEF PostUser, Dispatch
  <2>2. CASE /\ \E status \in {INTERNAL_SERVER_ERROR, BAD_REQUEST, CONFLICT} :
                    Respond(x, status, {})
             /\ UNCHANGED users
    BY <2>1, <2>2, RespondKeepsUsers DEF INTERNAL_SERVER_ERROR, BAD_REQUEST, CONFLICT, OK
  <2>3. CASE request[x].user \notin users /\ AddUser(x)
    BY <2>1, <2>3, AddUserKeepsUsers
  <2>4. CASE request[x].user \notin users /\ CallAuth(x, "registering") /\ UNCHANGED users
    <3>1. /\ worker' = "registering" /\ request' = request /\ response' = response
          /\ \A y \in Exchanges : phase'[y] = "serving" => y = x
      BY <2>1, <2>4 DEF CallAuth, ServingOK, TypeOK
    <3>2. UsersKnown'
      BY <2>1, <2>4, <3>1 DEF RegistrationInv, UsersKnown, Registered
    <3>3. AtMostOneRegistration'
      BY <2>1, <3>1 DEF RegistrationInv, AtMostOneRegistration
    <3> QED
      BY <3>2, <3>3
  <2> QED
    BY <1>9, <2>2, <2>3, <2>4 DEF PostUser
<1>10. ASSUME NEW x \in Exchanges, UserRegistered(x)
       PROVE  UsersKnown' /\ AtMostOneRegistration'
  <2>1. /\ request[x].kind = "register" /\ AddUser(x) /\ UNCHANGED crashes
        /\ crashes = 0 => request[x].user \notin users
    BY <1>10 DEF UserRegistered, ServingOK, RegistrationInv, UsersKnown
  <2> QED
    BY <2>1, AddUserKeepsUsers
<1> QED
  BY <1>2, <1>3, <1>4, <1>6, <1>7, <1>8, <1>9, <1>10 DEF Next, ClientStep, WorkerStep

\* Until the worker crashes, a user name registers at most once, although the
\* look-up and the recording are separated by a call to another service.
THEOREM RegistersOnce == Spec => []AtMostOneRegistration
<1>1. Init => RegistrationInv
  BY RegistrationInit
<1>2. TypeOK /\ ServingOK /\ RegistrationInv /\ [Next]_vars => RegistrationInv'
  BY RegistrationNext
<1>3. RegistrationInv => AtMostOneRegistration
  BY DEF RegistrationInv
<1> QED
  BY <1>1, <1>2, <1>3, TypeCorrect, PTL DEF Spec

===============================================================================
