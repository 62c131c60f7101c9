------------------------------ MODULE HttpClient ------------------------------
(***************************************************************************)
(* One HttpClient object (cpm-hub/http/HttpClient.cpp): the blocking call   *)
(* the hub makes to the authentication service and to InfluxDB.  A call     *)
(* opens a connection and polls its own event loop until an event clears    *)
(* request_pending; it has no timeout.  What the call then returns is the   *)
(* member `response', which lives as long as the object and which only two  *)
(* of the three closing events assign.                                      *)
(*                                                                         *)
(* Headers and bodies are left out: of an answer, the hub's callers read    *)
(* the status code only.                                                    *)
(***************************************************************************)
EXTENDS HttpStatus

CONSTANTS
    Statuses,       \* status codes the peer may put in an answer
    PeerHangsUp     \* TRUE if the peer may close without answering

ASSUME HttpClientAssumption ==
    /\ Statuses \subseteq Nat
    /\ PeerHangsUp \in BOOLEAN

VARIABLES
    request_pending,    \* the loop of method() runs while this is TRUE
    response,           \* status code of the member HttpResponse
    link                \* connection of the call: "none", "connecting", "open"

clientVars == <<request_pending, response, link>>

\* Every code `response' can hold: the peer's, the 404 of a default-constructed
\* HttpResponse, the 400 of a failed connect and the 204 of an empty chunk.
ResponseCodes == Statuses \cup {NOT_FOUND, BAD_REQUEST, NO_CONTENT}

ClientTypeOK ==
    /\ request_pending \in BOOLEAN
    /\ response \in ResponseCodes
    /\ link \in {"none", "connecting", "open"}

\* A new object: the member response is default-constructed.
ClientInit ==
    /\ request_pending = FALSE
    /\ response = NOT_FOUND
    /\ link = "none"

-------------------------------------------------------------------------------
\* method(): the connection is requested and the polling loop entered.
Call ==
    /\ ~request_pending
    /\ request_pending' = TRUE
    /\ link' = "connecting"
    /\ UNCHANGED response

\* The same through a client constructed for this call.
CallOfNewClient ==
    /\ ~request_pending
    /\ request_pending' = TRUE
    /\ link' = "connecting"
    /\ response' = NOT_FOUND

\* Mutant of ResponseArrived: the loop ends but the answer is not kept.
ResponseDropped(status) ==
    /\ request_pending' = FALSE
    /\ link' = "none"
    /\ UNCHANGED response

\* responseArrived(): the answer is kept and the loop will end.
ResponseArrived(status) ==
    /\ response' = status
    /\ request_pending' = FALSE
    /\ link' = "none"

\* Mutant of ConnectFailed: the response handed over was given no status code.
ConnectFailedBlank ==
    /\ link = "connecting"
    /\ ResponseArrived(0)

\* MG_EV_CONNECT with an error, which also stands for a failed name lookup.
ConnectFailed ==
    /\ link = "connecting"
    /\ ResponseArrived(BAD_REQUEST)

\* MG_EV_CONNECT without error: the request leaves for the peer.
Connected ==
    /\ link = "connecting"
    /\ link' = "open"
    /\ UNCHANGED <<request_pending, response>>

\* MG_EV_HTTP_REPLY.
Replied(status) ==
    /\ link = "open"
    /\ ResponseArrived(status)

\* MG_EV_HTTP_CHUNK, which ends the call only for 204 No Content.
NoContentArrived ==
    /\ link = "open"
    /\ ResponseArrived(NO_CONTENT)

\* Mutant of Closed: the event is ignored and the loop polls on.
ClosedUnnoticed ==
    /\ PeerHangsUp
    /\ link = "open"
    /\ link' = "none"
    /\ UNCHANGED <<request_pending, response>>

\* MG_EV_CLOSE before any answer: connectionClosed() ends the loop and leaves
\* `response' as the previous call left it.
Closed ==
    /\ PeerHangsUp
    /\ link = "open"
    /\ request_pending' = FALSE
    /\ link' = "none"
    /\ UNCHANGED response

===============================================================================
