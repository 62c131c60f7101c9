------------------------------- MODULE HttpCalls -------------------------------
(***************************************************************************)
(* Consecutive calls through HttpClient objects, with a history of what the *)
(* peer did in each call and what the call returned.  The hub uses the      *)
(* client in two ways, and a behaviour follows one of them:                *)
(*   ~fresh_client  one static object serves every call to the              *)
(*                  authentication service (cpm_hub_starter.cpp:43);        *)
(*   fresh_client   each KPI measure constructs a client of its own         *)
(*                  (KpiSinkInfluxDb::newMeasure).                          *)
(***************************************************************************)
EXTENDS HttpClient, Sequences

CONSTANT MaxCalls       \* bound on the calls of a behaviour

ASSUME HttpCallsAssumption == MaxCalls \in Nat

VARIABLES
    fresh_client,       \* the caller constructs a new object for every call
    calls               \* history: the finished calls, oldest first

vars == <<request_pending, response, link, fresh_client, calls>>

\* What happened in a call, as the peer and the network saw it.
Answered(status) == [event |-> "answered", status |-> status]
Refused == [event |-> "refused", status |-> BAD_REQUEST]
HungUp == [event |-> "hung_up", status |-> NOT_FOUND]

Outcomes == {Answered(s) : s \in Statuses \cup {NO_CONTENT}} \cup {Refused, HungUp}

TypeOK ==
    /\ ClientTypeOK
    /\ fresh_client \in BOOLEAN
    /\ calls \in Seq([outcome : Outcomes, returned : ResponseCodes])
    /\ Len(calls) <= MaxCalls

Init ==
    /\ ClientInit
    /\ fresh_client \in BOOLEAN
    /\ calls = <<>>

-------------------------------------------------------------------------------
StartCall ==
    /\ Len(calls) < MaxCalls
    /\ \/ fresh_client /\ CallOfNewClient
       \/ ~fresh_client /\ Call
    /\ UNCHANGED <<fresh_client, calls>>

\* method() leaves its loop and returns the member response.
Return(outcome) ==
    /\ calls' = Append(calls, [outcome |-> outcome, returned |-> response'])
    /\ UNCHANGED fresh_client

ReturnRefused == ConnectFailed /\ Return(Refused)
ReturnAnswer == \E s \in Statuses : Replied(s) /\ Return(Answered(s))
ReturnNoContent == NoContentArrived /\ Return(Answered(NO_CONTENT))
ReturnHungUp == Closed /\ Return(HungUp)
LinkUp == Connected /\ UNCHANGED <<fresh_client, calls>>

PeerStep ==
    \/ LinkUp
    \/ ReturnRefused
    \/ ReturnAnswer
    \/ ReturnNoContent
    \/ ReturnHungUp

Next == StartCall \/ PeerStep

\* The network settles every connection attempt and the peer answers or closes:
\* an assumption on the outside, since method() has no timeout of its own.
Fairness == WF_vars(PeerStep)

Spec == Init /\ [][Next]_vars /\ Fairness

-------------------------------------------------------------------------------
\* A call returns success only if the peer answered success in that very call:
\* no earlier call's answer leaks into a later one (CpmHubAuthenticator reads
\* the status as "credentials accepted").
SuccessIsThisCalls ==
    \A i \in 1..Len(calls) :
        calls[i].returned = OK => calls[i].outcome = Answered(OK)

\* A call the peer answers, or that cannot connect, returns that outcome and no
\* earlier one (the answer's code, or 400), and a call closed unanswered returns
\* 404 when the client was made for it.  The shared client is excepted there, and
\* only there: it returns whatever the last call left in response.
EachCallReturnsItsOwnOutcome ==
    \A i \in 1..Len(calls) :
        fresh_client \/ calls[i].outcome # HungUp =>
            calls[i].returned = calls[i].outcome.status

\* The polling loop of method() ends once the peer or the network has acted.
CallReturns == request_pending ~> ~request_pending

===============================================================================
