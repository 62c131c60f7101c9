---------------------------- MODULE HttpCallsProofs ----------------------------
(***************************************************************************)
(* Proofs about consecutive calls, for every bound and every set of codes:  *)
(* which calls return their own outcome, and when every success is one's own.*)
(***************************************************************************)
EXTENDS HttpCalls, TLAPS

LEMMA CallsTypeInit == Init => TypeOK
<1> SUFFICES ASSUME Init PROVE TypeOK
  OBVIOUS
<1>1. ClientTypeOK
  BY DEF Init, ClientInit, ClientTypeOK, ResponseCodes
<1>2. calls = <<>> /\ Len(<<>>) <= MaxCalls /\ fresh_client \in BOOLEAN
  BY HttpCallsAssumption DEF Init
<1> QED
  BY <1>1, <1>2 DEF TypeOK

\* A finished call is a record of the history's type.
LEMMA ReturnTyped ==
    ASSUME TypeOK, NEW outcome \in Outcomes, Return(outcome), response' \in ResponseCodes,
           Len(calls) < MaxCalls
    PROVE  /\ calls' \in Seq([outcome : Outcomes, returned : ResponseCodes])
           /\ Len(calls') <= MaxCalls
BY HttpCallsAssumption DEF TypeOK, Return

\* The connection of a call exists only while the loop runs, and the loop runs
\* only for a call the bound allows.
LinkIsOfCall ==
    /\ link # "none" => request_pending
    /\ request_pending => Len(calls) < MaxCalls

LEMMA CallsTypeNext == TypeOK /\ LinkIsOfCall /\ [Next]_vars => (TypeOK /\ LinkIsOfCall)'
<1> SUFFICES ASSUME TypeOK, LinkIsOfCall, [Next]_vars PROVE (TypeOK /\ LinkIsOfCall)'
  OBVIOUS
<1>1. CASE StartCall
  BY <1>1 DEF StartCall, CallOfNewClient, Call, TypeOK, ClientTypeOK, ResponseCodes,
     LinkIsOfCall
<1>2. CASE LinkUp
  BY <1>2 DEF LinkUp, Connected, TypeOK, ClientTypeOK, LinkIsOfCall
<1>3. ASSUME NEW outcome \in Outcomes, Return(outcome), response' \in ResponseCodes,
             link # "none", request_pending' = FALSE, link' = "none"
      PROVE  (TypeOK /\ LinkIsOfCall)'
  BY <1>3, ReturnTyped DEF TypeOK, ClientTypeOK, LinkIsOfCall, Return
<1>4. CASE ReturnRefused
  BY <1>3, <1>4 DEF ReturnRefused, ConnectFailed, ResponseArrived, ResponseCodes, Outcomes
<1>5. CASE ReturnAnswer
  BY <1>3, <1>5 DEF ReturnAnswer, Replied, ResponseArrived, ResponseCodes, Outcomes
<1>6. CASE ReturnNoContent
  BY <1>3, <1>6 DEF ReturnNoContent, NoContentArrived, ResponseArrived, ResponseCodes, Outcomes
<1>7. CASE ReturnHungUp
  BY <1>3, <1>7 DEF ReturnHungUp, Closed, Outcomes, TypeOK, ClientTypeOK
<1>8. CASE UNCHANGED vars
  BY <1>8 DEF vars, TypeOK, ClientTypeOK, LinkIsOfCall
<1> QED
  BY <1>1, <1>2, <1>4, <1>5, <1>6, <1>7, <1>8 DEF Next, PeerStep

\* The client and the history keep their types: a call returns one of the codes a
\* peer may answer, or one of the client's own.
THEOREM TypeCorrect == Spec => []TypeOK
<1>1. Init => TypeOK /\ LinkIsOfCall
  BY CallsTypeInit DEF Init, ClientInit, LinkIsOfCall
<1> QED
  BY <1>1, CallsTypeNext, PTL DEF Spec

-------------------------------------------------------------------------------
\* A client made for the call under way still holds its default response.
FreshIsBlank == fresh_client /\ request_pending => response = NOT_FOUND

LEMMA OutcomeNext ==
    TypeOK /\ LinkIsOfCall /\ FreshIsBlank /\ EachCallReturnsItsOwnOutcome /\ [Next]_vars
        => FreshIsBlank' /\ EachCallReturnsItsOwnOutcome'
<1> SUFFICES ASSUME TypeOK, LinkIsOfCall, FreshIsBlank, EachCallReturnsItsOwnOutcome,
                    [Next]_vars
             PROVE  FreshIsBlank' /\ EachCallReturnsItsOwnOutcome'
  OBVIOUS
<1>1. CASE StartCall
  BY <1>1 DEF StartCall, CallOfNewClient, Call, FreshIsBlank, EachCallReturnsItsOwnOutcome
<1>2. CASE LinkUp
  BY <1>2 DEF LinkUp, Connected, FreshIsBlank, EachCallReturnsItsOwnOutcome
<1>3. ASSUME NEW outcome, Return(outcome), request_pending' = FALSE,
             fresh_client \/ outcome # HungUp => response' = outcome.status
      PROVE  FreshIsBlank' /\ EachCallReturnsItsOwnOutcome'
  <2>1. FreshIsBlank'
    BY <1>3 DEF FreshIsBlank, Return
  <2> DEFINE finished == [outcome |-> outcome, returned |-> response']
  <2>2. /\ calls' = Append(calls, finished)
        /\ Len(calls) \in Nat /\ Len(calls') = Len(calls) + 1
        /\ calls'[Len(calls) + 1] = finished
        /\ \A i \in 1..Len(calls) : calls'[i] = calls[i]
    BY <1>3 DEF Return, TypeOK
  <2>3. fresh_client' = fresh_client
    BY <1>3 DEF Return
  <2>4. fresh_client \/ finished.outcome # HungUp =>
            finished.returned = finished.outcome.status
    BY <1>3
  <2>5. EachCallReturnsItsOwnOutcome'
    BY <2>2, <2>3, <2>4 DEF EachCallReturnsItsOwnOutcome
  <2> QED
    BY <2>1, <2>5
<1>4. CASE ReturnRefused
  BY <1>3, <1>4 DEF ReturnRefused, ConnectFailed, ResponseArrived, Refused
<1>5. CASE ReturnAnswer
  BY <1>3, <1>5 DEF ReturnAnswer, Replied, ResponseArrived, Answered
<1>6. CASE ReturnNoContent
  BY <1>3, <1>6 DEF ReturnNoContent, NoContentArrived, ResponseArrived, Answered
<1>7. CASE ReturnHungUp
  <2>1. request_pending' = FALSE /\ (fresh_client => response' = NOT_FOUND)
    BY <1>7 DEF ReturnHungUp, Closed, LinkIsOfCall, FreshIsBlank
  <2> QED
    BY <1>3, <1>7, <2>1 DEF ReturnHungUp, HungUp
<1>8. CASE UNCHANGED vars
  BY <1>8 DEF vars, FreshIsBlank, EachCallReturnsItsOwnOutcome
<1> QED
  BY <1>1, <1>2, <1>4, <1>5, <1>6, <1>7, <1>8 DEF Next, PeerStep

\* For any number of calls and any codes: only a close without an answer, on a
\* client that has served a call before, returns anything but the call's outcome.
THEOREM CallsKeptApart == Spec => []EachCallReturnsItsOwnOutcome
<1>1. Init => TypeOK /\ LinkIsOfCall /\ FreshIsBlank /\ EachCallReturnsItsOwnOutcome
  BY CallsTypeInit
  DEF Init, ClientInit, LinkIsOfCall, FreshIsBlank, EachCallReturnsItsOwnOutcome
<1>2. /\ TypeOK /\ LinkIsOfCall /\ FreshIsBlank /\ EachCallReturnsItsOwnOutcome
      /\ [Next]_vars
      => (TypeOK /\ LinkIsOfCall /\ FreshIsBlank /\ EachCallReturnsItsOwnOutcome)'
  BY CallsTypeNext, OutcomeNext
<1> QED
  BY <1>1, <1>2, PTL DEF Spec

-------------------------------------------------------------------------------
(* When a success is the call's own. *)

NoneHungUp == \A i \in 1..Len(calls) : calls[i].outcome # HungUp

LEMMA AnsweredNext ==
    ASSUME ~PeerHangsUp, TypeOK, NoneHungUp, [Next]_vars
    PROVE  NoneHungUp'
<1>1. ASSUME NEW outcome, outcome # HungUp, Return(outcome) PROVE NoneHungUp'
  <2> DEFINE finished == [outcome |-> outcome, returned |-> response']
  <2>1. /\ Len(calls) \in Nat /\ Len(calls') = Len(calls) + 1
        /\ calls'[Len(calls) + 1] = finished
        /\ \A i \in 1..Len(calls) : calls'[i] = calls[i]
    BY <1>1 DEF Return, TypeOK
  <2>2. finished.outcome # HungUp
    BY <1>1
  <2> QED
    BY <2>1, <2>2 DEF NoneHungUp
<1>2. CASE ReturnRefused
  BY <1>1, <1>2 DEF ReturnRefused, Refused, HungUp
<1>3. CASE ReturnAnswer
  BY <1>1, <1>3 DEF ReturnAnswer, Answered, HungUp
<1>4. CASE ReturnNoContent
  BY <1>1, <1>4 DEF ReturnNoContent, Answered, HungUp
<1>5. CASE ReturnHungUp
  BY <1>5 DEF ReturnHungUp, Closed
<1>6. CASE UNCHANGED calls
  BY <1>6 DEF NoneHungUp
<1> QED
  BY <1>2, <1>3, <1>4, <1>5, <1>6 DEF Next, PeerStep, StartCall, LinkUp, vars

\* The status of a success is that of no other outcome.
LEMMA OwnSuccess ==
    ASSUME TypeOK, fresh_client \/ NoneHungUp, EachCallReturnsItsOwnOutcome
    PROVE  SuccessIsThisCalls
<1> SUFFICES ASSUME NEW i \in 1..Len(calls), calls[i].returned = OK
             PROVE  calls[i].outcome = Answered(OK)
  BY DEF SuccessIsThisCalls
<1>1. calls[i].outcome \in Outcomes
  <2> DEFINE Finished == [outcome : Outcomes, returned : ResponseCodes]
  <2>1. calls \in Seq(Finished)
    BY DEF TypeOK
  <2>2. \A finished \in Finished : finished.outcome \in Outcomes
    OBVIOUS
  <2> HIDE DEF Finished
  <2> QED
    BY <2>1, <2>2
<1>2. calls[i].outcome.status = OK
  BY DEF NoneHungUp, EachCallReturnsItsOwnOutcome
<1> QED
  BY <1>1, <1>2
  DEF Outcomes, Answered, Refused, HungUp, OK, BAD_REQUEST, NOT_FOUND, NO_CONTENT

\* A success is the call's own when the client was made for it, or when the peer
\* answers whatever it has accepted: the leak needs both a shared client and a
\* close without an answer.
THEOREM SuccessIsOwn ==
    Spec /\ (fresh_client \/ ~PeerHangsUp) => []SuccessIsThisCalls
<1> DEFINE Safe == fresh_client \/ (~PeerHangsUp /\ NoneHungUp)
<1>1. Init /\ (fresh_client \/ ~PeerHangsUp) => Safe
  BY DEF Init, NoneHungUp
<1>2. TypeOK /\ Safe /\ [Next]_vars => Safe'
  <2> SUFFICES ASSUME TypeOK, Safe, [Next]_vars PROVE Safe'
    OBVIOUS
  <2>1. fresh_client' = fresh_client
    BY DEF Next, vars, PeerStep, StartCall, LinkUp, ReturnRefused, ReturnAnswer,
       ReturnNoContent, ReturnHungUp, Return
  <2> QED
    BY <2>1, AnsweredNext
<1>3. TypeOK /\ Safe /\ EachCallReturnsItsOwnOutcome => SuccessIsThisCalls
  BY OwnSuccess
<1> QED
  BY <1>1, <1>2, <1>3, TypeCorrect, CallsKeptApart, PTL DEF Spec

===============================================================================
