---------------------------- MODULE PackageRegistry ----------------------------
(***************************************************************************)
(* What the hub promises its clients, with no server, process or network in *)
(* it.  Clients' exchanges run side by side; each request takes effect in a *)
(* single step somewhere between being sent and being answered, or is lost  *)
(* before or after that step.  The registry is write-once: a row that was   *)
(* published is there for good, and a second publication of its key is a    *)
(* conflict.                                                               *)
(***************************************************************************)
EXTENDS Packages

CONSTANTS
    Exchanges,      \* a request and its response, on a connection of a client
    Requests        \* the requests the clients may send

VARIABLES
    rows,           \* what is published
    state,          \* of each exchange
    request,        \* of each exchange
    response        \* of each exchange

registryVars == <<rows, state, request, response>>

States == {"unused", "pending", "decided", "answered", "lost"}

RegistryTypeOK ==
    /\ rows \subseteq Row
    /\ state \in [Exchanges -> States]
    /\ request \in [Exchanges -> Requests \cup {NoRequest}]
    /\ response \in [Exchanges -> Response]

RegistryInit ==
    /\ rows = {}
    /\ state = [x \in Exchanges |-> "unused"]
    /\ request = [x \in Exchanges |-> NoRequest]
    /\ response = [x \in Exchanges |-> NoResponse]

-------------------------------------------------------------------------------
Invoke(x, r) ==
    /\ state[x] = "unused"
    /\ state' = [state EXCEPT ![x] = "pending"]
    /\ request' = [request EXCEPT ![x] = r]
    /\ UNCHANGED <<rows, response>>

Decide(x, status, shown) ==
    /\ state[x] = "pending"
    /\ state' = [state EXCEPT ![x] = "decided"]
    /\ response' = [response EXCEPT ![x] = [status |-> status, rows |-> shown]]
    /\ UNCHANGED request

\* A well-formed publication of a new key is stored.
Publish(x) ==
    /\ request[x].kind = "publish"
    /\ request[x].form = "ok"
    /\ RowsAt(rows, request[x]) = {}
    /\ rows' = rows \cup {RowOf(request[x])}
    /\ Decide(x, OK, {})

\* A publication of a key that is taken.
Conflict(x) ==
    /\ request[x].kind = "publish"
    /\ RowsAt(rows, request[x]) # {}
    /\ Decide(x, CONFLICT, {})
    /\ UNCHANGED rows

\* A publication that is malformed, or whose author is not recognised.
Refuse(x) ==
    /\ request[x].kind = "publish"
    /\ \E status \in {BAD_REQUEST, UNAUTHORIZED, INTERNAL_SERVER_ERROR} : Decide(x, status, {})
    /\ UNCHANGED rows

\* A GET by name sees the registry as it is at this step.
Fetch(x) ==
    /\ request[x].kind = "fetch"
    /\ LET shown == FetchedRows(rows, request[x])
       IN  Decide(x, IF shown = {} THEN NOT_FOUND ELSE OK, shown)
    /\ UNCHANGED rows

\* A search does not change the registry.  The hub keeps this for texts without a
\* quote: CpmHub's PlainSearches is what its refinement assumes.
Search(x) ==
    /\ request[x].kind = "search"
    /\ \/ Decide(x, OK, FoundRows(rows, request[x]))
       \/ Decide(x, BAD_REQUEST, {})
    /\ UNCHANGED rows

\* Registrations and stray requests do not concern the registry.
Elsewhere(x) ==
    /\ request[x].kind \in {"register", "stray"}
    /\ \E status \in {OK, NO_CONTENT, BAD_REQUEST, NOT_FOUND, CONFLICT,
                      INTERNAL_SERVER_ERROR} : Decide(x, status, {})
    /\ UNCHANGED rows

Answer(x) ==
    /\ state[x] = "decided"
    /\ state' = [state EXCEPT ![x] = "answered"]
    /\ UNCHANGED <<rows, request, response>>

\* Exchanges whose client is gone, or all those a dying server held.
Lose(X) ==
    /\ \A x \in X : state[x] \in {"pending", "decided"}
    /\ state' = [x \in Exchanges |-> IF x \in X THEN "lost" ELSE state[x]]
    /\ UNCHANGED <<rows, request, response>>

RegistryNext ==
    \/ \E x \in Exchanges :
           \/ \E r \in Requests : Invoke(x, r)
           \/ Publish(x) \/ Conflict(x) \/ Refuse(x)
           \/ Fetch(x) \/ Search(x) \/ Elsewhere(x)
           \/ Answer(x)
    \/ \E X \in SUBSET Exchanges : Lose(X)

RegistrySpec == RegistryInit /\ [][RegistryNext]_registryVars

===============================================================================
