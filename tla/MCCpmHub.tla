------------------------------- MODULE MCCpmHub -------------------------------
(***************************************************************************)
(* Small instances of CpmHub: the requests the clients choose from in each  *)
(* run, and the symmetry of the exchanges.                                 *)
(***************************************************************************)
EXTENDS CpmHub, TLC

CONSTANTS alice, bob, right, wrong, cest, a, b

Publication(table, version, user, password, payload, form) ==
    [kind |-> "publish", table |-> table, name |-> cest, version |-> version,
     user |-> user, password |-> password, payload |-> payload, form |-> form]

Get(table, version) ==
    [kind |-> "fetch", table |-> table, name |-> cest, version |-> version]

SearchFor(table, names, text) ==
    [kind |-> "search", table |-> table, names |-> names, text |-> text]

Registration(user, password, form) ==
    [kind |-> "register", user |-> user, password |-> password, form |-> form]

Stray(method) == [kind |-> "stray", method |-> method]

\* Two authors and a wrong password on one version, a second version, a lookup.
PublishRequests ==
    {Publication("bits", 1, alice, right, a, "ok"),
     Publication("bits", 1, bob, right, b, "ok"),
     Publication("bits", 1, alice, wrong, b, "ok"),
     Publication("bits", 2, bob, right, b, "ok"),
     Publication("bits", 2, bob, right, b, "invalid_field"),
     Get("bits", Latest), Get("bits", 1)}

\* Registrations of one name by two clients, malformed ones, and another name.
UserRequests ==
    {Registration(alice, right, "ok"), Registration(alice, wrong, "ok"),
     Registration(bob, right, "ok"), Registration(bob, right, "missing_field"),
     Registration(bob, right, "unparsable"),
     Stray("unhandled"), Stray("OPTIONS"), Stray("unknown"),
     Publication("bits", 1, alice, right, a, "ok")}

\* Publications whose look-up and insertion may fail, and every way to read.
StoreRequests ==
    {Publication("bits", 1, alice, right, a, "ok"),
     Publication("bits", 1, bob, right, b, "ok"),
     Publication("bits", 2, bob, right, b, "ok"),
     Publication("templates", 1, alice, right, a, "ok"),
     Get("bits", Latest), Get("bits", 1), Get("templates", 1),
     SearchFor("bits", {cest}, "plain")}

\* Publications that compete for a key, and every way to read, next to a search
\* whose text has a quote.
QuotedRequests ==
    {Publication("bits", 1, alice, right, a, "ok"),
     Publication("bits", 1, bob, right, a, "ok"),
     Publication("templates", 1, alice, right, a, "ok"),
     Get("bits", Latest), Get("bits", 1), Get("templates", 1),
     SearchFor("bits", {cest}, "plain"), SearchFor("bits", {}, "quoted")}

\* A request of every kind, for every way a handler may end.
EveryRequest ==
    {Publication("bits", 1, alice, right, a, form) : form \in Forms}
        \cup {Publication("templates", 1, alice, right, a, form) :
                  form \in {"ok", "unparsable", "missing_field"}}
        \cup {Publication("bits", 1, bob, right, b, "ok"),
              Publication("bits", 2, alice, wrong, a, "ok"),
              Registration(bob, right, "ok"), Registration(bob, right, "unparsable"),
              Registration(bob, right, "missing_field"),
              Get("bits", Latest), Get("templates", 1),
              SearchFor("bits", {cest}, "plain"), SearchFor("bits", {}, "plain"),
              SearchFor("bits", {}, "empty"), SearchFor("templates", {}, "empty"),
              Stray("unhandled"), Stray("OPTIONS"), Stray("unknown")}

\* Accounts of the authentication service.
BothAccounts == {<<alice, right>>, <<bob, right>>}

AliceOnly == {<<alice, right>>}

Symmetric == Permutations(Exchanges)

===============================================================================
