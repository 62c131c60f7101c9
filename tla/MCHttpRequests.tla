---------------------------- MODULE MCHttpRequests ----------------------------
(***************************************************************************)
(* The requests of a small instance of HttpRequests: authors who publish    *)
(* versions whose texts sort unlike their numbers, names that differ by     *)
(* case and by a wildcard, bodies that break each rule, and every route.    *)
(***************************************************************************)
EXTENDS HttpRequests

Post(table, body) == Request("POST", <<table>>, <<>>, {}, body)

FromPage(method, path) ==
    Request(method, path, <<>>, {"Origin", "Access-Control-Request-Headers"}, Unparsable)

Registration(username, password) ==
    Object([username |-> username, password |-> password, email |-> "a"], {})

Publication(username, name, version, payload) ==
    Object([username |-> username, password |-> "right", bit_name |-> name,
            template_name |-> name, version |-> version, payload |-> payload], {})

Alices(name, version) == Publication("alice", name, version, "ab=")

\* A body without a member, and with one that is not a text.
Without(body, member) ==
    [body EXCEPT !.texts = [m \in DOMAIN @ \ {member} |-> @[m]]]

NotText(body, member) == [Without(body, member) EXCEPT !.others = {member}]

Registrations ==
    {Registration("alice", "right"), Registration("alice", "wrong"),
     Registration("bob.2", "right"), Unparsable, Array,
     Without(Registration("carol", "right"), "email"),
     NotText(Registration("carol", "right"), "email")}

BitPublications ==
    {Alices("cest", "1.9"), Alices("cest", "1.10"), Alices("cest", "1.8"),
     Publication("bob.2", "c_st", "2.0.0-rc1", "a/"),
     Publication("bob.2", "Cest", "1.10", ""), Publication("bob.2", "cest", "1.8", ""),
     Alices("cest", "1..2"), Alices("cest", "1.2.3.4"), Alices("c", "1"),
     Alices("c/st", "1"), Publication("alice", "cest", "1", "!"),
     [Alices("cest", "3") EXCEPT !.texts["password"] = "wrong"],
     Without(Alices("cest", "3"), "payload"), NotText(Alices("cest", "3"), "version"),
     Array, Unparsable}

TemplatePublications ==
    {Alices("cest", "1.0.0"), Alices("cest", "1.0"), Array, Unparsable,
     Publication("bob.2", "cest", "1.0.0", "b"),
     [Alices("cest", "3.0.0") EXCEPT !.texts["password"] = "wrong"],
     Without(Alices("cest", "1.0.0"), "payload"),
     NotText(Alices("cest", "1.0.0"), "payload")}

Reads ==
    {Download("bits", "cest"), Download("bits", "c_st"), Download("bits", "c+st"),
     DownloadVersion("bits", "cest", "1.9"), DownloadVersion("bits", "cest", "7"),
     DownloadVersion("templates", "cest", "1.0.0"), Get(<<"templates">>, <<>>),
     Get(<<"templates", "cest">>, <<>>), Get(<<"users">>, <<>>),
     SearchFor("es"), SearchFor("c_s"), SearchFor("C%t"), SearchFor(""), Get(<<"bits">>, <<>>),
     Get(<<"bits">>, <<<<"name">>, <<"name", "st", "x">>, <<"name", "s">>, <<"name", "q">>>>),
     Get(<<"bits", "">>, <<>>),
     FromPage("GET", <<"bits", "cest">>), FromPage("GET", <<"bits">>),
     [FromPage("POST", <<"users">>) EXCEPT
         !.body = Without(Registration("carol", "right"), "email")],
     FromPage("POST", <<"users">>), FromPage("PUT", <<"bits">>),
     FromPage("OPTIONS", <<"templates", "cest", "1.0.0">>),
     FromPage("DELETE", <<"users">>), FromPage("GET", <<"plugins">>)}

SomeRequests ==
    {Post("users", body) : body \in Registrations}
        \cup {Post("bits", body) : body \in BitPublications}
        \cup {Post("templates", body) : body \in TemplatePublications}
        \cup Reads

===============================================================================
