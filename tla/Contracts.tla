------------------------------- MODULE Contracts -------------------------------
(***************************************************************************)
(* What the bodies of POST requests must hold: the field rules of           *)
(* bits/rest_api/field_validation.cpp and                                   *)
(* templates/rest_api/TemplatesContract.cpp, the JSON contract of           *)
(* infrastructure/JsonContract.cpp, and what nlohmann::json throws on the   *)
(* way. A body is unparsable, or an array, or an object whose members are   *)
(* texts or something else.                                                *)
(***************************************************************************)
EXTENDS Texts, FiniteSets

Unparsable == [kind |-> "unparsable", texts |-> [m \in {} |-> ""], others |-> {}]

Array == [Unparsable EXCEPT !.kind = "array"]

Object(texts, others) == [kind |-> "object", texts |-> texts, others |-> others]

\* json.at(m), read as a text, for every m of names.
HasTexts(body, names) == body.kind = "object" /\ names \subseteq DOMAIN body.texts

-------------------------------------------------------------------------------
\* [a-zA-Z0-9_\-]
NameCharacters == Alphanumeric \cup {"_", "-"}

\* [a-zA-Z][a-zA-Z0-9_\-]+
ValidName(text) ==
    /\ Len(text) >= 2
    /\ Char(text, 1) \in Letters
    /\ CharactersOf(text) \subseteq NameCharacters

\* [a-zA-Z][a-zA-Z0-9-_\.]{3,20}
ValidUsername(text) ==
    /\ Len(text) \in 4 .. 21
    /\ Char(text, 1) \in Letters
    /\ CharactersOf(text) \subseteq NameCharacters \cup {"."}

Dots(text) == {i \in 1 .. Len(text) : Char(text, i) = "."}

\* \d+(\.\d+){...}, of which the number of numbers is one of `counts'
Dotted(text, counts) ==
    /\ text # ""
    /\ CharactersOf(text) \subseteq Digits \cup {"."}
    /\ {1, Len(text)} \cap Dots(text) = {}
    /\ \A i \in Dots(text) : i + 1 \notin Dots(text)
    /\ Cardinality(Dots(text)) + 1 \in counts

\* (-?[a-zA-Z0-9]{0,15})?
VersionSuffix(text) ==
    LET label == IF text # "" /\ Char(text, 1) = "-" THEN From(text, 2) ELSE text
    IN  Len(label) <= 15 /\ CharactersOf(label) \subseteq Alphanumeric

ValidVersion(text, counts) ==
    \E n \in 1 .. Len(text) :
        Dotted(SubSeq(text, 1, n), counts) /\ VersionSuffix(From(text, n + 1))

ValidBitVersion(text) == ValidVersion(text, 1 .. 3)

ValidTemplateVersion(text) == ValidVersion(text, {3})

ValidPayload(text) == CharactersOf(text) \subseteq Alphanumeric \cup {"=", "/", "+"}

-------------------------------------------------------------------------------
\* isValidPublicationData() of bits.
ValidBit(texts) ==
    /\ ValidName(texts["bit_name"])
    /\ ValidUsername(texts["username"])
    /\ ValidBitVersion(texts["version"])
    /\ ValidPayload(texts["payload"])

\* isValidPublicationData() of templates.
ValidTemplate(texts) ==
    /\ ValidName(texts["template_name"])
    /\ ValidUsername(texts["username"])
    /\ ValidTemplateVersion(texts["version"])
    /\ ValidPayload(texts["payload"])

\* JsonContract::validate() of required fields: assigning a member that is not a
\* text throws; contains() is false of an array.
Validate(body, fields) ==
    IF body.kind = "unparsable" \/ fields \cap body.others # {} THEN "exception"
    ELSE IF fields \subseteq DOMAIN body.texts THEN "valid" ELSE "invalid"

TemplateFields == {"username", "password", "template_name", "version", "payload"}

\* TemplatesContract::parsePost()
ParsePost(body) ==
    LET validity == Validate(body, TemplateFields)
    IN  IF validity = "valid" /\ ~ValidTemplate(body.texts) THEN "invalid" ELSE validity

\* Reading the members of a registration in their order: at() throws
\* out_of_range for a missing member and type_error for one that is not a text
\* or when the body is not an object.
UserFields == <<"username", "password", "email">>

RegistrationData(body) ==
    LET failing == {i \in 1 .. 3 : UserFields[i] \notin DOMAIN body.texts}
        first == CHOOSE i \in failing : \A j \in failing : i <= j
    IN  IF body.kind # "object" THEN "exception"
        ELSE IF failing = {} THEN "valid"
        ELSE IF UserFields[first] \in body.others THEN "exception" ELSE "invalid"

===============================================================================
