---------------------------- MODULE MCSqliteTables ----------------------------
(***************************************************************************)
(* A small instance of SqliteTables: publications of two versions and an    *)
(* old row with the name of one of them.                                   *)
(***************************************************************************)
EXTENDS SqliteTables

CONSTANTS alice, bob, cest, v1, v2, a, b

Clients ==
    {[name |-> cest, version |-> v, user |-> u, payload |-> b] : v \in {v1, v2}, u \in {alice, bob}}

OldRelease == {[name |-> cest, version |-> v1, user |-> alice, payload |-> a]}

===============================================================================
