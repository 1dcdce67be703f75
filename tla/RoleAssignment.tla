----------------------------- MODULE RoleAssignment -----------------------------
(***************************************************************************)
(* What the console promises about adapters, with nothing of how it keeps  *)
(* it: a table of which adapter plays which role, changed one role at a    *)
(* time, in which an adapter is given to a role only while no other role   *)
(* holds it.                                                               *)
(***************************************************************************)
CONSTANTS
    Role, Adapter,
    None               \* no adapter

VARIABLE holds     \* [Role -> Adapter or None]

Init == holds = [r \in Role |-> None]

\* A role gives up its adapter, if it has one.
Release(r) == holds' = [holds EXCEPT ![r] = None]

\* A role gets an adapter nobody else holds, and gives up the one it had.
Assign(r, a) ==
    /\ \A s \in Role \ {r} : holds[s] # a
    /\ holds' = [holds EXCEPT ![r] = a]

Next == \E r \in Role : Release(r) \/ \E a \in Adapter : Assign(r, a)

Spec == Init /\ [][Next]_holds

\* What the table is for: no adapter plays two roles ("Prevent duplicate device
\* assignments across different roles", cli_engine.cpp:109).
OneRoleEach == \A r, s \in Role : r # s /\ holds[r] # None => holds[r] # holds[s]
================================================================================
