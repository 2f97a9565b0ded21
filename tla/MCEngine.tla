------------------------------ MODULE MCEngine ------------------------------
(***************************************************************************)
(* Small instances of Grants and Engine: one person in two spellings, a    *)
(* program with the owner policy on a project of it and a reading policy   *)
(* on the program, and a bounded number of requests.                       *)
(***************************************************************************)
EXTENDS Engine, TLC

\* The bound on requests.
CONSTANT MaxCalls

\* The requests so far.
VARIABLE calls

MCPath == {"a", "a.p"}
MCBelow == ("a" :> MCPath) @@ ("a.p" :> {"a.p"})
MCLower == [n \in {"Ann", "ann"} |-> "ann"]
MCLinks == {<<"owner.p", "a.p">>, <<"read.a", "a">>}
Read == <<"sheepdog", "read">>
Everything == <<"*", "*">>
MCAction == {Read, Everything, CreateDescendant}
MCPermission == ("owner.p" :> [any |-> Everything]) @@ ("read.a" :> [read |-> Read])

MCInit == Init /\ calls = 0

MCNext ==
    \/ calls < MaxCalls /\ calls' = calls + 1 /\ Request
    \/ (Tick \/ Job) /\ UNCHANGED calls

MCSpec == MCInit /\ [][MCNext]_<<vars, calls>>
============================================================================
