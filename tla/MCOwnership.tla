---------------------------- MODULE MCOwnership ----------------------------
(***************************************************************************)
(* Small instances of Ownership: one organisation with its projects        *)
(* container and one project, paths as sequences of segments.              *)
(***************************************************************************)
EXTENDS Ownership, Sequences, SequencesExt, TLC

CONSTANTS
    Org,      \* the programs
    Depth     \* the length of the longest path

Programs == <<"programs">>
Program(o) == <<"programs", o>>
Projects(o) == <<"programs", o, "projects">>
Project(o) == <<"programs", o, "projects", "p">>

MCPath == {p \in {Programs} \cup UNION {{Program(o), Projects(o), Project(o)} : o \in Org} :
              Len(p) <= Depth}
MCNoPath == <<>>
MCBelow == [p \in MCPath |-> {q \in MCPath : IsPrefix(p, q)}]
MCParent == [p \in MCPath |-> Front(p)]
MCContainer == [p \in MCPath |->
                    LET q == Append(p, "projects") IN IF q \in MCPath THEN q ELSE MCNoPath]
\* '^/programs$' and '^/programs/[^/]+/projects$'
MCTemplateFor == [p \in MCPath |-> IF p = Programs THEN "gen3-program"
                                   ELSE IF Len(p) = 3 THEN "gen3-project"
                                   ELSE "none"]
MCSeed == {Programs}
MCGroup == {"administrators"}

Symmetry == Permutations(Proc) \cup Permutations(User \ Admins)
============================================================================
