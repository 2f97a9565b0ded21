---------------------------- MODULE MCStatements ---------------------------
(***************************************************************************)
(* Small instances of Statements: one program a, its container and one     *)
(* project in it.                                                          *)
(***************************************************************************)
EXTENDS Statements, TLC

CONSTANTS t1, t2

MCPath == {"a", "a.projects", "a.projects.p"}
MCRoot == "programs"
MCBelow == [p \in MCPath |->
               CASE p = "a" -> MCPath
                 [] p = "a.projects" -> MCPath \ {"a"}
                 [] OTHER -> {p}]
MCParent == [p \in MCPath |->
                CASE p = "a" -> MCRoot
                  [] p = "a.projects" -> "a"
                  [] OTHER -> "a.projects"]
MCContainer == [p \in MCPath |-> IF p = "a" THEN "a.projects" ELSE MCRoot]

\* What a create of p by u has left, and what is left of it once an ancestor
\* of p was deleted: policies, roles and grants that no resource refers to.
Made(p, u) ==
    LET R == {Resource(q, "seed") : q \in WithContainer(p)}
        N == {Policy(k, p, "seed") : k \in {"owner", "admin"}}
        o == Policy("owner", p, "seed")
        r == Resource(p, "seed")
    IN  R \cup N \cup {RoleLink(n) : n \in N} \cup {Link(n, q) : n \in N, q \in R}
          \cup {Metadata(n, r) : n \in N} \cup {Usr(u), Grant(u, o), Binding(u, o, r)}

LeftOver(p, u) == {x \in Made(p, u) : x.tab \in {"usr", "policy", "policy_role", "usr_policy"}}

Ask(op, p, u) == [op |-> op, path |-> p, user |-> u]

Asked == <<Ask("create", "a", "u1"), Ask("create", "a.projects.p", "u2"),
           Ask("addOwner", "a", "u1"), Ask("addOwner", "a.projects", "u2"),
           Ask("addOwner", "a.projects.p", "u2"),
           Ask("removeOwner", "a", "u1"), Ask("removeOwner", "a.projects.p", "u2"),
           Ask("delete", "a", "u1"), Ask("delete", "a.projects", "u1"),
           Ask("delete", "a.projects.p", "u1"),
           Ask("genericDelete", "a", "u1"), Ask("genericDelete", "a.projects", "u1")>>

\* Every pair of requests, one of its two orders.
MCRequests ==
    {(t1 :> Asked[i]) @@ (t2 :> Asked[j]) : <<i, j>> \in
        {x \in (1 .. Len(Asked)) \X (1 .. Len(Asked)) : x[1] <= x[2]}}
MCSeeds == {LeftOver("a.projects.p", "u1"),
            Made("a", "u1") \cup LeftOver("a.projects.p", "u1")}

\* Two requests for one owner of a project that stands.
MCOwnerRequests == {(t1 :> Ask("addOwner", "a.projects.p", "u2"))
                        @@ (t2 :> Ask("removeOwner", "a.projects.p", "u2"))}
MCOwnerSeeds == {Made("a", "u1") \cup Made("a.projects.p", "u1")}
============================================================================
