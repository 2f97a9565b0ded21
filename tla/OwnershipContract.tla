------------------------- MODULE OwnershipContract -------------------------
(***************************************************************************)
(* What the ownership service promises its users, without policies, roles, *)
(* bindings or requests: a tree of resources, the owners of each, and the  *)
(* admin groups that can recover it.                                       *)
(***************************************************************************)
CONSTANTS
    Path,         \* resource paths
    Below,        \* Below[p]: the paths at or under p
    Parent,       \* Parent[p]: the parent of p
    User,         \* users
    AdminGroups,  \* the groups that recover every registered resource
    Seed          \* the resources at the beginning

VARIABLES
    resources,    \* the resources there are
    owners,       \* <<user, path>>
    recovery      \* <<group, path>>

Init ==
    /\ resources = Seed
    /\ owners = {}
    /\ recovery = {}

\* A user registers p and with it, for a program, a container: the user is its
\* one owner, every admin group can recover it.
Register(u, p) ==
    /\ p \notin resources
    /\ Parent[p] \in resources
    /\ \E C \in {{}} \cup {{q} : q \in Below[p]} : resources' = resources \cup {p} \cup C
    /\ owners' = owners \cup {<<u, p>>}
    /\ recovery' = recovery \cup (AdminGroups \X {p})

AddOwner(u, p) ==
    /\ p \in resources
    /\ owners' = owners \cup {<<u, p>>}
    /\ UNCHANGED <<resources, recovery>>

RemoveOwner(u, p) ==
    /\ owners' = owners \ {<<u, p>>}
    /\ UNCHANGED <<resources, recovery>>

\* Resources go with everything below them and with all that was said of them.
Retire(p) ==
    /\ p \in resources
    /\ resources' = resources \ Below[p]
    /\ owners' = {o \in owners : o[2] \notin Below[p]}
    /\ recovery' = {r \in recovery : r[2] \notin Below[p]}

Next ==
    \E p \in Path :
        \/ \E u \in User : Register(u, p) \/ AddOwner(u, p) \/ RemoveOwner(u, p)
        \/ Retire(p)

Spec == Init /\ [][Next]_<<resources, owners, recovery>>
============================================================================
