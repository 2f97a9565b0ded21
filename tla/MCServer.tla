------------------------------ MODULE MCServer -----------------------------
(***************************************************************************)
(* Small instances of the whole server, on the resource trees of           *)
(* MCOwnership, with a bounded number of requests of each kind.            *)
(***************************************************************************)
EXTENDS Access, MCCatalog

CONSTANTS
    MaxOther,     \* the bound on ownership, catalog and principal requests
    MaxGeneric,   \* on catalog and principal requests, and one less as soon
                  \* as there is an access request
    MaxAccess     \* on access requests

\* The requests so far.
VARIABLE calls

\* Besides the bodies of MCCatalog: a policy on all programs, and the direct
\* policy of a program made broad.
MCServerPolicyInput ==
    MCPolicyInput \cup
    UNION {{[name |-> DirectPolicy(Programs, "reader"), resources |-> {Programs}, roles |-> {"reader"}],
            [name |-> DirectPolicy(Program(o), "reader"), resources |-> {Program(o), Programs},
             roles |-> {"reader"}]} : o \in Org}

\* An empty administrators group, and everyone made a member of the built-in
\* group.
MCGroupInput == {[name |-> "administrators", users |-> {}, policies |-> {}],
                 [name |-> LoggedIn, users |-> User, policies |-> {}]}

Started(kind) == calls' = [calls EXCEPT ![kind] = @ + 1]

MCInit == AccessInit /\ calls = [ownership |-> 0, generic |-> 0, access |-> 0]

MCNext ==
    \/ /\ calls.ownership + calls.generic < MaxOther /\ Started("ownership")
       /\ \E pr \in Proc : Check(pr)
       /\ UNCHANGED access
    \/ /\ \E pr \in Proc : Commit(pr)
       /\ UNCHANGED <<access, calls>>
    \/ /\ calls.ownership + calls.generic < MaxOther /\ Started("generic")
       /\ calls.generic < IF calls.access = 0 THEN MaxGeneric ELSE MaxGeneric - 1
       /\ CatalogStep \/ UserStep \/ GroupStep
       /\ UNCHANGED access
    \/ /\ calls.access < MaxAccess /\ calls.generic < MaxGeneric /\ Started("access")
       /\ \E pr \in Proc, c \in User, p \in Path : CheckAccess(pr, c, p)
    \/ /\ \E pr \in Proc : GrantUserAccess(pr) \/ RevokeUserAccess(pr)
       /\ UNCHANGED calls

MCSpec == MCInit /\ [][MCNext]_<<vars, access, calls>>
============================================================================
