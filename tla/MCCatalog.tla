----------------------------- MODULE MCCatalog -----------------------------
(***************************************************************************)
(* Small instances of Catalog, on the resource trees of MCOwnership.       *)
(***************************************************************************)
EXTENDS Catalog, MCOwnership

\* Requests that aim at the generated policies of a program: one makes its
\* owner policy an ordinary site-wide reader, one moves its admin policy.
MCPolicyInput ==
    UNION {{[name |-> OwnerPolicy(Program(o)), resources |-> {Programs}, roles |-> {"reader"}],
            [name |-> AdminPolicy(Program(o)), resources |-> {Programs}, roles |-> {OwnerRole}]}
              : o \in Org}

\* The administrator role as it came and with nothing of use, and the owner
\* role with its shipped permission to manage owners giving something else.
MCRoleInput ==
    {[name |-> AdminRole, permissions |-> [m \in {"*"} |-> "*"]],
     [name |-> AdminRole, permissions |-> [m \in {"*"} |-> "other"]],
     [name |-> OwnerRole, permissions |-> [m \in {"manage-owners"} |-> "other"]]}
============================================================================
