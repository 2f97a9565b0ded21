----------------------------- MODULE Statements -----------------------------
(***************************************************************************)
(* The transactions of the ownership endpoints and of the generic resource *)
(* delete, statement by statement, as PostgreSQL runs them: READ COMMITTED *)
(* (BeginTxx asks for nothing else), so that every statement sees what is  *)
(* committed when it starts, waits for row locks that others hold, and     *)
(* goes on with what they left.                                            *)
(*                                                                         *)
(* The caller of every request is an administrator of the root of the      *)
(* tree, whom no check refuses; the root is never deleted.  Groups and     *)
(* roles exist throughout; users come with the first ownership they get    *)
(* and stay.  A row stands for its id: a resource or policy row names the  *)
(* transaction that inserted it, so a path inserted again is another row.  *)
(* The rows of the admin groups come and go with the admin policy and its  *)
(* metadata and are left out.                                              *)
(***************************************************************************)
EXTENDS Naturals, Sequences

CONSTANTS
    Path,       \* resource paths below the root
    Below,      \* Below[p]: the paths at or under p
    Parent,     \* Parent[p]: p without its last segment, or Root
    Container,  \* Container[p]: p || '.projects', or Root
    Root,       \* no path of the model: the root, or no container
    User,       \* user names
    Tx,         \* transactions, one request each
    Requests,   \* the requests that may run together: functions on Tx
    Seeds,      \* the committed rows that the behaviours may start from
    None        \* no request, no row

Operations == {"create", "addOwner", "removeOwner", "delete", "genericDelete"}

ASSUME StatementsAssumption ==
    /\ Root \notin Path
    /\ Below \in [Path -> SUBSET Path]
    /\ \A p \in Path : p \in Below[p]
    /\ Parent \in [Path -> Path \cup {Root}]
    /\ Container \in [Path -> Path \cup {Root}]
    /\ \A p \in Path : Container[p] \in Below[p] \cup {Root}
    /\ "seed" \notin Tx
    /\ Requests \subseteq [Tx -> [op : Operations, path : Path, user : User]]

(***************************************************************************)
(* Rows.                                                                   *)
(***************************************************************************)
Resource(p, t) == [tab |-> "resource", path |-> p, by |-> t]
Policy(k, p, t) == [tab |-> "policy", kind |-> k, path |-> p, by |-> t]
Usr(u) == [tab |-> "usr", name |-> u]
Link(n, r) == [tab |-> "policy_resource", policy |-> n, resource |-> r]
RoleLink(n) == [tab |-> "policy_role", policy |-> n]
Metadata(n, r) == [tab |-> "generated_policy_metadata", policy |-> n, resource |-> r]
Grant(u, n) == [tab |-> "usr_policy", user |-> u, policy |-> n]
Binding(u, n, r) ==
    [tab |-> "ownership_binding_metadata", user |-> u, policy |-> n, resource |-> r]

ResourceRow == [tab : {"resource"}, path : Path, by : Tx \cup {"seed"}]
PolicyRow == [tab : {"policy"}, kind : {"owner", "admin"}, path : Path, by : Tx \cup {"seed"}]
Row == UNION {
    ResourceRow, PolicyRow,
    [tab : {"usr"}, name : User],
    [tab : {"policy_role"}, policy : PolicyRow],
    [tab : {"policy_resource", "generated_policy_metadata"},
     policy : PolicyRow, resource : ResourceRow],
    [tab : {"usr_policy"}, user : User, policy : PolicyRow],
    [tab : {"ownership_binding_metadata"}, user : User, policy : PolicyRow,
     resource : ResourceRow]}

\* The primary or unique key of a row.
Key(r) ==
    CASE r.tab = "resource" -> <<r.tab, r.path>>
      [] r.tab = "policy" -> <<r.tab, r.path, r.kind>>
      [] r.tab = "policy_resource" -> <<r.tab, r.policy, r.resource>>
      [] r.tab = "usr" -> <<r.tab, r.name>>
      [] r.tab \in {"policy_role", "generated_policy_metadata"} -> <<r.tab, r.policy>>
      [] r.tab \in {"usr_policy", "ownership_binding_metadata"} -> <<r.tab, r.policy, r.user>>

SameKey(r, x) == r.tab = x.tab /\ Key(r) = Key(x)

\* The rows that the foreign keys of a row refer to, all ON DELETE CASCADE;
\* users and roles, which nobody deletes here, apart.
Refs(r) ==
    CASE r.tab \in {"resource", "policy", "usr"} -> {}
      [] r.tab \in {"usr_policy", "policy_role"} -> {r.policy}
      [] OTHER -> {r.policy, r.resource}

\* Keys are unique and foreign keys hold.
Consistent(rows) ==
    /\ \A r \in rows : Refs(r) \subseteq rows
    /\ \A r, s \in rows : SameKey(r, s) => r = s

WithContainer(p) == {p} \cup ({Container[p]} \ {Root})

\* Every resource, containers apart, has an admin policy that is attached to
\* it and marked as generated for it.
Recoverable(rows) ==
    \A r \in rows : r.tab = "resource" /\ (\A p \in Path : Container[p] # r.path) =>
        \E n \in rows : /\ n.tab = "policy" /\ n.kind = "admin" /\ n.path = r.path
                        /\ {Link(n, r), Metadata(n, r)} \subseteq rows

\* Every policy has its role.
RolesLinked(rows) == \A n \in rows : n.tab = "policy" => RoleLink(n) \in rows

\* Every recorded owner holds the owner policy, and it is attached.
OwnersHold(rows) ==
    \A b \in rows : b.tab = "ownership_binding_metadata" =>
        {Grant(b.user, b.policy), Link(b.policy, b.resource)} \subseteq rows

\* Generated policies and their records are about one path, and an admin
\* policy is attached to what was created with the resource it is marked for.
Generated(rows) ==
    /\ \A m \in rows :
          /\ m.tab \in {"generated_policy_metadata", "ownership_binding_metadata"} =>
                m.policy.path = m.resource.path
          /\ m.tab = "ownership_binding_metadata" => m.policy.kind = "owner"
    /\ \A l \in rows : l.tab = "policy_resource" /\ l.policy.kind = "admin" =>
          \E m \in rows : /\ m.tab = "generated_policy_metadata" /\ m.policy = l.policy
                          /\ m.resource.by = l.resource.by
                          /\ l.resource.path \in WithContainer(m.resource.path)

\* Behaviours start from what earlier requests have left.
ASSUME SeedsAssumption ==
    \A rows \in Seeds :
        /\ rows \subseteq Row /\ Consistent(rows)
        /\ \A x \in rows : x.tab \in {"resource", "policy"} => x.by = "seed"
        /\ Generated(rows) /\ Recoverable(rows) /\ OwnersHold(rows) /\ RolesLinked(rows)

(***************************************************************************)
(* The statements of each transaction, in order.  In front of "resource"   *)
(* stands the lookup of the path, and the container's insert follows it;   *)
(* creates are alone with each other there ("roles").                      *)
(***************************************************************************)
\* Mutant: the binding is written before the grant.
BindsBackwards ==
    <<"user", "ownerPolicy", "ownerLink", "ownerRole", "ownerMetadata", "binding", "grant",
      "ownerContainer">>

\* ensureGeneratedUserBinding, with ensureUser and ensureGeneratedPolicy, and
\* the container.
BindOwner ==
    <<"user", "ownerPolicy", "ownerLink", "ownerRole", "ownerMetadata", "grant", "binding",
      "ownerContainer">>

\* The same for the admin group.
BindAdmin == <<"adminPolicy", "adminLink", "adminRole", "adminMetadata", "adminContainer">>

Program(op) ==
    CASE op = "create"        -> <<"roles", "resource">> \o BindOwner \o BindAdmin
      [] op = "addOwner"      -> <<"target">> \o BindOwner
      [] op = "removeOwner"   -> <<"deleteGrants", "deleteBindings">>
      [] op = "delete"        -> <<"deletePolicies", "deleteResource">>
      [] op = "genericDelete" -> <<"protection", "deleteResource">>

Deletes == {"deleteGrants", "deleteBindings", "deletePolicies", "deleteResource"}

\* Mutant: ON CONFLICT DO NOTHING for the grant, which locks nothing.
UpdatingAllButGrants == {"ownerPolicy", "adminPolicy", "ownerMetadata", "adminMetadata", "binding"}

\* ON CONFLICT DO UPDATE; the user, the links and the roles say DO NOTHING.
Updating ==
    {"ownerPolicy", "adminPolicy", "ownerMetadata", "adminMetadata", "grant", "binding"}

VARIABLES
    db,      \* the committed rows
    call,    \* per transaction: its request
    pc,      \* per transaction: the number of its next statement; 0 once ended
    ins,     \* per transaction: the rows it has inserted
    del,     \* per transaction: the rows it has deleted
    upd,     \* per transaction: committed rows it has updated
    id,      \* per transaction: the resource row and the policy row it works on
    phase,   \* per transaction: where its DELETE statement is
    todo,    \* per transaction: the rows that this phase still has to delete
    batch,   \* per transaction: the rows whose triggers are to fire
    missed   \* auxiliary: what had not committed at the protection SELECT

own == <<ins, del, upd>>
statement == <<phase, todo, batch>>
vars == <<db, call, pc, ins, del, upd, id, phase, todo, batch, missed>>

Open(t) == pc[t] # 0

Statement(t) ==
    IF ~ Open(t) THEN "none"
    ELSE LET P == Program(call[t].op) IN IF pc[t] <= Len(P) THEN P[pc[t]] ELSE "commit"

\* What a statement of t sees.
Visible(t) == (db \ del[t]) \cup ins[t]

(***************************************************************************)
(* Locks.                                                                  *)
(***************************************************************************)
Others(t) == {s \in Tx \ {t} : Open(s)}

\* FOR KEY SHARE: the foreign keys of what a transaction has inserted.
Shares(s) == UNION {Refs(r) : r \in ins[s]}

\* The rows with the key of r.
Existing(t, r) == {x \in Visible(t) : SameKey(r, x)}

\* ensureRole updates the name of the owner role, a key: a lock against all
\* others, the foreign keys of policy_role included.
HoldsRole(s) == call[s].op = "create" /\ pc[s] > 1

SharesRole(s) == \E r \in ins[s] : r.tab = "policy_role" /\ r.policy.kind = "owner"

\* Whom an insert or upsert of r waits for: a row of the same key that is
\* being inserted, deleted or updated, a row it refers to being deleted, or
\* the owner role being updated.
WaitsToInsert(t, r) ==
    {s \in Others(t) : \/ \E x \in ins[s] \cup del[s] \cup upd[s] : SameKey(r, x)
                       \/ Existing(t, r) = {} /\ Refs(r) \cap del[s] # {}
                       \/ /\ Existing(t, r) = {} /\ HoldsRole(s)
                          /\ r.tab = "policy_role" /\ r.policy.kind = "owner"}

\* Whom a delete of the committed row x waits for.
WaitsToDelete(t, x) == {s \in Others(t) : x \in del[s] \cup upd[s] \cup Shares(s)}

\* Whom ensureRole waits for.
WaitsForRoles(t) == {s \in Others(t) : HoldsRole(s) \/ SharesRole(s)}

----------------------------------------------------------------------------
(* Beginning and end of a transaction.                                     *)

Init ==
    /\ db \in Seeds
    /\ call \in Requests
    /\ pc = [t \in Tx |-> 1]
    /\ ins = [t \in Tx |-> {}]
    /\ del = [t \in Tx |-> {}]
    /\ upd = [t \in Tx |-> {}]
    /\ id = [t \in Tx |-> [resource |-> None, policy |-> None]]
    /\ phase = [t \in Tx |-> "start"]
    /\ todo = [t \in Tx |-> {}]
    /\ batch = [t \in Tx |-> {}]
    /\ missed = [t \in Tx |-> {}]

\* The request is answered; its locks and what it kept in memory are gone.
End(t) ==
    /\ call' = [call EXCEPT ![t] = None]
    /\ pc' = [pc EXCEPT ![t] = 0]
    /\ ins' = [ins EXCEPT ![t] = {}]
    /\ del' = [del EXCEPT ![t] = {}]
    /\ upd' = [upd EXCEPT ![t] = {}]
    /\ id' = [id EXCEPT ![t] = [resource |-> None, policy |-> None]]
    /\ phase' = [phase EXCEPT ![t] = "start"]
    /\ batch' = [batch EXCEPT ![t] = {}]
    /\ missed' = [missed EXCEPT ![t] = {}]

\* Mutant: statements that have run stay when a later one fails.
RollbackKeepsStatements(t) ==
    /\ db' = Visible(t)
    /\ todo' = [s \in Tx |-> IF s = t THEN {} ELSE todo[s] \ del[t]]
    /\ End(t)

\* An error response, or a statement that fails: Transactify rolls back.
\* (Where deleteOwnershipResource drops the error of its second statement,
\* the server refuses the COMMIT that follows.)
Rollback(t) ==
    /\ End(t)
    /\ todo' = [todo EXCEPT ![t] = {}]
    /\ UNCHANGED db

\* resource_has_parent, deferred to the commit; it sees what is committed by
\* then and locks nothing.
HasParents(t) ==
    \A r \in ins[t] : r.tab = "resource" =>
        \/ Parent[r.path] = Root
        \/ \E x \in Visible(t) : x.tab = "resource" /\ x.path = Parent[r.path]

\* A row that is gone when a waiting DELETE gets to it is skipped.
Commit(t) ==
    /\ Statement(t) = "commit"
    /\ \/ ~ HasParents(t) /\ Rollback(t)
       \/ /\ HasParents(t)
          /\ db' = Visible(t)
          /\ todo' = [s \in Tx |-> IF s = t THEN {} ELSE todo[s] \ del[t]]
          /\ End(t)

\* The database connection, or the process, is lost.
Fail(t) == Open(t) /\ Rollback(t)

Advance(t) == pc' = [pc EXCEPT ![t] = @ + 1]

----------------------------------------------------------------------------
(* Lookups and inserts.                                                    *)

\* ensureRole: the first statement of a create that takes a lock.
EnsureRoles(t) ==
    /\ Statement(t) = "roles"
    /\ WaitsForRoles(t) = {}
    /\ Advance(t)
    /\ UNCHANGED <<db, call, own, id, statement, missed>>

NewRows(t) == {Resource(q, t) : q \in WithContainer(call[t].path)}

\* createDescendantResource.
InsertResource(t) ==
    /\ Statement(t) = "resource"
    /\ \/ Existing(t, Resource(call[t].path, t)) # {} /\ Rollback(t)
       \/ /\ \A r \in NewRows(t) : WaitsToInsert(t, r) = {}
          /\ \/ (\E r \in NewRows(t) : Existing(t, r) # {}) /\ Rollback(t)
             \/ /\ \A r \in NewRows(t) : Existing(t, r) = {}
                /\ ins' = [ins EXCEPT ![t] = NewRows(t)]
                /\ id' = [id EXCEPT ![t].resource = Resource(call[t].path, t)]
                /\ Advance(t)
                /\ UNCHANGED <<db, call, del, upd, statement, missed>>

\* resolveOwnershipTarget: the id of the resource, if there is one.
ResolveTarget(t) ==
    LET R == Existing(t, Resource(call[t].path, t)) IN
    /\ Statement(t) = "target"
    /\ \/ R = {} /\ Rollback(t)
       \/ \E r \in R :
             /\ id' = [id EXCEPT ![t].resource = r]
             /\ Advance(t)
             /\ UNCHANGED <<db, call, own, statement, missed>>

\* The row an upsert statement of t offers; the container is looked up first.
Offered(t) ==
    LET p == call[t].path
        n == id[t].policy
        r == id[t].resource
        C == {x \in Visible(t) : x.tab = "resource" /\ x.path = Container[p]}
    IN  CASE Statement(t) = "user" -> {Usr(call[t].user)}
          [] Statement(t) = "ownerPolicy" -> {Policy("owner", p, t)}
          [] Statement(t) = "adminPolicy" -> {Policy("admin", p, t)}
          [] Statement(t) \in {"ownerLink", "adminLink"} -> {Link(n, r)}
          [] Statement(t) \in {"ownerRole", "adminRole"} -> {RoleLink(n)}
          [] Statement(t) \in {"ownerMetadata", "adminMetadata"} -> {Metadata(n, r)}
          [] Statement(t) = "grant" -> {Grant(call[t].user, n)}
          [] Statement(t) = "binding" -> {Binding(call[t].user, n, r)}
          [] Statement(t) \in {"ownerContainer", "adminContainer"} -> {Link(n, c) : c \in C}
          [] OTHER -> {}

\* The id that RETURNING gives for a policy.
Returned(t, x) == IF x.tab = "policy" THEN [id EXCEPT ![t].policy = x] ELSE id

Upsert(t) ==
    /\ Statement(t) \in {BindOwner[i] : i \in DOMAIN BindOwner} \cup {BindAdmin[i] : i \in DOMAIN BindAdmin}
    /\ \/ \E r \in Offered(t) :
             /\ WaitsToInsert(t, r) = {}
             /\ \/ \E x \in Existing(t, r) :
                      /\ upd' = IF Statement(t) \in Updating
                                THEN [upd EXCEPT ![t] = @ \cup {x}] ELSE upd
                      /\ id' = Returned(t, x)
                      /\ Advance(t)
                      /\ UNCHANGED <<db, call, ins, del, statement, missed>>
                \/ /\ Existing(t, r) = {} /\ Refs(r) \subseteq Visible(t)
                   /\ ins' = [ins EXCEPT ![t] = @ \cup {r}]
                   /\ id' = Returned(t, r)
                   /\ Advance(t)
                   /\ UNCHANGED <<db, call, del, upd, statement, missed>>
                \/ /\ Existing(t, r) = {} /\ ~ Refs(r) \subseteq Visible(t)
                   /\ Rollback(t)
       \/ /\ Offered(t) = {}
          /\ Advance(t)
          /\ UNCHANGED <<db, call, own, id, statement, missed>>

----------------------------------------------------------------------------
(* Deletes.                                                                *)

\* Mutant: only the policies generated for the path itself are looked at.
ProtectedByOwnPolicy(p, rows) ==
    \E m \in rows : m.tab = "generated_policy_metadata" /\ m.policy.kind = "admin"
                   /\ m.resource.path = p

\* A protected policy is attached to exactly this path.
Protected(p, rows) ==
    \E l, m \in rows : /\ l.tab = "policy_resource" /\ l.resource.path = p
                       /\ m.tab = "generated_policy_metadata" /\ m.policy = l.policy
                       /\ l.policy.kind = "admin"

\* ResourceHasProtectedOwnership in deleteInDb: a SELECT without a lock.
CheckProtection(t) ==
    /\ Statement(t) = "protection"
    /\ \/ Protected(call[t].path, Visible(t)) /\ Rollback(t)
       \/ /\ ~ Protected(call[t].path, Visible(t))
          /\ missed' = [missed EXCEPT ![t] = Others(t)]
          /\ Advance(t)
          /\ UNCHANGED <<db, call, own, id, statement>>

\* The rows that a DELETE of t finds when it starts.
Selected(t) ==
    LET p == call[t].path
        V == Visible(t)
        B == {b \in V : /\ b.tab = "ownership_binding_metadata"
                        /\ b.resource.path = p /\ b.user = call[t].user}
    IN  CASE Statement(t) = "deleteGrants" ->
                 V \cap {Grant(b.user, b.policy) : b \in B}
          [] Statement(t) = "deleteBindings" -> B
          [] Statement(t) = "deletePolicies" ->
                 {m.policy : m \in {x \in V : /\ x.tab = "generated_policy_metadata"
                                              /\ x.resource.path = p}}
          [] Statement(t) = "deleteResource" ->
                 {x \in V : x.tab = "resource" /\ x.path = p}

StartDelete(t) ==
    /\ Statement(t) \in Deletes /\ phase[t] = "start"
    /\ todo' = [todo EXCEPT ![t] = Selected(t)]
    /\ phase' = [phase EXCEPT ![t] = "rows"]
    /\ UNCHANGED <<db, call, pc, own, id, batch, missed>>

\* The order of the rows is the planner's.
DeleteRow(t) ==
    /\ phase[t] \in {"rows", "cascade"}
    /\ \E x \in todo[t] :
          /\ WaitsToDelete(t, x) = {}
          /\ del' = [del EXCEPT ![t] = @ \cup {x}]
          /\ todo' = [todo EXCEPT ![t] = @ \ {x}]
          /\ batch' = IF phase[t] = "rows" THEN [batch EXCEPT ![t] = @ \cup {x}] ELSE batch
    /\ UNCHANGED <<db, call, pc, ins, upd, id, phase, missed>>

\* Mutant: usr_policy has no foreign key.
DependentsButGrants(t) ==
    {y \in Visible(t) : y.tab # "usr_policy" /\ Refs(y) \cap batch[t] # {}}

\* What the foreign keys take along; these triggers fire before the one for
\* the children, RI_ConstraintTrigger_... being the smaller name.
Dependents(t) == {y \in Visible(t) : Refs(y) \cap batch[t] # {}}

\* resource_recursive_delete.
Children(t) ==
    {y \in Visible(t) : /\ y.tab = "resource"
                        /\ \E x \in batch[t] : x.tab = "resource" /\ y.path \in Below[x.path]}

FireTriggers(t) ==
    /\ todo[t] = {}
    /\ \/ /\ phase[t] = "rows" /\ batch[t] # {}
          /\ todo' = [todo EXCEPT ![t] = Dependents(t)]
          /\ phase' = [phase EXCEPT ![t] = "cascade"]
          /\ UNCHANGED <<pc, batch>>
       \/ /\ phase[t] = "cascade" /\ Children(t) # {}
          /\ todo' = [todo EXCEPT ![t] = Children(t)]
          /\ phase' = [phase EXCEPT ![t] = "rows"]
          /\ batch' = [batch EXCEPT ![t] = {}]
          /\ UNCHANGED pc
       \/ /\ \/ phase[t] = "rows" /\ batch[t] = {}
             \/ phase[t] = "cascade" /\ Children(t) = {}
          /\ phase' = [phase EXCEPT ![t] = "start"]
          /\ batch' = [batch EXCEPT ![t] = {}]
          /\ Advance(t)
          /\ UNCHANGED todo
    /\ UNCHANGED <<db, call, own, id, missed>>

----------------------------------------------------------------------------
(* Deadlocks.                                                              *)

\* Whom t waits for, or may be waiting for, in the statement it is at.
Waits(t) ==
    CASE Statement(t) = "roles" -> WaitsForRoles(t)
      [] Statement(t) = "resource" -> UNION {WaitsToInsert(t, r) : r \in NewRows(t)}
      [] Statement(t) \in Deletes -> UNION {WaitsToDelete(t, x) : x \in todo[t]}
      [] OTHER -> UNION {WaitsToInsert(t, r) : r \in Offered(t)}

Deadlocked(S) == S # {} /\ \A t \in S : Open(t) /\ Waits(t) \cap S # {}

\* Mutant: nobody looks for deadlocks.
NoVictim(t) == FALSE

\* After deadlock_timeout the server fails the statement of one of them.
Victim(t) == (\E S \in SUBSET Tx : t \in S /\ Deadlocked(S)) /\ Rollback(t)

----------------------------------------------------------------------------
Step(t) ==
    \/ EnsureRoles(t) \/ InsertResource(t) \/ ResolveTarget(t) \/ Upsert(t)
    \/ CheckProtection(t) \/ StartDelete(t) \/ DeleteRow(t) \/ FireTriggers(t)
    \/ Commit(t) \/ Victim(t)

Next == \E t \in Tx : Open(t) /\ (Step(t) \/ Fail(t))

Spec == Init /\ [][Next]_vars

\* As long as a statement can go on, one of them does, and the server looks
\* for deadlocks; no transaction is favoured.
LiveSpec == Spec /\ WF_vars(\E t \in Tx : Open(t) /\ Step(t))

----------------------------------------------------------------------------
(* Properties.                                                             *)

\* What PostgreSQL promises whatever the statements are: keys are unique and
\* foreign keys hold among the committed rows.
TypeOK ==
    /\ db \subseteq Row /\ Consistent(db)
    /\ call \in [Tx -> [op : Operations, path : Path, user : User] \cup {None}]
    /\ pc \in [Tx -> 0 .. 16]
    /\ \A t \in Tx : ins[t] \cup del[t] \cup upd[t] \cup todo[t] \cup batch[t] \subseteq Row
    /\ phase \in [Tx -> {"start", "rows", "cascade"}]

\* A committed resource that was made by a create has its admin policy,
\* attached and marked, and generated policies have their role, whatever ran
\* beside the statements that made them.
RecoveryComplete == Recoverable(db) /\ RolesLinked(db)

\* A recorded owner holds the owner policy, and it is attached: the statements
\* of AddOwner, RemoveOwner and of the deletes do not slip between each other
\* so as to leave a record behind.
RecordedOwnersHoldGrants == OwnersHold(db)

\* A deadlock needs a delete of a resource, or a user who is new: a create,
\* which has locked the owner role, waits at ensureUser for an AddOwner that is
\* inserting its user and waits, itself or through others, for the role.
DeadlocksExplained ==
    \A S \in SUBSET Tx : Deadlocked(S) =>
        \/ \E t \in S : call[t].op \in {"delete", "genericDelete"}
        \/ \E t, s \in S : /\ Statement(t) = "user" /\ call[t].op = "create"
                           /\ call[s].op = "addOwner" /\ Usr(call[t].user) \in ins[s]
                           /\ \E q \in S : Statement(q) = "ownerRole"

\* A generic delete commits the deletion of a protected resource only if the
\* protection comes from a transaction that had not committed when it looked.
ProtectionMissedOnlyInFlight ==
    [][\A t \in Tx : Statement(t) = "commit" /\ call[t].op = "genericDelete" /\ call'[t] = None =>
          \A l \in db \ db' :
              l.tab = "policy_resource" /\ l.policy.kind = "admin" /\ l.resource.path = call[t].path
                  => l.policy.by \in missed[t] \/ l.resource.by \in missed[t]]_vars

\* Every request is answered, deadlocks included.
RequestsEnd == \A t \in Tx : <>(~ Open(t))

\* "the path must have a valid parent which already exists in the table".
ParentsExist ==
    \A r \in db : r.tab = "resource" =>
        \/ Parent[r.path] = Root
        \/ \E x \in db : x.tab = "resource" /\ x.path = Parent[r.path]

\* "Removes an owner binding": a removal that leaves no record of the owner
\* leaves no grant of the owner policy either.
RemovalIsComplete ==
    [][\A t \in Tx : Statement(t) = "commit" /\ call[t].op = "removeOwner" /\ call'[t] = None =>
          \A g, m \in db' :
              /\ g.tab = "usr_policy" /\ g.user = call[t].user
              /\ m.tab = "generated_policy_metadata" /\ m.policy = g.policy
              /\ m.resource.path = call[t].path
              => \E b \in db' : /\ b.tab = "ownership_binding_metadata"
                               /\ b.user = g.user /\ b.policy = g.policy]_vars
============================================================================
