----------------------------- MODULE Ownership -----------------------------
(***************************************************************************)
(* The ownership service of Arborist (internal/ownership): creation of a   *)
(* missing child resource with materialised owner and admin policies, the  *)
(* owner endpoints and the ownership delete, over the tables they touch.   *)
(*                                                                         *)
(* Every endpoint works in two steps that other requests can come between: *)
(* an authorization check on the pool connection, then one transaction.    *)
(* A request that passed its check waits in req until its transaction.     *)
(*                                                                         *)
(* A table is the set of its rows, a link table a set of pairs.  Rows      *)
(* refer to a resource by id in the database; every such reference is      *)
(* ON DELETE CASCADE, so a path identifies the row as long as it exists.   *)
(***************************************************************************)
EXTENDS Naturals

CONSTANTS
    Path,          \* resource paths, in ltree form
    Below,         \* Below[p]: the paths at or under p  (ltree  <@ )
    Parent,        \* Parent[p]: p without its last segment
    Container,     \* Container[p]: p || '.projects'
    TemplateFor,   \* TemplateFor[p]: template whose parent pattern matches p
    NoPath,        \* no such path (in the model)
    User,          \* user names, already lower-cased
    Group,         \* group names besides the built-in groups
    AdminGroups,   \* default_admin_groups of the templates
    Admins,        \* the initial members of the admin groups
    Seed,          \* resources present before the first request
    Creators,      \* seed resources open to creation by any logged-in user
    Proc,          \* request-handling goroutines
    NoRequest      \* a goroutine with nothing to do

LoggedIn == "logged-in"

Anonymous == "anonymous"

\* The groups whose policies every authenticated user has.
BuiltIn == {LoggedIn, Anonymous}

AnyGroup == Group \cup BuiltIn

Template == {"gen3-program", "gen3-project"}

\* Only gen3-program has a child_container_name ('projects').
HasContainer(t) == t = "gen3-program"

ASSUME TreeAssumption ==
    /\ NoPath \notin Path
    /\ Below \in [Path -> SUBSET Path]
    /\ \A p \in Path : p \in Below[p]
    /\ \A p \in Path : \A q \in Below[p] : Below[q] \subseteq Below[p]
    /\ Parent \in [Path -> Path \cup {NoPath}]
    /\ \A p \in Path : Parent[p] # NoPath => p \in Below[Parent[p]]
    /\ Container \in [Path -> Path \cup {NoPath}]
    /\ \A p \in Path : Container[p] # NoPath => Parent[Container[p]] = p
    /\ TemplateFor \in [Path -> Template \cup {"none"}]
    /\ \A p \in Path : Parent[p] # NoPath /\ HasContainer(TemplateFor[Parent[p]])
                        => Container[p] # NoPath

ASSUME SubjectAssumption ==
    /\ BuiltIn \cap Group = {}
    /\ AdminGroups \subseteq Group
    /\ Admins \subseteq User
    /\ Seed \subseteq Path
    /\ \A p \in Seed : Parent[p] = NoPath \/ Parent[p] \in Seed
    /\ Creators \subseteq Seed

Role == {"owner", "administrator", "org-member", "program-creator",
         "reader", "writer"}

OwnerRole == "owner"

AdminRole == "administrator"

(***************************************************************************)
(* Policy names are deterministic: generated.<kind>.<path>.<role> for the  *)
(* generated ones, direct.<path>.<role> for the access macro's.  The path  *)
(* in a generated name is the path of the resource its metadata refers to  *)
(* (both OwnershipTarget constructors take PolicyPath from the resource    *)
(* path), and its kind decides the protected flag: admin policies are      *)
(* protected, owner policies are not.                                      *)
(***************************************************************************)
Kind == {"owner", "admin", "direct", "site"}

Policy == [kind : Kind, path : Path, role : Role]

OwnerPolicy(p) == [kind |-> "owner", path |-> p, role |-> OwnerRole]

AdminPolicy(p) == [kind |-> "admin", path |-> p, role |-> AdminRole]

\* logged-in-program-creators, from migration 2026-06-02.
CreatorPolicy(p) ==
    [kind |-> "site", path |-> p, role |-> "program-creator"]

(***************************************************************************)
(* A permission of a role has a name, its key within the role, and gives   *)
(* one method or all of them.  The methods told apart are those that the   *)
(* handlers here check; a shipped permission is named by the method it     *)
(* gives (owner_manage_owners is "manage-owners").                         *)
(***************************************************************************)
Checked == {"create-descendant", "manage-owners", "delete"}

Method == Checked \cup {"other", "*"}

Permission(r, name, method) == [role |-> r, name |-> name, method |-> method]

\* ensureOwnershipBaseRoles, and migration 2026-06-01 before it.
BasePermissions ==
    {Permission(OwnerRole, m, m) : m \in Checked}
        \cup {Permission("org-member", "create-descendant", "create-descendant")}

\* With those of migration 2026-06-02 and of the operator's administrator role.
ShippedPermissions ==
    BasePermissions
        \cup {Permission("program-creator", "create-descendant", "create-descendant"),
              Permission(AdminRole, "*", "*")}

Request == [op     : {"create", "addOwner", "removeOwner", "delete"},
            caller : User,
            path   : Path,
            user   : User]

ASSUME RequestAssumption == NoRequest \notin Request

VARIABLES
    resource,        \* resource
    role,            \* role
    permission,      \* permission: records of role, name and method
    policy,          \* policy
    policyResource,  \* policy_resource: <<policy, path>>
    policyRole,      \* policy_role: <<policy, role>>
    generated,       \* generated_policy_metadata: <<policy, template>>
    usr,             \* usr
    usrPolicy,       \* usr_policy: <<user, policy>>
    grp,             \* grp
    usrGrp,          \* usr_grp: <<user, group>>
    grpPolicy,       \* grp_policy: <<group, policy>>
    ownerBinding,    \* ownership_binding_metadata of kind owner: <<user, policy>>
    adminBinding,    \* ownership_binding_metadata of kind admin: <<group, policy>>
    req,             \* per goroutine: the request that passed its check
    made             \* auxiliary: resources made by the create endpoint and
                     \* not deleted since

tables == <<resource, role, permission, policy, policyResource, policyRole, generated,
            usr, usrPolicy, grp, usrGrp, grpPolicy, ownerBinding, adminBinding>>

vars == <<resource, role, permission, policy, policyResource, policyRole, generated,
          usr, usrPolicy, grp, usrGrp, grpPolicy, ownerBinding, adminBinding,
          req, made>>

\* Rows of the permission table: of existing roles, with key (role, name).
PermissionsOK ==
    /\ permission \subseteq [role : role, name : Method, method : Method]
    /\ \A x, y \in permission : x.role = y.role /\ x.name = y.name => x = y

TypeOK ==
    /\ resource \subseteq Path
    /\ role \subseteq Role
    /\ PermissionsOK
    /\ policy \subseteq Policy
    /\ policyResource \subseteq policy \X resource
    /\ policyRole \subseteq policy \X role
    /\ generated \subseteq policy \X Template
    /\ usr \subseteq User
    /\ usrPolicy \subseteq usr \X policy
    /\ grp \subseteq AnyGroup
    /\ usrGrp \subseteq usr \X grp
    /\ grpPolicy \subseteq grp \X policy
    /\ ownerBinding \subseteq User \X policy
    /\ adminBinding \subseteq AnyGroup \X policy
    /\ req \in [Proc -> Request \cup {NoRequest}]
    /\ made \subseteq resource

\* The database after the migrations and an operator's seed configuration.
Init ==
    /\ resource = Seed
    /\ role = Role
    /\ permission = ShippedPermissions
    /\ policy = {CreatorPolicy(p) : p \in Creators}
    /\ policyResource = {<<CreatorPolicy(p), p>> : p \in Creators}
    /\ policyRole = {<<CreatorPolicy(p), "program-creator">> : p \in Creators}
    /\ generated = {}
    /\ usr = User
    /\ usrPolicy = {}
    /\ grp = AnyGroup
    /\ usrGrp = Admins \X AdminGroups
    /\ grpPolicy = {<<LoggedIn, CreatorPolicy(p)>> : p \in Creators}
    /\ ownerBinding = {}
    /\ adminBinding = {}
    /\ req = [pr \in Proc |-> NoRequest]
    /\ made = {}

----------------------------------------------------------------------------
(* Authorization decisions (internal/authz/engine/authorize.go).           *)

\* A user holds the policies granted directly, through a group, or through
\* the built-in groups.
HoldsPolicy(u, n) ==
    \/ <<u, n>> \in usrPolicy
    \/ \E g \in grp : <<u, g>> \in usrGrp /\ <<g, n>> \in grpPolicy
    \/ \E g \in BuiltIn : <<g, n>> \in grpPolicy

\* A permission of the role gives the method.
RoleGives(r, m) == \E x \in permission : x.role = r /\ x.method \in {m, "*"}

PolicyPermits(n, m) == \E r \in role : <<n, r>> \in policyRole /\ RoleGives(r, m)

\* authorizeUser: a policy on the resource or on one of its ancestors.
AuthorizeUser(u, m, p) ==
    \E l \in policyResource :
        p \in Below[l[2]] /\ PolicyPermits(l[1], m) /\ HoldsPolicy(u, l[1])

\* AuthorizeUserExact: a policy on exactly this resource.
AuthorizeUserExact(u, m, p) ==
    \E l \in policyResource :
        p = l[2] /\ PolicyPermits(l[1], m) /\ HoldsPolicy(u, l[1])

\* requireDirectOwner looks at the metadata alone.
DirectOwner(u, p) == \E b \in ownerBinding : b[1] = u /\ b[2].path = p

RequireOwnershipControl(u, p) ==
    DirectOwner(u, p) \/ AuthorizeUser(u, "manage-owners", p)

RequireOwnershipDeleteControl(u, p) ==
    \/ DirectOwner(u, p)
    \/ AuthorizeUser(u, "manage-owners", p)
    \/ AuthorizeUser(u, "delete", p)

----------------------------------------------------------------------------
(* The authorization step of each endpoint.                                *)

Accept(pr, r) ==
    /\ req' = [req EXCEPT ![pr] = r]
    /\ UNCHANGED <<tables, made>>

CheckCreate(pr, c, p) ==
    /\ req[pr] = NoRequest
    /\ Parent[p] # NoPath
    /\ AuthorizeUserExact(c, "create-descendant", Parent[p])
    /\ Accept(pr, [op |-> "create", caller |-> c, path |-> p, user |-> c])

CheckOwnerChange(pr, c, p) ==
    /\ req[pr] = NoRequest
    /\ RequireOwnershipControl(c, p)
    /\ \E op \in {"addOwner", "removeOwner"}, u \in User :
           Accept(pr, [op |-> op, caller |-> c, path |-> p, user |-> u])

CheckDelete(pr, c, p) ==
    /\ req[pr] = NoRequest
    /\ RequireOwnershipDeleteControl(c, p)
    /\ Accept(pr, [op |-> "delete", caller |-> c, path |-> p, user |-> c])

----------------------------------------------------------------------------
(* Materialisation of generated policies (ownership_bindings.go).          *)

\* Mutant: a role that has to be created again gets no permissions.
EnsureNoPermissions(rows) == rows

\* ON CONFLICT (role_id, name) DO NOTHING: a permission of that name stays as
\* it is, whatever it gives.
EnsurePermissions(rows) ==
    rows \cup {b \in BasePermissions : \A x \in rows : x.role # b.role \/ x.name # b.name}

\* Mutant: the metadata of the generated policies is never written.
UpsertNothing(rows, N, t) == rows

\* ON CONFLICT (policy_id) keeps the template of an existing metadata row.
UpsertMetadata(rows, N, t) ==
    rows \cup {<<n, t>> : n \in {m \in N : \A r \in rows : r[1] # m}}

\* Mutant: the policy is attached to the parent as well.
AttachedToParent(p, t, existing) == {p} \cup ({Parent[p]} \cap existing)

\* The resources a generated policy of p is attached to: p and, when the
\* template has a child container that exists, the container.
Attached(p, t, existing) ==
    {p} \cup (IF HasContainer(t) THEN {Container[p]} \cap existing ELSE {})

\* ensureGeneratedUserBinding + attachGeneratedPolicyToChildContainer.
BindOwner(u, n, t, on) ==
    /\ usr' = usr \cup {u}
    /\ policy' = policy \cup {n}
    /\ policyResource' = policyResource \cup ({n} \X on)
    /\ policyRole' = policyRole \cup {<<n, OwnerRole>>}
    /\ generated' = UpsertMetadata(generated, {n}, t)
    /\ usrPolicy' = usrPolicy \cup {<<u, n>>}
    /\ ownerBinding' = ownerBinding \cup {<<u, n>>}

\* The policies of the admin groups: none when the template names no group.
AdminPolicies(p) == {AdminPolicy(p) : g \in AdminGroups}

\* The child and the container that createRecursively inserts with it.
NewResources(p, t) == {p} \cup (IF HasContainer(t) THEN {Container[p]} ELSE {})

----------------------------------------------------------------------------
(* The transaction step of each endpoint.                                  *)

Pending(pr, op) == req[pr] # NoRequest /\ req[pr].op = op

Done(pr) == req' = [req EXCEPT ![pr] = NoRequest]

\* Any error response rolls the transaction back.
Rollback(pr) == Done(pr) /\ UNCHANGED <<tables, made>>

\* Mutant: nothing checks the parent when the transaction commits.
CreateUnderAnything(p) ==
    LET t == TemplateFor[Parent[p]] IN
    \/ t = "none"
    \/ NewResources(p, t) \cap resource # {}
    \/ ~ AdminGroups \subseteq grp
    \/ AdminGroups # {} /\ AdminRole \notin role

\* No template for the parent, child already there, parent gone (deferred
\* constraint trigger at commit), admin group or admin role missing.
CreateRefused(p) ==
    LET t == TemplateFor[Parent[p]] IN
    \/ t = "none"
    \/ NewResources(p, t) \cap resource # {}
    \/ Parent[p] \notin resource
    \/ ~ AdminGroups \subseteq grp
    \/ AdminGroups # {} /\ AdminRole \notin role

\* materializeDescendantBindings and attachDescendantContainerPolicies.
MaterializeBindings(u, p, t, new) ==
    LET N == {OwnerPolicy(p)} \cup AdminPolicies(p) IN
    /\ usr' = usr \cup {u}
    /\ policy' = policy \cup N
    /\ policyResource' = policyResource \cup (N \X new)
    /\ policyRole' = policyRole
          \cup {<<OwnerPolicy(p), OwnerRole>>}
          \cup (AdminPolicies(p) \X {AdminRole})
    /\ generated' = UpsertMetadata(generated, N, t)
    /\ usrPolicy' = usrPolicy \cup {<<u, OwnerPolicy(p)>>}
    /\ ownerBinding' = ownerBinding \cup {<<u, OwnerPolicy(p)>>}
    /\ grpPolicy' = grpPolicy \cup (AdminGroups \X AdminPolicies(p))
    /\ adminBinding' = adminBinding \cup (AdminGroups \X AdminPolicies(p))

CreateOwnedDescendant(pr) ==
    /\ Pending(pr, "create")
    /\ LET p   == req[pr].path
           t   == TemplateFor[Parent[p]]
           new == NewResources(p, t)
       IN  \/ CreateRefused(p) /\ Rollback(pr)
           \/ /\ ~ CreateRefused(p)
              /\ role' = role \cup {OwnerRole, "org-member"}
              /\ permission' = EnsurePermissions(permission)
              /\ resource' = resource \cup new
              /\ MaterializeBindings(req[pr].caller, p, t, new)
              /\ made' = made \cup {p}
              /\ Done(pr)
              /\ UNCHANGED <<grp, usrGrp>>

\* templateForChildContainer: p is <parent>/<child>/projects for a
\* gen3-program parent.
IsContainer(p) ==
    \E q \in Path : /\ Container[q] = p
                    /\ Parent[q] # NoPath
                    /\ TemplateFor[Parent[q]] = "gen3-program"

\* resolveOwnershipTarget: the template of a generated policy of the resource,
\* else of one attached to it (LIMIT 1: any of them), else the template that
\* makes p a child container, else the one that allows p under its parent.
Targets(p) ==
    LET own      == {r[2] : r \in {g \in generated : g[1].path = p}}
        attached == {r[2] : r \in {g \in generated : <<g[1], p>> \in policyResource}}
        byParent == IF Parent[p] = NoPath THEN {} ELSE {TemplateFor[Parent[p]]} \ {"none"}
        managed(T) == {[template |-> t, on |-> Attached(p, t, resource)] : t \in T}
    IN  IF own # {} THEN managed(own)
        ELSE IF attached # {} THEN managed(attached)
        ELSE IF IsContainer(p) THEN {[template |-> "gen3-program", on |-> {p}]}
        ELSE managed(byParent)

AddOwnerRefused(p) ==
    p \notin resource \/ Targets(p) = {} \/ OwnerRole \notin role

AddOwner(pr) ==
    /\ Pending(pr, "addOwner")
    /\ LET p == req[pr].path
           u == req[pr].user
       IN  \/ AddOwnerRefused(p) /\ Rollback(pr)
           \/ /\ ~ AddOwnerRefused(p)
              /\ \E t \in Targets(p) : BindOwner(u, OwnerPolicy(p), t.template, t.on)
              /\ Done(pr)
              /\ UNCHANGED <<resource, role, permission, grp, usrGrp, grpPolicy, adminBinding, made>>

\* Mutant: the grant goes, the metadata row stays.
RemoveOwnerKeepsMetadata(pr) ==
    /\ Pending(pr, "removeOwner")
    /\ usrPolicy' = usrPolicy \ {b \in ownerBinding : b[1] = req[pr].user
                                                      /\ b[2].path = req[pr].path}
    /\ Done(pr)
    /\ UNCHANGED <<resource, role, permission, policy, policyResource, policyRole,
                   generated, usr, grp, usrGrp, grpPolicy, ownerBinding, adminBinding, made>>

\* The grant goes, then the metadata row that named it.
RemoveOwner(pr) ==
    /\ Pending(pr, "removeOwner")
    /\ LET rows == {b \in ownerBinding : b[1] = req[pr].user
                                         /\ b[2].path = req[pr].path}
       IN  /\ usrPolicy' = usrPolicy \ rows
           /\ ownerBinding' = ownerBinding \ rows
    /\ Done(pr)
    /\ UNCHANGED <<resource, role, permission, policy, policyResource, policyRole,
                   generated, usr, grp, usrGrp, grpPolicy, adminBinding, made>>

\* Mutant: usr_policy does not follow its policy.
CascadeKeepsGrants(N, D) ==
    /\ policy' = policy \ N
    /\ policyResource' = {r \in policyResource : r[1] \notin N /\ r[2] \notin D}
    /\ policyRole' = {r \in policyRole : r[1] \notin N}
    /\ generated' = {r \in generated : r[1] \notin N /\ r[1].path \notin D}
    /\ grpPolicy' = {r \in grpPolicy : r[2] \notin N}
    /\ ownerBinding' = {r \in ownerBinding : r[2] \notin N /\ r[2].path \notin D}
    /\ adminBinding' = {r \in adminBinding : r[2] \notin N /\ r[2].path \notin D}
    /\ made' = made \ D
    /\ UNCHANGED usrPolicy

\* Mutant: generated_policy_metadata does not follow its resource.
CascadeKeepsMetadata(N, D) ==
    /\ policy' = policy \ N
    /\ policyResource' = {r \in policyResource : r[1] \notin N /\ r[2] \notin D}
    /\ policyRole' = {r \in policyRole : r[1] \notin N}
    /\ generated' = {r \in generated : r[1] \notin N}
    /\ usrPolicy' = {r \in usrPolicy : r[2] \notin N}
    /\ grpPolicy' = {r \in grpPolicy : r[2] \notin N}
    /\ ownerBinding' = {r \in ownerBinding : r[2] \notin N /\ r[2].path \notin D}
    /\ adminBinding' = {r \in adminBinding : r[2] \notin N /\ r[2].path \notin D}
    /\ made' = made \ D

\* What the foreign keys take with the policies N and the resources D; D is
\* closed under descendants (resource_recursive_delete trigger).
Cascade(N, D) ==
    /\ policy' = policy \ N
    /\ policyResource' = {r \in policyResource : r[1] \notin N /\ r[2] \notin D}
    /\ policyRole' = {r \in policyRole : r[1] \notin N}
    /\ generated' = {r \in generated : r[1] \notin N /\ r[1].path \notin D}
    /\ usrPolicy' = {r \in usrPolicy : r[2] \notin N}
    /\ grpPolicy' = {r \in grpPolicy : r[2] \notin N}
    /\ ownerBinding' = {r \in ownerBinding : r[2] \notin N /\ r[2].path \notin D}
    /\ adminBinding' = {r \in adminBinding : r[2] \notin N /\ r[2].path \notin D}
    /\ made' = made \ D

\* DELETE FROM policy and FROM resource.
DeleteRows(N, D) == resource' = resource \ D /\ Cascade(N, D)

\* The rows that the DELETE of a path takes with it: nothing when the path
\* is not in the table.
SubtreeOf(p) == IF p \in resource THEN Below[p] \cap resource ELSE {}

\* Mutant: the delete takes every generated policy attached to the resource,
\* those of the resource whose container it is too.
DeleteAttachedPolicies(pr) ==
    /\ Pending(pr, "delete")
    /\ LET p == req[pr].path
           N == {n \in policy : <<n, p>> \in policyResource
                                 /\ \E t \in Template : <<n, t>> \in generated}
       IN  DeleteRows(N, SubtreeOf(p))
    /\ Done(pr)
    /\ UNCHANGED <<role, permission, usr, grp, usrGrp>>

\* deleteOwnershipResource: the generated policies of this very resource,
\* then the resource and, by the trigger, its descendants.
DeleteResource(pr) ==
    /\ Pending(pr, "delete")
    /\ LET p == req[pr].path
           N == {n \in policy : n.path = p /\ \E t \in Template : <<n, t>> \in generated}
       IN  DeleteRows(N, SubtreeOf(p))
    /\ Done(pr)
    /\ UNCHANGED <<role, permission, usr, grp, usrGrp>>

----------------------------------------------------------------------------
Check(pr) ==
    \E c \in User, p \in Path :
        \/ CheckCreate(pr, c, p)
        \/ CheckOwnerChange(pr, c, p)
        \/ CheckDelete(pr, c, p)

Commit(pr) ==
    \/ CreateOwnedDescendant(pr)
    \/ AddOwner(pr)
    \/ RemoveOwner(pr)
    \/ DeleteResource(pr)

Next == \E pr \in Proc : Check(pr) \/ Commit(pr)

Spec == Init /\ [][Next]_vars

----------------------------------------------------------------------------
(* Properties.                                                             *)

\* g holds the administrator role on p, and the metadata says so.
AdminRecovers(g, p) ==
    /\ AdminPolicy(p) \in policy
    /\ <<AdminPolicy(p), p>> \in policyResource
    /\ <<AdminPolicy(p), AdminRole>> \in policyRole
    /\ <<g, AdminPolicy(p)>> \in grpPolicy
    /\ <<g, AdminPolicy(p)>> \in adminBinding
    /\ \E t \in Template : <<AdminPolicy(p), t>> \in generated

\* Whatever owners do to each other, to containers and to neighbouring
\* resources, a resource made by the create endpoint keeps the recovery
\* binding of every admin group until it is itself deleted.
RecoveryKept == \A p \in made, g \in AdminGroups : AdminRecovers(g, p)

\* The part of recovery that the protected flag stands for: for as long as a
\* resource made by the create endpoint exists, its admin policy exists, is
\* attached to it and is marked as generated.  Deleting an ancestor takes the
\* resource and its protection together.
ProtectedPolicyKept ==
    \A p \in made : AdminGroups # {} =>
        /\ AdminPolicy(p) \in policy
        /\ <<AdminPolicy(p), p>> \in policyResource
        /\ \E t \in Template : <<AdminPolicy(p), t>> \in generated

\* requireDirectOwner trusts the metadata: whoever it names really holds the
\* owner role on that existing resource.
RecordedOwnersAreEffective ==
    \A b \in ownerBinding :
        /\ b[2].path \in resource
        /\ b \in usrPolicy
        /\ <<b[2], b[2].path>> \in policyResource
        /\ <<b[2], OwnerRole>> \in policyRole

\* The rows that outlive a deleted subtree are inert: a generated policy that
\* has lost its metadata is attached to no resource.
OrphanedPoliciesInert ==
    \A r \in policyResource :
        r[1].kind \in {"owner", "admin"} => \E t \in Template : <<r[1], t>> \in generated

\* A generated policy never reaches outside the subtree of its resource.
GrantsStayInSubtree ==
    \A r \in policyResource :
        r[1].kind \in {"owner", "admin"} => r[2] \in Below[r[1].path]

\* A generated policy has one metadata row, and its resource exists.
MetadataWellFormed ==
    \A r \in generated :
        /\ r[1].kind \in {"owner", "admin"}
        /\ r[1].path \in resource
        /\ \A s \in generated : s[1] = r[1] => s = r

\* A new child is owned by its creator alone: creation hands the owner role on
\* the child to no one else.
CreationGrantsCreatorOnly ==
    [][\A p \in made' \ made : \A u \in User :
          <<u, OwnerPolicy(p)>> \in usrPolicy'
            => \E pr \in Proc : Pending(pr, "create") /\ req[pr].caller = u]_vars

\* No resource outlives its parent, so every grant on an ancestor reaches it.
ParentsExist == \A p \in resource : Parent[p] = NoPath \/ Parent[p] \in resource

\* The promise of the service, in terms of the tables: the owners are those
\* that the metadata names, recovery is what the admin policies really give.
Contract == INSTANCE OwnershipContract WITH
    resources <- resource,
    owners <- {<<b[1], b[2].path>> : b \in ownerBinding},
    recovery <- {r \in AdminGroups \X Path : AdminRecovers(r[1], r[2])}

\* The service keeps its promise, whatever its requests overtake: a resource
\* is registered with one owner and its recovery at once, owners change one at
\* a time and touch nobody's recovery, and both end only with the resource.
ImplementsContract == Contract!Spec
============================================================================
