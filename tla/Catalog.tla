------------------------------ MODULE Catalog ------------------------------
(***************************************************************************)
(* The catalog endpoints (internal/httpapi/catalog_handlers.go and the     *)
(* stores behind them): generic create, update and delete of resources,    *)
(* policies and roles, over the tables of the ownership service.           *)
(*                                                                         *)
(* These endpoints authorize nobody; what keeps them from undoing          *)
(* generated ownership is the protected flag (internal/authz/protection).  *)
(* Every handler is one transaction here; a refused request changes        *)
(* nothing and is no step.  POST /resource?p, and PUT /bulk/policy, are    *)
(* sequences of the single-item transactions below.                        *)
(***************************************************************************)
EXTENDS Ownership

CONSTANTS
    PolicyInput,   \* the bodies of POST and PUT /policy under consideration
    RoleInput      \* the bodies of POST and PUT /role under consideration

\* Paths are finite: a path is not under itself, a proper descendant's parent
\* is still a descendant, and going up ends.
ASSUME DepthAssumption ==
    /\ \A p \in Path : Parent[p] \notin Below[p]
    /\ \A p \in Path : \A q \in Below[p] \ {p} : Parent[q] \in Below[p]
    /\ \A S \in SUBSET Path : S # {} => \E s \in S : Parent[s] \notin S

ASSUME PolicyInputAssumption ==
    \A b \in PolicyInput :
        /\ b.name \in Policy
        /\ b.resources \subseteq Path /\ b.resources # {}
        /\ b.roles \subseteq Role /\ b.roles # {}

\* The permissions of a body by name.  Of two with one name POST keeps the
\* first and PUT the last, so such a body does what a body without one of the
\* two does.
ASSUME RoleInputAssumption ==
    \A b \in RoleInput :
        /\ b.name \in Role
        /\ \E names \in (SUBSET Method) \ {{}} : b.permissions \in [names -> Method]

(***************************************************************************)
(* Protection.                                                             *)
(***************************************************************************)

\* GeneratedPolicyIsProtected: only admin policies are generated with the
\* flag set, and the flag goes with the metadata row.
GeneratedPolicyIsProtected(n) ==
    n.kind = "admin" /\ \E t \in Template : <<n, t>> \in generated

\* ResourceHasProtectedOwnership: a protected policy on exactly this path.
ResourceHasProtectedOwnership(p) ==
    \E l \in policyResource : l[2] = p /\ GeneratedPolicyIsProtected(l[1])

(***************************************************************************)
(* Resources.                                                              *)
(***************************************************************************)

\* The resource trees a body rooted at p can describe.
Tree(p) == {B \in SUBSET Below[p] : p \in B /\ \A q \in B \ {p} : Parent[q] \in B}

\* Mutant: the trigger is gone.
NoTrigger(p) == TRUE

\* The deferred trigger resource_has_parent.
HasParent(p) == Parent[p] = NoPath \/ Parent[p] \in resource

\* POST /resource: createRecursively, refused when any path is taken.
ResourceCreate(p, B) ==
    /\ HasParent(p)
    /\ B \cap resource = {}
    /\ resource' = resource \cup B
    /\ UNCHANGED <<role, permission, policy, policyResource, policyRole, generated,
                   usr, usrPolicy, grp, usrGrp, grpPolicy, ownerBinding,
                   adminBinding, req, made>>

\* The resources of the body B that updateInDb gets to.  It goes down the tree
\* in the order of the body and gives up at a subresource without a name,
\* leaving out what follows; the handler drops the error and commits.  When it
\* gives up below y, every subtree it has left behind is complete.
Visited(p, B) ==
    {V \in Tree(p) : V \subseteq B
                     /\ \E y \in V : \A x \in V : y \in Below[x] \/ Below[x] \cap B \subseteq V}

\* The subtrees dropped without merge: those of the children of the visited
\* resources that the body does not mention.
Unmentioned(V, B) ==
    UNION {SubtreeOf(x) : x \in {y \in resource : Parent[y] \in V /\ y \notin B}}

\* PUT /resource: updateInDb, with or without the merge flag.
ResourceUpdate(p, B, V, merge) ==
    LET D == IF merge THEN {} ELSE Unmentioned(V, B) IN
    /\ HasParent(p)
    /\ resource' = (resource \ D) \cup V
    /\ Cascade({}, D)
    /\ UNCHANGED <<role, permission, usr, grp, usrGrp, req>>

\* DELETE /resource: deleteInDb and the recursive delete trigger.
ResourceDelete(p) ==
    /\ p \in resource
    /\ ~ ResourceHasProtectedOwnership(p)
    /\ DeleteRows({}, SubtreeOf(p))
    /\ UNCHANGED <<role, permission, usr, grp, usrGrp, req>>

(***************************************************************************)
(* Policies.                                                               *)
(***************************************************************************)

\* addResourcesAndRoles refuses a body that names a missing row.
Linkable(b) == b.resources \subseteq resource /\ b.roles \subseteq role

\* POST /policy.
PolicyCreate(b) ==
    /\ b.name \notin policy
    /\ Linkable(b)
    /\ policy' = policy \cup {b.name}
    /\ policyResource' = policyResource \cup ({b.name} \X b.resources)
    /\ policyRole' = policyRole \cup ({b.name} \X b.roles)
    /\ UNCHANGED <<resource, role, permission, generated, usr, usrPolicy, grp, usrGrp,
                   grpPolicy, ownerBinding, adminBinding, req, made>>

\* Mutant: PUT /policy does not ask whether the policy is protected.
OverwriteAnyPolicy(b) ==
    /\ b.name \in policy
    /\ Linkable(b)
    /\ policyResource' = {l \in policyResource : l[1] # b.name}
                             \cup ({b.name} \X b.resources)
    /\ policyRole' = {l \in policyRole : l[1] # b.name} \cup ({b.name} \X b.roles)
    /\ UNCHANGED <<resource, role, permission, policy, generated, usr, usrPolicy, grp,
                   usrGrp, grpPolicy, ownerBinding, adminBinding, req, made>>

\* PUT /policy and PUT /policy/{policyID}: updateInDb relinks the policy.
PolicyOverwrite(b) ==
    /\ ~ GeneratedPolicyIsProtected(b.name)
    /\ b.name \in policy
    /\ Linkable(b)
    /\ policyResource' = {l \in policyResource : l[1] # b.name}
                             \cup ({b.name} \X b.resources)
    /\ policyRole' = {l \in policyRole : l[1] # b.name} \cup ({b.name} \X b.roles)
    /\ UNCHANGED <<resource, role, permission, policy, generated, usr, usrPolicy, grp,
                   usrGrp, grpPolicy, ownerBinding, adminBinding, req, made>>

\* Mutant: DELETE /policy does not ask whether the policy is protected.
DeleteAnyPolicy(n) ==
    /\ n \in policy
    /\ DeleteRows({n}, {})
    /\ UNCHANGED <<role, permission, usr, grp, usrGrp, req>>

\* DELETE /policy/{policyID}.
PolicyDelete(n) ==
    /\ n \in policy
    /\ ~ GeneratedPolicyIsProtected(n)
    /\ DeleteRows({n}, {})
    /\ UNCHANGED <<role, permission, usr, grp, usrGrp, req>>

(***************************************************************************)
(* Roles.                                                                  *)
(***************************************************************************)

notRoles == <<resource, policy, policyResource, generated, usr, usrPolicy, grp,
              usrGrp, grpPolicy, ownerBinding, adminBinding, req, made>>

\* The permission rows of a body.
PermissionRows(b) == {Permission(b.name, m, b.permissions[m]) : m \in DOMAIN b.permissions}

\* POST /role, and PUT /role/{roleID} of a role that does not exist.
RoleCreate(b) ==
    /\ b.name \notin role
    /\ role' = role \cup {b.name}
    /\ permission' = permission \cup PermissionRows(b)
    /\ UNCHANGED <<policyRole, notRoles>>

\* PUT /role/{roleID}: the permissions of the body replace those of their
\* names, the others stay.
RoleOverwrite(b) ==
    /\ b.name \in role
    /\ permission' = {x \in permission : x.role # b.name \/ x.name \notin DOMAIN b.permissions}
                         \cup PermissionRows(b)
    /\ UNCHANGED <<role, policyRole, notRoles>>

\* DELETE /role/{roleID}: any role, with its permissions and its links to
\* policies.
RoleDelete(r) ==
    /\ r \in role
    /\ role' = role \ {r}
    /\ permission' = {x \in permission : x.role # r}
    /\ policyRole' = {l \in policyRole : l[2] # r}
    /\ UNCHANGED notRoles

----------------------------------------------------------------------------
ResourceStep ==
    \/ \E p \in Path : ResourceDelete(p)
    \/ \E p \in Path : \E B \in Tree(p) :
           \/ ResourceCreate(p, B)
           \/ \E V \in Visited(p, B), merge \in BOOLEAN : ResourceUpdate(p, B, V, merge)

PolicyStep ==
    \/ \E b \in PolicyInput : PolicyCreate(b) \/ PolicyOverwrite(b)
    \/ \E n \in policy : PolicyDelete(n)

RoleStep ==
    \E b \in RoleInput : RoleCreate(b) \/ RoleOverwrite(b) \/ RoleDelete(b.name)

CatalogStep == ResourceStep \/ PolicyStep \/ RoleStep

CatalogNext == Next \/ CatalogStep

CatalogSpec == Init /\ [][CatalogNext]_vars

----------------------------------------------------------------------------
(* Properties.                                                             *)

\* A protected policy leaves the catalog, or loses its flag, only together
\* with the resource it was generated for, whatever endpoints run meanwhile.
ProtectedPoliciesStay ==
    [][\A n \in policy :
          GeneratedPolicyIsProtected(n) /\ ~ GeneratedPolicyIsProtected(n)'
              => n.path \notin resource']_vars
============================================================================
