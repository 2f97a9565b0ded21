---------------------------- MODULE Principals -----------------------------
(***************************************************************************)
(* The user and group endpoints (internal/httpapi/principal_handlers.go,   *)
(* internal/authz/store/principal) over the tables that the ownership      *)
(* service and the catalog share with them.                                *)
(*                                                                         *)
(* Rows of usr_policy, usr_grp and grp_policy carry an authz_provider, and *)
(* a request with an X-AuthZ-Provider header touches only the rows of that *)
(* provider.  Providers are not part of this state: such a request takes   *)
(* some of the rows it could take.  Expiry dates are left out as well.     *)
(* A user's rows refer to the user by id, the ownership metadata by name.  *)
(***************************************************************************)
EXTENDS Catalog

\* The bodies of POST and PUT /group under consideration.
CONSTANT GroupInput

ASSUME GroupInputAssumption ==
    \A b \in GroupInput :
        /\ b.name \in AnyGroup /\ b.users \subseteq User /\ b.policies \subseteq Policy

catalog == <<resource, role, permission, policy, policyResource, policyRole, generated,
             ownerBinding, adminBinding, req, made>>

----------------------------------------------------------------------------
(* Users.                                                                  *)

\* POST /user.
UserCreate(u) ==
    /\ u \notin usr
    /\ usr' = usr \cup {u}
    /\ UNCHANGED <<catalog, usrPolicy, grp, usrGrp, grpPolicy>>

\* PATCH /user/{username}: the rows follow the id, the metadata does not.
UserUpdate(u, v) ==
    LET renamed(rows) == {<<IF r[1] = u THEN v ELSE r[1], r[2]>> : r \in rows} IN
    /\ u \in usr /\ v \notin usr
    /\ usr' = (usr \ {u}) \cup {v}
    /\ usrPolicy' = renamed(usrPolicy)
    /\ usrGrp' = renamed(usrGrp)
    /\ UNCHANGED <<catalog, grp, grpPolicy>>

\* DELETE /user/{username}, with the cascades.
UserDelete(u) ==
    /\ u \in usr
    /\ usr' = usr \ {u}
    /\ usrPolicy' = {r \in usrPolicy : r[1] # u}
    /\ usrGrp' = {r \in usrGrp : r[1] # u}
    /\ UNCHANGED <<catalog, grp, grpPolicy>>

\* POST /user/{username}/policy; the bulk form is a sequence of these.
UserGrantPolicy(u, n) ==
    /\ u \in usr /\ n \in policy
    /\ usrPolicy' = usrPolicy \cup {<<u, n>>}
    /\ UNCHANGED <<catalog, usr, grp, usrGrp, grpPolicy>>

\* DELETE /user/{username}/policy/{policyName} takes one row, DELETE
\* /user/{username}/policy takes those of the provider, or all.
UserRevoke(u, rows) ==
    /\ rows \subseteq {r \in usrPolicy : r[1] = u}
    /\ usrPolicy' = usrPolicy \ rows
    /\ UNCHANGED <<catalog, usr, grp, usrGrp, grpPolicy>>

----------------------------------------------------------------------------
(* Groups.                                                                 *)

\* attachUsrAndPolicy, after the rows in cleared are gone: every user and
\* policy must exist, and a row that is still there is a conflict.
AttachUsrAndPolicy(b, clearedUsers, clearedPolicies) ==
    LET keptUsers    == usrGrp \ clearedUsers
        keptPolicies == grpPolicy \ clearedPolicies
        newUsers     == b.users \X {b.name}
        newPolicies  == {b.name} \X b.policies
    IN  /\ b.users \subseteq usr /\ b.policies \subseteq policy
        /\ keptUsers \cap newUsers = {} /\ keptPolicies \cap newPolicies = {}
        /\ usrGrp' = keptUsers \cup newUsers
        /\ grpPolicy' = keptPolicies \cup newPolicies

\* POST /group.
GroupCreate(b) ==
    /\ b.name \notin grp
    /\ grp' = grp \cup {b.name}
    /\ AttachUsrAndPolicy(b, {}, {})
    /\ UNCHANGED <<catalog, usr, usrPolicy>>

\* PUT /group: creates a missing group, else replaces the rows of the
\* provider, or all rows.  The built-in groups are not refused.
GroupOverwrite(b) ==
    \/ GroupCreate(b)
    \/ /\ b.name \in grp
       /\ \E clearedUsers \in SUBSET {r \in usrGrp : r[2] = b.name},
             clearedPolicies \in SUBSET {r \in grpPolicy : r[1] = b.name} :
              AttachUsrAndPolicy(b, clearedUsers, clearedPolicies)
       /\ UNCHANGED <<catalog, usr, usrPolicy, grp>>

\* DELETE /group/{groupName}.
GroupDelete(g) ==
    /\ g \in grp \ BuiltIn
    /\ grp' = grp \ {g}
    /\ usrGrp' = {r \in usrGrp : r[2] # g}
    /\ grpPolicy' = {r \in grpPolicy : r[1] # g}
    /\ UNCHANGED <<catalog, usr, usrPolicy>>

\* POST /group/{groupName}/user.
GroupAddUser(u, g) ==
    /\ u \in usr /\ g \in grp \ BuiltIn
    /\ usrGrp' = usrGrp \cup {<<u, g>>}
    /\ UNCHANGED <<catalog, usr, usrPolicy, grp, grpPolicy>>

\* DELETE /group/{groupName}/user/{username}.
GroupRemoveUser(u, g) ==
    /\ <<u, g>> \in usrGrp
    /\ usrGrp' = usrGrp \ {<<u, g>>}
    /\ UNCHANGED <<catalog, usr, usrPolicy, grp, grpPolicy>>

\* POST /group/{groupName}/policy.
GroupGrantPolicy(g, n) ==
    /\ g \in grp /\ n \in policy
    /\ grpPolicy' = grpPolicy \cup {<<g, n>>}
    /\ UNCHANGED <<catalog, usr, usrPolicy, grp, usrGrp>>

\* DELETE /group/{groupName}/policy/{policyName}: any policy, protected too.
GroupRevokePolicy(g, n) ==
    /\ <<g, n>> \in grpPolicy
    /\ grpPolicy' = grpPolicy \ {<<g, n>>}
    /\ UNCHANGED <<catalog, usr, usrPolicy, grp, usrGrp>>

----------------------------------------------------------------------------
UserStep ==
    \E u \in User :
        \/ UserCreate(u)
        \/ \E v \in User : UserUpdate(u, v)
        \/ UserDelete(u)
        \/ \E n \in policy : UserGrantPolicy(u, n)
        \/ \E rows \in SUBSET {r \in usrPolicy : r[1] = u} : UserRevoke(u, rows)

GroupStep ==
    \/ \E b \in GroupInput : GroupCreate(b) \/ GroupOverwrite(b)
    \/ \E g \in grp : GroupDelete(g)
    \/ \E u \in User, g \in AnyGroup : GroupAddUser(u, g) \/ GroupRemoveUser(u, g)
    \/ \E g \in AnyGroup, n \in policy : GroupGrantPolicy(g, n) \/ GroupRevokePolicy(g, n)

\* The whole server: ownership, catalog and principal endpoints.
ServerNext == Next \/ CatalogStep \/ UserStep \/ GroupStep

ServerSpec == Init /\ [][ServerNext]_vars

----------------------------------------------------------------------------
(* Properties.                                                             *)

\* Whatever was deleted, renamed or overwritten before, a successful create
\* leaves its child under control, as far as the roles still mean anything:
\* every admin group holds the recovery policy and its members can manage the
\* child if the administrator role gives manage-owners; the creator is recorded
\* as an owner and can manage it, unless the owner role already had a
\* permission of that name giving something else.  The create keeps that one,
\* although the documents say that it "ensures" arborist / manage-owners.
CreationComplete ==
    [][\A p \in made' \ made :
          /\ \A g \in AdminGroups :
                /\ AdminRecovers(g, p)'
                /\ RoleGives(AdminRole, "manage-owners") =>
                      \A u \in User : <<u, g>> \in usrGrp' => AuthorizeUser(u, "manage-owners", p)'
          /\ \E pr \in Proc, u \in User :
                /\ Pending(pr, "create") /\ req[pr].caller = u
                /\ <<u, OwnerPolicy(p)>> \in ownerBinding'
                /\ \/ AuthorizeUser(u, "manage-owners", p)'
                   \/ \E x \in permission :
                         /\ x.role = OwnerRole /\ x.name = "manage-owners"
                         /\ x.method \notin {"manage-owners", "*"}]_vars

\* "A caller must be a direct owner with management rights or have an
\* admin-equivalent permission": whoever the control check lets through
\* really holds manage-owners on the resource.
ControllersHoldManagement ==
    \A p \in resource, u \in User :
        RequireOwnershipControl(u, p) => AuthorizeUser(u, "manage-owners", p)

\* "Prevent resources from losing both owner control and administrator
\* recovery": a resource made by the create endpoint keeps a user in control
\* or the recovery of an admin group.
NeverUncontrolled ==
    \A p \in made :
        \/ \E u \in User : RequireOwnershipControl(u, p)
        \/ \E g \in AdminGroups : AdminRecovers(g, p)
============================================================================
