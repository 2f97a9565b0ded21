------------------------------- MODULE Access -------------------------------
(***************************************************************************)
(* The access macros POST and DELETE /access/user (internal/access):       *)
(* direct grants of one role on one resource to one user, checked like the *)
(* owner endpoints and applied in a transaction of their own, next to the  *)
(* other endpoints of the server.  Providers and expiry dates are left out *)
(* as in Principals.                                                       *)
(***************************************************************************)
EXTENDS Principals

\* The roles that access requests name.
CONSTANT AccessRole

ASSUME AccessRoleAssumption == AccessRole \subseteq Role

AccessRequest == [op : {"grant", "revoke"}, path : Path, user : User, role : Role]

ASSUME AccessRequestAssumption == NoRequest \notin AccessRequest

\* Per goroutine: the access request that passed its check.
VARIABLE access

server == <<tables, req, made>>

AccessTypeOK == TypeOK /\ access \in [Proc -> AccessRequest \cup {NoRequest}]

AccessInit == Init /\ access = [pr \in Proc |-> NoRequest]

DirectPolicy(p, r) == [kind |-> "direct", path |-> p, role |-> r]

\* delegable_roles of the templates.
DelegableRoles(t) ==
    {OwnerRole, "reader", "writer"} \cup (IF t = "gen3-program" THEN {"org-member"} ELSE {})

\* The authorization step of both handlers.
CheckAccess(pr, c, p) ==
    /\ access[pr] = NoRequest
    /\ RequireOwnershipControl(c, p)
    /\ \E op \in {"grant", "revoke"}, u \in User, r \in AccessRole :
           access' = [access EXCEPT ![pr] = [op |-> op, path |-> p, user |-> u, role |-> r]]
    /\ UNCHANGED server

AccessDone(pr) == access' = [access EXCEPT ![pr] = NoRequest]

PendingAccess(pr, op) == access[pr] # NoRequest /\ access[pr].op = op

\* Mutant: the resource is not looked up again in the transaction.
GrantWithoutResource(p, r) == Targets(p) = {} \/ r \notin role

\* No resource, no template, no such role.
GrantRefused(p, r) == p \notin resource \/ Targets(p) = {} \/ r \notin role

\* Mutant: one direct policy for all roles on a resource.
BindSharedPolicy(u, n) ==
    LET shared == DirectPolicy(n.path, "reader") IN
    /\ usr' = usr \cup {u}
    /\ policy' = policy \cup {shared}
    /\ policyResource' = policyResource \cup {<<shared, n.path>>}
    /\ policyRole' = policyRole \cup {<<shared, n.role>>}
    /\ usrPolicy' = usrPolicy \cup {<<u, shared>>}
    /\ UNCHANGED <<resource, role, permission, generated, grp, usrGrp, grpPolicy,
                   ownerBinding, adminBinding, req, made>>

\* ensureDirectUserBindingForTarget: a policy of that name is reused with the
\* links and the holders it has.
BindDirect(u, n) ==
    /\ usr' = usr \cup {u}
    /\ policy' = policy \cup {n}
    /\ policyResource' = policyResource \cup {<<n, n.path>>}
    /\ policyRole' = policyRole \cup {<<n, n.role>>}
    /\ usrPolicy' = usrPolicy \cup {<<u, n>>}
    /\ UNCHANGED <<resource, role, permission, generated, grp, usrGrp, grpPolicy,
                   ownerBinding, adminBinding, req, made>>

GrantUserAccess(pr) ==
    /\ PendingAccess(pr, "grant")
    /\ LET n == DirectPolicy(access[pr].path, access[pr].role) IN
       \/ GrantRefused(n.path, n.role) /\ UNCHANGED server
       \/ /\ ~ GrantRefused(n.path, n.role)
          /\ \E t \in Targets(n.path) :
                \/ n.role \notin DelegableRoles(t.template) /\ UNCHANGED server
                \/ n.role \in DelegableRoles(t.template) /\ BindDirect(access[pr].user, n)
    /\ AccessDone(pr)

IsGenerated(n) == \E t \in Template : <<n, t>> \in generated

\* Mutant: generated policies are candidates as well.
CandidateOrGenerated(n, r, p) ==
    <<n, r>> \in policyRole /\ \E q \in resource : <<n, q>> \in policyResource /\ p \in Below[q]

\* Mutant: grants on ancestors are not looked for.
CandidateOnResource(n, r, p) ==
    <<n, r>> \in policyRole /\ <<n, p>> \in policyResource /\ ~ IsGenerated(n)

\* A policy with the role on the resource or an ancestor, not generated.
Candidate(n, r, p) ==
    /\ <<n, r>> \in policyRole
    /\ \E q \in resource : <<n, q>> \in policyResource /\ p \in Below[q]
    /\ ~ IsGenerated(n)

\* directUserAccessCandidates.
DirectCandidates(u, r, p) == {n \in policy : <<u, n>> \in usrPolicy /\ Candidate(n, r, p)}

\* groupAccessCandidatesForUser: the groups with a usr_grp row.
GroupCandidates(u, r, p) ==
    {n \in policy : /\ Candidate(n, r, p)
                    /\ \E g \in grp : <<u, g>> \in usrGrp /\ <<g, n>> \in grpPolicy}

\* Mutant: the resources of the policy are not counted.
NarrowInRoles(n, r, p) ==
    {l \in policyRole : l[1] = n} = {<<n, r>>} /\ <<n, p>> \in policyResource

\* RoleCount = 1, ResourceCount = 1 and the resource is the requested one.
Narrow(n, r, p) ==
    /\ {l \in policyRole : l[1] = n} = {<<n, r>>}
    /\ {l \in policyResource : l[1] = n} = {<<n, p>>}

\* The entries of the response: what is removed, what is reported as kept.
Removed(u, r, p) == {n \in DirectCandidates(u, r, p) : Narrow(n, r, p)}

NotRemoved(u, r, p) == (DirectCandidates(u, r, p) \ Removed(u, r, p)) \cup GroupCandidates(u, r, p)

RevokeUserAccess(pr) ==
    /\ PendingAccess(pr, "revoke")
    /\ LET a == access[pr] IN
       usrPolicy' = usrPolicy \ ({a.user} \X Removed(a.user, a.role, a.path))
    /\ AccessDone(pr)
    /\ UNCHANGED <<resource, role, permission, policy, policyResource, policyRole,
                   generated, usr, grp, usrGrp, grpPolicy, ownerBinding, adminBinding, req, made>>

----------------------------------------------------------------------------
AccessStep ==
    \E pr \in Proc :
        \/ \E c \in User, p \in Path : CheckAccess(pr, c, p)
        \/ GrantUserAccess(pr)
        \/ RevokeUserAccess(pr)

AccessNext == AccessStep \/ (ServerNext /\ UNCHANGED access)

AccessSpec == AccessInit /\ [][AccessNext]_<<vars, access>>

----------------------------------------------------------------------------
(* Properties.                                                             *)

\* The goroutine's access request ends with this step.
Ends(pr, op) == PendingAccess(pr, op) /\ access'[pr] = NoRequest

\* The user has the role on the resource, from wherever.
HasRole(u, r, p) ==
    \E l \in policyResource :
        p \in Below[l[2]] /\ <<l[1], r>> \in policyRole /\ HoldsPolicy(u, l[1])

\* A revoke costs nobody but the named user anything, and that user nothing
\* but the named role at or under the named resource: no broad, inherited or
\* group-derived grant is split or weakened on the way.
RevokeIsNarrow ==
    [][\A pr \in Proc : Ends(pr, "revoke") =>
          \A u \in User, r \in role, p \in resource :
              HasRole(u, r, p) /\ ~ HasRole(u, r, p)' =>
                  u = access[pr].user /\ r = access[pr].role /\ p \in Below[access[pr].path]]_<<vars, access>>

\* "No caller can mutate owner semantics through direct access APIs": no
\* access request takes the owner policy from a recorded owner.
OwnersSurviveAccess ==
    [][\A pr \in Proc : Ends(pr, "grant") \/ Ends(pr, "revoke") =>
          \A b \in ownerBinding : b \in usrPolicy => b \in usrPolicy']_<<vars, access>>

\* What a grant really gives: whoever gains by it gains what its direct policy
\* stands for by then, and is the named user, or held the policy from before it
\* lost its resource or its role.  GrantIsNarrow below is what the documents
\* promise.
GrantGivesItsPolicyOnly ==
    [][\A pr \in Proc : Ends(pr, "grant") =>
          LET n      == DirectPolicy(access[pr].path, access[pr].role)
              intact == <<n, n.path>> \in policyResource /\ <<n, n.role>> \in policyRole
          IN  \A u \in User, r \in role, p \in resource :
                  ~ HasRole(u, r, p) /\ HasRole(u, r, p)' =>
                      /\ u = access[pr].user \/ (~ intact /\ HoldsPolicy(u, n))
                      /\ p \in Below[n.path] \/ \E l \in policyResource : l[1] = n /\ p \in Below[l[2]]
                      /\ r = n.role \/ <<n, r>> \in policyRole]_<<vars, access>>

\* "Granting access is additive and narrow", through "a direct policy for
\* exactly the target resource and requested role": nobody but the named user
\* gains, and no more than the requested role at or under the resource.
GrantIsNarrow ==
    [][\A pr \in Proc : Ends(pr, "grant") =>
          \A u \in User, r \in role, p \in resource :
              ~ HasRole(u, r, p) /\ HasRole(u, r, p)' =>
                  u = access[pr].user /\ r = access[pr].role /\ p \in Below[access[pr].path]]_<<vars, access>>

\* The user holds the policy other than by being a user at all.
HoldsApart(u, n) ==
    \/ <<u, n>> \in usrPolicy
    \/ \E g \in grp : <<u, g>> \in usrGrp /\ <<g, n>> \in grpPolicy

\* A revoke reports nothing as kept exactly when whatever still gives the role
\* is generated or given to everyone.  For the ordinary grants this is "Do not
\* silently return success when an effective grant was not removed"; for
\* protected and owner policies, which the documents promise to report as well,
\* and for those of the built-in groups it says that the answer is silent.
SurvivorsAreReported ==
    [][\A pr \in Proc : Ends(pr, "revoke") =>
          \A u \in {access[pr].user}, r \in {access[pr].role}, p \in {access[pr].path} :
              NotRemoved(u, r, p) = {} <=>
                  \A l \in policyResource :
                      p \in Below[l[2]] /\ <<l[1], r>> \in policyRole /\ HoldsPolicy(u, l[1])' =>
                          IsGenerated(l[1]) \/ ~ HoldsApart(u, l[1])']_<<vars, access>>
============================================================================
