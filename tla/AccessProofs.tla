---------------------------- MODULE AccessProofs ---------------------------
(***************************************************************************)
(* The access macros among all other endpoints of the server: what a grant *)
(* gives, what a revoke takes and what it reports, for every resource      *)
(* tree, every set of subjects, roles and request bodies.                  *)
(***************************************************************************)
EXTENDS Access, ServerProofs

\* Whoever is recorded as an owner is recorded for a policy that still has its
\* metadata, which is what keeps it out of the candidates of a revoke.
OwnersAreGenerated == \A b \in ownerBinding : IsGenerated(b[2])

\* The inductive invariant of the server with the access macros.
AccessInv ==
    /\ Structure
    /\ access \in [Proc -> AccessRequest \cup {NoRequest}]
    /\ OwnersAreGenerated

----------------------------------------------------------------------------
(* Owner records.                                                          *)

\* Metadata and records leave together with their policy or resource.
LEMMA CascadeTakesBoth ==
    ASSUME OwnersAreGenerated, NEW N, NEW D, Cascade(N, D)
    PROVE  OwnersAreGenerated'
BY DEF OwnersAreGenerated, IsGenerated, Cascade

\* Steps of the ownership service write the metadata before the record.
LEMMA NextKeepsRecords ==
    ASSUME Structure, OwnersAreGenerated, Next
    PROVE  OwnersAreGenerated'
<1>1. PICK pr \in Proc : Check(pr) \/ Commit(pr)
  BY DEF Next
<1>2. CASE UNCHANGED <<generated, ownerBinding>>
  BY <1>2 DEF OwnersAreGenerated, IsGenerated
<1>3. CASE Check(pr)
  BY <1>2, <1>3 DEF Check, CheckCreate, CheckOwnerChange, CheckDelete, Accept, tables
<1>4. ASSUME NEW u, NEW n, NEW N, NEW t \in Template,
             n \in N,
             generated' = UpsertMetadata(generated, N, t),
             ownerBinding' = ownerBinding \cup {<<u, n>>}
      PROVE  OwnersAreGenerated'
  <2>1. generated \subseteq generated'
    BY <1>4, Upsert
  <2>2. PICK r \in generated' : r[1] = n
    BY <1>4, Upsert
  <2>3. \E y \in Template : <<n, y>> \in generated'
    <3>1. r \in generated \/ r = <<n, t>>
      BY <1>4, <2>2, Upsert
    <3> QED
      BY <1>4, <2>2, <3>1 DEF Structure, TypeOK
  <2> QED
    BY <1>4, <2>1, <2>3 DEF OwnersAreGenerated, IsGenerated
<1>5. CASE CreateOwnedDescendant(pr)
  <2> DEFINE p == req[pr].path
             t == TemplateFor[Parent[p]]
             N == {OwnerPolicy(p)} \cup AdminPolicies(p)
  <2>1. CASE Rollback(pr)
    BY <1>2, <2>1 DEF Rollback, tables
  <2>2. CASE ~ Rollback(pr)
    <3>1. /\ t # "none" /\ Parent[p] \in resource
          /\ generated' = UpsertMetadata(generated, N, t)
          /\ ownerBinding' = ownerBinding \cup {<<req[pr].caller, OwnerPolicy(p)>>}
      BY <1>5, <2>2 DEF CreateOwnedDescendant, CreateRefused, MaterializeBindings
    <3>2. t \in Template
      BY <3>1, TreeAssumption DEF Structure, TypeOK
    <3>3. OwnerPolicy(p) \in N
      OBVIOUS
    <3> HIDE DEF N, t
    <3> QED
      BY <1>4, <3>1, <3>2, <3>3
  <2> QED
    BY <2>1, <2>2
<1>6. CASE AddOwner(pr)
  <2> DEFINE p == req[pr].path
  <2>1. CASE Rollback(pr)
    BY <1>2, <2>1 DEF Rollback, tables
  <2>2. CASE ~ Rollback(pr)
    <3>1. p \in resource
      BY <1>6, <2>2 DEF AddOwner, AddOwnerRefused
    <3>2. PICK t \in Targets(p) :
             BindOwner(req[pr].user, OwnerPolicy(p), t.template, t.on)
      BY <1>6, <2>2 DEF AddOwner
    <3>3. t.template \in Template
      BY <3>1, TargetsType DEF Structure
    <3> QED
      BY <1>4, <3>2, <3>3 DEF BindOwner
  <2> QED
    BY <2>1, <2>2
<1>7. CASE RemoveOwner(pr)
  BY <1>7 DEF RemoveOwner, OwnersAreGenerated, IsGenerated
<1>8. CASE DeleteResource(pr)
  BY <1>8, CascadeTakesBoth DEF DeleteResource, DeleteRows
<1> QED
  BY <1>1, <1>3, <1>5, <1>6, <1>7, <1>8 DEF Commit

\* So do the generic endpoints.
LEMMA ServerKeepsRecords ==
    ASSUME Structure, OwnersAreGenerated, [ServerNext]_vars
    PROVE  OwnersAreGenerated'
<1>1. CASE UNCHANGED <<generated, ownerBinding>>
  BY <1>1 DEF OwnersAreGenerated, IsGenerated
<1>2. CASE Next
  BY <1>2, NextKeepsRecords
<1>3. CASE ResourceStep
  BY <1>1, <1>3, CascadeTakesBoth
     DEF ResourceStep, ResourceDelete, ResourceCreate, ResourceUpdate, DeleteRows
<1>4. CASE PolicyStep
  BY <1>1, <1>4, CascadeTakesBoth
     DEF PolicyStep, PolicyCreate, PolicyOverwrite, PolicyDelete, DeleteRows
<1>5. CASE RoleStep
  BY <1>1, <1>5 DEF RoleStep, RoleCreate, RoleOverwrite, RoleDelete, notRoles
<1>6. CASE UserStep
  BY <1>1, <1>6 DEF UserStep, UserCreate, UserUpdate, UserDelete, UserGrantPolicy,
                    UserRevoke, catalog
<1>7. CASE GroupStep
  BY <1>1, <1>7 DEF GroupStep, GroupCreate, GroupOverwrite, GroupDelete, GroupAddUser,
                    GroupRemoveUser, GroupGrantPolicy, GroupRevokePolicy, catalog
<1>8. CASE UNCHANGED vars
  BY <1>1, <1>8 DEF vars
<1> QED
  BY <1>2, <1>3, <1>4, <1>5, <1>6, <1>7, <1>8 DEF ServerNext, CatalogStep

----------------------------------------------------------------------------
(* The inductive invariant.                                                *)

\* A direct grant adds rows for a policy and its own resource and role, and
\* touches no metadata.
LEMMA BindDirectInv ==
    ASSUME Structure, NEW u \in User, NEW n \in Policy, BindDirect(u, n),
           n.path \in resource, n.role \in role
    PROVE  Structure'
<1>1. TypeOK'
  <2>1. usr' \subseteq User /\ policy' \subseteq Policy /\ usrPolicy' \subseteq usr' \X policy'
    BY DEF BindDirect, Structure, TypeOK
  <2>2. policyResource' \subseteq policy' \X resource'
    BY DEF BindDirect, Structure, TypeOK
  <2>3. policyRole' \subseteq policy' \X role'
    BY DEF BindDirect, Structure, TypeOK
  <2>4. /\ generated' \subseteq policy' \X Template /\ usrGrp' \subseteq usr' \X grp'
        /\ grpPolicy' \subseteq grp' \X policy' /\ ownerBinding' \subseteq User \X policy'
        /\ adminBinding' \subseteq AnyGroup \X policy'
    BY DEF BindDirect, Structure, TypeOK
  <2>5. PermissionsOK'
    BY PermissionsKept DEF BindDirect, Structure, TypeOK
  <2> QED
    BY <2>1, <2>2, <2>3, <2>4, <2>5 DEF BindDirect, Structure, TypeOK
<1> QED
  BY <1>1 DEF BindDirect, Structure, MetadataWellFormed, ParentsExist, ProtectedPolicyKept

\* A grant is refused, or binds a policy whose resource and role exist.
LEMMA GrantCases ==
    ASSUME AccessInv, NEW pr \in Proc, GrantUserAccess(pr),
           NEW n, n = DirectPolicy(access[pr].path, access[pr].role)
    PROVE  /\ access[pr] \in AccessRequest
           /\ n \in Policy /\ n.path = access[pr].path /\ n.role = access[pr].role
           /\ \/ UNCHANGED server
              \/ /\ BindDirect(access[pr].user, n)
                 /\ n.path \in resource /\ n.role \in role
<1>1. access[pr] \in AccessRequest
  BY DEF AccessInv, GrantUserAccess, PendingAccess
<1>2. n \in Policy /\ n.path = access[pr].path /\ n.role = access[pr].role
  BY <1>1 DEF DirectPolicy, Policy, Kind, AccessRequest
<1>3. UNCHANGED server
      \/ (BindDirect(access[pr].user, n) /\ n.path \in resource /\ n.role \in role)
  BY DEF GrantUserAccess, GrantRefused
<1> QED
  BY <1>1, <1>2, <1>3

\* The server's state decides about its part of the invariant.
LEMMA ServerUnchanged ==
    ASSUME Structure, OwnersAreGenerated, UNCHANGED server
    PROVE  Structure' /\ OwnersAreGenerated'
BY ServerNextInv, ServerKeepsRecords DEF server, tables, vars

\* Steps of the access macros keep the inductive invariant.
LEMMA AccessStepInv ==
    ASSUME AccessInv, AccessStep
    PROVE  AccessInv'
<1>1. PICK pr \in Proc : \/ \E c \in User, p \in Path : CheckAccess(pr, c, p)
                         \/ GrantUserAccess(pr)
                         \/ RevokeUserAccess(pr)
  BY DEF AccessStep
<1>2. CASE \E c \in User, p \in Path : CheckAccess(pr, c, p)
  <2>1. PICK c \in User, p \in Path : CheckAccess(pr, c, p)
    BY <1>2
  <2>2. PICK op \in {"grant", "revoke"}, u \in User, r \in AccessRole :
           access' = [access EXCEPT ![pr] = [op |-> op, path |-> p, user |-> u, role |-> r]]
    BY <2>1 DEF CheckAccess
  <2>3. [op |-> op, path |-> p, user |-> u, role |-> r] \in AccessRequest
    BY AccessRoleAssumption DEF AccessRequest
  <2>4. access' \in [Proc -> AccessRequest \cup {NoRequest}]
    BY <2>2, <2>3 DEF AccessInv
  <2>5. UNCHANGED server
    BY <2>1 DEF CheckAccess
  <2> QED
    BY <2>4, <2>5, ServerUnchanged DEF AccessInv
<1>3. CASE GrantUserAccess(pr)
  <2>1. access' \in [Proc -> AccessRequest \cup {NoRequest}]
    BY <1>3 DEF AccessInv, GrantUserAccess, AccessDone
  <2>2. CASE UNCHANGED server
    BY <2>1, <2>2, ServerUnchanged DEF AccessInv
  <2>3. CASE ~ UNCHANGED server
    <3>1. PICK n \in Policy : /\ BindDirect(access[pr].user, n)
                              /\ n.path \in resource /\ n.role \in role
      BY <1>3, <2>3, GrantCases
    <3>2. access[pr].user \in User
      BY <1>3, GrantCases DEF AccessRequest
    <3>3. Structure'
      BY <3>1, <3>2, BindDirectInv DEF AccessInv
    <3>4. OwnersAreGenerated'
      BY <3>1 DEF BindDirect, AccessInv, OwnersAreGenerated, IsGenerated
    <3> QED
      BY <2>1, <3>3, <3>4 DEF AccessInv
  <2> QED
    BY <2>2, <2>3
<1>4. CASE RevokeUserAccess(pr)
  <2>1. access' \in [Proc -> AccessRequest \cup {NoRequest}]
    BY <1>4 DEF AccessInv, RevokeUserAccess, AccessDone
  <2>3. PermissionsOK'
    BY <1>4, PermissionsKept DEF RevokeUserAccess, AccessInv, Structure, TypeOK
  <2>2. TypeOK'
    BY <1>4, <2>3 DEF RevokeUserAccess, AccessInv, Structure, TypeOK
  <2> QED
    BY <1>4, <2>1, <2>2 DEF RevokeUserAccess, AccessInv, Structure, MetadataWellFormed,
                            ParentsExist, ProtectedPolicyKept, OwnersAreGenerated, IsGenerated
<1> QED
  BY <1>1, <1>2, <1>3, <1>4

\* The server keeps its structure, its access requests stay typed and every
\* owner record its metadata, whatever requests interleave.
THEOREM AccessInvariance == AccessSpec => []AccessInv
<1>1. AccessInit => AccessInv
  <2> SUFFICES ASSUME AccessInit PROVE AccessInv
    OBVIOUS
  <2>1. Structure
    BY InitInv DEF AccessInit, IndInv
  <2>2. OwnersAreGenerated
    BY DEF AccessInit, Init, OwnersAreGenerated
  <2> QED
    BY <2>1, <2>2 DEF AccessInit, AccessInv
<1>2. AccessInv /\ [AccessNext]_<<vars, access>> => AccessInv'
  <2> SUFFICES ASSUME AccessInv, [AccessNext]_<<vars, access>> PROVE AccessInv'
    OBVIOUS
  <2>1. CASE AccessStep
    BY <2>1, AccessStepInv
  <2>2. CASE [ServerNext]_vars /\ UNCHANGED access
    BY <2>2, ServerNextInv, ServerKeepsRecords DEF AccessInv
  <2> QED
    BY <2>1, <2>2 DEF AccessNext
<1> QED
  BY <1>1, <1>2, PTL DEF AccessSpec

\* The type invariant that the run of the access macros checks.
THEOREM AccessTyping == AccessSpec => []AccessTypeOK
<1>1. AccessInv => AccessTypeOK
  BY DEF AccessInv, Structure, AccessTypeOK
<1> QED
  BY <1>1, AccessInvariance, PTL

\* What the other endpoints keep about protection, metadata and the tree is kept
\* beside the access macros too.
THEOREM WholeServerTheorem ==
    AccessSpec => [](ProtectedPolicyKept /\ MetadataWellFormed /\ ParentsExist)
<1>1. AccessInv => ProtectedPolicyKept /\ MetadataWellFormed /\ ParentsExist
  BY DEF AccessInv, Structure
<1> QED
  BY <1>1, AccessInvariance, PTL

\* An access request makes no resource and touches no metadata.
LEMMA AccessTouchesNoMetadata ==
    ASSUME AccessStep
    PROVE  UNCHANGED <<generated, made>>
BY DEF AccessStep, CheckAccess, GrantUserAccess, BindDirect, RevokeUserAccess, server, tables

\* Beside the access macros a protected policy disappears or loses its flag only
\* with its resource, and a successful create is complete.
THEOREM WholeServerStepsTheorem == AccessSpec => ProtectedPoliciesStay /\ CreationComplete
<1>1. AccessInv /\ AccessInv' /\ [AccessNext]_<<vars, access>>
          => [StayStep]_vars /\ [CompleteStep]_vars
  <2> SUFFICES ASSUME AccessInv, AccessInv', AccessNext
               PROVE  StayStep /\ CompleteStep
    OBVIOUS
  <2>1. CASE AccessStep
    BY <2>1, AccessTouchesNoMetadata, GrowthStays DEF CompleteStep
  <2>2. CASE ServerNext
    BY <2>2, StayLemma, CompleteLemma DEF AccessInv
  <2> QED
    BY <2>1, <2>2 DEF AccessNext
<1>2. AccessSpec => [][StayStep]_vars /\ [][CompleteStep]_vars
  BY <1>1, AccessInvariance, PTL DEF AccessSpec
<1> QED
  BY <1>2 DEF ProtectedPoliciesStay, StayStep, CreationComplete, CompleteStep

----------------------------------------------------------------------------
(* What a request may do to others.                                        *)

\* A request ends only in its own transaction.
LEMMA EndsItsOwn ==
    ASSUME AccessInv, [AccessNext]_<<vars, access>>, NEW pr \in Proc
    PROVE  /\ Ends(pr, "grant") => GrantUserAccess(pr)
           /\ Ends(pr, "revoke") => RevokeUserAccess(pr)
<1> SUFFICES ASSUME access[pr] # NoRequest, access'[pr] = NoRequest
             PROVE  /\ access[pr].op = "grant" => GrantUserAccess(pr)
                    /\ access[pr].op = "revoke" => RevokeUserAccess(pr)
  BY DEF Ends, PendingAccess
<1>1. AccessStep
  BY DEF AccessNext
<1>2. PICK x \in Proc : \/ \E c \in User, p \in Path : CheckAccess(x, c, p)
                        \/ GrantUserAccess(x)
                        \/ RevokeUserAccess(x)
  BY <1>1 DEF AccessStep
<1>3. ASSUME NEW c \in User, NEW p \in Path, CheckAccess(x, c, p) PROVE FALSE
  <2>1. PICK op \in {"grant", "revoke"}, u \in User, r \in AccessRole :
           access' = [access EXCEPT ![x] = [op |-> op, path |-> p, user |-> u, role |-> r]]
    BY <1>3 DEF CheckAccess
  <2>2. [op |-> op, path |-> p, user |-> u, role |-> r] \in AccessRequest
    BY AccessRoleAssumption DEF AccessRequest
  <2> QED
    BY <2>1, <2>2, AccessRequestAssumption DEF AccessInv
<1>4. x = pr
  BY <1>2, <1>3 DEF AccessInv, GrantUserAccess, RevokeUserAccess, AccessDone
<1> QED
  BY <1>2, <1>3, <1>4 DEF GrantUserAccess, RevokeUserAccess, PendingAccess

\* No access request takes the owner policy from a recorded owner: a revoke
\* passes over generated policies, and those of recorded owners are generated.
THEOREM OwnersSurviveAccessTheorem == AccessSpec => OwnersSurviveAccess
<1>1. ASSUME AccessInv, [AccessNext]_<<vars, access>>
      PROVE  \A pr \in Proc : Ends(pr, "grant") \/ Ends(pr, "revoke") =>
                \A b \in ownerBinding : b \in usrPolicy => b \in usrPolicy'
  <2> SUFFICES ASSUME NEW pr \in Proc, Ends(pr, "grant") \/ Ends(pr, "revoke"),
                      NEW b \in ownerBinding, b \in usrPolicy
               PROVE  b \in usrPolicy'
    OBVIOUS
  <2>1. CASE GrantUserAccess(pr)
    BY <1>1, <2>1, GrantCases DEF server, tables, BindDirect
  <2>2. CASE RevokeUserAccess(pr)
    <3>1. IsGenerated(b[2])
      BY <1>1 DEF AccessInv, OwnersAreGenerated
    <3>2. b[2] \notin Removed(access[pr].user, access[pr].role, access[pr].path)
      BY <3>1 DEF Removed, DirectCandidates, Candidate
    <3> QED
      BY <2>2, <3>2 DEF RevokeUserAccess
  <2> QED
    BY <1>1, <2>1, <2>2, EndsItsOwn
<1> QED
  BY <1>1, AccessInvariance, PTL DEF AccessSpec, OwnersSurviveAccess

\* A revoke costs nobody but the named user anything, and that user nothing
\* but the named role at or under the named resource: what it removes has one
\* role and one resource, exactly the named ones.
THEOREM RevokeIsNarrowTheorem == AccessSpec => RevokeIsNarrow
<1>1. ASSUME AccessInv, [AccessNext]_<<vars, access>>
      PROVE  \A pr \in Proc : Ends(pr, "revoke") =>
                \A u \in User, r \in role, p \in resource :
                    HasRole(u, r, p) /\ ~ HasRole(u, r, p)' =>
                        u = access[pr].user /\ r = access[pr].role
                                            /\ p \in Below[access[pr].path]
  <2> SUFFICES ASSUME NEW pr \in Proc, Ends(pr, "revoke"),
                      NEW u \in User, NEW r \in role, NEW p \in resource,
                      HasRole(u, r, p), ~ HasRole(u, r, p)'
               PROVE  /\ u = access[pr].user /\ r = access[pr].role
                      /\ p \in Below[access[pr].path]
    OBVIOUS
  <2> DEFINE a == access[pr]
             R == Removed(a.user, a.role, a.path)
  <2>1. /\ usrPolicy' = usrPolicy \ ({a.user} \X R)
        /\ UNCHANGED <<policyResource, policyRole, grp, usrGrp, grpPolicy>>
    BY <1>1, EndsItsOwn DEF RevokeUserAccess
  <2>2. PICK l \in policyResource :
           p \in Below[l[2]] /\ <<l[1], r>> \in policyRole /\ HoldsPolicy(u, l[1])
    BY DEF HasRole
  <2>3. ~ HoldsPolicy(u, l[1])'
    BY <2>1, <2>2 DEF HasRole
  <2>4. <<u, l[1]>> \in usrPolicy /\ <<u, l[1]>> \notin usrPolicy'
    BY <2>1, <2>2, <2>3 DEF HoldsPolicy
  <2>5. u = a.user /\ l[1] \in R
    BY <2>1, <2>4
  <2>6. Narrow(l[1], a.role, a.path)
    BY <2>5 DEF Removed
  <2>7. r = a.role
    <3>1. <<l[1], r>>[1] = l[1]
      OBVIOUS
    <3>2. <<l[1], r>> = <<l[1], a.role>>
      BY <2>2, <2>6, <3>1 DEF Narrow
    <3> QED
      BY <3>2
  <2>8. l[2] = a.path
    <3>1. l = <<l[1], a.path>>
      BY <2>6 DEF Narrow
    <3> QED
      BY <3>1
  <2> QED
    BY <2>2, <2>5, <2>7, <2>8
<1> QED
  BY <1>1, AccessInvariance, PTL DEF AccessSpec, RevokeIsNarrow

\* Whoever gains by a grant gains what its direct policy stands for, and is
\* the named user or held that policy from before it lost a link.
THEOREM GrantGivesTheorem == AccessSpec => GrantGivesItsPolicyOnly
<1>1. ASSUME AccessInv, [AccessNext]_<<vars, access>>
      PROVE  \A pr \in Proc : Ends(pr, "grant") =>
                LET n      == DirectPolicy(access[pr].path, access[pr].role)
                    intact == <<n, n.path>> \in policyResource /\ <<n, n.role>> \in policyRole
                IN  \A u \in User, r \in role, p \in resource :
                        ~ HasRole(u, r, p) /\ HasRole(u, r, p)' =>
                            /\ u = access[pr].user \/ (~ intact /\ HoldsPolicy(u, n))
                            /\ p \in Below[n.path]
                               \/ \E l \in policyResource : l[1] = n /\ p \in Below[l[2]]
                            /\ r = n.role \/ <<n, r>> \in policyRole
  <2> SUFFICES ASSUME NEW pr \in Proc, Ends(pr, "grant"),
                      NEW n, n = DirectPolicy(access[pr].path, access[pr].role),
                      NEW u \in User, NEW r \in role, NEW p \in resource,
                      ~ HasRole(u, r, p), HasRole(u, r, p)'
               PROVE  /\ u = access[pr].user
                         \/ (/\ ~ (<<n, n.path>> \in policyResource /\ <<n, n.role>> \in policyRole)
                             /\ HoldsPolicy(u, n))
                      /\ p \in Below[n.path]
                         \/ \E l \in policyResource : l[1] = n /\ p \in Below[l[2]]
                      /\ r = n.role \/ <<n, r>> \in policyRole
    OBVIOUS
  <2>1. GrantUserAccess(pr)
    BY <1>1, EndsItsOwn
  <2>2. BindDirect(access[pr].user, n)
    <3>1. UNCHANGED server => (HasRole(u, r, p)' <=> HasRole(u, r, p))
      BY DEF server, tables, HasRole, HoldsPolicy
    <3> QED
      BY <1>1, <2>1, <3>1, GrantCases
  <2>3. PICK l \in policyResource' :
           p \in Below[l[2]] /\ <<l[1], r>> \in policyRole' /\ HoldsPolicy(u, l[1])'
    BY DEF HasRole
  <2>4. l \in policyResource \/ l = <<n, n.path>>
    BY <2>2 DEF BindDirect
  <2>5. <<l[1], r>> \in policyRole \/ (l[1] = n /\ r = n.role)
    BY <2>2, <2>3 DEF BindDirect
  <2>6. HoldsPolicy(u, l[1]) \/ (l[1] = n /\ u = access[pr].user)
    BY <2>2, <2>3 DEF BindDirect, HoldsPolicy
  <2>7. l[1] = n
    BY <2>3, <2>4, <2>5, <2>6 DEF HasRole
  <2>8. p \in Below[n.path] \/ \E k \in policyResource : k[1] = n /\ p \in Below[k[2]]
    BY <2>3, <2>4, <2>7
  <2>9. ASSUME u # access[pr].user
        PROVE  /\ HoldsPolicy(u, n)
               /\ ~ (<<n, n.path>> \in policyResource /\ <<n, n.role>> \in policyRole)
    <3>1. HoldsPolicy(u, l[1]) /\ HoldsPolicy(u, n)
      BY <2>6, <2>7, <2>9
    <3>2. l \notin policyResource \/ <<l[1], r>> \notin policyRole
      BY <2>3, <3>1 DEF HasRole
    <3> QED
      BY <2>4, <2>5, <2>7, <3>1, <3>2
  <2> QED
    BY <2>5, <2>7, <2>8, <2>9
<1> QED
  BY <1>1, AccessInvariance, PTL DEF AccessSpec, GrantGivesItsPolicyOnly

\* A revoke reports nothing as kept exactly when whatever still gives the role
\* is generated or given to everyone: every other policy that carries it is a
\* candidate, one that is removed carries it no more, and one that is reported
\* still does.
THEOREM SurvivorsTheorem == AccessSpec => SurvivorsAreReported
<1>1. ASSUME AccessInv, [AccessNext]_<<vars, access>>
      PROVE  \A pr \in Proc : Ends(pr, "revoke") =>
                \A u \in {access[pr].user}, r \in {access[pr].role}, p \in {access[pr].path} :
                    NotRemoved(u, r, p) = {} <=>
                        \A l \in policyResource :
                            p \in Below[l[2]] /\ <<l[1], r>> \in policyRole /\ HoldsPolicy(u, l[1])' =>
                                IsGenerated(l[1]) \/ ~ HoldsApart(u, l[1])'
  <2> SUFFICES ASSUME NEW pr \in Proc, Ends(pr, "revoke"),
                      NEW u, u = access[pr].user,
                      NEW r, r = access[pr].role,
                      NEW p, p = access[pr].path
               PROVE  NotRemoved(u, r, p) = {} <=>
                          \A l \in policyResource :
                              p \in Below[l[2]] /\ <<l[1], r>> \in policyRole /\ HoldsPolicy(u, l[1])' =>
                                  IsGenerated(l[1]) \/ ~ HoldsApart(u, l[1])'
    OBVIOUS
  <2>1. /\ usrPolicy' = usrPolicy \ ({u} \X Removed(u, r, p))
        /\ UNCHANGED <<policyResource, policyRole, grp, usrGrp, grpPolicy>>
    BY <1>1, EndsItsOwn DEF RevokeUserAccess
  <2>2. ASSUME NEW n \in NotRemoved(u, r, p)
        PROVE  \E l \in policyResource :
                  /\ p \in Below[l[2]] /\ <<l[1], r>> \in policyRole /\ HoldsPolicy(u, l[1])'
                  /\ ~ IsGenerated(l[1]) /\ HoldsApart(u, l[1])'
    <3>1. Candidate(n, r, p)
      BY <2>2 DEF NotRemoved, DirectCandidates, GroupCandidates
    <3>2. PICK q \in resource : <<n, q>> \in policyResource /\ p \in Below[q]
      BY <3>1 DEF Candidate
    <3>3. HoldsApart(u, n)'
      <4>1. CASE n \in DirectCandidates(u, r, p) \ Removed(u, r, p)
        BY <2>1, <4>1 DEF DirectCandidates, HoldsApart
      <4>2. CASE n \in GroupCandidates(u, r, p)
        BY <2>1, <4>2 DEF GroupCandidates, HoldsApart
      <4> QED
        BY <2>2, <4>1, <4>2 DEF NotRemoved
    <3>4. HoldsPolicy(u, n)'
      BY <3>3 DEF HoldsApart, HoldsPolicy
    <3>5. <<n, q>>[1] = n /\ <<n, q>>[2] = q
      OBVIOUS
    <3> QED
      BY <3>1, <3>2, <3>3, <3>4, <3>5 DEF Candidate
  <2>3. ASSUME NEW l \in policyResource,
               p \in Below[l[2]], <<l[1], r>> \in policyRole,
               ~ IsGenerated(l[1]), HoldsApart(u, l[1])'
        PROVE  l[1] \in NotRemoved(u, r, p)
    <3>1. l[1] \in policy /\ l[2] \in resource /\ l = <<l[1], l[2]>>
      BY <1>1 DEF AccessInv, Structure, TypeOK
    <3>2. Candidate(l[1], r, p)
      BY <2>3, <3>1 DEF Candidate
    <3>3. CASE \E g \in grp : <<u, g>> \in usrGrp /\ <<g, l[1]>> \in grpPolicy
      BY <3>1, <3>2, <3>3 DEF NotRemoved, GroupCandidates
    <3>4. CASE <<u, l[1]>> \in usrPolicy'
      <4>1. <<u, l[1]>> \in usrPolicy /\ l[1] \notin Removed(u, r, p)
        BY <2>1, <3>4
      <4>2. l[1] \in DirectCandidates(u, r, p)
        BY <3>1, <3>2, <4>1 DEF DirectCandidates
      <4> QED
        BY <4>1, <4>2 DEF NotRemoved
    <3> QED
      BY <2>1, <2>3, <3>3, <3>4 DEF HoldsApart
  <2> QED
    BY <2>2, <2>3
<1> QED
  BY <1>1, AccessInvariance, PTL DEF AccessSpec, SurvivorsAreReported
============================================================================
