-------------------------- MODULE OwnershipProofs --------------------------
(***************************************************************************)
(* Invariance proofs for the ownership service, for every resource tree,   *)
(* set of users, groups and goroutines.                                    *)
(***************************************************************************)
EXTENDS Ownership, TLAPS

\* What every endpoint of the server keeps, generic ones included.
Structure ==
    /\ TypeOK
    /\ MetadataWellFormed
    /\ ParentsExist
    /\ ProtectedPolicyKept

\* What only the ownership endpoints together keep.
Effective ==
    /\ RecoveryKept
    /\ RecordedOwnersAreEffective
    /\ OrphanedPoliciesInert
    /\ GrantsStayInSubtree

\* The inductive invariant of the ownership service.
IndInv == Structure /\ Effective

\* The names the service generates are policy names, and never equal.
LEMMA PolicyNames ==
    ASSUME NEW p \in Path, NEW q \in Path
    PROVE  /\ OwnerPolicy(p) \in Policy /\ AdminPolicy(p) \in Policy
           /\ OwnerPolicy(p).path = p /\ AdminPolicy(p).path = p
           /\ OwnerPolicy(p).kind = "owner" /\ AdminPolicy(p).kind = "admin"
           /\ OwnerPolicy(p) # AdminPolicy(q)
           /\ AdminPolicy(p) = AdminPolicy(q) => p = q
BY DEF OwnerPolicy, AdminPolicy, Policy, Kind, Role, OwnerRole, AdminRole

\* Upserting metadata keeps every row and gives every named policy one row.
LEMMA Upsert ==
    ASSUME NEW rows, NEW N, NEW t
    PROVE  /\ rows \subseteq UpsertMetadata(rows, N, t)
           /\ \A r \in UpsertMetadata(rows, N, t) :
                 r \in rows \/ \E n \in N : r = <<n, t>> /\ \A s \in rows : s[1] # n
           /\ \A n \in N : \E r \in UpsertMetadata(rows, N, t) : r[1] = n
<1>1. rows \subseteq UpsertMetadata(rows, N, t)
  BY DEF UpsertMetadata
<1>2. \A r \in UpsertMetadata(rows, N, t) :
         r \in rows \/ \E n \in N : r = <<n, t>> /\ \A s \in rows : s[1] # n
  BY DEF UpsertMetadata
<1>3. ASSUME NEW n \in N
      PROVE  \E r \in UpsertMetadata(rows, N, t) : r[1] = n
  <2>1. CASE \E s \in rows : s[1] = n
    BY <1>1, <2>1
  <2>2. CASE \A s \in rows : s[1] # n
    <3>1. <<n, t>> \in UpsertMetadata(rows, N, t)
      BY <2>2 DEF UpsertMetadata
    <3>2. <<n, t>>[1] = n
      OBVIOUS
    <3> QED
      BY <3>1, <3>2
  <2> QED
    BY <2>1, <2>2
<1> QED
  BY <1>1, <1>2, <1>3

\* The container of a path lies under it.
LEMMA ContainerBelow ==
    ASSUME NEW p \in Path, Container[p] # NoPath
    PROVE  Container[p] \in Path /\ Container[p] \in Below[p]
<1>1. Container[p] \in Path
  BY TreeAssumption
<1>2. Parent[Container[p]] = p
  BY TreeAssumption
<1>3. p # NoPath
  BY TreeAssumption
<1> QED
  BY <1>1, <1>2, <1>3, TreeAssumption

\* The shipped permissions are rows of shipped roles, one per role and name.
LEMMA Shipped ==
    /\ BasePermissions \subseteq ShippedPermissions
    /\ ShippedPermissions \subseteq [role : Role, name : Method, method : Method]
    /\ \A x \in BasePermissions : x.role \in {OwnerRole, "org-member"}
    /\ \A x, y \in ShippedPermissions : x.role = y.role /\ x.name = y.name => x = y
BY DEF ShippedPermissions, BasePermissions, Permission, Role, Method, Checked, OwnerRole, AdminRole

\* The permission table is all right for as long as nobody changes it and no
\* role goes.
LEMMA PermissionsKept ==
    ASSUME PermissionsOK, permission' = permission, role \subseteq role'
    PROVE  PermissionsOK'
BY DEF PermissionsOK

\* Ensuring the base permissions keeps every row and the key, and leaves a row
\* under the name of every base permission.
LEMMA EnsurePermissionsOK ==
    ASSUME PermissionsOK, permission' = EnsurePermissions(permission),
           role \cup {OwnerRole, "org-member"} \subseteq role'
    PROVE  PermissionsOK'
<1>1. BasePermissions \subseteq [role : role', name : Method, method : Method]
  BY Shipped
<1>2. permission' \subseteq [role : role', name : Method, method : Method]
  BY <1>1 DEF PermissionsOK, EnsurePermissions
<1>3. ASSUME NEW x \in permission', NEW y \in permission', x.role = y.role, x.name = y.name
      PROVE  x = y
  BY <1>3, Shipped DEF PermissionsOK, EnsurePermissions
<1> QED
  BY <1>2, <1>3 DEF PermissionsOK

\* The initial database satisfies the invariant.
LEMMA InitInv == Init => IndInv
<1> SUFFICES ASSUME Init PROVE IndInv
  OBVIOUS
<1>1. TypeOK
  <2>1. \A p \in Creators : CreatorPolicy(p) \in Policy /\ p \in Seed
    BY SubjectAssumption DEF CreatorPolicy, Policy, Kind, Role
  <2>2. "program-creator" \in Role
    BY DEF Role
  <2>3. LoggedIn \in AnyGroup /\ AdminGroups \subseteq AnyGroup
    BY SubjectAssumption DEF AnyGroup, BuiltIn
  <2>5. PermissionsOK
    BY Shipped DEF Init, PermissionsOK
  <2>4. req \in [Proc -> Request \cup {NoRequest}]
    BY DEF Init
  <2> QED
    BY <2>1, <2>2, <2>3, <2>4, <2>5, SubjectAssumption DEF Init, TypeOK
<1>2. /\ RecoveryKept /\ RecordedOwnersAreEffective
      /\ MetadataWellFormed /\ ProtectedPolicyKept
  BY DEF Init, RecoveryKept, RecordedOwnersAreEffective, MetadataWellFormed,
         ProtectedPolicyKept
<1>3. OrphanedPoliciesInert /\ GrantsStayInSubtree
  BY DEF Init, OrphanedPoliciesInert, GrantsStayInSubtree, CreatorPolicy
<1>4. ParentsExist
  BY SubjectAssumption DEF Init, ParentsExist
<1> QED
  BY <1>1, <1>2, <1>3, <1>4 DEF IndInv, Structure, Effective

\* A request that passes its check, or is rolled back, changes no table.
LEMMA TablesUnchanged ==
    ASSUME Structure, UNCHANGED <<tables, made>>,
           req' \in [Proc -> Request \cup {NoRequest}]
    PROVE  Structure' /\ (Effective => Effective')
<1>1. Structure'
  BY PermissionsKept DEF Structure, TypeOK, MetadataWellFormed, ParentsExist,
         ProtectedPolicyKept, tables
<1>2. Effective => Effective'
  BY DEF Effective, RecoveryKept, AdminRecovers, RecordedOwnersAreEffective,
         OrphanedPoliciesInert, GrantsStayInSubtree, tables
<1> QED
  BY <1>1, <1>2

\* A goroutine that is done waits for its next request.
LEMMA DoneType ==
    ASSUME TypeOK, NEW pr \in Proc, Done(pr)
    PROVE  req' \in [Proc -> Request \cup {NoRequest}]
BY DEF TypeOK, Done

\* A pending request is a request.
LEMMA PendingType ==
    ASSUME TypeOK, NEW pr \in Proc, NEW op, Pending(pr, op)
    PROVE  req[pr].caller \in User /\ req[pr].path \in Path /\ req[pr].user \in User
BY DEF TypeOK, Pending, Request

\* A check changes nothing but the goroutine's request.
LEMMA CheckInv ==
    ASSUME Structure, NEW pr \in Proc, Check(pr)
    PROVE  Structure' /\ (Effective => Effective')
<1>1. PICK c \in User, p \in Path :
         CheckCreate(pr, c, p) \/ CheckOwnerChange(pr, c, p) \/ CheckDelete(pr, c, p)
  BY DEF Check
<1>2. PICK r \in Request : Accept(pr, r)
  <2>1. CASE CheckCreate(pr, c, p)
    BY <2>1 DEF CheckCreate, Request
  <2>2. CASE CheckOwnerChange(pr, c, p)
    BY <2>2 DEF CheckOwnerChange, Request
  <2>3. CASE CheckDelete(pr, c, p)
    BY <2>3 DEF CheckDelete, Request
  <2> QED
    BY <1>1, <2>1, <2>2, <2>3
<1>3. req' \in [Proc -> Request \cup {NoRequest}]
  BY <1>2 DEF Accept, Structure, TypeOK
<1> QED
  BY <1>2, <1>3, TablesUnchanged DEF Accept

\* Removing an owner takes the grant and the metadata row that names it.
LEMMA RemoveOwnerInv ==
    ASSUME Structure, NEW pr \in Proc, RemoveOwner(pr)
    PROVE  Structure' /\ (Effective => Effective')
<1> DEFINE rows == {b \in ownerBinding : b[1] = req[pr].user /\ b[2].path = req[pr].path}
<1>1. req' \in [Proc -> Request \cup {NoRequest}]
  BY DoneType DEF RemoveOwner, Structure
<1>2. usrPolicy' = usrPolicy \ rows /\ ownerBinding' = ownerBinding \ rows
  BY DEF RemoveOwner
<1> HIDE DEF rows
<1>8. PermissionsOK'
  BY PermissionsKept DEF RemoveOwner, Structure, TypeOK
<1>3. TypeOK'
  BY <1>1, <1>2, <1>8 DEF RemoveOwner, Structure, TypeOK
<1>4. RecordedOwnersAreEffective => RecordedOwnersAreEffective'
  BY <1>2 DEF RemoveOwner, RecordedOwnersAreEffective
<1>5. RecoveryKept => RecoveryKept'
  BY DEF RemoveOwner, RecoveryKept, AdminRecovers
<1>6. OrphanedPoliciesInert /\ GrantsStayInSubtree
         => (OrphanedPoliciesInert /\ GrantsStayInSubtree)'
  BY DEF RemoveOwner, OrphanedPoliciesInert, GrantsStayInSubtree
<1>7. (MetadataWellFormed /\ ParentsExist /\ ProtectedPolicyKept)'
  BY DEF RemoveOwner, Structure, MetadataWellFormed, ParentsExist, ProtectedPolicyKept
<1> QED
  BY <1>3, <1>4, <1>5, <1>6, <1>7 DEF Structure, Effective

\* A deleted subtree takes every resource under its members with it.
LEMMA SubtreeClosed ==
    ASSUME TypeOK, NEW p \in Path, NEW d \in SubtreeOf(p), NEW q \in resource,
           q \in Below[d]
    PROVE  q \in SubtreeOf(p)
<1>1. p \in resource /\ d \in Below[p] /\ d \in Path
  BY DEF SubtreeOf, TypeOK
<1>2. Below[d] \subseteq Below[p]
  BY <1>1, TreeAssumption
<1> QED
  BY <1>1, <1>2 DEF SubtreeOf

\* The ownership delete takes a subtree, the policies generated for its root
\* and every row that refers to them; neighbours keep theirs.
LEMMA DeleteResourceInv ==
    ASSUME Structure, NEW pr \in Proc, DeleteResource(pr)
    PROVE  Structure' /\ (Effective => Effective')
<1> DEFINE p == req[pr].path
           D == SubtreeOf(p)
           N == {n \in policy : n.path = p /\ \E t \in Template : <<n, t>> \in generated}
<1>1. DeleteRows(N, D) /\ UNCHANGED <<role, permission, usr, grp, usrGrp>>
  BY DEF DeleteResource
<1>2. p \in Path /\ req' \in [Proc -> Request \cup {NoRequest}]
  BY PendingType, DoneType DEF DeleteResource, Structure
<1>3. /\ \A n \in N : n.path = p
      /\ p \in resource => p \in D
      /\ \A d \in D, q \in resource : q \in Below[d] => q \in D
  BY <1>2, SubtreeClosed, TreeAssumption DEF Structure, TypeOK, SubtreeOf
<1> HIDE DEF N, D, p
<1>4. TypeOK'
  <2>1. resource' \subseteq Path /\ policy' \subseteq Policy /\ made' \subseteq resource'
    BY <1>1 DEF DeleteRows, Cascade, Structure, TypeOK
  <2>2. policyResource' \subseteq policy' \X resource'
    BY <1>1 DEF DeleteRows, Cascade, Structure, TypeOK
  <2>3. policyRole' \subseteq policy' \X role' /\ generated' \subseteq policy' \X Template
    BY <1>1 DEF DeleteRows, Cascade, Structure, TypeOK
  <2>4. usrPolicy' \subseteq usr' \X policy' /\ grpPolicy' \subseteq grp' \X policy'
    BY <1>1 DEF DeleteRows, Cascade, Structure, TypeOK
  <2>5. ownerBinding' \subseteq User \X policy' /\ adminBinding' \subseteq AnyGroup \X policy'
    BY <1>1 DEF DeleteRows, Cascade, Structure, TypeOK
  <2> QED
    BY <1>1, <1>2, <2>1, <2>2, <2>3, <2>4, <2>5, PermissionsKept DEF Structure, TypeOK
<1>5. RecoveryKept => RecoveryKept'
  <2> SUFFICES ASSUME RecoveryKept, NEW q \in made', NEW g \in AdminGroups
               PROVE  AdminRecovers(g, q)'
    BY DEF RecoveryKept
  <2>1. q \in made /\ q \in resource /\ q \in Path /\ q \notin D
    BY <1>1 DEF DeleteRows, Cascade, Structure, TypeOK
  <2>2. AdminRecovers(g, q)
    BY <2>1 DEF RecoveryKept
  <2>3. AdminPolicy(q).path = q /\ AdminPolicy(q) \notin N
    BY <1>3, <2>1, PolicyNames
  <2> QED
    BY <1>1, <2>1, <2>2, <2>3 DEF DeleteRows, Cascade, AdminRecovers
<1>6. RecordedOwnersAreEffective => RecordedOwnersAreEffective'
  BY <1>1 DEF DeleteRows, Cascade, RecordedOwnersAreEffective
<1>7. GrantsStayInSubtree => GrantsStayInSubtree'
  BY <1>1 DEF DeleteRows, Cascade, GrantsStayInSubtree
<1>8. OrphanedPoliciesInert /\ GrantsStayInSubtree => OrphanedPoliciesInert'
  <2> SUFFICES ASSUME OrphanedPoliciesInert, GrantsStayInSubtree,
                      NEW r \in policyResource', r[1].kind \in {"owner", "admin"}
               PROVE  \E t \in Template : <<r[1], t>> \in generated'
    BY DEF OrphanedPoliciesInert
  <2>1. r \in policyResource /\ r[1] \notin N /\ r[2] \notin D /\ r[2] \in resource
    BY <1>1 DEF DeleteRows, Cascade, Structure, TypeOK
  <2>2. r[2] \in Below[r[1].path]
    BY <2>1 DEF GrantsStayInSubtree
  <2>3. PICK t \in Template : <<r[1], t>> \in generated
    BY <2>1 DEF OrphanedPoliciesInert
  <2>4. r[1].path \notin D
    BY <1>3, <2>1, <2>2
  <2> QED
    BY <1>1, <2>1, <2>3, <2>4 DEF DeleteRows, Cascade
<1>9. MetadataWellFormed'
  BY <1>1 DEF DeleteRows, Cascade, Structure, MetadataWellFormed
<1>10. ParentsExist'
  <2> SUFFICES ASSUME NEW q \in resource', Parent[q] # NoPath
               PROVE  Parent[q] \in resource'
    BY DEF ParentsExist
  <2>1. q \in resource /\ q \notin D /\ q \in Path
    BY <1>1 DEF DeleteRows, Cascade, Structure, TypeOK
  <2>2. Parent[q] \in resource /\ q \in Below[Parent[q]]
    BY <2>1, TreeAssumption DEF Structure, ParentsExist
  <2> QED
    BY <1>1, <1>3, <2>1, <2>2 DEF DeleteRows, Cascade
<1>11. ProtectedPolicyKept'
  <2> SUFFICES ASSUME NEW q \in made', AdminGroups # {}
               PROVE  /\ AdminPolicy(q) \in policy'
                      /\ <<AdminPolicy(q), q>> \in policyResource'
                      /\ \E t \in Template : <<AdminPolicy(q), t>> \in generated'
    BY DEF ProtectedPolicyKept
  <2>1. q \in made /\ q \in resource /\ q \in Path /\ q \notin D
    BY <1>1 DEF DeleteRows, Cascade, Structure, TypeOK
  <2>2. AdminPolicy(q).path = q /\ AdminPolicy(q) \notin N
    BY <1>3, <2>1, PolicyNames
  <2> QED
    BY <1>1, <2>1, <2>2 DEF DeleteRows, Cascade, Structure, ProtectedPolicyKept
<1> QED
  BY <1>4, <1>5, <1>6, <1>7, <1>8, <1>9, <1>10, <1>11 DEF Structure, Effective

\* Every target of the owner endpoint lies in the subtree of the resource and
\* carries a template.
LEMMA TargetsType ==
    ASSUME TypeOK, NEW p \in resource, NEW t \in Targets(p)
    PROVE  /\ t.template \in Template
           /\ p \in t.on
           /\ t.on \subseteq resource
           /\ t.on \subseteq Below[p]
<1> DEFINE own      == {r[2] : r \in {g \in generated : g[1].path = p}}
           attached == {r[2] : r \in {g \in generated : <<g[1], p>> \in policyResource}}
           byParent == IF Parent[p] = NoPath THEN {} ELSE {TemplateFor[Parent[p]]} \ {"none"}
           managed(T) == {[template |-> x, on |-> Attached(p, x, resource)] : x \in T}
<1>1. p \in Path /\ resource \subseteq Path
  BY DEF TypeOK
<1>2. own \subseteq Template /\ attached \subseteq Template
  BY DEF TypeOK
<1>3. byParent \subseteq Template
  BY <1>1, TreeAssumption
<1>4. ASSUME NEW x PROVE /\ p \in Attached(p, x, resource)
                         /\ Attached(p, x, resource) \subseteq resource
                         /\ Attached(p, x, resource) \subseteq Below[p]
  <2>1. p \in Below[p]
    BY <1>1, TreeAssumption
  <2>2. Container[p] \in resource => Container[p] \in Below[p]
    BY <1>1, ContainerBelow, TreeAssumption
  <2> QED
    BY <1>1, <2>1, <2>2 DEF Attached
<1>5. \/ t \in managed(own) \/ t \in managed(attached) \/ t \in managed(byParent)
      \/ t = [template |-> "gen3-program", on |-> {p}]
  BY DEF Targets
<1>6. CASE t = [template |-> "gen3-program", on |-> {p}]
  BY <1>1, <1>6, TreeAssumption DEF Template
<1>7. ASSUME NEW T \in SUBSET Template, t \in managed(T)
      PROVE  /\ t.template \in Template
             /\ t.on = Attached(p, t.template, resource)
  BY <1>7
<1> HIDE DEF own, attached, byParent
<1>8. CASE t \in managed(own) \/ t \in managed(attached) \/ t \in managed(byParent)
  <2>1. t.template \in Template /\ t.on = Attached(p, t.template, resource)
    BY <1>2, <1>3, <1>7, <1>8
  <2> QED
    BY <2>1, <1>4
<1> QED
  BY <1>5, <1>6, <1>8

\* Adding an owner attaches the owner policy inside the resource's subtree.
LEMMA AddOwnerInv ==
    ASSUME Structure, NEW pr \in Proc, AddOwner(pr)
    PROVE  Structure' /\ (Effective => Effective')
<1> DEFINE p == req[pr].path
           u == req[pr].user
           n == OwnerPolicy(p)
<1>1. p \in Path /\ u \in User /\ req' \in [Proc -> Request \cup {NoRequest}]
  BY PendingType, DoneType DEF AddOwner, Rollback, Structure
<1>2. CASE Rollback(pr)
  BY <1>1, <1>2, TablesUnchanged DEF Rollback
<1>3. CASE ~ Rollback(pr)
  <2>1. /\ p \in resource /\ OwnerRole \in role
        /\ \E t \in Targets(p) : BindOwner(u, n, t.template, t.on)
        /\ UNCHANGED <<resource, role, permission, grp, usrGrp, grpPolicy, adminBinding, made>>
    BY <1>3 DEF AddOwner, AddOwnerRefused
  <2>2. PICK t \in Targets(p) : BindOwner(u, n, t.template, t.on)
    BY <2>1
  <2> DEFINE x == t.template
             on == t.on
  <2>3. /\ x \in Template /\ p \in on /\ on \subseteq resource /\ on \subseteq Below[p]
    BY <2>1, TargetsType DEF Structure
  <2>4. n \in Policy /\ n.path = p /\ n.kind = "owner"
    BY <1>1, PolicyNames
  <2>5. /\ generated \subseteq generated'
        /\ \A r \in generated' : \/ r \in generated
                                 \/ r = <<n, x>> /\ \A s \in generated : s[1] # n
        /\ \E r \in generated' : r[1] = n
    BY <2>2, Upsert DEF BindOwner
  <2> HIDE DEF p, u, n, x, on
  <2>6. /\ usr' = usr \cup {u}
        /\ policy' = policy \cup {n}
        /\ policyResource' = policyResource \cup ({n} \X on)
        /\ policyRole' = policyRole \cup {<<n, OwnerRole>>}
        /\ usrPolicy' = usrPolicy \cup {<<u, n>>}
        /\ ownerBinding' = ownerBinding \cup {<<u, n>>}
    BY <2>2 DEF BindOwner, x, on
  <2>7. TypeOK'
    BY <1>1, <2>1, <2>3, <2>4, <2>5, <2>6, PermissionsKept DEF Structure, TypeOK
  <2>8. RecoveryKept => RecoveryKept'
    BY <2>1, <2>5, <2>6 DEF RecoveryKept, AdminRecovers
  <2>9. RecordedOwnersAreEffective => RecordedOwnersAreEffective'
    <3>1. <<n, p>> \in policyResource' /\ <<n, OwnerRole>> \in policyRole'
      BY <2>3, <2>6
    <3> SUFFICES ASSUME RecordedOwnersAreEffective, NEW b \in ownerBinding'
                 PROVE  /\ b[2].path \in resource' /\ b \in usrPolicy'
                        /\ <<b[2], b[2].path>> \in policyResource'
                        /\ <<b[2], OwnerRole>> \in policyRole'
      BY DEF RecordedOwnersAreEffective
    <3>2. CASE b \in ownerBinding
      BY <2>1, <2>6, <3>2 DEF RecordedOwnersAreEffective
    <3>3. CASE b = <<u, n>>
      BY <2>1, <2>4, <2>6, <3>1, <3>3
    <3> QED
      BY <2>6, <3>2, <3>3
  <2>10. OrphanedPoliciesInert => OrphanedPoliciesInert'
    <3>1. \E y \in Template : <<n, y>> \in generated'
      BY <2>5, <2>7 DEF TypeOK
    <3> QED
      BY <2>5, <2>6, <3>1 DEF OrphanedPoliciesInert
  <2>11. GrantsStayInSubtree => GrantsStayInSubtree'
    BY <2>3, <2>4, <2>6 DEF GrantsStayInSubtree
  <2>12. (MetadataWellFormed /\ ParentsExist)'
    BY <2>1, <2>4, <2>5 DEF Structure, MetadataWellFormed, ParentsExist
  <2>13. ProtectedPolicyKept'
    BY <2>1, <2>5, <2>6 DEF Structure, ProtectedPolicyKept
  <2> QED
    BY <2>7, <2>8, <2>9, <2>10, <2>11, <2>12, <2>13 DEF Structure, Effective
<1> QED
  BY <1>2, <1>3

\* A child and its container lie under the child and in the tree.
LEMMA NewResourcesType ==
    ASSUME NEW p \in Path, Parent[p] # NoPath
    PROVE  LET new == NewResources(p, TemplateFor[Parent[p]])
           IN  /\ p \in new
               /\ new \subseteq Path
               /\ new \subseteq Below[p]
               /\ \A q \in new : Parent[q] \in new \cup {Parent[p]}
<1>1. p \in Below[p]
  BY TreeAssumption
<1>2. CASE ~ HasContainer(TemplateFor[Parent[p]])
  BY <1>1, <1>2 DEF NewResources
<1>3. CASE HasContainer(TemplateFor[Parent[p]])
  <2>1. Container[p] # NoPath
    BY <1>3, TreeAssumption
  <2>2. Container[p] \in Path /\ Container[p] \in Below[p] /\ Parent[Container[p]] = p
    BY <2>1, ContainerBelow, TreeAssumption
  <2> QED
    BY <1>1, <1>3, <2>2 DEF NewResources
<1> QED
  BY <1>2, <1>3

\* Creation adds a child with a complete set of generated rows.
LEMMA CreateInv ==
    ASSUME Structure, NEW pr \in Proc, CreateOwnedDescendant(pr)
    PROVE  Structure' /\ (Effective => Effective')
<1> DEFINE p   == req[pr].path
           u   == req[pr].caller
           t   == TemplateFor[Parent[p]]
           new == NewResources(p, t)
           o   == OwnerPolicy(p)
           A   == AdminPolicies(p)
           N   == {o} \cup A
<1>1. p \in Path /\ u \in User /\ req' \in [Proc -> Request \cup {NoRequest}]
  BY PendingType, DoneType DEF CreateOwnedDescendant, MaterializeBindings, Rollback, Structure
<1>2. CASE Rollback(pr)
  BY <1>1, <1>2, TablesUnchanged DEF Rollback
<1>3. CASE ~ Rollback(pr)
  <2>1. /\ t # "none" /\ new \cap resource = {} /\ Parent[p] \in resource
        /\ AdminGroups \subseteq grp
        /\ AdminGroups # {} => AdminRole \in role
    BY <1>3 DEF CreateOwnedDescendant, CreateRefused
  <2>2. /\ role' = role \cup {OwnerRole, "org-member"}
        /\ resource' = resource \cup new
        /\ usr' = usr \cup {u}
        /\ policy' = policy \cup N
        /\ policyResource' = policyResource \cup (N \X new)
        /\ policyRole' = policyRole \cup {<<o, OwnerRole>>} \cup (A \X {AdminRole})
        /\ generated' = UpsertMetadata(generated, N, t)
        /\ usrPolicy' = usrPolicy \cup {<<u, o>>}
        /\ ownerBinding' = ownerBinding \cup {<<u, o>>}
        /\ grpPolicy' = grpPolicy \cup (AdminGroups \X A)
        /\ adminBinding' = adminBinding \cup (AdminGroups \X A)
        /\ made' = made \cup {p}
        /\ UNCHANGED <<grp, usrGrp>>
    BY <1>3 DEF CreateOwnedDescendant, MaterializeBindings
  <2>16. permission' = EnsurePermissions(permission)
    BY <1>3 DEF CreateOwnedDescendant
  <2>3. Parent[p] \in Path /\ Parent[p] # NoPath
    BY <2>1, TreeAssumption DEF Structure, TypeOK
  <2>4. t \in Template
    BY <2>1, <2>3, TreeAssumption
  <2>5. /\ p \in new /\ new \subseteq Path /\ new \subseteq Below[p]
        /\ \A q \in new : Parent[q] \in new \cup {Parent[p]}
    BY <1>1, <2>3, NewResourcesType
  <2>6. /\ o \in Policy /\ o.path = p /\ o.kind = "owner"
        /\ \A a \in A : /\ a = AdminPolicy(p) /\ a \in Policy
                        /\ a.path = p /\ a.kind = "admin"
        /\ AdminGroups # {} => AdminPolicy(p) \in A
        /\ A # {} => AdminGroups # {}
    BY <1>1, PolicyNames DEF AdminPolicies
  <2>7. /\ generated \subseteq generated'
        /\ \A r \in generated' :
              r \in generated \/ \E n \in N : r = <<n, t>> /\ \A s \in generated : s[1] # n
        /\ \A n \in N : \E r \in generated' : r[1] = n
    BY <2>2, Upsert
  <2> HIDE DEF p, u, t, new, o, A
  <2>8. TypeOK'
    <3>1. /\ resource' \subseteq Path /\ role' \subseteq Role /\ policy' \subseteq Policy
          /\ usr' \subseteq User /\ made' \subseteq resource' /\ grp' \subseteq AnyGroup
      BY <1>1, <2>2, <2>5, <2>6 DEF Structure, TypeOK, Role, OwnerRole
    <3>2. policyResource' \subseteq policy' \X resource'
      BY <2>2 DEF Structure, TypeOK
    <3>3. policyRole' \subseteq policy' \X role'
      BY <2>1, <2>2, <2>6 DEF Structure, TypeOK
    <3>4. generated' \subseteq policy' \X Template
      <4> SUFFICES ASSUME NEW r \in generated' PROVE r \in policy' \X Template
        OBVIOUS
      <4>1. CASE r \in generated
        BY <2>2, <4>1 DEF Structure, TypeOK
      <4>2. CASE \E n \in N : r = <<n, t>>
        BY <2>2, <2>4, <4>2
      <4> QED
        BY <2>7, <4>1, <4>2
    <3>5. usrPolicy' \subseteq usr' \X policy' /\ ownerBinding' \subseteq User \X policy'
      BY <1>1, <2>2 DEF Structure, TypeOK
    <3>6. grpPolicy' \subseteq grp' \X policy' /\ adminBinding' \subseteq AnyGroup \X policy'
      BY <2>1, <2>2, SubjectAssumption DEF Structure, TypeOK, AnyGroup
    <3>7. usrGrp' \subseteq usr' \X grp'
      BY <2>2 DEF Structure, TypeOK
    <3>8. PermissionsOK'
      BY <2>2, <2>16, EnsurePermissionsOK DEF Structure, TypeOK
    <3> QED
      BY <1>1, <3>1, <3>2, <3>3, <3>4, <3>5, <3>6, <3>7, <3>8 DEF TypeOK
  <2>9. RecoveryKept => RecoveryKept'
    <3> SUFFICES ASSUME RecoveryKept, NEW q \in made', NEW g \in AdminGroups
                 PROVE  AdminRecovers(g, q)'
      BY DEF RecoveryKept
    <3>1. CASE q \in made
      BY <2>2, <2>7, <3>1 DEF RecoveryKept, AdminRecovers
    <3>2. CASE q = p
      <4>1. AdminPolicy(p) \in A
        BY <2>6
      <4>2. \E y \in Template : <<AdminPolicy(p), y>> \in generated'
        BY <4>1, <2>7, <2>8 DEF TypeOK
      <4> QED
        BY <2>2, <2>5, <3>2, <4>1, <4>2 DEF AdminRecovers
    <3> QED
      BY <2>2, <3>1, <3>2
  <2>10. RecordedOwnersAreEffective => RecordedOwnersAreEffective'
    <3> SUFFICES ASSUME RecordedOwnersAreEffective, NEW b \in ownerBinding'
                 PROVE  /\ b[2].path \in resource' /\ b \in usrPolicy'
                        /\ <<b[2], b[2].path>> \in policyResource'
                        /\ <<b[2], OwnerRole>> \in policyRole'
      BY DEF RecordedOwnersAreEffective
    <3>1. CASE b \in ownerBinding
      BY <2>2, <3>1 DEF RecordedOwnersAreEffective
    <3>2. CASE b = <<u, o>>
      BY <2>2, <2>5, <2>6, <3>2
    <3> QED
      BY <2>2, <3>1, <3>2
  <2>11. OrphanedPoliciesInert => OrphanedPoliciesInert'
    <3>1. \A n \in N : \E y \in Template : <<n, y>> \in generated'
      BY <2>7, <2>8 DEF TypeOK
    <3> QED
      BY <2>2, <2>7, <3>1 DEF OrphanedPoliciesInert
  <2>12. GrantsStayInSubtree => GrantsStayInSubtree'
    BY <2>2, <2>5, <2>6 DEF GrantsStayInSubtree
  <2>13. MetadataWellFormed'
    <3> SUFFICES ASSUME NEW r \in generated', NEW s \in generated'
                 PROVE  /\ r[1].kind \in {"owner", "admin"}
                        /\ r[1].path \in resource'
                        /\ s[1] = r[1] => s = r
      BY DEF MetadataWellFormed
    <3>1. \A n \in N : n.kind \in {"owner", "admin"} /\ n.path \in resource'
      BY <2>2, <2>5, <2>6
    <3>2. r[1].kind \in {"owner", "admin"} /\ r[1].path \in resource'
      <4>1. CASE r \in generated
        BY <2>2, <4>1 DEF Structure, MetadataWellFormed
      <4>2. CASE \E n \in N : r = <<n, t>>
        BY <3>1, <4>2
      <4> QED
        BY <2>7, <4>1, <4>2
    <3>3. ASSUME s[1] = r[1] PROVE s = r
      <4>1. CASE r \in generated /\ s \in generated
        BY <3>3, <4>1 DEF Structure, MetadataWellFormed
      <4>2. CASE r \notin generated \/ s \notin generated
        BY <2>7, <3>3, <4>2
      <4> QED
        BY <4>1, <4>2
    <3> QED
      BY <3>2, <3>3
  <2>14. ParentsExist'
    BY <2>1, <2>2, <2>5 DEF Structure, ParentsExist
  <2>15. ProtectedPolicyKept'
    <3>1. AdminGroups # {} => /\ AdminPolicy(p) \in N
                              /\ \E y \in Template : <<AdminPolicy(p), y>> \in generated'
      BY <2>6, <2>7, <2>8 DEF TypeOK
    <3> QED
      BY <2>2, <2>5, <2>7, <3>1 DEF Structure, ProtectedPolicyKept
  <2> QED
    BY <2>8, <2>9, <2>10, <2>11, <2>12, <2>13, <2>14, <2>15 DEF Structure, Effective
<1> QED
  BY <1>2, <1>3

\* Every step of the service keeps the invariant and its structural part.
LEMMA NextInv ==
    ASSUME Structure, Next PROVE Structure' /\ (Effective => Effective')
<1>1. PICK pr \in Proc : Check(pr) \/ Commit(pr)
  BY DEF Next
<1> QED
  BY <1>1, CheckInv, CreateInv, AddOwnerInv, RemoveOwnerInv, DeleteResourceInv DEF Commit

\* Every reachable state satisfies the inductive invariant.
THEOREM Invariance == Spec => []IndInv
<1>1. IndInv /\ [Next]_vars => IndInv'
  <2>1. CASE Next
    BY <2>1, NextInv DEF IndInv
  <2>2. CASE UNCHANGED vars
    BY <2>2, TablesUnchanged DEF IndInv, Structure, TypeOK, vars, tables
  <2> QED
    BY <2>1, <2>2
<1> QED
  BY <1>1, InitInv, PTL DEF Spec

\* The tables keep their types and their references to each other.
THEOREM Typing == Spec => []TypeOK
<1>1. IndInv => TypeOK
  BY DEF IndInv, Structure, Effective
<1> QED
  BY <1>1, Invariance, PTL

\* No sequence of ownership requests takes the admin groups' recovery access
\* from a resource that the create endpoint made.
THEOREM RecoveryTheorem == Spec => []RecoveryKept
<1>1. IndInv => RecoveryKept
  BY DEF IndInv, Structure, Effective
<1> QED
  BY <1>1, Invariance, PTL

\* Whoever the owner metadata names holds the owner role on the resource.
THEOREM RecordedOwnersTheorem == Spec => []RecordedOwnersAreEffective
<1>1. IndInv => RecordedOwnersAreEffective
  BY DEF IndInv, Structure, Effective
<1> QED
  BY <1>1, Invariance, PTL

\* Policies left over from a deleted subtree grant nothing until the path is
\* made again.
THEOREM OrphansInertTheorem == Spec => []OrphanedPoliciesInert
<1>1. IndInv => OrphanedPoliciesInert
  BY DEF IndInv, Structure, Effective
<1> QED
  BY <1>1, Invariance, PTL

\* A generated policy never reaches outside the subtree of its resource.
THEOREM SubtreeTheorem == Spec => []GrantsStayInSubtree
<1>1. IndInv => GrantsStayInSubtree
  BY DEF IndInv, Structure, Effective
<1> QED
  BY <1>1, Invariance, PTL

============================================================================
