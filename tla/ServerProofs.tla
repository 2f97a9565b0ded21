---------------------------- MODULE ServerProofs ---------------------------
(***************************************************************************)
(* What the protected flag is worth: invariants that the ownership,        *)
(* catalog and principal endpoints keep together, for every resource tree, *)
(* every set of subjects and every request body.                           *)
(***************************************************************************)
EXTENDS Principals, OwnershipProofs

\* The resources that PUT /resource drops: closed under descendants, never
\* one that the body mentions, never the parent of the body's root.
LEMMA UnmentionedClosed ==
    ASSUME TypeOK, NEW p \in Path, NEW B \in Tree(p), NEW V \in Visited(p, B)
    PROVE  /\ V \in Tree(p)
           /\ \A d \in Unmentioned(V, B), q \in resource :
                 q \in Below[d] => q \in Unmentioned(V, B)
           /\ Unmentioned(V, B) \cap V = {}
           /\ Parent[p] \notin Unmentioned(V, B)
<1> DEFINE X == {y \in resource : Parent[y] \in V /\ y \notin B}
<1>1. /\ X \subseteq Path /\ X \subseteq resource
      /\ \A x \in X : Parent[x] \in B /\ x \notin B /\ x \in Below[Parent[x]]
      /\ B \subseteq Path /\ B \subseteq Below[p] /\ p \in B
      /\ \A q \in B \ {p} : Parent[q] \in B
  <2>1. /\ B \subseteq Below[p] /\ p \in B /\ \A q \in B \ {p} : Parent[q] \in B
        /\ V \subseteq B
    BY DEF Tree, Visited
  <2>2. B \subseteq Path
    BY <2>1, TreeAssumption
  <2>3. X \subseteq Path /\ X \subseteq resource
    BY DEF TypeOK
  <2>4. \A x \in X : Parent[x] # NoPath
    BY <2>1, <2>2, TreeAssumption
  <2> QED
    BY <2>1, <2>2, <2>3, <2>4, TreeAssumption
<1>2. \A d : d \in Unmentioned(V, B) <=> \E x \in X : d \in Below[x] \cap resource
  BY <1>1 DEF Unmentioned, SubtreeOf
<1> HIDE DEF X
<1>3. ASSUME NEW x \in X PROVE Below[x] \subseteq Below[p] /\ p \notin Below[x]
  <2>1. Parent[x] \in Below[p] /\ x \in Below[Parent[x]] /\ Parent[x] \in Path
    BY <1>1
  <2>2. x \in Below[p]
    BY <2>1, TreeAssumption
  <2>3. Parent[x] \notin Below[x]
    BY <1>1, DepthAssumption
  <2> QED
    BY <1>1, <2>1, <2>2, <2>3, TreeAssumption
<1>4. ASSUME NEW x \in X PROVE Below[x] \cap B = {}
  <2> DEFINE S == Below[x] \cap B
  <2>1. ASSUME NEW s \in S PROVE Parent[s] \in S
    <3>1. s # p /\ s # x
      BY <1>1, <1>3
    <3> QED
      BY <1>1, <3>1, DepthAssumption
  <2>2. S \subseteq Path
    BY <1>1
  <2> HIDE DEF S
  <2>3. S = {}
    BY <2>1, <2>2, DepthAssumption
  <2> QED
    BY <2>3 DEF S
<1>5. Unmentioned(V, B) \cap B = {}
  BY <1>2, <1>4
<1>6. Parent[p] \notin Unmentioned(V, B)
  BY <1>2, <1>3, DepthAssumption
<1>7. ASSUME NEW d \in Unmentioned(V, B), NEW q \in resource, q \in Below[d]
      PROVE  q \in Unmentioned(V, B)
  <2>1. PICK x \in X : d \in Below[x]
    BY <1>2
  <2>2. q \in Below[x]
    BY <1>1, <1>7, <2>1, TreeAssumption
  <2> QED
    BY <1>2, <2>2
<1>8. V \in Tree(p) /\ V \subseteq B
  BY DEF Visited
<1> QED
  BY <1>5, <1>6, <1>7, <1>8

\* Deleting unprotected policies and whole subtrees, with all cascades, keeps
\* the structure; so does adding resources below existing ones.
LEMMA CascadeInv ==
    ASSUME Structure, NEW N, NEW D, NEW B \in SUBSET Path,
           \A n \in N : ~ GeneratedPolicyIsProtected(n),
           Cascade(N, D), resource' = (resource \ D) \cup B, ParentsExist',
           UNCHANGED <<role, permission, usr, grp, usrGrp, req>>
    PROVE  Structure'
<1>1. TypeOK'
  <2>1. resource' \subseteq Path /\ policy' \subseteq Policy /\ made' \subseteq resource'
    BY DEF Cascade, Structure, TypeOK
  <2>2. policyResource' \subseteq policy' \X resource'
    BY DEF Cascade, Structure, TypeOK
  <2>3. policyRole' \subseteq policy' \X role' /\ generated' \subseteq policy' \X Template
    BY DEF Cascade, Structure, TypeOK
  <2>4. usrPolicy' \subseteq usr' \X policy' /\ grpPolicy' \subseteq grp' \X policy'
    BY DEF Cascade, Structure, TypeOK
  <2>5. ownerBinding' \subseteq User \X policy' /\ adminBinding' \subseteq AnyGroup \X policy'
    BY DEF Cascade, Structure, TypeOK
  <2>6. PermissionsOK'
    BY PermissionsKept DEF Structure, TypeOK
  <2> QED
    BY <2>1, <2>2, <2>3, <2>4, <2>5, <2>6 DEF Structure, TypeOK
<1>2. MetadataWellFormed'
  BY DEF Cascade, Structure, MetadataWellFormed
<1>3. ProtectedPolicyKept'
  <2> SUFFICES ASSUME NEW q \in made', AdminGroups # {}
               PROVE  /\ AdminPolicy(q) \in policy'
                      /\ <<AdminPolicy(q), q>> \in policyResource'
                      /\ \E t \in Template : <<AdminPolicy(q), t>> \in generated'
    BY DEF ProtectedPolicyKept
  <2>1. q \in made /\ q \in Path /\ q \notin D
    BY DEF Cascade, Structure, TypeOK
  <2>2. PICK t \in Template : <<AdminPolicy(q), t>> \in generated
    BY <2>1 DEF Structure, ProtectedPolicyKept
  <2>3. AdminPolicy(q).path = q /\ AdminPolicy(q).kind = "admin"
    BY <2>1, PolicyNames
  <2>4. AdminPolicy(q) \notin N
    BY <2>2, <2>3 DEF GeneratedPolicyIsProtected
  <2> QED
    BY <2>1, <2>2, <2>3, <2>4 DEF Cascade, Structure, ProtectedPolicyKept
<1> QED
  BY <1>1, <1>2, <1>3 DEF Structure

\* No orphan is left when a subtree goes.
LEMMA ParentsKept ==
    ASSUME Structure, NEW D, NEW B, NEW p \in Path,
           \A d \in D, q \in resource : q \in Below[d] => q \in D,
           resource' = (resource \ D) \cup B,
           \A q \in B \ {p} : Parent[q] \in B,
           p \in B => Parent[p] = NoPath \/ Parent[p] \in resource \ D
    PROVE  ParentsExist'
<1> SUFFICES ASSUME NEW q \in resource', Parent[q] # NoPath
             PROVE  Parent[q] \in resource'
  BY DEF ParentsExist
<1>1. CASE q \in B
  BY <1>1
<1>2. CASE q \in resource \ D
  <2>1. q \in Path /\ Parent[q] \in resource
    BY <1>2 DEF Structure, TypeOK, ParentsExist
  <2>2. q \in Below[Parent[q]]
    BY <2>1, TreeAssumption
  <2> QED
    BY <1>2, <2>1, <2>2
<1> QED
  BY <1>1, <1>2

\* The resource endpoints keep the structure.
LEMMA ResourceInv ==
    ASSUME Structure, NEW p \in Path,
           \/ ResourceDelete(p)
           \/ \E B \in Tree(p) :
                 \/ ResourceCreate(p, B)
                 \/ \E V \in Visited(p, B), merge \in BOOLEAN : ResourceUpdate(p, B, V, merge)
    PROVE  Structure'
<1>1. CASE ResourceDelete(p)
  <2> DEFINE D == SubtreeOf(p)
             B == {}
  <2>1. \A d \in D, q \in resource : q \in Below[d] => q \in D
    BY SubtreeClosed DEF Structure
  <2>2. /\ resource' = (resource \ D) \cup B /\ Cascade({}, D)
        /\ UNCHANGED <<role, permission, usr, grp, usrGrp, req>>
    BY <1>1 DEF ResourceDelete, DeleteRows
  <2>3. B \subseteq Path /\ B \ {p} = {} /\ p \notin B
    OBVIOUS
  <2> HIDE DEF B, D
  <2>4. ParentsExist'
    BY <2>1, <2>2, <2>3, ParentsKept
  <2> QED
    BY <2>2, <2>3, <2>4, CascadeInv
<1>2. ASSUME NEW B \in Tree(p), ResourceCreate(p, B) PROVE Structure'
  <2>1. B \subseteq Path /\ \A q \in B \ {p} : Parent[q] \in B
    BY TreeAssumption DEF Tree
  <2>2. ParentsExist'
    <3>1. resource' = (resource \ {}) \cup B
      BY <1>2 DEF ResourceCreate
    <3> QED
      BY <1>2, <2>1, <3>1, ParentsKept DEF ResourceCreate, HasParent
  <2>3. TypeOK'
    BY <1>2, <2>1, PermissionsKept DEF ResourceCreate, Structure, TypeOK
  <2> QED
    BY <1>2, <2>2, <2>3 DEF ResourceCreate, Structure, MetadataWellFormed,
                            ProtectedPolicyKept
<1>3. ASSUME NEW B \in Tree(p), NEW V \in Visited(p, B), NEW merge \in BOOLEAN,
             ResourceUpdate(p, B, V, merge)
      PROVE  Structure'
  <2> DEFINE D == IF merge THEN {} ELSE Unmentioned(V, B)
  <2>1. V \subseteq Path /\ \A q \in V \ {p} : Parent[q] \in V
    BY UnmentionedClosed, TreeAssumption DEF Tree, Structure
  <2>2. /\ \A d \in D, q \in resource : q \in Below[d] => q \in D
        /\ Parent[p] \notin D
    BY UnmentionedClosed DEF Structure
  <2>3. /\ HasParent(p)
        /\ resource' = (resource \ D) \cup V
        /\ Cascade({}, D)
        /\ UNCHANGED <<role, permission, usr, grp, usrGrp, req>>
    BY <1>3 DEF ResourceUpdate
  <2> HIDE DEF D
  <2>4. ParentsExist'
    BY <2>1, <2>2, <2>3, ParentsKept DEF HasParent
  <2> QED
    BY <2>1, <2>3, <2>4, CascadeInv
<1> QED
  BY <1>1, <1>2, <1>3

\* The policy endpoints keep the structure: they refuse protected policies.
LEMMA PolicyInv ==
    ASSUME Structure,
           \/ \E b \in PolicyInput : PolicyCreate(b) \/ PolicyOverwrite(b)
           \/ \E n \in policy : PolicyDelete(n)
    PROVE  Structure'
<1>1. ASSUME NEW b \in PolicyInput, PolicyCreate(b) PROVE Structure'
  <2>1. TypeOK'
    BY <1>1, PolicyInputAssumption, PermissionsKept DEF PolicyCreate, Linkable, Structure, TypeOK
  <2> QED
    BY <1>1, <2>1 DEF PolicyCreate, Structure, MetadataWellFormed, ParentsExist,
                      ProtectedPolicyKept
<1>2. ASSUME NEW b \in PolicyInput, PolicyOverwrite(b) PROVE Structure'
  <2>1. TypeOK'
    BY <1>2, PermissionsKept DEF PolicyOverwrite, Linkable, Structure, TypeOK
  <2>2. ProtectedPolicyKept'
    <3>1. \A p \in made : AdminGroups # {} => AdminPolicy(p) # b.name
      BY <1>2, PolicyNames DEF PolicyOverwrite, GeneratedPolicyIsProtected, Structure,
                               ProtectedPolicyKept, TypeOK
    <3> QED
      BY <1>2, <3>1 DEF PolicyOverwrite, Structure, ProtectedPolicyKept
  <2> QED
    BY <1>2, <2>1, <2>2 DEF PolicyOverwrite, Structure, MetadataWellFormed, ParentsExist
<1>3. ASSUME NEW n \in policy, PolicyDelete(n) PROVE Structure'
  <2>1. resource' = (resource \ {}) \cup {} /\ ParentsExist'
    BY <1>3 DEF PolicyDelete, DeleteRows, Structure, ParentsExist
  <2> QED
    BY <1>3, <2>1, CascadeInv DEF PolicyDelete, DeleteRows
<1> QED
  BY <1>1, <1>2, <1>3

\* The rows of a body of POST or PUT /role are permissions of its role, one per
\* name.
LEMMA PermissionRowsType ==
    ASSUME NEW b \in RoleInput
    PROVE  /\ b.name \in Role
           /\ PermissionRows(b) \subseteq [role : {b.name}, name : Method, method : Method]
           /\ \A x \in PermissionRows(b) : x.name \in DOMAIN b.permissions
           /\ \A x, y \in PermissionRows(b) : x.name = y.name => x = y
<1>1. PICK names \in (SUBSET Method) \ {{}} : b.permissions \in [names -> Method]
  BY RoleInputAssumption
<1>2. DOMAIN b.permissions = names /\ \A m \in names : b.permissions[m] \in Method
  BY <1>1
<1> QED
  BY <1>1, <1>2, RoleInputAssumption DEF PermissionRows, Permission

\* The role endpoints keep the structure.
LEMMA RoleInv ==
    ASSUME Structure, NEW b \in RoleInput,
           RoleCreate(b) \/ RoleOverwrite(b) \/ RoleDelete(b.name)
    PROVE  Structure'
<1>1. PermissionsOK /\ role \subseteq Role
  BY DEF Structure, TypeOK
<1>2. PermissionsOK'
  <2>1. CASE RoleCreate(b)
    <3>1. \A x \in permission : x.role # b.name
      BY <1>1, <2>1 DEF RoleCreate, PermissionsOK
    <3> QED
      BY <1>1, <2>1, <3>1, PermissionRowsType DEF RoleCreate, PermissionsOK
  <2>2. CASE RoleOverwrite(b)
    BY <1>1, <2>2, PermissionRowsType DEF RoleOverwrite, PermissionsOK
  <2>3. CASE RoleDelete(b.name)
    BY <1>1, <2>3 DEF RoleDelete, PermissionsOK
  <2> QED
    BY <2>1, <2>2, <2>3
<1>3. TypeOK'
  BY <1>2, PermissionRowsType DEF RoleCreate, RoleOverwrite, RoleDelete, notRoles, Structure, TypeOK
<1> QED
  BY <1>3 DEF RoleCreate, RoleOverwrite, RoleDelete, notRoles, Structure, MetadataWellFormed,
              ParentsExist, ProtectedPolicyKept

\* Requests that touch only subjects and their grants keep the structure.
LEMMA GrantsInv ==
    ASSUME Structure, UNCHANGED catalog,
           usr' \subseteq User, grp' \subseteq AnyGroup,
           usrPolicy' \subseteq usr' \X policy, usrGrp' \subseteq usr' \X grp',
           grpPolicy' \subseteq grp' \X policy
    PROVE  Structure'
<1>1. TypeOK'
  BY PermissionsKept DEF catalog, Structure, TypeOK
<1> QED
  BY <1>1 DEF catalog, Structure, MetadataWellFormed, ParentsExist, ProtectedPolicyKept

\* The user endpoints keep the structure.
LEMMA UserInv ==
    ASSUME Structure, UserStep
    PROVE  Structure'
<1> USE DEF Structure, TypeOK
<1>1. PICK u \in User :
         \/ UserCreate(u)
         \/ \E v \in User : UserUpdate(u, v)
         \/ UserDelete(u)
         \/ \E n \in policy : UserGrantPolicy(u, n)
         \/ \E rows \in SUBSET {r \in usrPolicy : r[1] = u} : UserRevoke(u, rows)
  BY DEF UserStep
<1>2. CASE UserCreate(u)
  BY <1>2, GrantsInv DEF UserCreate
<1>3. ASSUME NEW v \in User, UserUpdate(u, v) PROVE Structure'
  <2>1. usrPolicy' \subseteq usr' \X policy
    BY <1>3 DEF UserUpdate
  <2>2. usrGrp' \subseteq usr' \X grp
    BY <1>3 DEF UserUpdate
  <2> QED
    BY <1>3, <2>1, <2>2, GrantsInv DEF UserUpdate
<1>4. CASE UserDelete(u)
  BY <1>4, GrantsInv DEF UserDelete
<1>5. ASSUME NEW n \in policy, UserGrantPolicy(u, n) PROVE Structure'
  BY <1>5, GrantsInv DEF UserGrantPolicy
<1>6. ASSUME NEW rows \in SUBSET {r \in usrPolicy : r[1] = u}, UserRevoke(u, rows)
      PROVE  Structure'
  BY <1>6, GrantsInv DEF UserRevoke
<1> QED
  BY <1>1, <1>2, <1>3, <1>4, <1>5, <1>6

\* The group endpoints keep the structure.
LEMMA GroupInv ==
    ASSUME Structure, GroupStep
    PROVE  Structure'
<1> USE DEF Structure, TypeOK
<1>1. ASSUME NEW b \in GroupInput, NEW cu \in SUBSET usrGrp, NEW cp \in SUBSET grpPolicy,
             AttachUsrAndPolicy(b, cu, cp), grp \subseteq grp', b.name \in grp'
      PROVE  usrGrp' \subseteq usr \X grp' /\ grpPolicy' \subseteq grp' \X policy
  BY <1>1 DEF AttachUsrAndPolicy
<1>2. ASSUME NEW b \in GroupInput, GroupCreate(b) PROVE Structure'
  <2>1. usrGrp' \subseteq usr \X grp' /\ grpPolicy' \subseteq grp' \X policy
    BY <1>1, <1>2 DEF GroupCreate
  <2> QED
    BY <1>2, <2>1, GrantsInv, GroupInputAssumption DEF GroupCreate
<1>3. ASSUME NEW b \in GroupInput, GroupOverwrite(b) PROVE Structure'
  <2>1. CASE GroupCreate(b)
    BY <1>2, <2>1
  <2>2. CASE ~ GroupCreate(b)
    <3>1. PICK cu \in SUBSET {r \in usrGrp : r[2] = b.name},
               cp \in SUBSET {r \in grpPolicy : r[1] = b.name} :
                 AttachUsrAndPolicy(b, cu, cp)
      BY <1>3, <2>2 DEF GroupOverwrite
    <3>2. b.name \in grp /\ UNCHANGED <<catalog, usr, usrPolicy, grp>>
      BY <1>3, <2>2 DEF GroupOverwrite
    <3>3. usrGrp' \subseteq usr \X grp' /\ grpPolicy' \subseteq grp' \X policy
      BY <1>1, <3>1, <3>2
    <3> QED
      BY <3>2, <3>3, GrantsInv
  <2> QED
    BY <2>1, <2>2
<1>4. ASSUME NEW g \in grp, GroupDelete(g) PROVE Structure'
  BY <1>4, GrantsInv DEF GroupDelete
<1>5. ASSUME NEW u \in User, NEW g \in AnyGroup, GroupAddUser(u, g) \/ GroupRemoveUser(u, g)
      PROVE  Structure'
  BY <1>5, GrantsInv DEF GroupAddUser, GroupRemoveUser
<1>6. ASSUME NEW g \in AnyGroup, NEW n \in policy,
             GroupGrantPolicy(g, n) \/ GroupRevokePolicy(g, n)
      PROVE  Structure'
  BY <1>6, GrantsInv DEF GroupGrantPolicy, GroupRevokePolicy
<1> QED
  BY <1>2, <1>3, <1>4, <1>5, <1>6 DEF GroupStep

\* Every step of the server keeps the structure.
LEMMA ServerNextInv ==
    ASSUME Structure, [ServerNext]_vars PROVE Structure'
<1>1. CASE Next
  BY <1>1, NextInv
<1>2. CASE CatalogStep
  <2>1. CASE ResourceStep
    BY <2>1, ResourceInv DEF ResourceStep
  <2>2. CASE PolicyStep
    BY <2>2, PolicyInv DEF PolicyStep
  <2>3. CASE RoleStep
    BY <2>3, RoleInv DEF RoleStep
  <2> QED
    BY <1>2, <2>1, <2>2, <2>3 DEF CatalogStep
<1>3. CASE UserStep \/ GroupStep
  BY <1>3, UserInv, GroupInv
<1>4. CASE UNCHANGED vars
  BY <1>4, TablesUnchanged DEF Structure, TypeOK, vars, tables
<1> QED
  BY <1>1, <1>2, <1>3, <1>4 DEF ServerNext

\* Every endpoint of the server keeps the structure.
THEOREM ServerStructure == ServerSpec => []Structure
<1>1. Init => Structure
  BY InitInv DEF IndInv
<1>2. Structure /\ [ServerNext]_vars => Structure'
  BY ServerNextInv
<1> QED
  BY <1>1, <1>2, PTL DEF ServerSpec

\* No request, generic or not, separates a resource made by the create
\* endpoint from its protected admin policy.
THEOREM ProtectedPolicyTheorem == ServerSpec => []ProtectedPolicyKept
<1>1. Structure => ProtectedPolicyKept
  BY DEF Structure
<1> QED
  BY <1>1, ServerStructure, PTL

\* The resource tree stays closed under parents: what the deferred trigger, the
\* recursive delete and PUT without merge do between them, one transaction
\* after another.
THEOREM ParentsTheorem == ServerSpec => []ParentsExist
<1>1. Structure => ParentsExist
  BY DEF Structure
<1> QED
  BY <1>1, ServerStructure, PTL

\* generated_policy_metadata is about generated policies only, has one row for
\* each, and never outlives its resource, whichever endpoint deletes that.
THEOREM MetadataTheorem == ServerSpec => []MetadataWellFormed
<1>1. Structure => MetadataWellFormed
  BY DEF Structure
<1> QED
  BY <1>1, ServerStructure, PTL

\* What ProtectedPoliciesStay says of a step.
StayStep ==
    \A n \in policy : GeneratedPolicyIsProtected(n) /\ ~ GeneratedPolicyIsProtected(n)'
                           => n.path \notin resource'

\* A delete that takes policies N and resources D, and lets none of D back in,
\* takes protected policies only with their resources.
LEMMA CascadeStay ==
    ASSUME NEW N, NEW D, Cascade(N, D), resource' \cap D = {},
           \A n \in N : ~ GeneratedPolicyIsProtected(n) \/ n.path \notin resource'
    PROVE  StayStep
<1> SUFFICES ASSUME NEW n \in policy, NEW t \in Template, n.kind = "admin",
                    <<n, t>> \in generated, <<n, t>> \notin generated'
             PROVE  n.path \notin resource'
  BY DEF StayStep, GeneratedPolicyIsProtected
<1>1. GeneratedPolicyIsProtected(n)
  BY DEF GeneratedPolicyIsProtected
<1>2. n \in N \/ n.path \in D
  BY DEF Cascade
<1> QED
  BY <1>1, <1>2

\* Metadata that only grows loses no protection.
LEMMA GrowthStays ==
    ASSUME generated \subseteq generated'
    PROVE  StayStep
BY DEF StayStep, GeneratedPolicyIsProtected

\* No endpoint strips a policy of its protection while its resource exists.
LEMMA StayLemma ==
    ASSUME Structure, ServerNext
    PROVE  StayStep
<1>1. ASSUME NEW pr \in Proc, Check(pr) \/ Commit(pr) PROVE StayStep
  <2>1. CASE Check(pr)
    BY <2>1, GrowthStays DEF Check, CheckCreate, CheckOwnerChange, CheckDelete, Accept, tables
  <2>2. CASE CreateOwnedDescendant(pr)
    <3>1. generated \subseteq generated'
      BY <2>2, Upsert DEF CreateOwnedDescendant, MaterializeBindings, Rollback, tables
    <3> QED
      BY <3>1, GrowthStays
  <2>3. CASE AddOwner(pr)
    <3>1. generated \subseteq generated'
      BY <2>3, Upsert DEF AddOwner, BindOwner, Rollback, tables
    <3> QED
      BY <3>1, GrowthStays
  <2>4. CASE RemoveOwner(pr)
    BY <2>4, GrowthStays DEF RemoveOwner
  <2>5. CASE DeleteResource(pr)
    <3> DEFINE p == req[pr].path
               D == SubtreeOf(p)
               N == {n \in policy : n.path = p /\ \E t \in Template : <<n, t>> \in generated}
    <3>1. Cascade(N, D) /\ resource' = resource \ D
      BY <2>5 DEF DeleteResource, DeleteRows
    <3>2. p \in Path
      BY <2>5, PendingType DEF DeleteResource, Structure
    <3>3. p \notin resource \ D
      BY <3>2, TreeAssumption DEF SubtreeOf
    <3>4. \A n \in N : n.path \notin resource'
      BY <3>1, <3>3
    <3> HIDE DEF p, D, N
    <3> QED
      BY <3>1, <3>4, CascadeStay
  <2> QED
    BY <1>1, <2>1, <2>2, <2>3, <2>4, <2>5 DEF Commit
<1>2. ASSUME NEW p \in Path, ResourceDelete(p) PROVE StayStep
  <2> DEFINE D == SubtreeOf(p)
  <2>1. Cascade({}, D) /\ resource' = resource \ D
    BY <1>2 DEF ResourceDelete, DeleteRows
  <2> HIDE DEF D
  <2> QED
    BY <2>1, CascadeStay
<1>3. ASSUME NEW p \in Path, NEW B \in Tree(p), NEW V \in Visited(p, B),
             NEW merge \in BOOLEAN, ResourceUpdate(p, B, V, merge)
      PROVE  StayStep
  <2> DEFINE D == IF merge THEN {} ELSE Unmentioned(V, B)
  <2>1. Cascade({}, D) /\ resource' = (resource \ D) \cup V
    BY <1>3 DEF ResourceUpdate
  <2>2. D \cap V = {}
    BY UnmentionedClosed DEF Structure
  <2> HIDE DEF D
  <2> QED
    BY <2>1, <2>2, CascadeStay
<1>4. ASSUME NEW n \in policy, PolicyDelete(n) PROVE StayStep
  BY <1>4, CascadeStay DEF PolicyDelete, DeleteRows
<1>5. CASE CatalogStep
  <2>1. CASE generated' = generated
    BY <2>1, GrowthStays
  <2> QED
    BY <1>2, <1>3, <1>4, <1>5, <2>1 DEF CatalogStep, ResourceStep, PolicyStep, RoleStep,
       ResourceCreate, PolicyCreate, PolicyOverwrite, RoleCreate, RoleOverwrite, RoleDelete,
       notRoles
<1>6. CASE UserStep \/ GroupStep
  <2>1. generated' = generated
    BY <1>6 DEF UserStep, UserCreate, UserUpdate, UserDelete, UserGrantPolicy, UserRevoke,
                GroupStep, GroupCreate, GroupOverwrite, GroupDelete, GroupAddUser,
                GroupRemoveUser, GroupGrantPolicy, GroupRevokePolicy, catalog
  <2> QED
    BY <2>1, GrowthStays
<1> QED
  BY <1>1, <1>5, <1>6 DEF ServerNext, Next

\* A protected policy leaves, or loses its flag, only together with the
\* resource it was generated for, whichever endpoint runs.
THEOREM ProtectedPoliciesStayTheorem == ServerSpec => ProtectedPoliciesStay
<1>1. Structure /\ [ServerNext]_vars => [StayStep]_vars
  BY StayLemma
<1>2. ServerSpec => [][StayStep]_vars
  BY <1>1, ServerStructure, PTL DEF ServerSpec
<1> QED
  BY <1>2 DEF ProtectedPoliciesStay, StayStep

\* What CreationComplete says of a step.
CompleteStep ==
    \A p \in made' \ made :
       /\ \A g \in AdminGroups :
             /\ AdminRecovers(g, p)'
             /\ RoleGives(AdminRole, "manage-owners") =>
                   \A u \in User : <<u, g>> \in usrGrp' => AuthorizeUser(u, "manage-owners", p)'
       /\ \E pr \in Proc, u \in User :
             /\ Pending(pr, "create") /\ req[pr].caller = u
             /\ <<u, OwnerPolicy(p)>> \in ownerBinding'
             /\ \/ AuthorizeUser(u, "manage-owners", p)'
                \/ \E x \in permission :
                      /\ x.role = OwnerRole /\ x.name = "manage-owners"
                      /\ x.method \notin {"manage-owners", "*"}

\* The engine lets through whoever holds a policy on the very resource with a
\* role that permits the method.
LEMMA PolicyAuthorizes ==
    ASSUME NEW u, NEW m, NEW p \in Path, NEW n, NEW r \in role',
           <<n, p>> \in policyResource', <<n, r>> \in policyRole', RoleGives(r, m)',
           HoldsPolicy(u, n)'
    PROVE  AuthorizeUser(u, m, p)'
<1>1. PolicyPermits(n, m)'
  BY DEF PolicyPermits
<1>2. p \in Below[p] /\ <<n, p>>[1] = n /\ <<n, p>>[2] = p
  BY TreeAssumption
<1>3. \E l \in policyResource' :
          p \in Below[l[2]] /\ PolicyPermits(l[1], m)' /\ HoldsPolicy(u, l[1])'
  <2> WITNESS <<n, p>> \in policyResource'
  <2> QED
    BY <1>1, <1>2
<1> QED
  BY <1>3 DEF AuthorizeUser

\* The owner role as a create leaves it: it gives manage-owners unless a
\* permission of that name gave something else before.
LEMMA OwnerRoleGives ==
    ASSUME permission' = EnsurePermissions(permission)
    PROVE  \/ RoleGives(OwnerRole, "manage-owners")'
           \/ \E x \in permission : /\ x.role = OwnerRole /\ x.name = "manage-owners"
                                    /\ x.method \notin {"manage-owners", "*"}
<1> DEFINE b == Permission(OwnerRole, "manage-owners", "manage-owners")
<1>1. b \in BasePermissions /\ b.role = OwnerRole /\ b.name = "manage-owners"
      /\ b.method = "manage-owners"
  BY DEF BasePermissions, Checked, Permission
<1> HIDE DEF b
<1>2. CASE \E x \in permission : x.role = OwnerRole /\ x.name = "manage-owners"
  BY <1>2 DEF EnsurePermissions, RoleGives
<1>3. CASE \A x \in permission : x.role # OwnerRole \/ x.name # "manage-owners"
  <2>1. b \in permission'
    BY <1>1, <1>3 DEF EnsurePermissions
  <2> QED
    BY <1>1, <2>1 DEF RoleGives
<1> QED
  BY <1>2, <1>3

\* A create that is not rolled back completes.
LEMMA CreateCompletes ==
    ASSUME Structure, Structure', NEW pr \in Proc, CreateOwnedDescendant(pr)
    PROVE  CompleteStep
<1> SUFFICES ASSUME NEW p \in made', p \notin made
             PROVE  /\ \A g \in AdminGroups :
                          /\ AdminRecovers(g, p)'
                          /\ RoleGives(AdminRole, "manage-owners") =>
                                \A u \in User :
                                   <<u, g>> \in usrGrp' => AuthorizeUser(u, "manage-owners", p)'
                    /\ \E u \in User :
                          /\ req[pr].caller = u
                          /\ <<u, OwnerPolicy(p)>> \in ownerBinding'
                          /\ \/ AuthorizeUser(u, "manage-owners", p)'
                             \/ \E x \in permission :
                                   /\ x.role = OwnerRole /\ x.name = "manage-owners"
                                   /\ x.method \notin {"manage-owners", "*"}
  BY DEF CompleteStep, CreateOwnedDescendant
<1> DEFINE t   == TemplateFor[Parent[req[pr].path]]
           new == NewResources(req[pr].path, t)
           o   == OwnerPolicy(p)
           A   == AdminPolicies(p)
<1>0. PICK c \in User : c = req[pr].caller
  BY DEF Structure, TypeOK, CreateOwnedDescendant, Pending, Request
<1>1. ~ Rollback(pr)
  BY DEF Rollback
<1>2. p = req[pr].path
  BY <1>1 DEF CreateOwnedDescendant
<1>3. /\ ~ CreateRefused(p)
      /\ role' = role \cup {OwnerRole, "org-member"}
      /\ policyResource' = policyResource \cup (({o} \cup A) \X new)
      /\ policyRole' = policyRole \cup {<<o, OwnerRole>>} \cup (A \X {AdminRole})
      /\ usrPolicy' = usrPolicy \cup {<<c, o>>}
      /\ ownerBinding' = ownerBinding \cup {<<c, o>>}
      /\ grpPolicy' = grpPolicy \cup (AdminGroups \X A)
      /\ adminBinding' = adminBinding \cup (AdminGroups \X A)
      /\ grp' = grp
  BY <1>0, <1>1, <1>2 DEF CreateOwnedDescendant, MaterializeBindings
<1>8. permission' = EnsurePermissions(permission)
  BY <1>1 DEF CreateOwnedDescendant
<1>4. p \in new /\ p \in Path
  BY <1>2 DEF NewResources, Structure, TypeOK, CreateOwnedDescendant, Pending, Request
<1>5. RoleGives(AdminRole, "manage-owners") => RoleGives(AdminRole, "manage-owners")'
  BY <1>8 DEF RoleGives, EnsurePermissions
<1> HIDE DEF t, new, o, A
<1>9. ASSUME NEW g \in AdminGroups PROVE AdminRecovers(g, p)'
  <2>1. AdminPolicy(p) \in A
    BY <1>9 DEF AdminPolicies, A
  <2>2. /\ <<AdminPolicy(p), AdminRole>> \in policyRole'
        /\ <<g, AdminPolicy(p)>> \in grpPolicy' /\ <<g, AdminPolicy(p)>> \in adminBinding'
    BY <1>3, <1>9, <2>1
  <2>3. /\ AdminPolicy(p) \in policy' /\ <<AdminPolicy(p), p>> \in policyResource'
        /\ \E s \in Template : <<AdminPolicy(p), s>> \in generated'
    BY <1>9 DEF Structure, ProtectedPolicyKept
  <2> QED
    BY <2>2, <2>3 DEF AdminRecovers
<1>6. ASSUME NEW g \in AdminGroups, NEW u \in User, <<u, g>> \in usrGrp',
             RoleGives(AdminRole, "manage-owners")
      PROVE  AuthorizeUser(u, "manage-owners", p)'
  <2> DEFINE a == AdminPolicy(p)
  <2>1. a \in A /\ AdminRole \in role' /\ g \in grp'
    BY <1>3 DEF AdminPolicies, A, CreateRefused
  <2> HIDE DEF a
  <2>2. /\ <<a, p>> \in policyResource' /\ <<a, AdminRole>> \in policyRole'
        /\ <<g, a>> \in grpPolicy'
    BY <1>3, <1>4, <2>1
  <2>3. HoldsPolicy(u, a)'
    BY <1>6, <2>1, <2>2 DEF HoldsPolicy
  <2> QED
    BY <1>4, <1>5, <1>6, <2>1, <2>2, <2>3, PolicyAuthorizes
<1>7. /\ RoleGives(OwnerRole, "manage-owners")' => AuthorizeUser(c, "manage-owners", p)'
      /\ <<c, o>> \in ownerBinding'
  <2>1. /\ <<o, p>> \in policyResource' /\ <<o, OwnerRole>> \in policyRole'
        /\ OwnerRole \in role' /\ <<c, o>> \in ownerBinding' /\ <<c, o>> \in usrPolicy'
    BY <1>3, <1>4
  <2>2. HoldsPolicy(c, o)'
    BY <2>1 DEF HoldsPolicy
  <2> QED
    BY <1>4, <2>1, <2>2, PolicyAuthorizes
<1> QED
  BY <1>0, <1>6, <1>7, <1>8, <1>9, OwnerRoleGives DEF o

\* No other step makes an owned resource.
LEMMA CompleteLemma ==
    ASSUME Structure, Structure', ServerNext
    PROVE  CompleteStep
<1>1. CASE made' \subseteq made
  BY <1>1 DEF CompleteStep
<1>2. ASSUME NEW pr \in Proc, Check(pr) \/ Commit(pr) PROVE CompleteStep
  <2>1. CASE CreateOwnedDescendant(pr)
    BY <2>1, CreateCompletes
  <2>2. CASE ~ CreateOwnedDescendant(pr)
    BY <1>1, <1>2, <2>2 DEF Check, CheckCreate, CheckOwnerChange, CheckDelete, Accept,
       Commit, AddOwner, Rollback, RemoveOwner, DeleteResource, DeleteRows, Cascade
  <2> QED
    BY <2>1, <2>2
<1>3. CASE CatalogStep
  BY <1>1, <1>3 DEF CatalogStep, ResourceStep, PolicyStep, RoleStep,
     ResourceCreate, ResourceUpdate, ResourceDelete, PolicyCreate, PolicyOverwrite, PolicyDelete,
     RoleCreate, RoleOverwrite, RoleDelete, notRoles, DeleteRows, Cascade
<1>4. CASE UserStep \/ GroupStep
  BY <1>1, <1>4 DEF UserStep, UserCreate, UserUpdate, UserDelete, UserGrantPolicy,
     UserRevoke, GroupStep, GroupCreate, GroupOverwrite, GroupDelete, GroupAddUser,
     GroupRemoveUser, GroupGrantPolicy, GroupRevokePolicy, catalog
<1> QED
  BY <1>2, <1>3, <1>4 DEF ServerNext, Next

\* Whatever the generic endpoints did before, a successful create leaves its
\* child with every recovery binding and a recorded owner, and manageable by
\* both wherever the permissions of their roles have not been changed.
THEOREM CreationCompleteTheorem == ServerSpec => CreationComplete
<1>1. Structure /\ Structure' /\ [ServerNext]_vars => [CompleteStep]_vars
  BY CompleteLemma
<1>2. ServerSpec => [][CompleteStep]_vars
  BY <1>1, ServerStructure, PTL DEF ServerSpec
<1> QED
  BY <1>2 DEF CreationComplete, CompleteStep

============================================================================
