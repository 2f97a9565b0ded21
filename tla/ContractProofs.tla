--------------------------- MODULE ContractProofs ---------------------------
(***************************************************************************)
(* The ownership service implements its contract, for every resource tree, *)
(* set of users, groups and goroutines: each transaction is one step of    *)
(* OwnershipContract or changes nothing it speaks of, each check the       *)
(* latter.                                                                 *)
(***************************************************************************)
EXTENDS OwnershipProofs

\* The variables of the contract, as the tables give them.
Owners == {<<b[1], b[2].path>> : b \in ownerBinding}

Recovery == {r \in AdminGroups \X Path : AdminRecovers(r[1], r[2])}

\* A binding makes one more owner.
LEMMA OneMoreOwner ==
    ASSUME NEW u, NEW n, ownerBinding' = ownerBinding \cup {<<u, n>>}
    PROVE  Owners' = Owners \cup {<<u, n.path>>}
<1>1. <<u, n>>[1] = u /\ <<u, n>>[2] = n
  OBVIOUS
<1> QED
  BY <1>1 DEF Owners

\* An admin group recovers existing resources only.
LEMMA RecoveryOfResources ==
    ASSUME TypeOK, NEW g, NEW p, AdminRecovers(g, p)
    PROVE  p \in resource
BY DEF TypeOK, AdminRecovers

\* A step that leaves the rows of all admin policies alone leaves recovery alone.
LEMMA RecoveryUnchanged ==
    ASSUME \A p \in Path, g \in AdminGroups : AdminRecovers(g, p)' <=> AdminRecovers(g, p)
    PROVE  Recovery' = Recovery
BY DEF Recovery

\* Steps that change no table are invisible to the contract.
LEMMA TablesInvisible ==
    ASSUME UNCHANGED tables
    PROVE  UNCHANGED <<resource, Owners, Recovery>>
<1>1. \A p \in Path, g \in AdminGroups : AdminRecovers(g, p)' <=> AdminRecovers(g, p)
  BY DEF tables, AdminRecovers
<1>2. resource' = resource /\ ownerBinding' = ownerBinding
  BY DEF tables
<1> QED
  BY <1>1, <1>2, RecoveryUnchanged DEF Owners

\* The database after the migrations fulfils the contract with nobody in it.
LEMMA ContractInit == Init => Contract!Init
<1> SUFFICES ASSUME Init PROVE Contract!Init
  OBVIOUS
<1>1. Owners = {}
  BY DEF Init, Owners
<1>2. Recovery = {}
  BY DEF Init, Recovery, AdminRecovers
<1> QED
  BY <1>1, <1>2 DEF Init, Contract!Init, Owners, Recovery

\* RemoveOwner takes the one owner it names.
LEMMA RemoveOwnerStep ==
    ASSUME TypeOK, NEW pr \in Proc, RemoveOwner(pr)
    PROVE  \E u \in User, p \in Path : Contract!RemoveOwner(u, p)
<1> DEFINE u == req[pr].user
           p == req[pr].path
<1>1. u \in User /\ p \in Path
  BY PendingType DEF RemoveOwner
<1>2. ownerBinding' = {b \in ownerBinding : ~ (b[1] = u /\ b[2].path = p)}
  BY DEF RemoveOwner
<1> HIDE DEF u, p
<1>3. Owners' = Owners \ {<<u, p>>}
  BY <1>2 DEF Owners
<1>4. Recovery' = Recovery
  <2>1. \A q \in Path, g \in AdminGroups : AdminRecovers(g, q)' <=> AdminRecovers(g, q)
    BY DEF RemoveOwner, AdminRecovers
  <2> QED
    BY <2>1, RecoveryUnchanged
<1>5. resource' = resource
  BY DEF RemoveOwner
<1> QED
  BY <1>1, <1>3, <1>4, <1>5 DEF Contract!RemoveOwner, Owners, Recovery

\* AddOwner adds the one owner it names, to a resource that exists.
LEMMA AddOwnerStep ==
    ASSUME Structure, NEW pr \in Proc, AddOwner(pr)
    PROVE  \/ UNCHANGED <<resource, Owners, Recovery>>
           \/ \E u \in User, p \in Path : Contract!AddOwner(u, p)
<1> DEFINE p == req[pr].path
           u == req[pr].user
           n == OwnerPolicy(p)
<1>1. p \in Path /\ u \in User
  BY PendingType DEF AddOwner, Structure
<1>2. CASE Rollback(pr)
  BY <1>2, TablesInvisible DEF Rollback
<1>3. CASE ~ Rollback(pr)
  <2>1. /\ p \in resource
        /\ \E t \in Targets(p) : BindOwner(u, n, t.template, t.on)
        /\ UNCHANGED <<resource, grpPolicy, adminBinding>>
    BY <1>3 DEF AddOwner, AddOwnerRefused
  <2>2. PICK t \in Targets(p) : BindOwner(u, n, t.template, t.on)
    BY <2>1
  <2>3. /\ n.path = p
        /\ \A q \in Path : n # AdminPolicy(q)
    BY <1>1, PolicyNames
  <2>4. /\ generated \subseteq generated'
        /\ \A r \in generated' : r \in generated \/ r = <<n, t.template>>
    BY <2>2, Upsert DEF BindOwner
  <2>5. /\ policy' = policy \cup {n}
        /\ policyResource' = policyResource \cup ({n} \X t.on)
        /\ policyRole' = policyRole \cup {<<n, OwnerRole>>}
        /\ ownerBinding' = ownerBinding \cup {<<u, n>>}
    BY <2>2 DEF BindOwner
  <2> HIDE DEF p, u, n
  <2>6. Owners' = Owners \cup {<<u, p>>}
    BY <2>3, <2>5, OneMoreOwner
  <2>7. Recovery' = Recovery
    <3>1. \A q \in Path, g \in AdminGroups : AdminRecovers(g, q)' <=> AdminRecovers(g, q)
      BY <2>1, <2>3, <2>4, <2>5 DEF AdminRecovers
    <3> QED
      BY <3>1, RecoveryUnchanged
  <2> QED
    BY <1>1, <2>1, <2>6, <2>7 DEF Contract!AddOwner, Owners, Recovery
<1> QED
  BY <1>2, <1>3

\* A create registers the child, with its container if the template has one,
\* its creator as owner and the admin groups' recovery in one step.
LEMMA CreateStep ==
    ASSUME Structure, NEW pr \in Proc, CreateOwnedDescendant(pr)
    PROVE  \/ UNCHANGED <<resource, Owners, Recovery>>
           \/ \E u \in User, p \in Path : Contract!Register(u, p)
<1> DEFINE p   == req[pr].path
           u   == req[pr].caller
           t   == TemplateFor[Parent[p]]
           new == NewResources(p, t)
           o   == OwnerPolicy(p)
           A   == AdminPolicies(p)
           N   == {o} \cup A
<1>1. p \in Path /\ u \in User
  BY PendingType DEF CreateOwnedDescendant, Structure
<1>2. CASE Rollback(pr)
  BY <1>2, TablesInvisible DEF Rollback
<1>3. CASE ~ Rollback(pr)
  <2>1. t # "none" /\ new \cap resource = {} /\ Parent[p] \in resource
    BY <1>3 DEF CreateOwnedDescendant, CreateRefused
  <2>2. /\ resource' = resource \cup new
        /\ policy' = policy \cup N
        /\ policyResource' = policyResource \cup (N \X new)
        /\ policyRole' = policyRole \cup {<<o, OwnerRole>>} \cup (A \X {AdminRole})
        /\ generated' = UpsertMetadata(generated, N, t)
        /\ ownerBinding' = ownerBinding \cup {<<u, o>>}
        /\ grpPolicy' = grpPolicy \cup (AdminGroups \X A)
        /\ adminBinding' = adminBinding \cup (AdminGroups \X A)
    BY <1>3 DEF CreateOwnedDescendant, MaterializeBindings
  <2>3. Parent[p] \in Path /\ Parent[p] # NoPath
    BY <2>1, TreeAssumption DEF Structure, TypeOK
  <2>4. t \in Template
    BY <2>1, <2>3, TreeAssumption
  <2>5. p \in new /\ p \notin resource
    BY <2>1 DEF NewResources
  <2>6. \E C \in {{}} \cup {{q} : q \in Below[p]} : new = {p} \cup C
    <3>1. CASE HasContainer(t)
      <4>1. Container[p] \in Below[p]
        BY <1>1, <2>3, <3>1, ContainerBelow, TreeAssumption
      <4> QED
        BY <3>1, <4>1 DEF NewResources
    <3>2. CASE ~ HasContainer(t)
      BY <3>2 DEF NewResources
    <3> QED
      BY <3>1, <3>2
  <2>7. /\ o.path = p
        /\ \A q \in Path : o # AdminPolicy(q)
        /\ \A a \in A : a = AdminPolicy(p)
        /\ \A q \in Path : AdminPolicy(q) = AdminPolicy(p) => q = p
        /\ \A g \in AdminGroups : AdminPolicy(p) \in A
        /\ \A n \in N : n = o \/ n \in A
        /\ A \subseteq N
    BY <1>1, PolicyNames DEF AdminPolicies
  <2> HIDE DEF p, u, t, new, o, A, N
  <2>8. /\ generated \subseteq generated'
        /\ \A r \in generated' : r \in generated \/ \E n \in N : r = <<n, t>>
        /\ \A n \in N : \E r \in generated' : r[1] = n
    BY <2>2, Upsert
  <2>9. Parent[p] \in resource /\ p \notin resource
    BY <2>1, <2>5
  <2>10. Owners' = Owners \cup {<<u, p>>}
    BY <2>2, <2>7, OneMoreOwner
  <2>11. ASSUME NEW q \in Path, NEW g \in AdminGroups, q # p
         PROVE  AdminRecovers(g, q)' <=> AdminRecovers(g, q)
    <3>1. AdminPolicy(q) \notin N /\ AdminPolicy(q) # o /\ AdminPolicy(q) \notin A
      BY <2>7, <2>11
    <3> QED
      BY <2>2, <2>8, <3>1 DEF AdminRecovers
  <2>12. ASSUME NEW q \in Path, NEW g \in AdminGroups, q = p
         PROVE  AdminRecovers(g, q)'
    <3>1. AdminPolicy(q) \in A /\ AdminPolicy(q) \in N
      BY <2>7, <2>12
    <3>2. PICK r \in generated' : r[1] = AdminPolicy(q)
      BY <2>8, <3>1
    <3>3. \E y \in Template : <<AdminPolicy(q), y>> \in generated'
      <4>1. CASE r \in generated
        BY <2>8, <3>2, <4>1 DEF Structure, TypeOK
      <4>2. CASE r \notin generated
        BY <2>4, <2>8, <3>2, <4>2
      <4> QED
        BY <4>1, <4>2
    <3> QED
      BY <2>2, <2>5, <2>12, <3>1, <3>3 DEF AdminRecovers
  <2>13. Recovery' = Recovery \cup (AdminGroups \X {p})
    <3>1. \A q \in Path, g \in AdminGroups :
             AdminRecovers(g, q)' <=> AdminRecovers(g, q) \/ q = p
      BY <2>11, <2>12
    <3> QED
      BY <1>1, <3>1 DEF Recovery
  <2> QED
    <3>1. \E C \in {{}} \cup {{q} : q \in Below[p]} : resource' = resource \cup {p} \cup C
      BY <2>2, <2>6
    <3>2. ASSUME NEW q \in Path, NEW v \in User, q = p, v = u
          PROVE  Contract!Register(v, q)
      BY <2>9, <2>10, <2>13, <3>1, <3>2 DEF Contract!Register, Owners, Recovery
    <3> QED
      BY <1>1, <3>2
<1> QED
  BY <1>2, <1>3

\* The ownership delete retires the subtree with its owners and its recovery,
\* and nobody else's.
LEMMA DeleteStep ==
    ASSUME IndInv, NEW pr \in Proc, DeleteResource(pr)
    PROVE  \/ UNCHANGED <<resource, Owners, Recovery>>
           \/ \E p \in Path : Contract!Retire(p)
<1> DEFINE p == req[pr].path
           D == SubtreeOf(p)
           N == {n \in policy : n.path = p /\ \E t \in Template : <<n, t>> \in generated}
<1>1. DeleteRows(N, D)
  BY DEF DeleteResource
<1>2. p \in Path
  BY PendingType DEF DeleteResource, IndInv, Structure
<1>3. \A n \in N : n.path = p /\ p \in resource
  BY DEF IndInv, Structure, MetadataWellFormed
<1>4. /\ D \subseteq resource
      /\ p \in resource => \A q \in resource : q \in D <=> q \in Below[p]
      /\ p \notin resource => D = {}
      /\ p \in resource => p \in D
  BY <1>2, TreeAssumption DEF SubtreeOf
<1> HIDE DEF p, D, N
<1>5. resource' = resource \ D
  BY <1>1 DEF DeleteRows
<1>6. ownerBinding' = {b \in ownerBinding : b[2].path \notin D}
  BY <1>1, <1>3, <1>4 DEF DeleteRows, Cascade
<1>7. ASSUME NEW q \in Path, NEW g \in AdminGroups
      PROVE  AdminRecovers(g, q)' <=> AdminRecovers(g, q) /\ q \notin D
  <2>1. AdminPolicy(q).path = q
    BY PolicyNames
  <2>2. q \notin D => AdminPolicy(q) \notin N
    BY <1>3, <1>4, <2>1
  <2>3. CASE q \in D
    BY <1>1, <2>3 DEF DeleteRows, Cascade, AdminRecovers
  <2>4. CASE q \notin D
    BY <1>1, <2>1, <2>2, <2>4 DEF DeleteRows, Cascade, AdminRecovers
  <2> QED
    BY <2>3, <2>4
<1>8. CASE p \notin resource
  <2>1. Owners' = Owners
    BY <1>4, <1>6, <1>8 DEF Owners
  <2>2. Recovery' = Recovery
    BY <1>4, <1>7, <1>8, RecoveryUnchanged
  <2> QED
    BY <1>4, <1>5, <1>8, <2>1, <2>2
<1>9. CASE p \in resource
  <2>1. resource' = resource \ Below[p]
    BY <1>4, <1>5, <1>9
  <2>2. \A b \in ownerBinding : b[2].path \in resource
    BY DEF IndInv, Effective, RecordedOwnersAreEffective
  <2>3. Owners' = {o \in Owners : o[2] \notin Below[p]}
    BY <1>4, <1>6, <1>9, <2>2 DEF Owners
  <2>4. \A q \in Path, g \in AdminGroups : AdminRecovers(g, q) => q \in resource
    BY RecoveryOfResources DEF IndInv, Structure
  <2>5. Recovery' = {r \in Recovery : r[2] \notin Below[p]}
    BY <1>4, <1>7, <1>9, <2>4 DEF Recovery
  <2> QED
    BY <1>2, <1>9, <2>1, <2>3, <2>5 DEF Contract!Retire, Owners, Recovery
<1> QED
  BY <1>8, <1>9

\* Every step of the service is a step of the contract, or invisible to it.
LEMMA ContractStep ==
    ASSUME IndInv, [Next]_vars
    PROVE  [Contract!Next]_<<resource, Owners, Recovery>>
<1>1. CASE UNCHANGED vars
  BY <1>1, TablesInvisible DEF vars, tables
<1>2. ASSUME NEW pr \in Proc, Check(pr)
      PROVE  UNCHANGED <<resource, Owners, Recovery>>
  BY <1>2, TablesInvisible DEF Check, CheckCreate, CheckOwnerChange, CheckDelete, Accept
<1>3. ASSUME NEW pr \in Proc, Commit(pr)
      PROVE  Contract!Next \/ UNCHANGED <<resource, Owners, Recovery>>
  <2>1. CASE CreateOwnedDescendant(pr)
    BY <2>1, CreateStep DEF Contract!Next, IndInv
  <2>2. CASE AddOwner(pr)
    BY <2>2, AddOwnerStep DEF Contract!Next, IndInv
  <2>3. CASE RemoveOwner(pr)
    BY <2>3, RemoveOwnerStep DEF Contract!Next, IndInv, Structure
  <2>4. CASE DeleteResource(pr)
    BY <2>4, DeleteStep DEF Contract!Next
  <2> QED
    BY <1>3, <2>1, <2>2, <2>3, <2>4 DEF Commit
<1> QED
  BY <1>1, <1>2, <1>3 DEF Next

\* The service implements its contract: with every interleaving of checks and
\* transactions, a resource gets its owner and its recovery when it is made,
\* and loses either only by RemoveOwner or with the resource.
THEOREM ContractTheorem == Spec => ImplementsContract
<1>1. IndInv /\ [Next]_vars
        => [Contract!Next]_<<resource,
                             {<<b[1], b[2].path>> : b \in ownerBinding},
                             {r \in AdminGroups \X Path : AdminRecovers(r[1], r[2])}>>
  BY ContractStep DEF Owners, Recovery
<1> QED
  BY <1>1, ContractInit, Invariance, PTL DEF Spec, ImplementsContract, Contract!Spec
============================================================================
