---------------------------- MODULE EngineProofs ----------------------------
(***************************************************************************)
(* Grants with providers and expiry dates, and the decisions and reports   *)
(* of the engine over them, for every set of names, policies, providers    *)
(* and permissions and any length of time.                                 *)
(***************************************************************************)
EXTENDS Engine, TLAPS

\* The primary key of a table: holder and what is held.
Keyed(T) == \A r, s \in T : SameKey(r, s) => r = s

\* The type invariant in the parts that requests change together.
UsersOK ==
    /\ usr \subseteq Name
    /\ usrPolicy \subseteq Rows(usr, Policy) /\ Keyed(usrPolicy)
    /\ usrGrp \subseteq Rows(usr, AnyGroup) /\ Keyed(usrGrp)

GroupsOK == grpPolicy \subseteq Rows(AnyGroup, Policy) /\ Keyed(grpPolicy)

ClientsOK ==
    /\ client \subseteq Client
    /\ clientPolicy \subseteq Rows(client, Policy) /\ Keyed(clientPolicy)

CatalogOK ==
    /\ resource \subseteq Path /\ link \subseteq Policy \X resource
    /\ DOMAIN permission = Policy
    /\ \A x \in Policy : \E I \in SUBSET PermissionId : permission[x] \in [I -> Action]

ClockOK == now \in Time /\ job \in {"groups", "policies"}

OwnersOK == owner \subseteq {Lower[n] : n \in Name} \X OwnerPolicies

AllOK == UsersOK /\ GroupsOK /\ ClientsOK /\ CatalogOK /\ ClockOK /\ OwnersOK

\* The parts are the whole.
LEMMA TypeParts == TypeOK <=> AllOK
<1>1. (\A T \in {usrPolicy, usrGrp, grpPolicy, clientPolicy} :
          \A r, s \in T : SameKey(r, s) => r = s)
      <=> Keyed(usrPolicy) /\ Keyed(usrGrp) /\ Keyed(grpPolicy) /\ Keyed(clientPolicy)
  BY DEF Keyed
<1> QED
  BY <1>1 DEF TypeOK, AllOK, UsersOK, GroupsOK, ClientsOK, CatalogOK, ClockOK, OwnersOK

----------------------------------------------------------------------------
(* Tables.                                                                 *)

\* Fewer rows are no problem.
LEMMA FewerRows ==
    ASSUME NEW H, NEW X, NEW T, T \subseteq Rows(H, X), Keyed(T), NEW S \in SUBSET T
    PROVE  S \subseteq Rows(H, X) /\ Keyed(S)
BY DEF Keyed

\* Rows refer to holders that exist when those become more.
LEMMA MoreHolders ==
    ASSUME NEW H, NEW X, NEW J, H \subseteq J
    PROVE  Rows(H, X) \subseteq Rows(J, X)
BY DEF Rows

\* The rows of the holders that are left.
LEMMA FewerHolders ==
    ASSUME NEW H, NEW X, NEW T, T \subseteq Rows(H, X), Keyed(T), NEW h,
           NEW S \in SUBSET T, \A r \in S : r.holder # h
    PROVE  S \subseteq Rows(H \ {h}, X) /\ Keyed(S)
BY DEF Keyed, Rows

\* The components of a row.
LEMMA RowFields ==
    ASSUME NEW H, NEW X, NEW h \in H, NEW x \in X, NEW pv \in Provider,
           NEW e \in Time \cup {Never}
    PROVE  /\ Row(h, x, pv, e) \in Rows(H, X)
           /\ Row(h, x, pv, e).holder = h /\ Row(h, x, pv, e).to = x
           /\ Row(h, x, pv, e).provider = pv /\ Row(h, x, pv, e).expires = e
BY DEF Row, Rows

\* An insert that gives way to a row with its key.
LEMMA InsertRow ==
    ASSUME NEW H, NEW X, NEW T, T \subseteq Rows(H, X), Keyed(T), NEW r \in Rows(H, X)
    PROVE  /\ InsertOrNothing(T, r) \subseteq Rows(H, X) /\ Keyed(InsertOrNothing(T, r))
           /\ T \subseteq InsertOrNothing(T, r)
<1>1. SameKey(r, r)
  BY DEF SameKey
<1>2. \A s, t : SameKey(s, t) <=> SameKey(t, s)
  BY DEF SameKey
<1> QED
  BY <1>1, <1>2 DEF InsertOrNothing, Keyed

\* An update that leaves the keys alone.
LEMMA UpdateRows ==
    ASSUME NEW H, NEW X, NEW T, T \subseteq Rows(H, X), Keyed(T), NEW f,
           \A s \in T : f[s] \in Rows(H, X) /\ SameKey(s, f[s])
    PROVE  {f[s] : s \in T} \subseteq Rows(H, X) /\ Keyed({f[s] : s \in T})
<1>1. ASSUME NEW s \in T, NEW t \in T, SameKey(f[s], f[t]) PROVE s = t
  BY <1>1 DEF SameKey, Keyed
<1> QED
  BY <1>1 DEF Keyed

\* The upsert of an expiry date keeps keys and providers.
LEMMA SetExpiry ==
    ASSUME NEW H, NEW X, NEW T, T \subseteq Rows(H, X), Keyed(T), NEW r \in Rows(H, X)
    PROVE  /\ InsertOrSetExpiry(T, r) \subseteq Rows(H, X) /\ Keyed(InsertOrSetExpiry(T, r))
           /\ \A s \in T : s \notin InsertOrSetExpiry(T, r) =>
                 /\ s.holder = r.holder /\ s.to = r.to
                 /\ [s EXCEPT !.expires = r.expires] \in InsertOrSetExpiry(T, r)
<1> DEFINE f == [s \in T |-> IF SameKey(r, s) THEN [s EXCEPT !.expires = r.expires] ELSE s]
           U == {f[s] : s \in T}
<1>1. \A s \in T : f[s] \in Rows(H, X) /\ SameKey(s, f[s])
  BY DEF Rows, SameKey
<1>2. InsertOrSetExpiry(T, r) = InsertOrNothing(U, r)
  BY DEF InsertOrSetExpiry
<1>3. \A s \in T : f[s] \in U
  OBVIOUS
<1>4. \A s \in T : \/ f[s] = s
                  \/ /\ s.holder = r.holder /\ s.to = r.to
                     /\ f[s] = [s EXCEPT !.expires = r.expires]
  BY DEF SameKey
<1> HIDE DEF f
<1>5. U \subseteq Rows(H, X) /\ Keyed(U)
  BY <1>1, UpdateRows
<1>6. U \subseteq InsertOrNothing(U, r)
  BY DEF InsertOrNothing
<1>7. ASSUME NEW s \in T, s \notin InsertOrSetExpiry(T, r)
      PROVE  /\ s.holder = r.holder /\ s.to = r.to
             /\ [s EXCEPT !.expires = r.expires] \in InsertOrSetExpiry(T, r)
  <2>1. f[s] \in InsertOrSetExpiry(T, r)
    BY <1>2, <1>3, <1>6
  <2> QED
    BY <1>4, <1>7, <2>1
<1> HIDE DEF U
<1> QED
  BY <1>2, <1>5, <1>7, InsertRow

\* The upsert of a provider keeps keys.
LEMMA SetProvider ==
    ASSUME NEW H, NEW X, NEW T, T \subseteq Rows(H, X), Keyed(T), NEW r \in Rows(H, X)
    PROVE  InsertOrSetProvider(T, r) \subseteq Rows(H, X) /\ Keyed(InsertOrSetProvider(T, r))
<1> DEFINE f == [s \in T |-> IF SameKey(r, s) THEN [s EXCEPT !.provider = r.provider] ELSE s]
           U == {f[s] : s \in T}
<1>1. \A s \in T : f[s] \in Rows(H, X) /\ SameKey(s, f[s])
  BY DEF Rows, SameKey
<1>2. InsertOrSetProvider(T, r) = InsertOrNothing(U, r)
  BY DEF InsertOrSetProvider
<1> HIDE DEF f
<1>3. U \subseteq Rows(H, X) /\ Keyed(U)
  BY <1>1, UpdateRows
<1> HIDE DEF U
<1> QED
  BY <1>2, <1>3, InsertRow

----------------------------------------------------------------------------
(* Requests keep the types.                                                *)

\* Steps that do not touch a part keep it.
LEMMA PartsUnchanged ==
    /\ UsersOK /\ UNCHANGED <<usr, usrPolicy, usrGrp>> => UsersOK'
    /\ GroupsOK /\ UNCHANGED grpPolicy => GroupsOK'
    /\ ClientsOK /\ UNCHANGED clients => ClientsOK'
    /\ CatalogOK /\ UNCHANGED links => CatalogOK'
    /\ ClockOK /\ UNCHANGED clock => ClockOK'
    /\ OwnersOK /\ UNCHANGED owner => OwnersOK'
BY DEF UsersOK, GroupsOK, ClientsOK, CatalogOK, ClockOK, OwnersOK, Keyed, clients, links, clock

\* The rows of usr_policy and usr_grp, and the users they refer to.
LEMMA UserTablesInv ==
    ASSUME AllOK, NEW n \in Name, NEW pv \in Header \cup {NoProvider}, NEW x, NEW e,
           \/ UserCreate(n) \/ UserDelete(n)
           \/ x \in Policy /\ e \in Time \cup {Never} /\ GrantUserPolicy(n, x, e, pv)
           \/ RevokeUserPolicy(n, x, pv)
           \/ RevokeUserPolicyAll(n, pv)
           \/ x \in AnyGroup /\ e \in Time \cup {Never} /\ AddUserToGroup(n, x, e, pv)
           \/ RemoveUserFromGroup(n, x, pv)
    PROVE  AllOK'
<1>0. pv \in Provider
  BY DEF Provider
<1>1. UsersOK'
  <2>1. CASE UserCreate(n)
    <3>1. usr \subseteq usr' /\ usr' \subseteq Name /\ UNCHANGED <<usrPolicy, usrGrp>>
      BY <2>1 DEF UserCreate, AllOK, UsersOK
    <3>2. Rows(usr, Policy) \subseteq Rows(usr', Policy)
          /\ Rows(usr, AnyGroup) \subseteq Rows(usr', AnyGroup)
      BY <3>1, MoreHolders
    <3> QED
      BY <3>1, <3>2 DEF AllOK, UsersOK, Keyed
  <2>2. CASE UserDelete(n)
    <3>1. /\ usrPolicy' \subseteq Rows(usr \ {n}, Policy) /\ Keyed(usrPolicy')
          /\ usrGrp' \subseteq Rows(usr \ {n}, AnyGroup) /\ Keyed(usrGrp')
      <4>1. /\ usrPolicy' \subseteq usrPolicy /\ \A r \in usrPolicy' : r.holder # n
            /\ usrGrp' \subseteq usrGrp /\ \A r \in usrGrp' : r.holder # n
        BY <2>2 DEF UserDelete
      <4> QED
        BY <4>1, FewerHolders DEF AllOK, UsersOK
    <3> QED
      BY <2>2, <3>1 DEF UserDelete, AllOK, UsersOK
  <2>3. CASE x \in Policy /\ e \in Time \cup {Never} /\ GrantUserPolicy(n, x, e, pv)
    <3>1. Row(n, x, pv, e) \in Rows(usr, Policy)
      BY <1>0, <2>3, RowFields DEF GrantUserPolicy
    <3>2. usrPolicy' \subseteq Rows(usr, Policy) /\ Keyed(usrPolicy')
      BY <2>3, <3>1, SetExpiry DEF GrantUserPolicy, AllOK, UsersOK
    <3> QED
      BY <2>3, <3>2 DEF GrantUserPolicy, AllOK, UsersOK
  <2>4. CASE RevokeUserPolicy(n, x, pv) \/ RevokeUserPolicyAll(n, pv)
    <3>1. usrPolicy' \subseteq usrPolicy /\ UNCHANGED <<usr, usrGrp>>
      BY <2>4 DEF RevokeUserPolicy, RevokeUserPolicyAll, Without
    <3> QED
      BY <3>1, FewerRows DEF AllOK, UsersOK
  <2>5. CASE x \in AnyGroup /\ e \in Time \cup {Never} /\ AddUserToGroup(n, x, e, pv)
    <3>1. Row(n, x, pv, e) \in Rows(usr, AnyGroup)
      BY <1>0, <2>5, RowFields DEF AddUserToGroup
    <3>2. usrGrp' \subseteq Rows(usr, AnyGroup) /\ Keyed(usrGrp')
      BY <2>5, <3>1, SetExpiry DEF AddUserToGroup, AllOK, UsersOK
    <3> QED
      BY <2>5, <3>2 DEF AddUserToGroup, AllOK, UsersOK
  <2>6. CASE RemoveUserFromGroup(n, x, pv)
    <3>1. usrGrp' \subseteq usrGrp /\ UNCHANGED <<usr, usrPolicy>>
      BY <2>6 DEF RemoveUserFromGroup, Without
    <3> QED
      BY <3>1, FewerRows DEF AllOK, UsersOK
  <2> QED
    BY <2>1, <2>2, <2>3, <2>4, <2>5, <2>6
<1>2. UNCHANGED <<clock, links, grpPolicy, clients, owner>>
  BY DEF UserCreate, UserDelete, GrantUserPolicy, RevokeUserPolicy, RevokeUserPolicyAll,
         AddUserToGroup, RemoveUserFromGroup
<1> QED
  BY <1>1, <1>2, PartsUnchanged DEF AllOK

\* grp_policy, and the rows that PUT /group replaces.
LEMMA GroupTablesInv ==
    ASSUME AllOK, NEW g \in AnyGroup, NEW x,
           NEW N \in SUBSET Name, NEW X \in SUBSET Policy,
           NEW pv \in Header \cup {NoProvider},
           \/ GroupOverwrite(g, N, X, pv)
           \/ x \in Policy /\ GrantGroupPolicy(g, x, pv)
           \/ RevokeGroupPolicy(g, x, pv)
    PROVE  AllOK'
<1>0. pv \in Provider /\ Never \in Time \cup {Never}
  BY DEF Provider
<1>1. CASE GroupOverwrite(g, N, X, pv)
  <2> DEFINE members == {r \in usrGrp : ~ (r.to = g /\ Of(r, pv))}
             granted == Without(grpPolicy, g, Policy, pv)
             joined  == {Row(n, g, pv, Never) : n \in N}
             held    == {Row(g, y, pv, Never) : y \in X}
  <2>1. /\ N \subseteq usr
        /\ \A r \in joined, s \in members : ~ SameKey(r, s)
        /\ \A r \in held, s \in granted : ~ SameKey(r, s)
        /\ usrGrp' = members \cup joined
        /\ grpPolicy' = granted \cup held
        /\ UNCHANGED <<clock, links, usr, usrPolicy, clients, owner>>
    BY <1>1 DEF GroupOverwrite
  <2>2. joined \subseteq Rows(usr, AnyGroup) /\ Keyed(joined)
    <3>1. \A n \in N : Row(n, g, pv, Never) \in Rows(usr, AnyGroup)
                       /\ Row(n, g, pv, Never).holder = n
      BY <1>0, <2>1, RowFields
    <3> QED
      BY <3>1 DEF Keyed, SameKey
  <2>3. held \subseteq Rows(AnyGroup, Policy) /\ Keyed(held)
    <3>1. \A y \in X : Row(g, y, pv, Never) \in Rows(AnyGroup, Policy)
                       /\ Row(g, y, pv, Never).to = y
      BY <1>0, RowFields
    <3> QED
      BY <3>1 DEF Keyed, SameKey
  <2>4. members \subseteq usrGrp /\ granted \subseteq grpPolicy
    BY DEF Without
  <2> HIDE DEF members, granted, joined, held
  <2>5. ASSUME NEW A, NEW B, NEW H, NEW Y, A \subseteq Rows(H, Y), B \subseteq Rows(H, Y),
               Keyed(A), Keyed(B), \A r \in B, s \in A : ~ SameKey(r, s)
        PROVE  A \cup B \subseteq Rows(H, Y) /\ Keyed(A \cup B)
    BY <2>5 DEF Keyed, SameKey
  <2>6. UsersOK'
    <3>1. members \subseteq Rows(usr, AnyGroup) /\ Keyed(members)
      BY <2>4, FewerRows DEF AllOK, UsersOK
    <3>2. usrGrp' \subseteq Rows(usr, AnyGroup) /\ Keyed(usrGrp')
      BY <2>1, <2>2, <2>5, <3>1
    <3> QED
      BY <2>1, <3>2 DEF AllOK, UsersOK
  <2>7. GroupsOK'
    <3>1. granted \subseteq Rows(AnyGroup, Policy) /\ Keyed(granted)
      BY <2>4, FewerRows DEF AllOK, GroupsOK
    <3> QED
      BY <2>1, <2>3, <2>5, <3>1 DEF GroupsOK
  <2> QED
    BY <2>1, <2>6, <2>7, PartsUnchanged DEF AllOK
<1>2. CASE x \in Policy /\ GrantGroupPolicy(g, x, pv)
  <2>1. Row(g, x, pv, Never) \in Rows(AnyGroup, Policy)
    BY <1>0, <1>2, RowFields
  <2>2. GroupsOK'
    BY <1>2, <2>1, InsertRow DEF GrantGroupPolicy, AllOK, GroupsOK
  <2> QED
    BY <1>2, <2>2, PartsUnchanged DEF GrantGroupPolicy, AllOK, users
<1>3. CASE RevokeGroupPolicy(g, x, pv)
  <2>1. grpPolicy' \subseteq grpPolicy
    BY <1>3 DEF RevokeGroupPolicy, Without
  <2>2. GroupsOK'
    BY <2>1, FewerRows DEF AllOK, GroupsOK
  <2> QED
    BY <1>3, <2>2, PartsUnchanged DEF RevokeGroupPolicy, AllOK, users
<1> QED
  BY <1>1, <1>2, <1>3

\* client_policy.
LEMMA ClientTablesInv ==
    ASSUME AllOK, NEW c \in Client, NEW x, NEW X \in SUBSET Policy,
           NEW pv \in Header \cup {NoProvider},
           \/ ClientCreate(c, X, pv) \/ ClientDelete(c)
           \/ x \in Policy /\ GrantClientPolicy(c, x, pv)
           \/ RevokeClientPolicy(c, X, pv)
    PROVE  AllOK'
<1>0. pv \in Provider /\ Never \in Time \cup {Never}
  BY DEF Provider
<1>1. ClientsOK'
  <2>1. CASE ClientCreate(c, X, pv)
    <3> DEFINE new == {Row(c, y, pv, Never) : y \in X}
    <3>1. /\ c \notin client /\ client' = client \cup {c}
          /\ clientPolicy' = clientPolicy \cup new
      BY <2>1 DEF ClientCreate
    <3>2. ASSUME NEW y \in X
          PROVE  /\ Row(c, y, pv, Never) \in Rows(client', Policy)
                 /\ Row(c, y, pv, Never).to = y /\ Row(c, y, pv, Never).holder = c
      <4>1. c \in client' /\ y \in Policy
        BY <3>1
      <4> QED
        BY <1>0, <4>1, RowFields
    <3>3. new \subseteq Rows(client', Policy) /\ Keyed(new) /\ \A r \in new : r.holder = c
      BY <3>2 DEF Keyed, SameKey
    <3> HIDE DEF new
    <3>4. clientPolicy \subseteq Rows(client', Policy)
      BY <3>1, MoreHolders DEF AllOK, ClientsOK
    <3>5. \A r \in clientPolicy : r.holder # c
      BY <3>1 DEF AllOK, ClientsOK, Rows
    <3>6. Keyed(clientPolicy')
      BY <3>1, <3>3, <3>5 DEF AllOK, ClientsOK, Keyed, SameKey
    <3> QED
      BY <3>1, <3>3, <3>4, <3>6 DEF AllOK, ClientsOK
  <2>2. CASE ClientDelete(c)
    <3>1. /\ clientPolicy' \subseteq clientPolicy /\ \A r \in clientPolicy' : r.holder # c
          /\ client' = client \ {c}
      BY <2>2 DEF ClientDelete
    <3>2. clientPolicy' \subseteq Rows(client \ {c}, Policy) /\ Keyed(clientPolicy')
      BY <3>1, FewerHolders DEF AllOK, ClientsOK
    <3> QED
      BY <3>1, <3>2 DEF AllOK, ClientsOK
  <2>3. CASE x \in Policy /\ GrantClientPolicy(c, x, pv)
    <3>1. Row(c, x, pv, Never) \in Rows(client, Policy)
      BY <1>0, <2>3, RowFields DEF GrantClientPolicy
    <3> QED
      BY <2>3, <3>1, InsertRow DEF GrantClientPolicy, AllOK, ClientsOK
  <2>4. CASE RevokeClientPolicy(c, X, pv)
    <3>1. clientPolicy' \subseteq clientPolicy /\ UNCHANGED client
      BY <2>4 DEF RevokeClientPolicy, Without
    <3> QED
      BY <3>1, FewerRows DEF AllOK, ClientsOK
  <2> QED
    BY <2>1, <2>2, <2>3, <2>4
<1>2. UNCHANGED <<clock, links, users, grpPolicy>>
  BY DEF ClientCreate, ClientDelete, GrantClientPolicy, RevokeClientPolicy
<1> QED
  BY <1>1, <1>2, PartsUnchanged DEF AllOK, users

\* Owner and access requests, which write names in lower case.
LEMMA LoweredInv ==
    ASSUME AllOK, NEW n \in Name, NEW x \in Policy, NEW pv \in Header \cup {NoProvider},
           \/ BindOwner(n, x) \/ UnbindOwner(n, x)
           \/ GrantUserAccess(n, x, pv) \/ RevokeUserAccess(n, x)
    PROVE  AllOK'
<1>0. /\ pv \in Provider /\ Ownership \in Provider /\ Never \in Time \cup {Never}
      /\ Lower[n] \in Name
  BY GrantsAssumption DEF Provider
<1>1. ASSUME NEW q \in Provider, usr' = usr \cup {Lower[n]}, UNCHANGED usrGrp,
             usrPolicy' = InsertOrSetProvider(usrPolicy, Row(Lower[n], x, q, Never))
      PROVE  UsersOK'
  <2>1. usr \subseteq usr' /\ usr' \subseteq Name /\ Lower[n] \in usr'
    BY <1>0, <1>1 DEF AllOK, UsersOK
  <2>2. usrPolicy \subseteq Rows(usr', Policy) /\ usrGrp \subseteq Rows(usr', AnyGroup)
    BY <2>1, MoreHolders DEF AllOK, UsersOK
  <2>3. Row(Lower[n], x, q, Never) \in Rows(usr', Policy)
    BY <1>0, <2>1, RowFields
  <2>4. usrPolicy' \subseteq Rows(usr', Policy) /\ Keyed(usrPolicy')
    BY <1>1, <2>2, <2>3, SetProvider DEF AllOK, UsersOK
  <2> QED
    BY <1>1, <2>1, <2>2, <2>4 DEF AllOK, UsersOK
<1>2. CASE BindOwner(n, x)
  <2>1. UsersOK'
    BY <1>0, <1>1, <1>2 DEF BindOwner
  <2>2. OwnersOK'
    BY <1>2 DEF BindOwner, AllOK, OwnersOK
  <2> QED
    BY <1>2, <2>1, <2>2, PartsUnchanged DEF BindOwner, AllOK
<1>3. CASE GrantUserAccess(n, x, pv)
  <2>1. UsersOK'
    BY <1>0, <1>1, <1>3 DEF GrantUserAccess
  <2> QED
    BY <1>3, <2>1, PartsUnchanged DEF GrantUserAccess, AllOK
<1>4. CASE UnbindOwner(n, x) \/ RevokeUserAccess(n, x)
  <2>1. /\ usrPolicy' \subseteq usrPolicy /\ owner' \subseteq owner
        /\ UNCHANGED <<clock, links, usr, usrGrp, grpPolicy, clients>>
    BY <1>4 DEF UnbindOwner, RevokeUserAccess
  <2>2. UsersOK' /\ OwnersOK'
    BY <2>1, FewerRows DEF AllOK, UsersOK, OwnersOK
  <2> QED
    BY <2>1, <2>2, PartsUnchanged DEF AllOK
<1> QED
  BY <1>2, <1>3, <1>4

\* Resources and roles.
LEMMA CatalogTablesInv ==
    ASSUME AllOK,
           \/ \E p \in Path : ResourceDelete(p)
           \/ \E x \in Policy, i \in PermissionId, a \in Action : RoleOverwrite(x, i, a)
    PROVE  AllOK'
<1>1. ASSUME NEW p \in Path, ResourceDelete(p) PROVE AllOK'
  <2>1. CatalogOK'
    BY <1>1 DEF ResourceDelete, AllOK, CatalogOK
  <2> QED
    BY <1>1, <2>1, PartsUnchanged DEF ResourceDelete, AllOK, users
<1>2. ASSUME NEW x \in Policy, NEW i \in PermissionId, NEW a \in Action, RoleOverwrite(x, i, a)
      PROVE  AllOK'
  <2> DEFINE f == [j \in DOMAIN permission[x] \cup {i} |-> IF j = i THEN a ELSE permission[x][j]]
  <2>1. permission' = [permission EXCEPT ![x] = f] /\ UNCHANGED <<resource, link>>
    BY <1>2 DEF RoleOverwrite
  <2>2. PICK I \in SUBSET PermissionId : permission[x] \in [I -> Action]
    BY DEF AllOK, CatalogOK
  <2>3. f \in [I \cup {i} -> Action] /\ I \cup {i} \in SUBSET PermissionId
    BY <2>2
  <2> HIDE DEF f
  <2>4. /\ DOMAIN permission' = Policy /\ permission'[x] = f
        /\ \A y \in Policy \ {x} : permission'[y] = permission[y]
    BY <2>1 DEF AllOK, CatalogOK
  <2>5. ASSUME NEW y \in Policy
        PROVE  \E J \in SUBSET PermissionId : permission'[y] \in [J -> Action]
    <3>1. CASE y = x
      BY <2>3, <2>4, <3>1
    <3>2. CASE y # x
      BY <2>4, <3>2 DEF AllOK, CatalogOK
    <3> QED
      BY <3>1, <3>2
  <2>6. CatalogOK'
    BY <2>1, <2>4, <2>5 DEF AllOK, CatalogOK
  <2> QED
    BY <1>2, <2>6, PartsUnchanged DEF RoleOverwrite, AllOK, users
<1> QED
  BY <1>1, <1>2

\* The clock and the job.
LEMMA BackgroundInv ==
    ASSUME AllOK, Tick \/ Job
    PROVE  AllOK'
<1>1. CASE Tick
  <2>1. ClockOK'
    BY <1>1, GrantsAssumption DEF Tick, AllOK, ClockOK, Time
  <2> QED
    BY <1>1, <2>1, PartsUnchanged DEF Tick, AllOK, users
<1>2. CASE Job
  <2>1. /\ usrPolicy' \subseteq usrPolicy /\ usrGrp' \subseteq usrGrp /\ now' = now
        /\ job' \in {"groups", "policies"}
        /\ UNCHANGED <<links, usr, owner, grpPolicy, clients>>
    BY <1>2 DEF Job, DeleteExpiredMemberships, DeleteExpiredGrants
  <2>2. UsersOK' /\ ClockOK'
    BY <2>1, FewerRows DEF AllOK, UsersOK, ClockOK
  <2> QED
    BY <2>1, <2>2, PartsUnchanged DEF AllOK
<1> QED
  BY <1>1, <1>2

\* Every request, the clock and the job keep the types: keys stay unique and
\* foreign keys keep holding, upserts, replacements and cascades included.
THEOREM Typing == Spec => []TypeOK
<1>1. Init => AllOK
  BY GrantsAssumption DEF Init, AllOK, UsersOK, GroupsOK, ClientsOK, CatalogOK, ClockOK,
                          OwnersOK, Keyed, Time
<1>2. AllOK /\ [Next]_vars => AllOK'
  <2> SUFFICES ASSUME AllOK, [Next]_vars PROVE AllOK'
    OBVIOUS
  <2>1. ASSUME NEW pv \in Header \cup {NoProvider}, Limited(pv) PROVE AllOK'
    <3>1. CASE \/ \E n \in Name, x \in Policy :
                  \/ \E e \in Time \cup {Never} : GrantUserPolicy(n, x, e, pv)
                  \/ RevokeUserPolicy(n, x, pv)
               \/ \E n \in Name : RevokeUserPolicyAll(n, pv)
               \/ \E n \in Name, g \in AnyGroup :
                  \/ \E e \in Time \cup {Never} : AddUserToGroup(n, g, e, pv)
                  \/ RemoveUserFromGroup(n, g, pv)
      BY <3>1, UserTablesInv
    <3>2. CASE \E g \in AnyGroup, N \in SUBSET Name, X \in SUBSET Policy :
                  GroupOverwrite(g, N, X, pv)
      BY <3>2, GroupTablesInv
    <3>3. CASE \E g \in AnyGroup, x \in Policy :
                  GrantGroupPolicy(g, x, pv) \/ RevokeGroupPolicy(g, x, pv)
      <4>1. {} \in SUBSET Name /\ {} \in SUBSET Policy
        OBVIOUS
      <4> QED
        BY <3>3, <4>1, GroupTablesInv
    <3>4. CASE \/ \E c \in Client, X \in SUBSET Policy :
                  ClientCreate(c, X, pv) \/ RevokeClientPolicy(c, X, pv)
               \/ \E c \in Client, x \in Policy : GrantClientPolicy(c, x, pv)
      <4>1. {} \in SUBSET Policy
        OBVIOUS
      <4> QED
        BY <3>4, <4>1, ClientTablesInv
    <3> QED
      BY <2>1, <3>1, <3>2, <3>3, <3>4 DEF Limited
  <2>2. CASE Unlimited
    <3>1. {} \in SUBSET Policy /\ NoProvider \in Header \cup {NoProvider}
      OBVIOUS
    <3>2. CASE \E n \in Name : UserCreate(n) \/ UserDelete(n)
      BY <3>1, <3>2, UserTablesInv
    <3>3. CASE \E n \in Name, x \in Policy :
                  \/ BindOwner(n, x) \/ UnbindOwner(n, x) \/ RevokeUserAccess(n, x)
                  \/ \E pv \in Header \cup {NoProvider} : GrantUserAccess(n, x, pv)
      BY <3>1, <3>3, LoweredInv
    <3>4. CASE \E c \in Client : ClientDelete(c)
      BY <3>1, <3>4, ClientTablesInv
    <3> QED
      BY <2>2, <3>2, <3>3, <3>4, CatalogTablesInv DEF Unlimited
  <2>3. CASE Tick \/ Job
    BY <2>3, BackgroundInv
  <2>4. CASE UNCHANGED vars
    BY <2>4, PartsUnchanged DEF vars, AllOK, clock, links, clients
  <2> QED
    BY <2>1, <2>2, <2>3, <2>4 DEF Next, Request
<1> QED
  BY <1>1, <1>2, TypeParts, PTL DEF Spec

----------------------------------------------------------------------------
(* What steps may not do.                                                  *)

\* Whoever is removed as an owner holds the owner policy no more: the removal
\* takes every spelling of the name and every provider.
THEOREM RemovedOwnersTheorem == Spec => RemovedOwnersHoldNothing
<1>1. \A n \in Name, x \in OwnerPolicies : UnbindOwner(n, x) => x \notin OwnGrants(Lower[n])'
  BY DEF UnbindOwner, OwnGrants
<1> QED
  BY <1>1, PTL DEF Spec, RemovedOwnersHoldNothing

\* A row is live or expired, never both: the strict comparison of the queries
\* and the one of the job are complements.
LEMMA LiveOrExpired ==
    ASSUME TypeOK, NEW H, NEW X, NEW r \in Rows(H, X)
    PROVE  Live(r) <=> ~ Expired(r)
BY GrantsAssumption DEF TypeOK, Live, Expired, Rows, Time

\* Neither statement of the job changes what anybody holds.
LEMMA JobKeepsHeld ==
    ASSUME TypeOK, Job, NEW u
    PROVE  Held(u)' = Held(u)
<1>1. /\ now' = now /\ grpPolicy' = grpPolicy
      /\ usrPolicy' \subseteq usrPolicy /\ \A r \in usrPolicy : ~ Expired(r) => r \in usrPolicy'
      /\ usrGrp' \subseteq usrGrp /\ \A r \in usrGrp : ~ Expired(r) => r \in usrGrp'
  BY DEF Job, DeleteExpiredMemberships, DeleteExpiredGrants
<1>2. \A r : Live(r)' <=> Live(r)
  BY <1>1 DEF Live
<1>3. /\ \A r \in usrPolicy : Live(r) => ~ Expired(r)
      /\ \A r \in usrGrp : Live(r) => ~ Expired(r)
  BY LiveOrExpired DEF TypeOK
<1>4. OwnGrants(u)' = OwnGrants(u)
  BY <1>1, <1>2, <1>3 DEF OwnGrants
<1>5. Memberships(u)' = Memberships(u)
  BY <1>1, <1>2, <1>3 DEF Memberships
<1>6. \A G : GroupGrants(G)' = GroupGrants(G)
  BY <1>1 DEF GroupGrants
<1> QED
  BY <1>4, <1>5, <1>6 DEF Held

\* The job only tidies up: neither of its statements changes any decision.
THEOREM JobTheorem == Spec => JobChangesNoDecision
<1>1. ASSUME TypeOK, [Next]_vars
      PROVE  Job => \A u \in Person, X \in SUBSET Policy, a \in Asked, p \in Path :
                       AuthorizeUser(u, X, a, p)' = AuthorizeUser(u, X, a, p)
  <2> SUFFICES ASSUME Job, NEW u \in Person, NEW X \in SUBSET Policy, NEW a \in Asked,
                      NEW p \in Path
               PROVE  AuthorizeUser(u, X, a, p)' = AuthorizeUser(u, X, a, p)
    OBVIOUS
  <2>1. Held(u)' = Held(u)
    BY <1>1, JobKeepsHeld
  <2>2. link' = link /\ permission' = permission
    BY DEF Job, DeleteExpiredMemberships, DeleteExpiredGrants, links
  <2>3. \A x : /\ Allows(x, a)' <=> Allows(x, a)
               /\ Reaches(x, p)' <=> Reaches(x, p)
    BY <2>2 DEF Allows, Actions, Reaches, Roots
  <2> QED
    BY <2>1, <2>3 DEF AuthorizeUser
<1> QED
  BY <1>1, Typing, PTL DEF Spec, JobChangesNoDecision

\* Every row of another provider stays as it is.
StaysForOthers(T, U, pv) == \A r \in T : r.provider # pv => r \in U

\* A DELETE limited to a provider leaves the rows of others.
LEMMA OthersStay ==
    ASSUME NEW pv \in Header, NEW T, NEW h, NEW X
    PROVE  StaysForOthers(T, Without(T, h, X, pv), pv)
BY GrantsAssumption DEF StaysForOthers, Without, Of

\* What a request limited to a provider does to the rows of others.
GrantsMoveDates(pv) ==
    \A r \in usrPolicy : r.provider # pv /\ r \notin usrPolicy' =>
        \E e \in Time \cup {Never} :
            GrantUserPolicy(r.holder, r.to, e, pv) /\ [r EXCEPT !.expires = e] \in usrPolicy'

JoinsMoveDates(pv) ==
    \A r \in usrGrp : r.provider # pv /\ r \notin usrGrp' =>
        \E e \in Time \cup {Never} :
            AddUserToGroup(r.holder, r.to, e, pv) /\ [r EXCEPT !.expires = e] \in usrGrp'

\* A request with the header leaves the rows of other providers alone, but for
\* the date of one that it grants again: deletes compare the provider, and the
\* two upserts leave it as it is.
LEMMA LimitedKeepsOthers ==
    ASSUME AllOK, NEW pv \in Header, Limited(pv)
    PROVE  /\ GrantsMoveDates(pv) /\ JoinsMoveDates(pv)
           /\ StaysForOthers(grpPolicy, grpPolicy', pv)
           /\ StaysForOthers(clientPolicy, clientPolicy', pv)
<1> DEFINE Kept == /\ GrantsMoveDates(pv) /\ JoinsMoveDates(pv)
                   /\ StaysForOthers(grpPolicy, grpPolicy', pv)
                   /\ StaysForOthers(clientPolicy, clientPolicy', pv)
<1>0. /\ pv \in Provider /\ pv # NoProvider
      /\ \A T, U : T \subseteq U => StaysForOthers(T, U, pv)
      /\ StaysForOthers(usrPolicy, usrPolicy', pv) => GrantsMoveDates(pv)
      /\ StaysForOthers(usrGrp, usrGrp', pv) => JoinsMoveDates(pv)
  BY GrantsAssumption DEF Provider, StaysForOthers, GrantsMoveDates, JoinsMoveDates
<1>1. ASSUME NEW n \in Name, NEW x \in Policy, NEW e \in Time \cup {Never},
             GrantUserPolicy(n, x, e, pv)
      PROVE  Kept
  <2>1. /\ Row(n, x, pv, e) \in Rows(usr, Policy)
        /\ Row(n, x, pv, e).holder = n /\ Row(n, x, pv, e).to = x
        /\ Row(n, x, pv, e).expires = e
    BY <1>0, <1>1, RowFields DEF GrantUserPolicy, Row
  <2>2. ASSUME NEW r \in usrPolicy, r \notin usrPolicy'
        PROVE  r.holder = n /\ r.to = x /\ [r EXCEPT !.expires = e] \in usrPolicy'
    BY <1>1, <2>1, <2>2, SetExpiry DEF GrantUserPolicy, AllOK, UsersOK
  <2>3. GrantsMoveDates(pv)
    BY <1>1, <2>2 DEF GrantsMoveDates
  <2> QED
    BY <1>0, <1>1, <2>3 DEF GrantUserPolicy, clients
<1>2. ASSUME NEW n \in Name, NEW x \in Policy, RevokeUserPolicy(n, x, pv) PROVE Kept
  BY <1>0, <1>2, OthersStay DEF RevokeUserPolicy, clients
<1>3. ASSUME NEW n \in Name, RevokeUserPolicyAll(n, pv) PROVE Kept
  BY <1>0, <1>3, OthersStay DEF RevokeUserPolicyAll, clients
<1>4. ASSUME NEW n \in Name, NEW g \in AnyGroup, NEW e \in Time \cup {Never},
             AddUserToGroup(n, g, e, pv)
      PROVE  Kept
  <2>1. /\ Row(n, g, pv, e) \in Rows(usr, AnyGroup)
        /\ Row(n, g, pv, e).holder = n /\ Row(n, g, pv, e).to = g
        /\ Row(n, g, pv, e).expires = e
    BY <1>0, <1>4, RowFields DEF AddUserToGroup, Row
  <2>2. ASSUME NEW r \in usrGrp, r \notin usrGrp'
        PROVE  r.holder = n /\ r.to = g /\ [r EXCEPT !.expires = e] \in usrGrp'
    BY <1>4, <2>1, <2>2, SetExpiry DEF AddUserToGroup, AllOK, UsersOK
  <2>3. JoinsMoveDates(pv)
    BY <1>4, <2>2 DEF JoinsMoveDates
  <2> QED
    BY <1>0, <1>4, <2>3 DEF AddUserToGroup, clients
<1>5. ASSUME NEW n \in Name, NEW g \in AnyGroup, RemoveUserFromGroup(n, g, pv) PROVE Kept
  BY <1>0, <1>5, OthersStay DEF RemoveUserFromGroup, clients
<1>6. ASSUME NEW g \in AnyGroup, NEW N \in SUBSET Name, NEW X \in SUBSET Policy,
             GroupOverwrite(g, N, X, pv)
      PROVE  Kept
  <2>1. StaysForOthers(usrGrp, usrGrp', pv)
    BY <1>0, <1>6 DEF GroupOverwrite, Of, StaysForOthers
  <2>2. StaysForOthers(grpPolicy, grpPolicy', pv)
    BY <1>0, <1>6 DEF GroupOverwrite, Without, Of, StaysForOthers
  <2> QED
    BY <1>0, <1>6, <2>1, <2>2 DEF GroupOverwrite, clients
<1>7. ASSUME NEW g \in AnyGroup, NEW x \in Policy, GrantGroupPolicy(g, x, pv) PROVE Kept
  <2>1. grpPolicy \subseteq grpPolicy'
    BY <1>7 DEF GrantGroupPolicy, InsertOrNothing
  <2> QED
    BY <1>0, <1>7, <2>1 DEF GrantGroupPolicy, clients, users
<1>8. ASSUME NEW g \in AnyGroup, NEW x \in Policy, RevokeGroupPolicy(g, x, pv) PROVE Kept
  BY <1>0, <1>8, OthersStay DEF RevokeGroupPolicy, clients, users
<1>9. ASSUME NEW c \in Client, NEW X \in SUBSET Policy, ClientCreate(c, X, pv) PROVE Kept
  <2>1. clientPolicy \subseteq clientPolicy'
    BY <1>9 DEF ClientCreate
  <2> QED
    BY <1>0, <1>9, <2>1 DEF ClientCreate, users
<1>10. ASSUME NEW c \in Client, NEW X \in SUBSET Policy, RevokeClientPolicy(c, X, pv) PROVE Kept
  BY <1>0, <1>10, OthersStay DEF RevokeClientPolicy, users
<1>11. ASSUME NEW c \in Client, NEW x \in Policy, GrantClientPolicy(c, x, pv) PROVE Kept
  <2>1. clientPolicy \subseteq clientPolicy'
    BY <1>11 DEF GrantClientPolicy, InsertOrNothing
  <2> QED
    BY <1>0, <1>11, <2>1 DEF GrantClientPolicy, users
<1>12. Kept
  <2> HIDE DEF Kept
  <2> QED
    BY <1>1, <1>2, <1>3, <1>4, <1>5, <1>6, <1>7, <1>8, <1>9, <1>10, <1>11 DEF Limited
<1> QED
  BY <1>12

\* A request limited to a provider does one thing only to a row of another:
\* granting what that row grants sets its date.
THEOREM ProvidersTheorem == Spec => ProvidersKeepTheirRows
<1>1. AllOK /\ [Next]_vars =>
          \A pv \in Header :
              /\ \A r \in usrPolicy \ usrPolicy' : r.provider # pv /\ Limited(pv) =>
                    \E e \in Time \cup {Never} :
                        /\ GrantUserPolicy(r.holder, r.to, e, pv)
                        /\ [r EXCEPT !.expires = e] \in usrPolicy'
              /\ \A r \in usrGrp \ usrGrp' : r.provider # pv /\ Limited(pv) =>
                    \E e \in Time \cup {Never} :
                        /\ AddUserToGroup(r.holder, r.to, e, pv)
                        /\ [r EXCEPT !.expires = e] \in usrGrp'
              /\ \A r \in grpPolicy \ grpPolicy' : r.provider = pv \/ ~ Limited(pv)
              /\ \A r \in clientPolicy \ clientPolicy' : r.provider = pv \/ ~ Limited(pv)
  BY LimitedKeepsOthers DEF StaysForOthers, GrantsMoveDates, JoinsMoveDates
<1> QED
  BY <1>1, Typing, TypeParts, PTL DEF Spec, ProvidersKeepTheirRows

----------------------------------------------------------------------------
(* Decisions and reports.                                                  *)

\* Every policy that a query looks at is one, with typed permissions and with
\* resources that exist.
LEMMA PoliciesLookedAt ==
    ASSUME TypeOK
    PROVE  /\ \A u : Held(u) \subseteq Policy
           /\ \A c : ClientGrants(c) \subseteq Policy
           /\ \A G : GroupGrants(G) \subseteq Policy
           /\ \A x \in Policy : Actions(x) \subseteq Action
           /\ \A x : \A q \in Roots(x) : q \in resource /\ q \in Below[q]
<1>1. \A u : OwnGrants(u) \subseteq Policy
  BY DEF TypeOK, OwnGrants, Rows
<1>2. \A G : GroupGrants(G) \subseteq Policy
  BY DEF TypeOK, GroupGrants, Rows
<1>3. \A c : ClientGrants(c) \subseteq Policy
  BY DEF TypeOK, ClientGrants, Rows
<1>4. ASSUME NEW x \in Policy PROVE Actions(x) \subseteq Action
  <2>1. PICK I \in SUBSET PermissionId : permission[x] \in [I -> Action]
    BY DEF TypeOK
  <2> QED
    BY <2>1 DEF Actions
<1>5. \A x : \A q \in Roots(x) : q \in resource /\ q \in Below[q]
  BY GrantsAssumption DEF TypeOK, Roots
<1> QED
  BY <1>1, <1>2, <1>3, <1>4, <1>5 DEF Held

\* A permission for create-descendant matches requests for it only.
LEMMA NoWildcardInCreate ==
    ASSUME NEW a \in Asked, Matches(CreateDescendant, a)
    PROVE  a = CreateDescendant
<1>1. a \in STRING \X STRING
  BY GrantsAssumption DEF Asked
<1>2. CreateDescendant[1] = "arborist" /\ CreateDescendant[2] = "create-descendant"
  BY DEF CreateDescendant
<1>3. a[1] = "arborist" /\ a[2] = "create-descendant"
  BY <1>2 DEF Matches
<1> QED
  BY <1>1, <1>3 DEF CreateDescendant

\* A mapping lists, for every action but create-descendant, exactly what the
\* policies it is made from allow.
LEMMA MappingOfPolicies ==
    ASSUME TypeOK, NEW X \in SUBSET Policy, NEW a \in Asked, NEW p \in resource
    PROVE  /\ a # CreateDescendant =>
                 ((\E x \in X : Allows(x, a) /\ Reaches(x, p))
                     <=> \E m \in Mapping(X) : m[1] = p /\ Matches(m[2], a))
           /\ (\E x \in X : Allows(x, a) /\ p \in Roots(x))
                 => \E m \in Mapping(X) : m[1] = p /\ Matches(m[2], a)
           /\ <<p, CreateDescendant>> \in Mapping(X)
                 => \E x \in X : Allows(x, CreateDescendant) /\ p \in Roots(x)
<1> DEFINE L == {m \in Mapping(X) : m[1] = p /\ Matches(m[2], a)}
<1>1. ASSUME NEW x \in X, NEW b \in Actions(x), Matches(b, a),
             IF b = CreateDescendant THEN p \in Roots(x) ELSE Reaches(x, p)
      PROVE  L # {}
  <2>1. <<p, b>> \in resource \X Action
    BY PoliciesLookedAt
  <2>2. <<p, b>>[1] = p /\ <<p, b>>[2] = b
    OBVIOUS
  <2>3. <<p, b>> \in Mapping(X)
    BY <1>1, <2>1, <2>2 DEF Mapping
  <2>4. <<p, b>> \in L
    BY <1>1, <2>2, <2>3
  <2> QED
    BY <2>4
<1>2. ASSUME NEW m \in L
      PROVE  \E x \in X : /\ Allows(x, a)
                          /\ IF m[2] = CreateDescendant THEN p \in Roots(x) ELSE Reaches(x, p)
  BY DEF Mapping, Allows
<1>3. \A x \in X : p \in Roots(x) => Reaches(x, p)
  BY PoliciesLookedAt DEF Reaches
<1>4. ASSUME a # CreateDescendant, NEW x \in X, Allows(x, a), Reaches(x, p)
      PROVE  L # {}
  <2>1. PICK b \in Actions(x) : Matches(b, a)
    BY <1>4 DEF Allows
  <2>2. b # CreateDescendant
    BY <1>4, <2>1, NoWildcardInCreate
  <2> QED
    BY <1>1, <1>4, <2>1, <2>2
<1>5. ASSUME NEW x \in X, Allows(x, a), p \in Roots(x)
      PROVE  L # {}
  BY <1>1, <1>3, <1>5 DEF Allows
<1>6. ASSUME <<p, CreateDescendant>> \in Mapping(X)
      PROVE  \E x \in X : Allows(x, CreateDescendant) /\ p \in Roots(x)
  <2>1. /\ <<p, CreateDescendant>>[1] = p
        /\ <<p, CreateDescendant>>[2] = CreateDescendant
    OBVIOUS
  <2>2. PICK x \in X : CreateDescendant \in Actions(x) /\ p \in Roots(x)
    BY <1>6, <2>1 DEF Mapping
  <2>3. Matches(CreateDescendant, CreateDescendant)
    BY DEF Matches
  <2> QED
    BY <2>2, <2>3 DEF Allows
<1> HIDE DEF L
<1>7. (\E x \in X : Allows(x, a) /\ Reaches(x, p)) /\ a # CreateDescendant => L # {}
  BY <1>4
<1>8. L # {} => \E x \in X : Allows(x, a) /\ Reaches(x, p)
  BY <1>2, <1>3
<1> QED
  BY <1>5, <1>6, <1>7, <1>8 DEF L

\* The mapping of a user: what is allowed under any limit is listed, and what
\* is listed is allowed without one.
LEMMA MappingForUser ==
    ASSUME TypeOK, NEW u \in Person, NEW t, t = [user |-> u, client |-> Nobody]
    PROVE  MappingAgreesFor(AuthMappingForUser(u), t)
<1> SUFFICES ASSUME NEW a \in Asked, NEW p \in resource
             PROVE  LET listed == {m \in AuthMappingForUser(u) : m[1] = p /\ Matches(m[2], a)} IN
                    IF a # CreateDescendant
                    THEN IF listed = {}
                         THEN \A X \in SUBSET Policy : HandleAuthRequest(t, X, a, p) # "yes"
                         ELSE HandleAuthRequest(t, {}, a, p) # "no"
                    ELSE t.user # Nobody =>
                            /\ AuthorizeUserExact(t.user, a, p) => listed # {}
                            /\ <<p, a>> \in listed => AuthorizeUserExact(t.user, a, p)
  BY DEF MappingAgreesFor
<1> DEFINE Y == Held(u)
           L == {m \in Mapping(Y) : m[1] = p /\ Matches(m[2], a)}
<1>1. t.user = u /\ t.client = Nobody /\ u # Nobody /\ ~ IsAnonymous(t)
  BY NobodyAssumption DEF IsAnonymous
<1>2. \A X : HandleAuthRequest(t, X, a, p) = IF AuthorizeUser(u, X, a, p) THEN "yes" ELSE "no"
  BY <1>1 DEF HandleAuthRequest
<1>3. /\ \A X : AuthorizeUser(u, X, a, p) => \E x \in Y : Allows(x, a) /\ Reaches(x, p)
      /\ AuthorizeUser(u, {}, a, p) <=> \E x \in Y : Allows(x, a) /\ Reaches(x, p)
      /\ AuthorizeUserExact(u, a, p) <=> \E x \in Y : Allows(x, a) /\ p \in Roots(x)
  BY DEF AuthorizeUser, AuthorizeUserExact
<1>4. Y \in SUBSET Policy
  BY PoliciesLookedAt
<1>5. AuthMappingForUser(u) = Mapping(Y)
  BY DEF AuthMappingForUser
<1> HIDE DEF Y
<1>6. /\ a # CreateDescendant => ((\E x \in Y : Allows(x, a) /\ Reaches(x, p)) <=> L # {})
      /\ (\E x \in Y : Allows(x, a) /\ p \in Roots(x)) => L # {}
      /\ <<p, CreateDescendant>> \in L
            => \E x \in Y : Allows(x, CreateDescendant) /\ p \in Roots(x)
  BY <1>4, MappingOfPolicies
<1> HIDE DEF L
<1>7. CASE a # CreateDescendant
  <2>1. L = {} => \A X \in SUBSET Policy : HandleAuthRequest(t, X, a, p) # "yes"
    BY <1>2, <1>3, <1>6, <1>7
  <2>2. L # {} => HandleAuthRequest(t, {}, a, p) # "no"
    BY <1>2, <1>3, <1>6, <1>7
  <2> QED
    BY <1>5, <1>7, <2>1, <2>2 DEF L
<1>8. CASE a = CreateDescendant
  <2>1. AuthorizeUserExact(u, a, p) => L # {}
    BY <1>3, <1>6
  <2>2. <<p, a>> \in L => AuthorizeUserExact(u, a, p)
    BY <1>3, <1>6, <1>8
  <2> QED
    BY <1>1, <1>5, <1>8, <2>1, <2>2 DEF L
<1> QED
  BY <1>7, <1>8

\* The mapping of whoever is no user, whose decisions look at no limit.
LEMMA MappingForOthers ==
    ASSUME TypeOK, NEW t, t.user = Nobody, NEW Y \in SUBSET Policy,
           \A X, a, p : HandleAuthRequest(t, X, a, p) # "error" =>
              (HandleAuthRequest(t, X, a, p) = "yes"
                  <=> \E x \in Y : Allows(x, a) /\ Reaches(x, p)),
           \A X, a, p : HandleAuthRequest(t, X, a, p) \in {"yes", "no", "error"}
    PROVE  MappingAgreesFor(Mapping(Y), t)
<1> SUFFICES ASSUME NEW a \in Asked, NEW p \in resource
             PROVE  LET listed == {m \in Mapping(Y) : m[1] = p /\ Matches(m[2], a)} IN
                    IF a # CreateDescendant
                    THEN IF listed = {}
                         THEN \A X \in SUBSET Policy : HandleAuthRequest(t, X, a, p) # "yes"
                         ELSE HandleAuthRequest(t, {}, a, p) # "no"
                    ELSE t.user # Nobody =>
                            /\ AuthorizeUserExact(t.user, a, p) => listed # {}
                            /\ <<p, a>> \in listed => AuthorizeUserExact(t.user, a, p)
  BY DEF MappingAgreesFor
<1> DEFINE L == {m \in Mapping(Y) : m[1] = p /\ Matches(m[2], a)}
<1>1. a # CreateDescendant => ((\E x \in Y : Allows(x, a) /\ Reaches(x, p)) <=> L # {})
  BY MappingOfPolicies
<1> HIDE DEF L
<1>2. ASSUME a # CreateDescendant
      PROVE  /\ L = {} => \A X \in SUBSET Policy : HandleAuthRequest(t, X, a, p) # "yes"
             /\ L # {} => HandleAuthRequest(t, {}, a, p) # "no"
  BY <1>1, <1>2
<1> QED
  BY <1>2 DEF L

\* The mapping of a user, of a client and of nobody says what the decisions
\* about them say, though each is a query of its own.
THEOREM MappingTheorem == Spec => []MappingAgrees
<1>1. ASSUME TypeOK PROVE MappingAgrees
  <2> SUFFICES ASSUME NEW t \in Caller
               PROVE  /\ MappingAgreesFor(HandleAuthMappingGET(t), WithoutClient(t))
                      /\ MappingAgreesFor(HandleAuthMappingPOST(t),
                                          IF t.user = Nobody THEN t ELSE WithoutClient(t))
    BY DEF MappingAgrees
  <2>1. WithoutClient(t) = [user |-> t.user, client |-> Nobody]
    BY DEF WithoutClient, Caller
  <2>2. ASSUME t.user # Nobody
        PROVE  /\ HandleAuthMappingGET(t) = AuthMappingForUser(t.user)
               /\ HandleAuthMappingPOST(t) = AuthMappingForUser(t.user)
               /\ MappingAgreesFor(AuthMappingForUser(t.user), WithoutClient(t))
    <3>1. t.user \in Person
      BY <2>2 DEF Caller
    <3>2. HandleAuthMappingPOST(t) = AuthMappingForUser(t.user)
      BY <2>2 DEF HandleAuthMappingPOST, IsAnonymous
    <3> QED
      BY <1>1, <2>1, <2>2, <3>1, <3>2, MappingForUser DEF HandleAuthMappingGET
  <2>3. ASSUME NEW s, s.user = Nobody, s.client = Nobody
        PROVE  MappingAgreesFor(AuthMappingForGroups({Anonymous}), s)
    <3> DEFINE Y == GroupGrants({Anonymous})
    <3>1. \A X, a, p : HandleAuthRequest(s, X, a, p) = AuthorizeAnonymous(a, p)
      BY <2>3 DEF HandleAuthRequest, IsAnonymous
    <3>2. \A a, p : /\ AuthorizeAnonymous(a, p) \in {"yes", "no", "error"}
                    /\ AuthorizeAnonymous(a, p) # "error" =>
                          (AuthorizeAnonymous(a, p) = "yes"
                              <=> \E x \in Y : Allows(x, a) /\ Reaches(x, p))
      BY DEF AuthorizeAnonymous
    <3>3. Y \in SUBSET Policy
      BY <1>1, PoliciesLookedAt
    <3>4. AuthMappingForGroups({Anonymous}) = Mapping(Y)
      BY DEF AuthMappingForGroups
    <3> HIDE DEF Y
    <3> QED
      BY <1>1, <2>3, <3>1, <3>2, <3>3, <3>4, MappingForOthers
  <2>4. ASSUME t.user = Nobody, t.client # Nobody
        PROVE  /\ HandleAuthMappingPOST(t) = AuthMappingForClient(t.client)
               /\ MappingAgreesFor(AuthMappingForClient(t.client), t)
    <3> DEFINE Y == ClientGrants(t.client)
    <3>1. \A X, a, p : HandleAuthRequest(t, X, a, p)
                          = IF AuthorizeClient(t.client, a, p) THEN "yes" ELSE "no"
      BY <2>4 DEF HandleAuthRequest, IsAnonymous
    <3>2. \A a, p : AuthorizeClient(t.client, a, p)
                       <=> \E x \in Y : Allows(x, a) /\ Reaches(x, p)
      BY DEF AuthorizeClient
    <3>3. Y \in SUBSET Policy
      BY <1>1, PoliciesLookedAt
    <3>4. AuthMappingForClient(t.client) = Mapping(Y)
      BY DEF AuthMappingForClient
    <3>5. HandleAuthMappingPOST(t) = AuthMappingForClient(t.client)
      BY <2>4 DEF HandleAuthMappingPOST, IsAnonymous
    <3> HIDE DEF Y
    <3>6. MappingAgreesFor(Mapping(Y), t)
      BY <1>1, <2>4, <3>1, <3>2, <3>3, MappingForOthers
    <3> QED
      BY <3>4, <3>5, <3>6
  <2>5. ASSUME t.user = Nobody
        PROVE  MappingAgreesFor(HandleAuthMappingGET(t), WithoutClient(t))
    BY <2>1, <2>3, <2>5 DEF HandleAuthMappingGET
  <2>6. ASSUME t.user = Nobody, t.client = Nobody
        PROVE  MappingAgreesFor(HandleAuthMappingPOST(t), t)
    <3>1. HandleAuthMappingPOST(t) = AuthMappingForGroups({Anonymous})
      BY <2>6 DEF HandleAuthMappingPOST, IsAnonymous
    <3> QED
      BY <2>3, <2>6, <3>1
  <2> QED
    BY <2>2, <2>4, <2>5, <2>6
<1> QED
  BY <1>1, Typing, PTL

\* More policies, more in the mapping and in the listing; and whatever is
\* mapped is listed.
LEMMA ReportsGrow ==
    ASSUME TypeOK, NEW X, NEW Y \in SUBSET X
    PROVE  /\ Mapping(Y) \subseteq Mapping(X)
           /\ Listing(Y) \subseteq Listing(X)
           /\ \A m \in Mapping(X) : m[1] \in Listing(X)
           /\ \A x \in X, p \in resource : Reaches(x, p) => p \in Listing(X)
<1>1. \A x, p : p \in Roots(x) => Reaches(x, p)
  BY PoliciesLookedAt DEF Reaches
<1> QED
  BY <1>1 DEF Mapping, Listing

\* Whatever the proxy lets somebody do to a resource, their listing shows the
\* resource: for a token with a client because the client's own policies must
\* allow it too, and those are listed.
THEOREM ListingTheorem == Spec => []ListingCoversDecisions
<1>1. ASSUME TypeOK PROVE ListingCoversDecisions
  <2> SUFFICES ASSUME NEW t \in {c \in Caller : ~ IsAnonymous(c)}
               PROVE  LET get  == HandleListAuthResourcesGET(t)
                          post == HandleListAuthResourcesPOST(t)
                      IN  /\ \A a \in Asked, X \in SUBSET Policy, p \in resource :
                                HandleAuthProxy(t, X, a, p) =>
                                    p \in post /\ (t.user # Nobody => p \in get)
                          /\ t.user # Nobody =>
                                \A m \in HandleAuthMappingGET(t) \cup HandleAuthMappingPOST(t) :
                                    \/ m[1] \in get \cap post
                                    \/ /\ t.client # Nobody
                                       /\ m[1] \in AuthorizedResourcesForGroups(BuiltIn)
    BY DEF ListingCoversDecisions
  <2>0. t.user # Nobody =>
          /\ HandleAuthMappingGET(t) = Mapping(Held(t.user))
          /\ HandleAuthMappingPOST(t) = Mapping(Held(t.user))
    BY DEF HandleAuthMappingGET, HandleAuthMappingPOST, AuthMappingForUser, IsAnonymous
  <2>1. ASSUME NEW a \in Asked, NEW X \in SUBSET Policy, NEW p \in resource,
               HandleAuthProxy(t, X, a, p)
        PROVE  /\ t.user # Nobody => AuthorizeUser(t.user, X, a, p)
               /\ t.client # Nobody => AuthorizeClient(t.client, a, p)
    BY <2>1 DEF HandleAuthProxy, HandleAuthRequest
  <2>2. CASE t.client = Nobody
    <3>0. t.user # Nobody
      BY <2>2 DEF IsAnonymous
    <3>1. /\ HandleListAuthResourcesGET(t) = Listing(Held(t.user))
          /\ HandleListAuthResourcesPOST(t) = Listing(Held(t.user))
      BY <2>2, <3>0 DEF HandleListAuthResourcesGET, HandleListAuthResourcesPOST,
                        AuthorizedResources
    <3>2. /\ HandleAuthMappingGET(t) = Mapping(Held(t.user))
          /\ HandleAuthMappingPOST(t) = Mapping(Held(t.user))
      BY <2>0, <3>0
    <3>3. ASSUME NEW a \in Asked, NEW X \in SUBSET Policy, NEW p \in resource,
                 HandleAuthProxy(t, X, a, p)
          PROVE  p \in Listing(Held(t.user))
      <4>1. PICK x \in Held(t.user) : Reaches(x, p)
        BY <2>1, <3>0, <3>3 DEF AuthorizeUser
      <4> QED
        BY <1>1, <4>1, ReportsGrow
    <3> QED
      BY <1>1, <3>1, <3>2, <3>3, ReportsGrow
  <2>3. CASE t.client # Nobody
    <3> DEFINE Y == OwnGrants(t.user) \cup ClientGrants(t.client)
                        \cup GroupGrants(Memberships(t.user))
    <3>1. /\ t.user # Nobody => HandleListAuthResourcesGET(t) = Listing(Y)
          /\ HandleListAuthResourcesPOST(t) = Listing(Y)
      BY <2>3 DEF HandleListAuthResourcesGET, HandleListAuthResourcesPOST,
                  AuthorizedResourcesForToken
    <3>2. ASSUME NEW a \in Asked, NEW X \in SUBSET Policy, NEW p \in resource,
                 HandleAuthProxy(t, X, a, p)
          PROVE  p \in Listing(Y)
      <4>1. PICK x \in ClientGrants(t.client) : Reaches(x, p)
        BY <2>1, <2>3, <3>2 DEF AuthorizeClient
      <4>2. x \in Y
        OBVIOUS
      <4> HIDE DEF Y
      <4> QED
        BY <1>1, <4>1, <4>2, ReportsGrow
    <3>3. ASSUME NEW m \in Mapping(Held(t.user))
          PROVE  m[1] \in Listing(Y) \/ m[1] \in AuthorizedResourcesForGroups(BuiltIn)
      <4>1. m[1] \in Listing(Held(t.user))
        BY <1>1, ReportsGrow
      <4>2. PICK x \in Held(t.user) : Reaches(x, m[1])
        BY <4>1 DEF Listing
      <4>3. x \in Y \/ x \in GroupGrants(BuiltIn)
        BY <4>2 DEF Held
      <4> HIDE DEF Y
      <4> QED
        BY <4>1, <4>2, <4>3 DEF Listing, AuthorizedResourcesForGroups
    <3> HIDE DEF Y
    <3> QED
      BY <2>0, <2>3, <3>1, <3>2, <3>3
  <2> QED
    BY <2>2, <2>3
<1> QED
  BY <1>1, Typing, PTL

\* Nobody loses anything by logging in, unless the token has a limit that
\* leaves out what nobody holds: every user holds what nobody holds.
THEOREM LoggingInTheorem == Spec => []LoggingInLosesNothing
<1>1. ASSUME TypeOK PROVE LoggingInLosesNothing
  <2> DEFINE nobody == [user |-> Nobody, client |-> Nobody]
             A == GroupGrants({Anonymous})
             Limits == {Y \in SUBSET Policy : Y = {} \/ A \subseteq Y}
  <2> SUFFICES ASSUME NEW u \in Person, NEW t, t = [user |-> u, client |-> Nobody]
               PROVE  /\ \A X \in Limits, a \in Asked, p \in Path :
                            HandleAuthRequest(nobody, {}, a, p) = "yes"
                                => HandleAuthProxy(t, X, a, p)
                      /\ HandleAuthMappingGET(nobody) \subseteq HandleAuthMappingGET(t)
                      /\ HandleAuthMappingPOST(nobody) \subseteq HandleAuthMappingPOST(t)
                      /\ HandleListAuthResourcesGET(nobody) \subseteq HandleListAuthResourcesGET(t)
    BY DEF LoggingInLosesNothing
  <2>1. u # Nobody /\ t.user = u /\ t.client = Nobody
    BY NobodyAssumption
  <2>2. nobody.user = Nobody /\ nobody.client = Nobody
    OBVIOUS
  <2>3. A \subseteq Held(u)
    BY DEF GroupGrants, Held, BuiltIn
  <2>4. ~ IsAnonymous(t) /\ IsAnonymous(nobody)
    BY <2>1, <2>2 DEF IsAnonymous
  <2>5. /\ HandleAuthMappingGET(nobody) = Mapping(A)
        /\ HandleAuthMappingGET(t) = Mapping(Held(u))
    BY <2>1, <2>2 DEF HandleAuthMappingGET, AuthMappingForGroups, AuthMappingForUser
  <2>6. /\ HandleAuthMappingPOST(nobody) = Mapping(A)
        /\ HandleAuthMappingPOST(t) = Mapping(Held(u))
    BY <2>1, <2>2, <2>4 DEF HandleAuthMappingPOST, AuthMappingForGroups, AuthMappingForUser
  <2>7. /\ HandleListAuthResourcesGET(nobody) = Listing(A)
        /\ HandleListAuthResourcesGET(t) = Listing(Held(u))
    BY <2>1, <2>2 DEF HandleListAuthResourcesGET, AuthorizedResourcesForGroups,
                      AuthorizedResources
  <2>8. ASSUME NEW X \in Limits, NEW a \in Asked, NEW p \in Path,
               HandleAuthRequest(nobody, {}, a, p) = "yes"
        PROVE  HandleAuthProxy(t, X, a, p)
    <3>1. AuthorizeAnonymous(a, p) = "yes"
      BY <2>4, <2>8 DEF HandleAuthRequest
    <3>2. PICK x \in A : Allows(x, a) /\ Reaches(x, p)
      BY <3>1 DEF AuthorizeAnonymous
    <3>3. X = {} \/ x \in X
      BY <3>2
    <3>4. AuthorizeUser(u, X, a, p)
      BY <2>3, <3>2, <3>3 DEF AuthorizeUser
    <3> QED
      BY <2>1, <2>4, <3>4 DEF HandleAuthProxy, HandleAuthRequest
  <2> HIDE DEF A, nobody, Limits
  <2> QED
    BY <1>1, <2>3, <2>5, <2>6, <2>7, <2>8, ReportsGrow
<1> QED
  BY <1>1, Typing, PTL
=============================================================================
