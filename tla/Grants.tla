------------------------------- MODULE Grants -------------------------------
(***************************************************************************)
(* Who holds which policy, until when and on whose word: the rows of       *)
(* usr_policy, usr_grp, grp_policy and client_policy with their providers  *)
(* and expiry dates, users stored in several spellings, clients, and the   *)
(* permissions of roles.  The endpoints are those of Principals and        *)
(* Access, seen from these columns; the job delete_expired_access runs     *)
(* beside them.                                                            *)
(*                                                                         *)
(* Policies exist throughout and have one role each; deleting a resource   *)
(* detaches them.  A request is one statement or one transaction.          *)
(***************************************************************************)
EXTENDS Naturals

CONSTANTS
    Path,          \* resource paths
    Below,         \* Below[p]: the paths at or under p
    Links,         \* policy_resource: <<policy, path>>, at the beginning
    Name,          \* user names as they may be stored
    InitialUsers,  \* the users and clients at the beginning
    InitialClients,
    Lower,         \* Lower[n]: the name in lower case
    Group,         \* groups besides the two built-in ones
    Client,        \* client ids
    Policy,        \* policies
    OwnerPolicies, \* the generated ones among them
    Permission,    \* Permission[n]: permission id -> action, of the policy's role
    PermissionId,  \* the ids of permissions
    Action,        \* <<service, method>>, '*' included
    Header,        \* the values of X-AuthZ-Provider
    NoProvider,    \* no such header; NULL in the column
    Never,         \* NULL in expires_at
    MaxTime        \* bound on the clock

Anonymous == "anonymous"

LoggedIn == "logged-in"

BuiltIn == {Anonymous, LoggedIn}

AnyGroup == Group \cup BuiltIn

Ownership == "arborist-ownership"

Provider == Header \cup {Ownership, NoProvider}

Time == 0 .. MaxTime

ASSUME GrantsAssumption ==
    /\ Below \in [Path -> SUBSET Path] /\ \A p \in Path : p \in Below[p]
    /\ Links \subseteq Policy \X Path
    /\ Lower \in [Name -> Name] /\ \A n \in Name : Lower[Lower[n]] = Lower[n]
    /\ InitialUsers \subseteq Name /\ InitialClients \subseteq Client
    /\ Group \cap BuiltIn = {}
    /\ OwnerPolicies \subseteq Policy
    /\ DOMAIN Permission = Policy
    /\ \A n \in Policy : \E I \in SUBSET PermissionId : Permission[n] \in [I -> Action]
    /\ Action \subseteq STRING \X STRING
    /\ NoProvider \notin Header /\ Never \notin Time /\ MaxTime \in Nat

VARIABLES
    now,           \* the clock of the database
    job,           \* what the job does next
    resource,      \* resource
    link,          \* policy_resource: <<policy, path>>
    permission,    \* permission, per policy's role: id -> action
    usr,           \* usr: names
    usrPolicy,     \* usr_policy
    usrGrp,        \* usr_grp
    grpPolicy,     \* grp_policy
    client,        \* client
    clientPolicy,  \* client_policy
    owner          \* ownership_binding_metadata: <<lower-case name, policy>>

links == <<resource, link, permission>>
users == <<usr, usrPolicy, usrGrp, owner>>
clients == <<client, clientPolicy>>
clock == <<now, job>>
vars == <<now, job, resource, link, permission, usr, usrPolicy, usrGrp, grpPolicy,
          client, clientPolicy, owner>>

(***************************************************************************)
(* A row of the four tables; only the first two have an expiry date.       *)
(***************************************************************************)
Row(h, x, pv, e) == [holder |-> h, to |-> x, provider |-> pv, expires |-> e]

Rows(H, X) == [holder : H, to : X, provider : Provider, expires : Time \cup {Never}]

SameKey(r, s) == r.holder = s.holder /\ r.to = s.to

InsertOrNothing(rows, r) == IF \E s \in rows : SameKey(r, s) THEN rows ELSE rows \cup {r}

\* ON CONFLICT DO UPDATE SET expires_at: the provider stays.
InsertOrSetExpiry(rows, r) ==
    InsertOrNothing({IF SameKey(r, s) THEN [s EXCEPT !.expires = r.expires] ELSE s : s \in rows}, r)

\* ON CONFLICT DO UPDATE SET authz_provider: the expiry date stays.
InsertOrSetProvider(rows, r) ==
    InsertOrNothing({IF SameKey(r, s) THEN [s EXCEPT !.provider = r.provider] ELSE s : s \in rows}, r)

\* Mutant: the header is ignored.
OfAnyone(r, pv) == TRUE

\* AND authz_provider = ..., where the request has the header.
Of(r, pv) == pv = NoProvider \/ r.provider = pv

\* What a DELETE leaves.
Without(rows, h, X, pv) == {r \in rows : ~ (r.holder = h /\ r.to \in X /\ Of(r, pv))}

\* Keys are unique and foreign keys hold.
TypeOK ==
    /\ now \in Time /\ job \in {"groups", "policies"}
    /\ resource \subseteq Path /\ link \subseteq Policy \X resource
    /\ DOMAIN permission = Policy
    /\ \A x \in Policy : \E I \in SUBSET PermissionId : permission[x] \in [I -> Action]
    /\ usr \subseteq Name /\ client \subseteq Client
    /\ usrPolicy \subseteq Rows(usr, Policy)
    /\ usrGrp \subseteq Rows(usr, AnyGroup)
    /\ grpPolicy \subseteq Rows(AnyGroup, Policy)
    /\ clientPolicy \subseteq Rows(client, Policy)
    /\ owner \subseteq {Lower[n] : n \in Name} \X OwnerPolicies
    /\ \A T \in {usrPolicy, usrGrp, grpPolicy, clientPolicy} : \A r, s \in T : SameKey(r, s) => r = s

Init ==
    /\ now = 0 /\ job = "groups"
    /\ resource = Path
    /\ link = Links
    /\ permission = Permission
    /\ usr = InitialUsers /\ usrPolicy = {} /\ usrGrp = {} /\ grpPolicy = {}
    /\ client = InitialClients /\ clientPolicy = {}
    /\ owner = {}

----------------------------------------------------------------------------
(* Users.  These endpoints take a name as it is spelled.                   *)

UserCreate(n) ==
    /\ n \notin usr
    /\ usr' = usr \cup {n}
    /\ UNCHANGED <<clock, links, usrPolicy, usrGrp, grpPolicy, clients, owner>>

\* Mutant: usr_grp does not follow its user.
UserDeleteKeepsMembership(n) ==
    /\ usr' = usr \ {n}
    /\ usrPolicy' = {r \in usrPolicy : r.holder # n}
    /\ UNCHANGED <<clock, links, usrGrp, grpPolicy, clients, owner>>

UserDelete(n) ==
    /\ usr' = usr \ {n}
    /\ usrPolicy' = {r \in usrPolicy : r.holder # n}
    /\ usrGrp' = {r \in usrGrp : r.holder # n}
    /\ UNCHANGED <<clock, links, grpPolicy, clients, owner>>

GrantUserPolicy(n, x, e, pv) ==
    /\ n \in usr
    /\ usrPolicy' = InsertOrSetExpiry(usrPolicy, Row(n, x, pv, e))
    /\ UNCHANGED <<clock, links, usr, usrGrp, grpPolicy, clients, owner>>

\* The handler looks for a row of any spelling and compares its provider
\* first; the DELETE that follows names the spelling and the provider again.
RevokeUserPolicy(n, x, pv) ==
    /\ \E r \in usrPolicy : Lower[r.holder] = Lower[n] /\ r.to = x /\ Of(r, pv)
    /\ usrPolicy' = Without(usrPolicy, n, {x}, pv)
    /\ UNCHANGED <<clock, links, usr, usrGrp, grpPolicy, clients, owner>>

RevokeUserPolicyAll(n, pv) ==
    /\ usrPolicy' = Without(usrPolicy, n, Policy, pv)
    /\ UNCHANGED <<clock, links, usr, usrGrp, grpPolicy, clients, owner>>

----------------------------------------------------------------------------
(* Groups.                                                                 *)

AddUserToGroup(n, g, e, pv) ==
    /\ g \notin BuiltIn /\ n \in usr
    /\ usrGrp' = InsertOrSetExpiry(usrGrp, Row(n, g, pv, e))
    /\ UNCHANGED <<clock, links, usr, usrPolicy, grpPolicy, clients, owner>>

RemoveUserFromGroup(n, g, pv) ==
    /\ usrGrp' = Without(usrGrp, n, {g}, pv)
    /\ UNCHANGED <<clock, links, usr, usrPolicy, grpPolicy, clients, owner>>

\* PUT /group: the rows of the provider, or all, are replaced by rows without
\* an expiry date; a row that is left is a conflict.
GroupOverwrite(g, N, X, pv) ==
    LET members == {r \in usrGrp : ~ (r.to = g /\ Of(r, pv))}
        granted == Without(grpPolicy, g, Policy, pv)
        joined  == {Row(n, g, pv, Never) : n \in N}
        held    == {Row(g, x, pv, Never) : x \in X}
    IN  /\ N \subseteq usr
        /\ \A r \in joined, s \in members : ~ SameKey(r, s)
        /\ \A r \in held, s \in granted : ~ SameKey(r, s)
        /\ usrGrp' = members \cup joined
        /\ grpPolicy' = granted \cup held
        /\ UNCHANGED <<clock, links, usr, usrPolicy, clients, owner>>

GrantGroupPolicy(g, x, pv) ==
    /\ grpPolicy' = InsertOrNothing(grpPolicy, Row(g, x, pv, Never))
    /\ UNCHANGED <<clock, links, users, clients>>

RevokeGroupPolicy(g, x, pv) ==
    /\ grpPolicy' = Without(grpPolicy, g, {x}, pv)
    /\ UNCHANGED <<clock, links, users, clients>>

----------------------------------------------------------------------------
(* Clients.                                                                *)

ClientCreate(c, X, pv) ==
    /\ c \notin client
    /\ client' = client \cup {c}
    /\ clientPolicy' = clientPolicy \cup {Row(c, x, pv, Never) : x \in X}
    /\ UNCHANGED <<clock, links, users, grpPolicy>>

ClientDelete(c) ==
    /\ client' = client \ {c}
    /\ clientPolicy' = {r \in clientPolicy : r.holder # c}
    /\ UNCHANGED <<clock, links, users, grpPolicy>>

GrantClientPolicy(c, x, pv) ==
    /\ c \in client
    /\ clientPolicy' = InsertOrNothing(clientPolicy, Row(c, x, pv, Never))
    /\ UNCHANGED <<clock, links, users, client, grpPolicy>>

\* One policy, or all of them.
RevokeClientPolicy(c, X, pv) ==
    /\ clientPolicy' = Without(clientPolicy, c, X, pv)
    /\ UNCHANGED <<clock, links, users, client, grpPolicy>>

----------------------------------------------------------------------------
(* Ownership and access requests, whose names are lower-cased.             *)

\* ensureGeneratedUserBinding.
BindOwner(n, x) ==
    LET l == Lower[n] IN
    /\ x \in OwnerPolicies
    /\ usr' = usr \cup {l}
    /\ usrPolicy' = InsertOrSetProvider(usrPolicy, Row(l, x, Ownership, Never))
    /\ owner' = owner \cup {<<l, x>>}
    /\ UNCHANGED <<clock, links, usrGrp, grpPolicy, clients>>

\* Mutant: the name is compared as it is stored.
UnbindSpelling(n, x) ==
    LET l == Lower[n] IN
    /\ <<l, x>> \in owner
    /\ usrPolicy' = {r \in usrPolicy : ~ (r.holder = l /\ r.to = x)}
    /\ owner' = owner \ {<<l, x>>}
    /\ UNCHANGED <<clock, links, usr, usrGrp, grpPolicy, clients>>

\* deleteGeneratedUserBindingWithCount: every spelling, every provider.
UnbindOwner(n, x) ==
    LET l == Lower[n] IN
    /\ <<l, x>> \in owner
    /\ usrPolicy' = {r \in usrPolicy : ~ (Lower[r.holder] = l /\ r.to = x)}
    /\ owner' = owner \ {<<l, x>>}
    /\ UNCHANGED <<clock, links, usr, usrGrp, grpPolicy, clients>>

\* ensureDirectUserBindingForTarget.
GrantUserAccess(n, x, pv) ==
    LET l == Lower[n] IN
    /\ x \notin OwnerPolicies
    /\ usr' = usr \cup {l}
    /\ usrPolicy' = InsertOrSetProvider(usrPolicy, Row(l, x, pv, Never))
    /\ UNCHANGED <<clock, links, usrGrp, grpPolicy, clients, owner>>

\* deleteExactDirectUserPolicy: every spelling; the header is not used.
RevokeUserAccess(n, x) ==
    /\ x \notin OwnerPolicies
    /\ usrPolicy' = {r \in usrPolicy : ~ (Lower[r.holder] = Lower[n] /\ r.to = x)}
    /\ UNCHANGED <<clock, links, usr, usrGrp, grpPolicy, clients, owner>>

----------------------------------------------------------------------------
(* The catalog.                                                            *)

\* DELETE /resource: the subtree goes, with its rows in policy_resource.
ResourceDelete(p) ==
    /\ p \in resource
    /\ resource' = resource \ Below[p]
    /\ link' = {l \in link : l[2] \notin Below[p]}
    /\ UNCHANGED <<clock, permission, users, grpPolicy, clients>>

\* PUT /role on an existing role: permissions are inserted or replaced by
\* their ids; those the body does not name stay.
RoleOverwrite(x, i, a) ==
    /\ permission' = [permission EXCEPT ![x] =
                         [j \in DOMAIN @ \cup {i} |-> IF j = i THEN a ELSE @[j]]]
    /\ UNCHANGED <<clock, resource, link, users, grpPolicy, clients>>

----------------------------------------------------------------------------
(* Time, and the job: two DELETEs, each with the time of its own start.    *)

Tick ==
    /\ now < MaxTime
    /\ now' = now + 1
    /\ UNCHANGED <<job, links, users, grpPolicy, clients>>

\* Mutant: rows that expire at the next instant go as well.
ExpiredSoon(r) == r.expires # Never /\ r.expires <= now + 1

\* expires_at <= now().
Expired(r) == r.expires # Never /\ r.expires <= now

DeleteExpiredMemberships ==
    /\ job = "groups"
    /\ usrGrp' = {r \in usrGrp : ~ Expired(r)}
    /\ job' = "policies"
    /\ UNCHANGED <<now, links, usr, usrPolicy, owner, grpPolicy, clients>>

DeleteExpiredGrants ==
    /\ job = "policies"
    /\ usrPolicy' = {r \in usrPolicy : ~ Expired(r)}
    /\ job' = "groups"
    /\ UNCHANGED <<now, links, usr, usrGrp, owner, grpPolicy, clients>>

Job == DeleteExpiredMemberships \/ DeleteExpiredGrants

----------------------------------------------------------------------------
\* The requests that a header limits to its provider.
Limited(pv) ==
    \/ \E n \in Name, x \in Policy :
          \/ \E e \in Time \cup {Never} : GrantUserPolicy(n, x, e, pv)
          \/ RevokeUserPolicy(n, x, pv)
    \/ \E n \in Name : RevokeUserPolicyAll(n, pv)
    \/ \E n \in Name, g \in AnyGroup :
          \/ \E e \in Time \cup {Never} : AddUserToGroup(n, g, e, pv)
          \/ RemoveUserFromGroup(n, g, pv)
    \/ \E g \in AnyGroup, N \in SUBSET Name, X \in SUBSET Policy : GroupOverwrite(g, N, X, pv)
    \/ \E g \in AnyGroup, x \in Policy : GrantGroupPolicy(g, x, pv) \/ RevokeGroupPolicy(g, x, pv)
    \/ \E c \in Client, X \in SUBSET Policy : ClientCreate(c, X, pv) \/ RevokeClientPolicy(c, X, pv)
    \/ \E c \in Client, x \in Policy : GrantClientPolicy(c, x, pv)

Unlimited ==
    \/ \E n \in Name : UserCreate(n) \/ UserDelete(n)
    \/ \E n \in Name, x \in Policy :
          \/ BindOwner(n, x) \/ UnbindOwner(n, x) \/ RevokeUserAccess(n, x)
          \/ \E pv \in Header \cup {NoProvider} : GrantUserAccess(n, x, pv)
    \/ \E c \in Client : ClientDelete(c)
    \/ \E p \in Path : ResourceDelete(p)
    \/ \E x \in Policy, i \in PermissionId, a \in Action : RoleOverwrite(x, i, a)

Request == Unlimited \/ \E pv \in Header \cup {NoProvider} : Limited(pv)

Next == Request \/ Tick \/ Job

Spec == Init /\ [][Next]_vars
============================================================================
