------------------------------- MODULE Engine -------------------------------
(***************************************************************************)
(* The authorization engine (internal/authz/engine) over the rows of       *)
(* Grants: the decisions for a user, a client, a token of both and for     *)
(* nobody, and the reports that are meant to agree with them, mappings and *)
(* resource listings.  Each is a query of its own in the code, with its    *)
(* own joins and its own expiry conditions.                                *)
(*                                                                         *)
(* A user is named in lower case here (every query lower-cases its         *)
(* argument).  A request names a path; tags are left out.                  *)
(***************************************************************************)
EXTENDS Grants

Person == {Lower[n] : n \in Name}

CreateDescendant == <<"arborist", "create-descendant">>

\* The actions that a request may ask for.
Asked == {a \in Action : a[1] # "*" /\ a[2] # "*"}

\* permission.service = $1 OR '*', permission.method = $2 OR '*'.
Matches(b, a) == b[1] \in {a[1], "*"} /\ b[2] \in {a[2], "*"}

Actions(x) == {permission[x][i] : i \in DOMAIN permission[x]}

Allows(x, a) == \E b \in Actions(x) : Matches(b, a)

\* The resources in policy_resource, and the subtrees they stand for.
Roots(x) == {l[2] : l \in {k \in link : k[1] = x}}

Reaches(x, p) == \E q \in Roots(x) : p \in Below[q]

\* Mutant: a grant still counts at the instant it expires.
LiveAtExpiry(r) == r.expires = Never \/ now <= r.expires

\* expires_at IS NULL OR NOW() < expires_at.
Live(r) == r.expires = Never \/ now < r.expires

----------------------------------------------------------------------------
(* Whose policies a query looks at.                                        *)

OwnGrants(u) == {r.to : r \in {s \in usrPolicy : Lower[s.holder] = u /\ Live(s)}}

GroupGrants(G) == {r.to : r \in {s \in grpPolicy : s.holder \in G}}

Memberships(u) == {r.to : r \in {s \in usrGrp : Lower[s.holder] = u /\ Live(s)}}

ClientGrants(c) == {r.to : r \in {s \in clientPolicy : s.holder = c}}

\* Mutant: a user is not anonymous any more.
HeldByLoggedIn(u) == OwnGrants(u) \cup GroupGrants(Memberships(u)) \cup GroupGrants({LoggedIn})

Held(u) == OwnGrants(u) \cup GroupGrants(Memberships(u)) \cup GroupGrants(BuiltIn)

----------------------------------------------------------------------------
(* Decisions on one request.                                               *)

\* authorizeUser; X is the policies that the request is limited to, {} for
\* no limit.
AuthorizeUser(u, X, a, p) ==
    \E x \in Held(u) : (X = {} \/ x \in X) /\ Reaches(x, p) /\ Allows(x, a)

AuthorizeUserExact(u, a, p) == \E x \in Held(u) : Allows(x, a) /\ p \in Roots(x)

\* authorizeClient, with a path: the request's policies are not looked at.
AuthorizeClient(c, a, p) == \E x \in ClientGrants(c) : Allows(x, a) /\ Reaches(x, p)

\* authorizeAnonymous joins the resources from the left: a policy without any
\* puts a NULL into the array, which the comparison refuses with an error.
AuthorizeAnonymous(a, p) ==
    LET X == {x \in GroupGrants({Anonymous}) : Allows(x, a)} IN
    IF \E x \in X : Roots(x) = {} THEN "error"
    ELSE IF \E x \in X : Reaches(x, p) THEN "yes"
    ELSE "no"

(***************************************************************************)
(* A caller is what a token or a request body names: a user, a client, a   *)
(* client on behalf of a user, or nobody.  A token that names neither is   *)
(* turned away or counts as none.                                          *)
(***************************************************************************)
Nobody == ""

\* An empty name in a token or a body is no name.
ASSUME NobodyAssumption == Nobody \notin Person \cup Client

Caller == [user : Person \cup {Nobody}, client : Client \cup {Nobody}]

\* The user of a token alone, or nobody.
WithoutClient(t) == [t EXCEPT !.client = Nobody]

IsAnonymous(t) == t.user = Nobody /\ t.client = Nobody

\* POST /auth/request: both the user and the client must be allowed.  X is the
\* policies in the body or, if it has no such field, those in the token; only
\* the user's decision looks at them.
HandleAuthRequest(t, X, a, p) ==
    IF IsAnonymous(t) THEN AuthorizeAnonymous(a, p)
    ELSE IF /\ t.user # Nobody => AuthorizeUser(t.user, X, a, p)
            /\ t.client # Nobody => AuthorizeClient(t.client, a, p)
         THEN "yes"
         ELSE "no"

\* The proxy turns away whoever names nobody; X is the policies in the token.
HandleAuthProxy(t, X, a, p) == ~ IsAnonymous(t) /\ HandleAuthRequest(t, X, a, p) = "yes"

----------------------------------------------------------------------------
(* Reports.                                                                *)

\* Mutant: memberships are not asked for their expiry date.
MappingForFormerMembers(u) ==
    LET G == {r.to : r \in {s \in usrGrp : Lower[s.holder] = u}}
        X == OwnGrants(u) \cup GroupGrants(G) \cup GroupGrants(BuiltIn)
    IN  {m \in resource \X Action :
            \E x \in X : m[2] \in Actions(x)
                         /\ IF m[2] = CreateDescendant THEN m[1] \in Roots(x) ELSE Reaches(x, m[1])}

\* What the mapping queries list for some policies: create-descendant on the
\* resource itself, every other action on its subtree.
Mapping(X) ==
    {m \in resource \X Action :
        \E x \in X : m[2] \in Actions(x)
                     /\ IF m[2] = CreateDescendant THEN m[1] \in Roots(x) ELSE Reaches(x, m[1])}

AuthMappingForUser(u) == Mapping(Held(u))

AuthMappingForClient(c) == Mapping(ClientGrants(c))

AuthMappingForGroups(G) == Mapping(GroupGrants(G))

Listing(X) == {p \in resource : \E x \in X : Reaches(x, p)}

\* authorizedResources for a user alone.
AuthorizedResources(u) == Listing(Held(u))

\* Mutant: the client's own policies are forgotten.
ListingWithoutClient(u, c) == Listing(OwnGrants(u) \cup GroupGrants(Memberships(u)))

\* authorizedResources for a token of a user and a client: the policies of
\* either, without those of the built-in groups.
AuthorizedResourcesForToken(u, c) ==
    Listing(OwnGrants(u) \cup ClientGrants(c) \cup GroupGrants(Memberships(u)))

\* authorizedResourcesForGroups.
AuthorizedResourcesForGroups(G) == Listing(GroupGrants(G))

\* GET /auth/mapping looks for a user only: a client alone is shown what
\* nobody is.
HandleAuthMappingGET(t) ==
    IF t.user # Nobody THEN AuthMappingForUser(t.user) ELSE AuthMappingForGroups({Anonymous})

\* POST /auth/mapping: a user, with or without a client, a client alone, or
\* neither a token nor a body.
HandleAuthMappingPOST(t) ==
    CASE t.user # Nobody   -> AuthMappingForUser(t.user)
      [] t.user = Nobody /\ t.client # Nobody -> AuthMappingForClient(t.client)
      [] IsAnonymous(t)    -> AuthMappingForGroups({Anonymous})

\* GET /auth/resources: a client alone is shown what nobody is.
HandleListAuthResourcesGET(t) ==
    CASE t.user = Nobody -> AuthorizedResourcesForGroups({Anonymous})
      [] t.user # Nobody /\ t.client = Nobody -> AuthorizedResources(t.user)
      [] t.user # Nobody /\ t.client # Nobody -> AuthorizedResourcesForToken(t.user, t.client)

\* POST /auth/resources, with a token that names somebody: a client alone is
\* shown its own.
HandleListAuthResourcesPOST(t) ==
    IF t.client = Nobody THEN AuthorizedResources(t.user)
    ELSE AuthorizedResourcesForToken(t.user, t.client)

----------------------------------------------------------------------------
(* Properties.                                                             *)

\* The job only tidies up: neither of its statements changes any decision,
\* whenever it runs, the instant of expiry included.
JobChangesNoDecision ==
    [][Job => \A u \in Person, X \in SUBSET Policy, a \in Asked, p \in Path :
                  AuthorizeUser(u, X, a, p)' = AuthorizeUser(u, X, a, p)]_vars

\* A request with the header does one thing only to a row of another provider:
\* granting what that row grants sets its expiry date, and leaves it the other
\* provider's.  That one thing is against the documents, for which "data
\* mismatching the given AuthZ provider will not be affected".
ProvidersKeepTheirRows ==
    [][\A pv \in Header :
          /\ \A r \in usrPolicy \ usrPolicy' : r.provider # pv /\ Limited(pv) =>
                \E e \in Time \cup {Never} :
                    /\ GrantUserPolicy(r.holder, r.to, e, pv)
                    /\ [r EXCEPT !.expires = e] \in usrPolicy'
          /\ \A r \in usrGrp \ usrGrp' : r.provider # pv /\ Limited(pv) =>
                \E e \in Time \cup {Never} :
                    /\ AddUserToGroup(r.holder, r.to, e, pv)
                    /\ [r EXCEPT !.expires = e] \in usrGrp'
          /\ \A r \in grpPolicy \ grpPolicy' : r.provider = pv \/ ~ Limited(pv)
          /\ \A r \in clientPolicy \ clientPolicy' : r.provider = pv \/ ~ Limited(pv)]_vars

\* Whoever is removed as an owner holds the owner policy no more, whatever
\* spelling, provider or endpoint the grants came from.
RemovedOwnersHoldNothing ==
    [][\A n \in Name, x \in OwnerPolicies :
          UnbindOwner(n, x) => x \notin OwnGrants(Lower[n])']_vars

\* A mapping and the decisions for one caller: what is allowed, under whatever
\* limit, is listed, and what is listed is allowed without a limit (no mapping
\* looks at limits) unless the query for nobody fails.  create-descendant is
\* listed where the exact decision allows it; a wildcard permission covers it
\* as well and is listed for the subtree.
MappingAgreesFor(mapping, t) ==
    \A a \in Asked, p \in resource :
        LET listed == {m \in mapping : m[1] = p /\ Matches(m[2], a)} IN
        IF a # CreateDescendant
        THEN IF listed = {}
             THEN \A X \in SUBSET Policy : HandleAuthRequest(t, X, a, p) # "yes"
             ELSE HandleAuthRequest(t, {}, a, p) # "no"
        ELSE t.user # Nobody =>
                /\ AuthorizeUserExact(t.user, a, p) => listed # {}
                /\ <<p, a>> \in listed => AuthorizeUserExact(t.user, a, p)

\* The mapping of a user, of a client and of nobody says what the decisions
\* about them say.  A client on behalf of a user is shown what the user alone
\* may do; GET shows a client alone what nobody may do, POST what it may do.
MappingAgrees ==
    \A r \in {<<HandleAuthMappingGET(t), WithoutClient(t)>> : t \in Caller} \cup
             {<<HandleAuthMappingPOST(t), IF t.user = Nobody THEN t ELSE WithoutClient(t)>> : t \in Caller} :
        MappingAgreesFor(r[1], r[2])

\* Whatever the proxy lets a user, or a client on behalf of one, do to a
\* resource, both listings show the resource; POST shows it to a client alone
\* as well.  And both show what the user's mappings name.  A token that names a
\* client too is the exception, against "This includes the resources available
\* to members of the `anonymous` and `logged-in` groups": what those groups
\* alone may do is left out.
ListingCoversDecisions ==
    \A t \in {c \in Caller : ~ IsAnonymous(c)} :
        LET get  == HandleListAuthResourcesGET(t)
            post == HandleListAuthResourcesPOST(t)
        IN  /\ \A p \in resource :
                  \/ p \in post /\ (t.user # Nobody => p \in get)
                  \/ \A a \in Asked, X \in SUBSET Policy : ~ HandleAuthProxy(t, X, a, p)
            /\ t.user # Nobody =>
                  \A m \in HandleAuthMappingGET(t) \cup HandleAuthMappingPOST(t) :
                      \/ m[1] \in get \cap post
                      \/ t.client # Nobody /\ m[1] \in AuthorizedResourcesForGroups(BuiltIn)

\* Nobody loses anything by logging in with a token without a limit, or with
\* one that names the policies of the anonymous group: what an anonymous
\* request is allowed is allowed to every user.  A token with any other limit
\* does lose; but mappings and listings show every user what nobody is shown.
LoggingInLosesNothing ==
    LET nobody == [user |-> Nobody, client |-> Nobody] IN
    \A u \in Person :
        LET t == [user |-> u, client |-> Nobody] IN
        /\ \A a \in Asked, p \in Path : HandleAuthRequest(nobody, {}, a, p) = "yes" =>
              \A X \in {Y \in SUBSET Policy : Y = {} \/ GroupGrants({Anonymous}) \subseteq Y} :
                  HandleAuthProxy(t, X, a, p)
        /\ HandleAuthMappingGET(nobody) \subseteq HandleAuthMappingGET(t)
        /\ HandleAuthMappingPOST(nobody) \subseteq HandleAuthMappingPOST(t)
        /\ HandleListAuthResourcesGET(nobody) \subseteq HandleListAuthResourcesGET(t)

\* Whoever is made an owner holds the owner policy from then on.
OwnersHoldTheirPolicy ==
    [][\A n \in Name, x \in OwnerPolicies :
          BindOwner(n, x) => x \in OwnGrants(Lower[n])']_vars
============================================================================
