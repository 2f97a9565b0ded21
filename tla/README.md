# TLA+ specifications of Arborist

Arborist is an authorization server: it stores resources, roles, policies,
users, groups and clients in PostgreSQL, answers whether a subject may do
something to a resource, and, since the descendant-ownership migration,
*generates* policies: whoever creates a child resource becomes its owner and
configured admin groups get a protected recovery policy on it.  This directory
models that program in TLA+, checks the models with TLC on small instances, and
proves the properties that matter most with TLAPS for every instance.

Contents: [the system](#the-system) · [the modules](#the-modules) ·
[the runs](#the-runs) · [disagreements with the documentation](#disagreements-with-the-documentation) ·
[the proofs](#the-proofs) · [what is left out](#what-is-left-out) · [the plan](#the-plan)

## The system

All paths below are relative to `src/`.

| component | source | state it keeps | operations |
| --- | --- | --- | --- |
| Ownership service | `internal/ownership/{service,ownership,ownership_bindings,ownership_templates}.go` | `generated_policy_metadata`, `ownership_binding_metadata`, and rows it makes in every other table | create descendant, add owner, remove owner, delete resource; `read.go` only reports |
| Access macros | `internal/access/access.go` | direct policies `direct.<path>.<role>` and their grants | grant and revoke one role of one user on one resource |
| Resource store | `internal/authz/store/resource` | `resource` (an ltree), with a deferred parent trigger and a recursive delete trigger | create, PUT with and without merge, delete |
| Policy and role stores | `internal/authz/store/policy` | `policy`, `policy_resource`, `policy_role`, `role`, `permission` | create, overwrite, bulk overwrite, delete |
| Principal stores | `internal/authz/store/principal` | `usr`, `usr_policy`, `grp`, `usr_grp`, `grp_policy`, `client`, `client_policy` | create, rename, overwrite, delete, grant, revoke |
| Protection | `internal/authz/protection` | none: reads the `protected` flag | two predicates that generic deletes and overwrites ask |
| Engine | `internal/authz/engine` | none: reads everything | may this user, client or nobody do this; which resources; mappings |
| Epochs | `internal/authz/epoch` | an in-memory registry of touches per open transaction, counters in Redis | `Bump…Tx` while a transaction is open, `Transactify` around it |
| Statement cache | `internal/authz/core/stmt.go` | a map of prepared statements | prepare once, reuse |
| Expiry job | `jobs/delete_expired_access` | none of its own | delete the expired rows of `usr_policy` and `usr_grp` |
| HTTP layer | `internal/httpapi` | none | routing, decoding, and the transactions of the generic endpoints |

**How they interact.**  Components share one database and nothing else.  The
HTTP server runs every request in a goroutine.  An *ownership* or *access*
request first authorizes its caller with queries on the pool, outside of any
transaction, and then does its work in one transaction.  The *generic* catalog
and principal endpoints authorize nobody (they are meant for internal services);
the protected flag is all that keeps them from undoing generated ownership.
After its commit a handler adds to counters in Redis, from which other services
learn that what they have cached about authorization may have changed.

**What is hard here.**

* *Statements.*  Transactions run READ COMMITTED: two statements of one
  transaction see two states of the tables, and a deferred trigger sees what is
  committed at that instant.  Row locks help where a statement takes one, and
  deadlock where two requests take them in different orders.
* *Check, then act.*  Between a check and its transaction any other request may
  run (`service.go:303`): the caller may lose control, the resource may go and
  come back.
* *Identity by name.*  Generated and direct policies are found by a name made
  from the path, the metadata names users by string, the rest of the schema by
  id.  Whatever outlives a resource, or a user, waits for the next one of the
  same name.
* *Cascades.*  A delete takes a subtree by trigger and rows of most other tables
  by foreign keys; some generated policies are attached to two resources, a
  program and its `projects` container.
* *Long histories.*  Every endpoint is easy to test; that no sequence of them
  leaves a resource without recovery, or gives a right nobody granted, is not.
* *One fact, many queries.*  A decision, a mapping and a listing about the same
  caller are a dozen queries, each with its own joins, expiry conditions and
  treatment of the built-in groups.  Expiry dates pass between requests, and a job
  deletes the rows afterwards.
* *Invalidation.*  The increment comes after the commit and can be lost, made in
  a transaction of its own, or never made.  Mutation and increment interleave
  with a consumer that reads the epoch, fetches and stores.

**What makes each component correct.**  Ownership: recovery survives, recorded
owners are real, generated policies stay in their subtree, creation is complete
whatever happened before.  Generic stores: the tree and the foreign keys hold,
and a protected policy goes only with its resource.  Access: a grant and a revoke
touch what they name, and a revoke tells what it left.  Engine: what it reports is
what it decides, and tidying up changes nothing.  Providers: a request limited to
one keeps to its rows.  Epochs: staleness ends, and when it does not there is a
reason.  `PROJECT.json` lists the hazards one by one, each at its line with the
properties that look at it.

## The modules

```
OwnershipContract
    ▲ implements
Ownership ── Catalog ── Principals ── Access     Statements     Grants ── Engine     Epoch
    │            │           │           │           │                       │          │
    │        MCCatalog               MCServer   MCStatements             MCEngine   (in the cfg)
MCOwnership ─────┴───────────────────────┘

OwnershipProofs ── ServerProofs ── AccessProofs  StatementsProofs      EngineProofs  EpochProofs
      │                                              │
ContractProofs                              TransactionsProofs
```

Each module of the first group EXTENDS the one to its left and adds actions over
the same tables, so that `ServerNext` and `AccessNext` are the whole server.  The
other three look at the same program from what that group abstracts from:
`Statements` from inside a transaction, `Grants` and `Engine` from the columns of
the link tables, `Epoch` from the order of commits and increments.

**`Ownership`** — the tables and the ownership service.  A table is the set of its
rows; a link table is a set of pairs.  The database links rows by id, and all
foreign keys are `ON DELETE CASCADE`, so a path or a name identifies its row for
as long as it exists; the two places where the program itself uses names
(policies, and users in the metadata) keep them.

| variable | table |
| --- | --- |
| `resource`, `role`, `policy`, `usr`, `grp` | the tables of those names |
| `permission` | `permission`: role, name within the role, and the method it gives |
| `policyResource`, `policyRole`, `usrPolicy`, `usrGrp`, `grpPolicy` | `policy_resource`, … |
| `generated` | `generated_policy_metadata`, with the template; the resource is the path in the policy's name, `protected` its kind |
| `ownerBinding`, `adminBinding` | `ownership_binding_metadata` of each kind |
| `req` | the requests between their check and their transaction |
| `made` | auxiliary: resources the create endpoint made, until they are deleted |

Each endpoint is two actions: `CheckCreate`, `CheckOwnerChange`, `CheckDelete`
evaluate the engine's decision (`AuthorizeUser`, `AuthorizeUserExact`,
`DirectOwner`) in one state; `CreateOwnedDescendant`, `AddOwner`, `RemoveOwner`,
`DeleteResource` do everything the transaction does, error returns (`Rollback`)
included, in a later one.  `Cascade` is what the foreign keys and the delete
trigger take along.  What a role permits is what its `permission` rows give;
`EnsurePermissions` adds those a create wants only where the role has none of that
name.  Decisions about a user count the policies of both built-in groups (`BuiltIn`).

**`OwnershipContract`** — what the service promises, without policies, roles,
metadata or requests: a tree of resources, the owners of each, the admin groups
that can recover it.  `Ownership!ImplementsContract` maps `owners` to the metadata
and `recovery` to what the admin policies *really give* (policy, attachment, role
and group grant, all of them), so that every transaction must move a dozen tables as
one abstract step, and every check must be a stutter.

**`Catalog`** — the resource, policy and role endpoints with the protection
predicates.  PUT /resource without `merge` drops the subtrees of the children
its body leaves out (`Unmentioned`); when it gives up half-way down the body, the
handler drops the error and commits what was done (`Visited`).  POST and PUT /role
bring their own permissions: `RoleOverwrite` replaces those of the names it
mentions and keeps the others, `RoleDelete` takes them all.

**`Principals`** — the user and group endpoints.  Rows carry a provider in the
database and a request may be limited to one; since providers are not state
in this group, such an action takes *some* of the rows it could take (`Grants` has
the column).

**`Access`** — the access macros: the same check as the owner endpoints, then
`GrantUserAccess` or `RevokeUserAccess`, with the candidate queries, the narrow
test and both halves of the response (`Removed`, `NotRemoved`).

**`Statements`** — the transactions of the four ownership endpoints and of the
generic resource delete, one step per statement (`Program`), and per row for the
DELETEs, with their triggers (`FireTriggers`).  A transaction keeps what it has
inserted, deleted and updated; others see it at `Commit`.  Users are inserted with
their first ownership (`ensureUser`), policies get their role by an insert of their
own; the owner role, which every create updates, is a lock against both other creates
and those inserts (`HoldsRole`, `SharesRole`).  What the code relies on
PostgreSQL for is modelled as PostgreSQL documents it: an upsert waits for a
concurrent row of its key and for the deletion of a row it refers to
(`WaitsToInsert`); a delete waits for writers of the row and for the FOR KEY SHARE
locks of foreign keys (`WaitsToDelete`) and skips a row that is gone when it gets
there; the parent check is deferred and locks nothing (`HasParents`); of
transactions that wait for each other one fails (`Victim`); a connection can be
lost at any point (`Fail`).  A row carries the transaction that inserted it, in
place of its id: a path inserted again is another row, and a transaction that still
holds the old id fails its foreign key.

**`Grants`** — `usr_policy`, `usr_grp`, `grp_policy` and `client_policy` with
provider and expiry date, users stored in several spellings, clients, role
permissions by id, the clock, and the expiry job, whose two DELETEs are separate
steps.  The three ways the code resolves a conflict have an operator each
(`InsertOrNothing`, `InsertOrSetExpiry`, `InsertOrSetProvider`): which column is
overwritten decides most of what can go wrong here.

**`Engine`** — no state: the decisions (`AuthorizeUser`, `AuthorizeUserExact`,
`AuthorizeClient`, `AuthorizeAnonymous`, combined in `HandleAuthRequest` and
`HandleAuthProxy`) and the reports (`HandleAuthMappingGET`, `HandleAuthMappingPOST`,
`HandleListAuthResourcesGET`, `HandleListAuthResourcesPOST`) over the rows of
`Grants`, one operator per query.  Decisions take the set of policies that a token or a
body limits them to; the properties quantify over every such set.

**`Epoch`** — `Transactify`, the touch registry and Redis, independent of the
tables: a mutation only counts up `version`.  Handlers come in three kinds, named
in the module: *joint* (touch in the mutation's transaction: ownership, access,
resource), *separate* (mutate, then touch in a second transaction: policy, role,
group), *silent* (touch nothing: user, client, and the parents of
`POST /resource?p`).  The consumer (`ReadEpoch`, `Fetch`, `Store`) is not part of
the repository; it is modelled from what the counter is for.

**The MC modules** are the instances: in the first group paths are sequences of
segments, `Below` is the prefix order, and the template patterns are those of the
migration; `MCServer` and `MCEngine` bound the number of requests; `MCStatements` lists the pairs of requests and the tables they start from;
`MCCatalog` lists the request bodies, among them roles that give nothing of use.

Operators whose comment starts with *Mutant* are wrong variants of the definition
that follows them.  No specification uses them; each is a plausible bug
with which TLC must find a property violated (`PROJECT.json`, "mutants").

## The runs

Tree of the first two runs: `/programs` (seeded, open to creation by logged-in
users), one program, its `projects` container and, at `Depth = 4`, one project in
it.  That has everything the code distinguishes: a resource made with a container,
a container, a resource made without one, and an ancestor above them; both
templates; two levels of generated policies.  One admin group, as in the shipped
templates.

| run | bounds | what it shows |
| --- | --- | --- |
| `ownership` (511k states) | depth 4, a user and an admin, 2 goroutines, no bound on the requests | All interleavings of two requests' checks and transactions, over histories of any length: `RecoveryKept`, `RecordedOwnersAreEffective`, `OrphanedPoliciesInert`, `GrantsStayInSubtree`, `ParentsExist`, and `ImplementsContract` |
| `server` (322k states) | depth 3, 2 users, 1 goroutine, 3 ownership and generic requests (`MaxOther`), 2 of them generic (`MaxGeneric`; 1 beside access requests), 2 access requests (`MaxAccess`) | The generic endpoints and the access macros among the others: `ProtectedPolicyKept`, `ProtectedPoliciesStay`, `CreationComplete`, `MetadataWellFormed`, `ParentsExist`; a revoke takes only what it names (`RevokeIsNarrow`), never an owner policy (`OwnersSurviveAccess`), and its answer leaves out exactly what generated policies and built-in groups still give (`SurvivorsAreReported`); a grant gives what its direct policy stands for and nothing else (`GrantGivesItsPolicyOnly`) |
| `tx` (74k states) | all 78 pairs of 12 requests, from 2 contents of the tables | Statement by statement, with deadlocks and lost connections: `RecoveryComplete`, `RecordedOwnersHoldGrants`, `DeadlocksExplained`, `ProtectionMissedOnlyInFlight`; under fairness every request is answered (`RequestsEnd`) |
| `grants` (337k states) | one person in two spellings, one client, one group, two policies, one provider besides ownership, 3 requests (`MaxCalls`), 1 tick (`MaxTime`), any number of job steps | Mappings and listings agree with decisions (`MappingAgrees`, `ListingCoversDecisions`), `LoggingInLosesNothing`, `JobChangesNoDecision`, `ProvidersKeepTheirRows`, `RemovedOwnersHoldNothing` |
| `epoch` (62k states) | 2 goroutines, all kinds, all faults, 3 mutations (`MaxVersion`) | `StaleIsExplained`, `TouchesBelongToOpenTransactions`, and staleness ends unless an increment was lost or never made (`StalenessEnds`) |
| seven more | | each a counterexample, see below |

Why the bounds are enough.  Two goroutines are what a race between a check and a
transaction needs; the server run needs none, since a generic request is a single
step that can already come between the check and the transaction of the one
ownership request.  Two generic requests are what the known counterexamples need
(one to take ownership, one to take recovery), and what deleting a role and posting it
again with another body takes; with the create that goes before or after them they
are the three of `MaxOther`.  Beside access requests, two
ownership requests create a resource and change its owners, two access requests make a
grant and its revocation, and one generic request makes a policy broad, inherited or
group-held, or takes the resource away, before the second.  In `tx` the two contents are a
program yet to be created whose project left its policies behind, and a program that
stands whose project did: between them every statement
finds its row present, absent, or about to go, and a user who is new; a project that
stands when its program is deleted is one that the other transaction has just made.  In
`grants` one instant of expiry
(`MaxTime` = 1, dates 0 and 1) puts a row before, at and after its date; a membership,
a policy of the group and an expiry take three requests, as does a grant by one
endpoint, its renewal by another and the request that trips over it.  Three
mutations let a snapshot miss one, be healed by a second handler's increment and go
stale again.  Every invariant and action property of the passing runs, the refinement
included, is also proved without bounds; the two liveness properties are not.

Deadlock is checked in `ownership` and `revival`: there is always a next request.  It is off
where the bound on requests or mutations, or the end of the last transaction, ends the behaviour; the deadlocks of
`tx` are those of the database and are what `DeadlocksExplained` and
`RequestsEnd` are about.

**Fairness.**  `epoch`: every goroutine that is inside `Transactify` goes on (weak
fairness of `Call`, of `Commit` or `Abort`, of `Sync`), because its database and
Redis calls return — Redis within the five-second timeout of the pipeline — and the
Go scheduler runs a runnable goroutine; and the consumer goes on with its three
steps.  No fairness is assumed of `Begin` or of the faults: nobody has to send
requests.  `tx`: while some statement can go on, or a deadlock can be resolved, one
of them eventually is (weak fairness of the disjunction): statements are finite,
PostgreSQL wakes who waits for a lock, and `deadlock_timeout` is on by default.  No
transaction is favoured over another, and lost connections are not relied upon.

## Disagreements with the documentation

Each has a run with one property, violated by what the code does; the lines and the
quotations are in `PROJECT.json`, "findings".

| run | what happens | what the documentation says |
| --- | --- | --- |
| `revival` | Deleting a program deletes its own generated policies; those of its project lose only their metadata.  When program and project are created again by someone else, the policy is found by its name, with its former owners. | creation makes policies "for the creator and configured admin groups" (`docs/descendant_ownership.md:50-52`) |
| `former_owner` | Revoking the owner policy through the user endpoints leaves the metadata row, which `requireDirectOwner` trusts. | "A caller must be a direct owner with management rights or have an admin-equivalent permission" (`docs/access_mutation_macros.md:96-98`) |
| `uncontrolled` | The group endpoints take an admin policy from its group, or the group itself, protected or not; with the owner gone too nobody is in control. | "Prevent resources from losing both owner control and administrator recovery" (`docs/descendant_ownership.md:64`) |
| `tx_orphan` | The deferred parent check of a create sees the parent, whose concurrent delete has not committed; the delete's trigger did not see the child.  Both commit. | "the path must have a valid parent which already exists in the table" (`migrations/2019-02-18T214320Z_init/up.sql:26-27`) |
| `tx_remove` | RemoveOwner deletes the grants, then the metadata.  An AddOwner for the same user that commits in between loses its metadata and keeps its grant, which no later RemoveOwner finds. | "Removes an owner binding." (`docs/descendant_ownership.md:198`) |
| `expired_owner` | AddOwner over an expired grant of the owner policy overwrites the provider and not the date: the owner is recorded and holds nothing. | "Adds another owner binding for a generated resource." (`docs/descendant_ownership.md:191`) |
| `wide_grant` | A grant reuses the direct policy by its name: widened by PUT /policy it gives more than the role asked for, and after a delete of its resource the next grant there brings the former holders back. | "Granting access is additive and narrow", by "a direct policy for exactly the target resource and requested role" (`docs/access_mutation_macros.md:105,112-113`) |

Four more disagreements are stated by properties of the passing runs, which say exactly
what the code does where the documentation promises something else:

| property | what happens | what the documentation says |
| --- | --- | --- |
| `CreationComplete` | PUT /role gives the owner role's permission to manage owners another method.  The next create finds a permission of that name and keeps it: its creator cannot manage owners. | "it ensures these permissions: … `arborist / manage-owners`" (`docs/descendant_ownership.md:141-150`) |
| `SurvivorsAreReported` | The candidates of a revoke leave out generated policies and the built-in groups.  Who keeps the role through nothing else gets an answer in which nothing was rejected, and only then. | "reports inherited, group-derived, protected, or broad grants as rejected", "Do not silently return success when an effective grant was not removed" (`docs/access_mutation_macros.md:132-133,287`) |
| `ListingCoversDecisions` | With a client in the token, the listing is the union of the user's and the client's policies without the built-in groups. | "This includes the resources available to members of the `anonymous` and `logged-in` groups" (`docs/openapi.yaml:250-256`) |
| `ProvidersKeepTheirRows` | A grant limited to a provider over a row of another changes the expiry date of that row. | "data mismatching the given AuthZ provider will not be affected" (`docs/openapi.yaml:1743-1744`) |

Other behaviour of the code that the models contain, that a reader may not expect,
and that no property forbids:

* An owner who passed the check of AddOwner and was then removed by another request
  still adds the new owner.
* DELETE, or PUT without `merge`, of an ancestor through the generic endpoints looks
  for protection on that path alone and takes protected descendants along.
* The access macro may grant the role `owner`, which the templates list as grantable;
  nobody is recorded as an owner by that.
* The user endpoints match a name by its spelling, the ownership and access endpoints
  in lower case: one person may be several users, each with grants.
* An access revoke does not look at the provider; PUT /group drops expiry dates.
* PUT /role keeps the permissions that its body does not name.
* A policy of the anonymous group that has lost its last resource makes anonymous
  decisions about its actions fail with an error instead of a refusal.
* The listing for a client on behalf of a user is the union of both, while a decision
  needs both to be allowed.  Mappings and listings by GET show a client alone what
  nobody may do, by POST what the client may do.
* The policies in a token limit the decisions about its user.  A token that does not
  name the policies of the anonymous group is therefore refused what a request without a
  token is allowed; mappings and listings ignore the limit.
* PUT /resource commits the part of its body it got through before it gave up.

## The proofs

`tlapm` checks every step of the proof modules; nothing is assumed beyond the named
ASSUMEs of the models, which TLC evaluates in its runs:

* in the first group, the paths form a forest with `Below` as the reflexive and
  transitive descendants, a container is the child of its resource, the seed is closed
  under parents, admin groups are ordinary groups, and the auxiliary values are distinct
  from the real ones;
* in `Statements`, the containers lie below their resources, and the tables a behaviour
  starts from are what the endpoints themselves leave: keys and foreign keys hold,
  resources are recoverable, owners hold their grants, and generated policies are about
  their own path (`SeedsAssumption`);
* in `Grants`, lowering a name twice is lowering it once, permissions map ids to pairs of
  service and method, the built-in groups are not ordinary ones, and the absent
  caller (`Nobody`) is neither a user nor a client.

Users, groups, goroutines, transactions, paths, providers, dates, request bodies and the
requests sent are arbitrary sets.

**`OwnershipProofs`** proves `Spec => []IndInv`, with
`IndInv == Structure /\ Effective`:

* `Structure`: `TypeOK` (with the foreign keys), `MetadataWellFormed`,
  `ParentsExist`, `ProtectedPolicyKept` — what *every* endpoint keeps.
* `Effective`: `RecoveryKept`, `RecordedOwnersAreEffective`,
  `OrphanedPoliciesInert`, `GrantsStayInSubtree` — what needs the generic
  endpoints to stay away from generated policies.

None of the four of `Effective` is inductive alone.  `RecoveryKept` needs
`MetadataWellFormed` for the delete: the policies that go are those whose metadata
names the deleted resource, and only because that is the resource in their name is
the recovery of the others untouched.  `GrantsStayInSubtree` needs it for
AddOwner, whose target comes from whatever is attached.  There is one lemma per
endpoint (`CreateInv`, `AddOwnerInv`, `RemoveOwnerInv`, `DeleteResourceInv`,
`CheckInv`), with a step per conjunct.  The theorems `Typing`, `RecoveryTheorem`,
`RecordedOwnersTheorem`, `OrphansInertTheorem` and `SubtreeTheorem` are its
corollaries.

**`ServerProofs`** proves that `Structure` is inductive for all endpoints of
`Principals` (`ServerStructure`, hence `ProtectedPolicyTheorem`, `ParentsTheorem` and
`MetadataTheorem`); that a protected
policy loses its flag only with its resource (`ProtectedPoliciesStayTheorem`); and,
from `Structure`, that a successful create always yields a complete child
(`CreationCompleteTheorem`).  The last is what justifies the error returns of the
create transaction: a missing group, role or parent is refused, so what was
renamed, overwritten or left behind before cannot make a half-created child: every
admin group holds a recovery policy that is attached and has its role, and the creator is
recorded and holds the owner role.  What that lets them do is up to the permissions that
the role endpoints have left the two roles.  Admins can manage the child if the
administrator role gives that right.  The creator can unless the owner role has a
permission of the name `owner_manage_owners` that gives something else: if it has none,
the create makes one (`EnsureNoPermissions` is the mutant).  The theorem is about rows without expiry dates, as all of the
first group: the run `expired_owner` shows what a date on the creator's row does.

**`EpochProofs`** proves `StalenessTheorem` and `RegistryTheorem` for any number of
goroutines, mutations and faults.  `StaleIsExplained` is strengthened by
`TouchesCarried` (a handler that must touch has touched when it commits, and carries
the touch to Redis), `EpochsPast` (nobody knows an epoch Redis has not reached) and
`ReaderIsExplained` (the same promise for a snapshot still on its way to the
cache); without the last, `Store` would break it.  `Typing` is a corollary as well.

**`ContractProofs`** proves `ContractTheorem`: `Ownership` implements
`OwnershipContract`.  There is a lemma per transaction.  RemoveOwner and AddOwner move
one owner and no recovery.  A create makes its child and, for every admin group, every
row that recovery consists of.  The delete is where `IndInv` is needed:
`RecordedOwnersAreEffective` says that owners are recorded for existing paths, so those
that go are the owners under the deleted path; `MetadataWellFormed` says that a policy
found by its metadata is one of that path, so the recovery of all other paths stays.
Refused transactions and checks change nothing the contract speaks of.

**`AccessProofs`** adds the access macros to all other endpoints.  `AccessInv` is
`Structure` with `OwnersAreGenerated`: a recorded owner is recorded for a policy that
still has its metadata.  Since the candidates of a revoke exclude policies with metadata,
`OwnersSurviveAccessTheorem` follows, whatever the generic endpoints did.
`WholeServerTheorem` and `WholeServerStepsTheorem` carry the theorems of `ServerProofs`
over: the macros make no resource and touch no metadata.
`RevokeIsNarrowTheorem`, `GrantGivesTheorem` and `SurvivorsTheorem` follow from the
queries and the types alone: they are about every policy the generic endpoints can make,
broad, inherited or held through a group.  `GrantGivesTheorem` is what is left of the
documents' promise that a grant is narrow, which the run `wide_grant` refutes;
`SurvivorsTheorem` is an equivalence, and so states the silent survivors as well.

**`EngineProofs`** is about the rows with provider and date, and the queries on them.
`Typing` says that the three upserts keep one row per key and the foreign keys.
`JobTheorem` rests on `LiveOrExpired`: what the job's condition selects is exactly what
the decisions ignore, at the instant of expiry too.  `ProvidersTheorem` goes through every
request that carries the header, `RemovedOwnersTheorem` through all spellings of a name.
`MappingTheorem`, `ListingTheorem` and `LoggingInTheorem` compare queries: every one of them
looks at some policies of its caller (`PoliciesLookedAt`) and takes some of their links
and permissions (`MappingOfPolicies`), and `ReportsGrow` says that more policies never
show less.  They are about every caller and every limit that a token can set, and about
both handlers of each report.  `MappingTheorem` compares each mapping with the decision
about the one it is really about: the user alone if there is one, and by GET nobody for a
client alone.  `LoggingInTheorem` is about tokens without a limit, or with one that names
the policies of the anonymous group, since any other does lose.  `ListingTheorem` and
`ProvidersTheorem` name the one exception each that the documents do not have: what only
the built-in groups may do, for a client on behalf of a user, and the date of a row that is
granted again.

**`StatementsProofs`** proves that the locks of the statements suffice for keys and
foreign keys (`Typing`), with any number of transactions, aborted or cut off anywhere.
`Locked` is what PostgreSQL's locks give here.  Of uncommitted rows no two have one key
(`InsertedApart`), none has the key of a committed one (`InsertedFresh`), and nobody
deletes what another's insert refers to (`ReferencesKept`).  A cascade is pending until it
has reached everything (`CascadesPending`), so a commit finds nothing dangling.  `Control`
says where a transaction is and what it knows by then.

**`TransactionsProofs`** proves what the transactions leave behind, from
`FullInv == IndInv /\ Holding /\ Writing /\ Erasing /\ Committed`; TLC checked
each part on the instance of `tx` first.

* `Holding`: rows that a transaction has inserted or updated have no key in common with
  another's and are not deleted by another; what it deletes is still there.
* `Writing`: at each statement of a create or AddOwner, which rows it has by then; in
  particular a record is inserted only after the grant that backs it.
* `Erasing`: RemoveOwner takes a grant only if it has deleted, found, or is still to
  look for, the record of that grant; a delete takes an admin policy only together with
  the resource that needs it, and a container goes with its resource.
* `Committed`: the promise itself, and that a committed row is of a transaction that has
  ended.

`OwnersTheorem` is its last part.  `RecordedOwnersHoldGrants`
alone is not inductive: the RemoveOwner that commits must not leave a record that an
AddOwner committed after the grants had been looked for.  That AddOwner would have
updated the grant, and `Holding` says that nobody deletes an updated row: the two meet at
the grant, and one waits.

`RolesInv` adds the roles: a policy is committed with its role (`Linking`,
`RolesLinked`), and at most one create is past `ensureRole` (`CreatesAlone`), because that
statement locks the role row until the end.  `RecoveryTheorem` and `DeadlockTheorem` rest
on it.

`DeadlockTheorem` is the argument of a lock order: the owner role, then resources, users,
and the policy, metadata, grant and record of a path.  Creates go one at a time; creates and
AddOwners of a path meet first at its owner policy, and who has updated that row meets
nobody but RemoveOwner from there on; RemoveOwner holds a grant when it waits for a
record, and nobody who has the record waits for the grant, which comes first.  Two
statements break the order.  A delete locks by cascade, in any order.  And AddOwner takes
its user first and the role after, when the policy is new and needs one, while a create
has the role already and comes to its user.  In a circle without a delete everybody
therefore waits at the role, for a path, a user or an owner policy, and somebody holds
the role: that is a create, past its role statement and waiting.  It cannot be waiting for
its owner policy: the AddOwner that holds it would have found or made a resource of that
path, which the create's own insert rules out.  So it waits for its user, whom an AddOwner
of the circle is inserting, and somebody in the circle waits for the role: this is what
`DeadlocksExplained` says.  `tx` reaches both kinds of circle, and PostgreSQL resolves
either by failing one request.

`ProtectionTheorem` adds to the invariant what a generic delete cannot
have seen (`Unseen`): protection that is there and was not seen comes from a transaction
that was open when it looked.

Only model-checked: liveness (`StalenessEnds`, `RequestsEnd`; fairness and ENABLED are
out of the prover's reach) and the seven counterexamples.  What TLC also does and the proofs
do not: it shows that the actions, refusals and deadlocks the theorems speak of happen.

## What is left out

* *Statements of the other endpoints.*  In the first group a transaction is one step,
  as if PostgreSQL ran it serializably; `Statements` opens the ownership transactions and
  the resource delete, where the documentation makes promises.  The transactions of the
  policy, role and group endpoints stay one step.
* *The ownership report* (`read.go`): a read of the bindings under a path that changes
  no state, and nothing else depends on it.
* *The statement cache* (`core/stmt.go`): an unsynchronised Go map.  Two goroutines that
  write it together crash the process or corrupt the map, which is a fact about the Go
  runtime and not about authorization state; it is a hazard without a property.
* *Requests by tag*: a tag is another unique key of a resource and is looked up first.
* *Token decoding*: `Engine` starts from the user and client names in a token, and the
  policies it limits its user to.
* *Role permissions in `Statements`*: the permission inserts of a create come while it
  holds its role, which keeps everybody else from those rows.
* *Names.*  Path encoding for ltree, and trimming of user names.
* *`POST /resource?p` and the bulk endpoints* are sequences of the single-item
  transactions that are modelled; that the first drops the errors of its parents is a
  hazard without a property.
* *The rename trigger* of `resource`: no endpoint updates a path.
* *Redis switched off*: without it there is no epoch and nothing to state.
* *HTTP, configuration, logging*: no state of their own.

## The plan

Done, in this order: `Ownership` (first: it is what the server is about now), its
invariants and their proof; `Catalog` and `Principals` with the theorems about the
whole server; `Access`; `Epoch` with its proof and liveness; `OwnershipContract` and
the refinement; `Statements`; `Grants` and `Engine`.

Then the proofs, in the order of the sections above: `ServerProofs`, `EpochProofs`, the
refinement, `Access`, `Grants` and `Engine`, and `Statements`, first its keys and then what
its transactions leave behind.

Next:

1. The parts of `Effective` that hold for the whole server: which of the generic
   endpoints keep them, as theorems about those actions, next to the runs
   `former_owner` and `uncontrolled` that show which do not.
2. The safety half of the liveness properties: as long as a staleness that will end
   lasts, some step of a handler or of the consumer is pending.
3. `read.go`: the ownership report as an operator over the bindings, compared with
   the recorded owners.
